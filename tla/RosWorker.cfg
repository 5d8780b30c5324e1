SPECIFICATION Spec
CONSTANTS
    a = a
    b = b
    Conns = {a, b}
    Kinds = {"client", "service", "actionClient", "actionServer"}
    Goals = {1}
    MaxEntities = 2
    MaxOwn = 2
    MaxOthers = 1
INVARIANTS
    EntityInOnePlace
    CommandsFindTheirEntity
    NobodyForgotten
    NestingKeepsAnswersApart
SYMMETRY ConnSymmetry
CHECK_DEADLOCK FALSE
