SPECIFICATION Spec
CONSTANTS
    ChannelIds = {1}
    MaxGeneration = 3
    o1 = o1
    o2 = o2
    OpIds = {o1, o2}
    QueueDepth = 2
    MaxEntities = 2
    Kinds = {"ServiceClient", "ServiceServer", "ActionClient", "ActionServer"}
    Disciplined = TRUE
    BackendFails = TRUE
    Lossy = FALSE
    MaxSamples = 1
    MaxFrames = 2
    MaxTicks = 1
INVARIANTS
    OperationAnswers
    HeartbeatsConserved
PROPERTIES
    GatewayClosesForCause
SYMMETRY OpSymmetry
CHECK_DEADLOCK FALSE
