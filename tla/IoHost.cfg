SPECIFICATION Spec
CONSTANTS
    MaxHostEvents = 2
    Transports = {"websocket", "webtransport"}
    MaxEngines = 2
    MaxCommands = 2
    MaxFrames = 2
INVARIANTS
    CommandsInOrder
    DeliveredInOrder
    LeasesHeld
CHECK_DEADLOCK FALSE
