SPECIFICATION Spec
CONSTANTS
    ChannelIds = {1}
    MaxGeneration = 3
    o1 = o1
    o2 = o2
    OpIds = {o1, o2}
    QueueDepth = 2
    MaxEntities = 2
    Kinds = {"ServiceClient"}
    Disciplined = TRUE
    BackendFails = FALSE
    Lossy = FALSE
    MaxSamples = 0
    MaxFrames = 2
    MaxTicks = 0
PROPERTIES
    GatewayKeepsReadySession
CHECK_DEADLOCK FALSE
