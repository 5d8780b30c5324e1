SPECIFICATION FairSpec
CONSTANTS
    ChannelIds = {1}
    MaxGeneration = 3
    o2 = o2
    o1 = o1
    OpIds = {o1}
    QueueDepth = 2
    MaxEntities = 2
    Kinds = {"TopicSubscribe", "ServiceClient", "ActionClient"}
    Disciplined = TRUE
    BackendFails = TRUE
    Lossy = TRUE
    MaxSamples = 1
    MaxFrames = 2
    MaxTicks = 0
PROPERTIES
    OpensAnswered
    CallsAnswered
    EntitiesReleased
CHECK_DEADLOCK FALSE
