SPECIFICATION Spec
CONSTANTS
    ChannelIds = {1, 2}
    MaxGeneration = 3
    o1 = o1
    o2 = o2
    OpIds = {o1}
    QueueDepth = 1
    MaxEntities = 2
    Kinds = {"TopicSubscribe", "TopicPublish", "ServiceClient"}
    Disciplined = FALSE
    BackendFails = TRUE
    Lossy = TRUE
    MaxSamples = 2
    MaxFrames = 1
    MaxTicks = 0
INVARIANTS
    QuiescentAgreement
    ChannelViews
    EntitiesOwned
    OpenAnsweredOnce
    EngineTables
    SampleStream
PROPERTIES
    ClientFailsForCause
CHECK_DEADLOCK FALSE
