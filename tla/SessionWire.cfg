SPECIFICATION WireSpec
CONSTANTS
    ChannelIds = {0, 1}
    MaxGeneration = 1
    Packets <- StudiedPackets
INVARIANTS
    ReadyIsEarned
    BuiltMessagesUnderstood
    OneEncoding
PROPERTIES
    ImplementsLifecycle
CHECK_DEADLOCK FALSE
