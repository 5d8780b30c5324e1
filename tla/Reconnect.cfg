SPECIFICATION FairSpec
CONSTANTS
    Channels = {1, 2}
    Topics = {1}
    Transports = {"websocket", "webtransport"}
    Calls = {"first", "second"}
    MaxAttempts = 2
    MaxConnections = 5
INVARIANTS
    InflightIsCurrent
    OpenedOncePerConnection
    QuietlyRestored
PROPERTIES
    QuietlyRecovers
CHECK_DEADLOCK FALSE
