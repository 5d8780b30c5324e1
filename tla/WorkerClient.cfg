SPECIFICATION FairSpec
CONSTANTS
    Channels = {1, 2}
    Services = {2}
    Transports = {"websocket", "webtransport"}
    MaxAttempts = 1
    MaxRequests = 6
    MaxConnections = 3
INVARIANTS
    RequestsKept
    QuietlyRestored
PROPERTIES
    RetriesForCause
    Recovers
    Settles
CHECK_DEADLOCK FALSE
