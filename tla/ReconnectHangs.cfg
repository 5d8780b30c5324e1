SPECIFICATION FairSpec
CONSTANTS
    Channels = {1}
    Topics = {1}
    Transports = {"websocket"}
    Calls = {"only"}
    MaxAttempts = 2
    MaxConnections = 4
PROPERTIES
    Recovers
CHECK_DEADLOCK FALSE
