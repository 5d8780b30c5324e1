SPECIFICATION Spec
CONSTANTS
    MaxBufferId = 6
    MaxLeaseId = 4
    HostIds = {1, 4}
    MaxFrames = 5
INVARIANTS
    LeaseReadsItsFrame
    FramesAccountedFor
    IdleKeepsOnlyLeased
CHECK_DEADLOCK FALSE
