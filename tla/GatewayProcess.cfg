SPECIFICATION FairSpec
CONSTANTS
    MaxBytes = 2
    Retain = 2
    OnCorrupt = "rotate"
    MaxEvents = 7
    MaxFaults = 2
    s1 = s1
    s2 = s2
    Sessions = {s1, s2}
INVARIANTS
    LiveVerifies
    ExportsWhatWasWritten
PROPERTIES
    DrainWaitsForSessions
    ShutdownCompletes
CHECK_DEADLOCK FALSE
