\* A cycle of at most 6 units against an interval of 2, delays of 1 to 12.
SPECIFICATION CadenceSpec
CONSTANTS
    Capacity = 4
    N = 3
    MaxFrames = 2
    Suspending <- MCSuspending
    SkipCap = 1
    FailCap = 0
    Initial = 2
    MaxDelay = 8
    Factor = 200
    Jitter = 50
    Interval = 2
    CollectTimeout = 3
    AttemptTimeout = 1
INVARIANTS
    CadenceTypeOK
    NoLostWakeup
    OutageBacklog
    NeverQuiet
    RecoversInTime
PROPERTIES
    NoBurst
    OutagesDoNotAddUp
    OutagePauses
