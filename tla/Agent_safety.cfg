SPECIFICATION Spec
CONSTANTS
    Capacity = 3
    N = 2
    MaxFrames = 1
    Suspending <- MCAllSuspend
    SkipCap = 0
    FailCap = 0
    MaxInflight = 1
    CleanSession = FALSE
    SampleQos = 0
    DisconnectGrace = 3
    WireCap = 2
    ReplayCap = 1
    ShutdownTimeout = 5
    Punctual = TRUE
    MaxRestarts = 1
INVARIANTS
    IInv
    StatusInv
    RoomForOnline
    ExitOneMeansFatal
    NeverAborted
PROPERTIES
    StatusTopicSpec
