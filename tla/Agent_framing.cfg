SPECIFICATION Spec
CONSTANTS
    Capacity = 3
    N = 2
    MaxFrames = 2
    Suspending <- MCAllSuspend
    SkipCap = 0
    FailCap = 0
    MaxInflight = 1
    CleanSession = TRUE
    SampleQos = 0
    DisconnectGrace = 1
    WireCap = 2
    ReplayCap = 0
    ShutdownTimeout = 2
    Punctual = TRUE
    MaxRestarts = 0
PROPERTIES
    OnlineOnEveryConnection
