SPECIFICATION FairSpec
CONSTANTS
    Capacity = 3
    N = 2
    MaxFrames = 1
    Suspending <- MCFirstSuspends
    SkipCap = 0
    FailCap = 0
    MaxInflight = 1
    CleanSession = FALSE
    SampleQos = 1
    DisconnectGrace = 1
    WireCap = 2
    ReplayCap = 1
    ShutdownTimeout = 2
    Punctual = FALSE
    MaxRestarts = 1
PROPERTIES
    SignalEnds
    FatalEnds
    DeathIsAnnounced
    OnlineWhileConnected
    SampledWhileConnected
