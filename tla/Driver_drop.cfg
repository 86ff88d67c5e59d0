SPECIFICATION DriverSpec
CONSTANTS
    Capacity = 2
    MaxInflight = 1
    CleanSession = FALSE
    SampleQos = 1
    DisconnectGrace = 1
    WireCap = 2
    ReplayCap = 2
INVARIANTS
    DropSendsNoDisconnect
