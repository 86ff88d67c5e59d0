\* The whole start-up under every installation, then two collectors that
\* publish payloads around the limits, with and without frames.
CONSTANTS
    REGISTRY <- Collectors
    Installations <- AllInstallations
    BaseTopics = {3, 29, 34, 51}
    WholePayloads = {2099983, 2099984, 2099988, 2099989}
    FramedPayloads = {18, 52, 79}
    FrameLimit = 3
    MaxPublishes = 2
    MaxLives = 2
SPECIFICATION Spec
INVARIANTS
    PInv
    PacketsFit
    RefusalsAreTight
    Reassembles
    ValidatedIsEnough
    ExitOneIsNotTheFile
