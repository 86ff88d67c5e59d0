\* Three lines are two of one mount point behind one of another.
CONSTANTS
    root = root
    mnt = mnt
    latin = latin
    sda = sda
    sdb = sdb
    tmpfs = tmpfs
    Piece <- MCPiece
    Invalid <- Latin
    NUL = NUL
    CHUNK = 3
    Path = {root, mnt, latin}
    BadPath = {latin}
    Disk = {sda, sdb}
    Other = {tmpfs}
    MaxMounts = 3
SYMMETRY Disks
SPECIFICATION Spec
INVARIANTS
    WholeFile
    OnePerPath
PROPERTIES
    SteadyBuffer
    RecordsAreOfTheirDisk
