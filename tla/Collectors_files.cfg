CONSTANTS
    Class = {"hwmon", "thermal", "power", "edac"}
    Name <- MCName
    Foreign = {"c"}
    Device = {d1, d2}
    None = None
    MaxChanges = 3
    MaxWalks = 2
    Files <- MCFiles
SPECIFICATION Spec
INVARIANTS
    RecordsAreTheirLines
    NothingLeftOut
    SummariesAreMeasured
    NamesComeBack
    ArraysOwnTheirLines
    RecordsAreOfTheirDevice
    SteadyDevicesAreReported
