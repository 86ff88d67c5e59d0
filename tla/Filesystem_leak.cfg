CONSTANTS
    MaxMounts = 5
    StatvfsTimeout = 1
    CollectTimeout = 4
    LeakCap = 1
SPECIFICATION Spec
INVARIANTS
    OneThreadPerMount
