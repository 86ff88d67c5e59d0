\* One to three mounts fit into the deadline of collect(), four do not.
CONSTANTS
    MaxMounts = 4
    StatvfsTimeout = 1
    CollectTimeout = 4
    LeakCap = 1
SPECIFICATION Spec
INVARIANTS
    OneThreadWhileItFits
PROPERTIES
    SampleSurvives
    MountsComeBack
    HungMountsSettle
