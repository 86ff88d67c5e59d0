\* One mount is enough to keep the process from exiting.
CONSTANTS
    MaxMounts = 2
    StatvfsTimeout = 1
    CollectTimeout = 4
    LeakCap = 1
SPECIFICATION Spec
PROPERTIES
    StoppedProcessExits
