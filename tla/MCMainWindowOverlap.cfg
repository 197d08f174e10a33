CONSTANTS
    Devices = {sda, sdb}
    NoDevice = none
    MaxTimers = 2
SPECIFICATION Spec
INVARIANT NoOverlap
