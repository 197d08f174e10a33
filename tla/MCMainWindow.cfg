CONSTANTS
    Devices = {sda, sdb}
    NoDevice = none
    MaxTimers = 2
SPECIFICATION Spec
INVARIANTS
    TypeOK
    Confined
    PageFitsState
    InspectionHasSource
PROPERTIES
    OperationEnds
