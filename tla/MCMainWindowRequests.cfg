CONSTANTS
    Devices = {sda, sdb}
    NoDevice = none
    MaxTimers = 2
SPECIFICATION AnnouncedSpec
PROPERTY AnnouncedIsDetected
