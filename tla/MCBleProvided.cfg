CONSTANTS
    sensor = sensor
    lock = lock
    NoDevice = NoDevice
    Devices <- MCDevices
    Regular <- MCRegular
    MaxTtl = 2
    MaxActions = 2
    MaxForced = 0
    TwoInOne = FALSE
    Overlap = FALSE
SPECIFICATION Spec
INVARIANT Provided
