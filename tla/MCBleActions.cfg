CONSTANTS
    sensor = sensor
    lock = lock
    NoDevice = NoDevice
    Devices <- MCDevices
    Regular <- MCRegular
    MaxTtl = 2
    MaxActions = 2
    MaxForced = 1
    TwoInOne = TRUE
    Overlap = FALSE
SPECIFICATION Spec
INVARIANTS TypeOK LockIsTransient AnsweredOnce AttemptsBounded NewestIsThere
