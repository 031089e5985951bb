SPECIFICATION SerialSpec
CONSTANTS
    Keys = {k1, k2}
    NoKey = NoKey
    Workers = {w1, w2}
    NoWorker = NoWorker
    Capacity = 2
    MaxAttempts = 2
    LeaseDuration = 1
    BaseBackoff = 1
    MaxBackoff = 4
    PayloadSize = 1
    MaxFileSize = 3
    MaxItems = 2
    MaxTime = 2
PROPERTIES
    ItemsAreSettled
    DrainTerminates
CHECK_DEADLOCK FALSE
