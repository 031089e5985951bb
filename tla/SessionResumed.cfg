SPECIFICATION Spec
CONSTANTS
    Keys = {k1}
    NoKey = NoKey
    NoWorker = NoWorker
    FirstWorker = w1
    SecondWorker = w2
    Capacity = 1
    MaxAttempts = 2
    LeaseDuration = 2
    BaseBackoff = 1
    MaxBackoff = 2
    PayloadSize = 1
    MaxFileSize = 2
    MaxItems = 2
    MaxTime = 2
INVARIANTS
    ItemsRunInOneProcess
CHECK_DEADLOCK FALSE
