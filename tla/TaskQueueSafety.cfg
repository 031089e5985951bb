SPECIFICATION Spec
CONSTANTS
    Keys = {k1, k2}
    NoKey = NoKey
    Workers = {w1, w2}
    NoWorker = NoWorker
    Capacity = 1
    MaxAttempts = 2
    LeaseDuration = 2
    BaseBackoff = 1
    MaxBackoff = 4
    PayloadSize = 1
    MaxFileSize = 3
    MaxItems = 3
    MaxTime = 3
SYMMETRY Symmetry
INVARIANTS
    TypeOK
    MemoryIsDurable
    RunsWithinBudget
    LeasesAreKept
PROPERTIES
    ImplementsDurableWork
CHECK_DEADLOCK FALSE
