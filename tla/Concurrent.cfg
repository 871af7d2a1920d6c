SPECIFICATION Spec
CONSTANTS
    Threads = {"t1", "t2", "t3"}
    Calls <- SomeCalls
    WriteBufferSize = 0
    SmallBatch = 1
    MaxBatch = 3
    CompactionTrigger = 1
    SlowdownTrigger = 1
    StopTrigger = 2
    CompactionKeys = 2
    Keys = {1, 2, 3}
    MaxHeight = 2
    Readers = {"r"}
    BlockSize = 16
    Alignment = 4
    Sizes = {1, 3, 6}
    MaxPieces = 5
    Users = {"u1", "u2"}
    Files = {1, 2, 3}
    Hash <- SomeHash
    HashBits = 3
    kNumShardBits = 1
    TableLength = 1
    Capacities = {0, 2, 3}
    BufferSize = 2
    MaxBytes = 4
    MaxOpens = 1
    FileNames <- SomeFileNames
    Openers = {"o1", "o2", "o3"}
    MaxMmaps = 1
    MaxOpenFiles = 1
    Processes = {"p1", "p2"}
    Callers = {"c1", "c2"}
    MaxWork = 3
    MaxRatings = 2
    MaxStars = 1
    MaxFaults = 1
    PushBase = 2
    PushChars = 2
INVARIANTS BatchesAreAtomic SuccessIsLogged SearchesMissNothing PiecesAreApart
           HeldTablesStay CacheAgrees FileHoldsBytes LimitsHold OneOwner RatingsKept
PROPERTIES CallsReturn WorkIsDone RatingsArrive
CHECK_DEADLOCK FALSE
