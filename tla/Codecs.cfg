SPECIFICATION Spec
CONSTANTS
    PbTypes <- SomePbTypes
    PbCalls <- SomePbCalls
    kBlockSize = 8
    LogSizes = {0, 2, 3, 7}
    LogRecords = 4
    BadBytes = {0, 1, 4, 9}
    kFilterBaseLg = 3
    TableKeys <- SomeTableKeys
    TableEntries = 4
    TableOptions <- SomeTableOptions
    TableFailures <- SomeTableFailures
    IterKeys = {1, 2, 3}
    IterEntries = 3
    IterWrites = 1
    EditSteps = 2
    EditNumbers = {9, 65535}
    EditKeys <- SomeEditKeys
    BatchSteps = 3
    BatchStrings <- SomeBatchStrings
    NameParts = {"0", "3", "5", "6", ".log", ".ldb", "MANIFEST-", "LOCK"}
    NameLength = 5
    PropertyParts = {"leveldb.", "num-files-at-level", "0", "6", "7", "stats", "sstables",
                     "approximate-memory-usage"}
    PropertyLength = 4
    EntryLength = 8
    StatusCalls = 5
    LineLength = 9
    CrcBytes <- SomeCrcBytes
    CrcLength = 38
    Base64Bytes = {0, 83, 255}
    Base64Chars = {0, 19, 64, 65, 66}
    Base64Length = 5
    RepairDisks <- SomeRepairDisks
    RepairFaults = 1
    RepairRuns = 2
INVARIANTS MessagesRoundTrip NothingLeaks RecordsSurvive TableFindsAll DBIterAgrees EncodingsAgree
           RepairKeepsData
CHECK_DEADLOCK FALSE
