SPECIFICATION Spec
CONSTANTS
    PageSize = 1
    TotalPages = 3
    Undecodable = {}
    PosterPath <- EveryOther
    Posters <- AllButLast
    SearchScreen = FALSE
    PrefetchMargin = 2
    MaxFetches = 4
    MaxFailures = 1
INVARIANTS
    TypeOK
    SortedByPage
    OneTransferAtATime
    PosterBelongsToRow
    TableIsPrefix
    TapOpensShownMovie
PROPERTIES
    IndexPathsStayValid
CHECK_DEADLOCK FALSE
