SPECIFICATION Spec
CONSTANTS
    PageSize = 1
    TotalPages = 2
    Undecodable = {}
    PosterPath <- EveryOther
    Posters <- AllButLast
    SearchScreen = FALSE
    PrefetchMargin = 2
    MaxFetches = 3
    MaxFailures = 0
INVARIANTS
    EachRowLessPopular
CHECK_DEADLOCK FALSE
