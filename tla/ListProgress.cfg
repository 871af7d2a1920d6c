SPECIFICATION FairSpec
CONSTANTS
    PageSize = 1
    TotalPages = 3
    Undecodable = {3}
    PosterPath <- EveryOther
    Posters <- Movie
    SearchScreen = TRUE
    PrefetchMargin = 2
    MaxFetches = 3
    MaxFailures = 1
INVARIANT PageCountsLoads
PROPERTIES
    PostersReachTable
    ArrivedPageIsCounted
CHECK_DEADLOCK FALSE
