SPECIFICATION FairSpec
CONSTANTS
    PageSize = 1
    TotalPages = 1
    Undecodable = {}
    PosterPath = {}
    Posters = {}
    SearchScreen = TRUE
    PrefetchMargin = 2
    MaxFetches = 1
    MaxFailures = 0
PROPERTIES
    LoadedRowsAreShown
CHECK_DEADLOCK FALSE
