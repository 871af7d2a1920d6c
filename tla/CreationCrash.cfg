SPECIFICATION Spec
CONSTANTS
    MaxUpdates = 3
    Scenarios <- CreationScenario
    UnsyncedCrashes = TRUE
    TornAppends = FALSE
INVARIANT OpensAgain
CHECK_DEADLOCK FALSE
