SPECIFICATION Spec
CONSTANTS
    MaxUpdates = 3
    Scenarios <- TornScenario
    UnsyncedCrashes = FALSE
    TornAppends = TRUE
INVARIANT SyncedIsHeld
CHECK_DEADLOCK FALSE
