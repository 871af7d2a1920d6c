SPECIFICATION Spec
CONSTANTS
    MaxUpdates = 3
    Scenarios <- AllScenarios
    UnsyncedCrashes = FALSE
    TornAppends = FALSE
INVARIANTS NeededFilesExist SequenceAhead OpensAgain
PROPERTY KeepsPromises
CHECK_DEADLOCK FALSE
