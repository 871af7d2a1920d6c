SPECIFICATION FairSpec
CONSTANTS
    NumLevels = 3
    MaxMemCompactLevel = 2
    L0Trigger = 2
    TargetFileSize = 1
    GrandparentFactor = 1
    ExpandFactor = 4
    LevelBase = 2
    MaxKey = 2
    AllowedSeeks = 1
    Workloads <- AllWorkloads
INVARIANTS ReadsAreRight LevelsDisjoint NewerAbove SeekFileHasLevelBelow
PROPERTIES ManualCompactionEnds TreeSettles
CHECK_DEADLOCK FALSE
