SPECIFICATION Spec
CONSTANTS
    NumLevels = 3
    MaxMemCompactLevel = 2
    L0Trigger = 4
    TargetFileSize = 4
    GrandparentFactor = 1
    ExpandFactor = 4
    LevelBase = 10
    MaxKey = 3
    AllowedSeeks = 1
    Workloads <- GapWorkload
INVARIANT LevelsDisjoint
CHECK_DEADLOCK FALSE
