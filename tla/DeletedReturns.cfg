SPECIFICATION Spec
CONSTANTS
    NumLevels = 2
    MaxMemCompactLevel = 0
    L0Trigger = 1
    TargetFileSize = 2
    GrandparentFactor = 10
    ExpandFactor = 25
    LevelBase = 10
    MaxKey = 2
    AllowedSeeks = 1
    Workloads <- DeleteWorkload
INVARIANT ReadsAreRight
CHECK_DEADLOCK FALSE
