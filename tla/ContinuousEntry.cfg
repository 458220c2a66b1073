SPECIFICATION Spec
CONSTANTS
    NumCells = 3
    Levels = {0, 1, 2}
    Sinrs = {1}
    Offset = 0
    Hysteresis = 1
    TimeToTrigger = 2
    Interruption = 3
    PingPongWindow = 2
    OutageThreshold = 0
    RecoveryThreshold = 2
    OutageDwell = 1
    RecoveryDwell = 2
    Stop = 7
INVARIANTS
    ContinuousEntry
CHECK_DEADLOCK FALSE
