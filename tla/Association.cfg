SPECIFICATION Spec
CONSTANTS
    NumCells = 3
    Levels = {0, 1, 2}
    Sinrs = {0, 1, 2}
    Offset = 0
    Hysteresis = 1
    TimeToTrigger = 1
    Interruption = 3
    PingPongWindow = 2
    OutageThreshold = 0
    RecoveryThreshold = 2
    OutageDwell = 1
    RecoveryDwell = 2
    Stop = 7
INVARIANTS
    NeverHasty
    NeverLate
    CountsHistory
    DwellPrompt
    OfferedWhenReachable
PROPERTIES
    DwellComplete
CHECK_DEADLOCK FALSE
