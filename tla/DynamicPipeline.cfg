SPECIFICATION DynamicSpec
CONSTANTS
    NumPackets = 3
    Payload <- MCPayload
    MaxQueuedPackets = 2
    MaxQueuedBits = 0
    NumBearers = 3
    NumUes = 2
    NumCells = 2
    BearerOf <- MCBearerOf
    UeOf <- MCUeOf
    Budget <- MCBudget
    ProfileOf <- MCProfile
    Prbs = 2
    Slot = 2
    MeasureStart = 2
    MeasureEnd = 10
    Stop = 12
    ArrivalTicks = {1, 4}
    Offset = 0
    Hysteresis = 1
    TimeToTrigger = 2
    Interruption = 2
    PingPongWindow = 4
    OutageDwell = 2
    RecoveryDwell = 2
    DataRe = 144
    Margin = 1
    Start <- MCStart
    Lower = 0
    Upper = 3
    UpdateInterval = 4
    InitialActive = 1
    PathLevel <- MCPathLevel
    BeamGain <- MCBeamGain
    Blockages <- MCBlockages
    Fades <- MCFades
    Noise = 16
    OutageSinr = 50
    RecoverySinr = 100
INVARIANTS
    InterferenceIsPrevious
    IntervalsMatchFrames
    WithinEstimate
    MotionFollowsClock
    DynamicReported
CHECK_DEADLOCK FALSE
