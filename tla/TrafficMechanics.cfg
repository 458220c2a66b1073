SPECIFICATION TrafficSpec
CONSTANTS
    NumPackets = 9
    Payload <- MCPayload
    MaxQueuedPackets = 2
    MaxQueuedBits = 4
    NumBearers = 3
    NumUes = 1
    NumCells = 1
    BearerOf <- MCBearerOf
    UeOf <- MCUeOf
    Budget <- MCBudget
    Slot = 2
    MeasureStart = 2
    MeasureEnd = 6
    Stop = 8
    ArrivalTicks = {}
    SourceOf <- MCSources
    Sizes <- MCSizes
    Grants <- MCGrants
    MaxDraw = 2
INVARIANTS
    RefusesOnlyBadInput
    SourcesFillTheWindow
    GrantsUsed
PROPERTIES
    Ends
CHECK_DEADLOCK FALSE
