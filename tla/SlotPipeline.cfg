SPECIFICATION Spec
CONSTANTS
    NumPackets = 5
    Payload <- MCPayload
    MaxQueuedPackets = 2
    MaxQueuedBits = 2
    NumBearers = 4
    NumUes = 3
    NumCells = 2
    BearerOf <- MCBearerOf
    UeOf <- MCUeOf
    Budget <- MCBudget
    ProfileOf <- MCProfile
    CellOf <- MCCellOf
    Prbs = 2
    Capacity <- MCCapacity
    Slot = 2
    MeasureStart = 2
    MeasureEnd = 4
    Stop = 6
    ArrivalTicks = {1, 2}
INVARIANTS
    NeverFails
    DeadlinesKept
    PlannedOnce
    OldestFirst
    Reported
PROPERTIES
    WorkConserving
    Drains
    KernelSteps
CHECK_DEADLOCK FALSE
