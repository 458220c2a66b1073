SPECIFICATION QueueSpec
CONSTANTS
    NumPackets = 3
    Payload <- MCPayload
    Deadline <- MCDeadline
    MaxQueuedPackets = 2
    MaxQueuedBits = 3
    MaxTick = 1
    MaxCapacity = 3
    MaxReservations = 1
INVARIANTS
    Ledger
    WithinLimits
PROPERTIES
    Implements
