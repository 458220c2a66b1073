SPECIFICATION QueueSpec
CONSTANTS
    NumPackets = 2
    Payload <- MCPayload
    Deadline <- MCDeadline
    MaxQueuedPackets = 0
    MaxQueuedBits = 2
    MaxTick = 2
    MaxCapacity = 2
    MaxReservations = 2
INVARIANTS
    TimelineOrdered
    ReservationsKept
