--------------------------- MODULE BearerQueueOps ---------------------------
(***************************************************************************)
(* The operations of class BearerQueue (traffic/queue.py) as operators on  *)
(* one queue value.  BearerQueue runs them as the actions of one bearer,   *)
(* SlotPipeline as the queue calls of the simulation's event handlers.     *)
(*                                                                         *)
(* A command that raises leaves the queue as it stood when the exception   *)
(* was thrown, which is not always how it was before the call: _check_tick *)
(* has already moved _last_tick, and a loop may have served some packets.  *)
(* Each operation therefore comes as a pair: the queue it leaves behind,   *)
(* and a predicate that says whether the call raises.                      *)
(*                                                                         *)
(* A packet is its immutable PacketRecord: a number with the payload and   *)
(* the deadline the constants give it.  Lifecycle events, identifiers and  *)
(* digests are observations only and are left out.                         *)
(***************************************************************************)
EXTENDS Integers, FiniteSets, Sums

CONSTANTS
    NumPackets,       \* how many packet records exist
    Payload,          \* Payload[p]: payload_bits of packet p
    Deadline,         \* Deadline[p]: deadline_tick of packet p, or NoTick
    MaxQueuedPackets, \* max_packets, or NoLimit
    MaxQueuedBits     \* max_payload_bits, or NoLimit

Packets == 1..NumPackets
Ticks   == Nat
NoTick  == -1         \* Python's None for a tick
NoLimit == 0          \* Python's None for a bound; the constructor rejects 0

\* What BearerQueue.__init__ and PacketRecord.__post_init__ require.
ASSUME QueueAssumption ==
    /\ NumPackets \in Nat
    /\ Payload \in [Packets -> Nat \ {0}]
    /\ Deadline \in [Packets -> Nat \cup {NoTick}]
    /\ MaxQueuedPackets \in Nat
    /\ MaxQueuedBits \in Nat
    /\ MaxQueuedPackets # NoLimit \/ MaxQueuedBits # NoLimit

\* Keys of _states, by terminal_cause: "absent" is a packet never enqueued,
\* "active" a packet whose terminal_cause is None.
Terminal == {"completed", "overflow_drop", "deadline_expired",
             "phy_failure", "censored_at_stop"}
Causes   == {"absent", "active"} \cup Terminal

\* A reservation is its identity: items[p] is the reserved_bits of packet p,
\* 0 when the plan does not name p; the plan lists its packets in queue order.
Reservation == [start : Ticks, completion : Ticks, capacity : Nat,
                items : [Packets -> Nat]]

QueueState ==
    [active    : SUBSET Packets,          \* members of the deque _active
     rank      : [Packets -> Nat],        \* their order: rank at append
     arrival   : [Packets -> Ticks],      \* packet.arrival_tick
     cause     : [Packets -> Causes],     \* _states[p].terminal_cause
     remaining : [Packets -> Nat],        \* _states[p].remaining_bits
     first     : [Packets -> Ticks \cup {NoTick}],  \* first_service_tick
     terminal  : [Packets -> Ticks \cup {NoTick}],  \* terminal_tick
     offered   : Nat,                     \* len(_states)
     lastTick  : Ticks,                   \* _last_tick
     queued    : Nat,                     \* _queued_payload_bits
     served    : Nat,                     \* _service_consumed_bits
     known     : SUBSET Reservation,      \* _known_reservation_ids
     done      : SUBSET Reservation]      \* _completed_reservation_ids

EmptyQueue ==
    [active    |-> {},
     rank      |-> [p \in Packets |-> 0],
     arrival   |-> [p \in Packets |-> 0],
     cause     |-> [p \in Packets |-> "absent"],
     remaining |-> [p \in Packets |-> 0],
     first     |-> [p \in Packets |-> NoTick],
     terminal  |-> [p \in Packets |-> NoTick],
     offered   |-> 0,
     lastTick  |-> 0,
     queued    |-> 0,
     served    |-> 0,
     known     |-> {},
     done      |-> {}]

Total(bits) == Sum(bits, NumPackets)

-----------------------------------------------------------------------------
(* Queue order and the first-in first-out service plan.                    *)

Ahead(q, p) == {o \in q.active : q.rank[o] < q.rank[p]}

BitsAhead(q, p) ==
    Total([o \in Packets |-> IF o \in Ahead(q, p) THEN q.remaining[o] ELSE 0])

Clamp(x, hi) == IF x < 0 THEN 0 ELSE IF x > hi THEN hi ELSE x

\* The loop "reserved = min(available, remaining); available -= reserved"
\* down the queue: each packet gets what is left after those ahead of it.
FifoPlan(q, capacity) ==
    [p \in Packets |->
        IF p \in q.active
        THEN Clamp(capacity - BitsAhead(q, p), q.remaining[p])
        ELSE 0]

\* The part of a plan a loop reaches before it raises at a packet in bad.
UpTo(q, plan, bad) ==
    [p \in Packets |->
        IF \E b \in bad : q.rank[b] <= q.rank[p] THEN 0 ELSE plan[p]]

-----------------------------------------------------------------------------
(* Effects shared by the commands.                                         *)

\* _check_tick, when it does not raise.
Stamp(q, t) == [q EXCEPT !.lastTick = t]

StaleTick(q, t) == t < q.lastTick

MarkFirst(q, t, bits) ==
    [q EXCEPT !.first = [p \in Packets |->
        IF bits[p] > 0 /\ q.first[p] = NoTick THEN t ELSE q.first[p]]]

Finished(q, bits) == {p \in Packets : bits[p] > 0 /\ bits[p] = q.remaining[p]}

\* Take bits from the packets, and complete those that have none left.
Consume(q, t, bits) ==
    [q EXCEPT
        !.remaining = [p \in Packets |-> q.remaining[p] - bits[p]],
        !.queued    = q.queued - Total(bits),
        !.served    = q.served + Total(bits),
        !.active    = q.active \ Finished(q, bits),
        !.terminal  = [p \in Packets |->
            IF p \in Finished(q, bits) THEN t ELSE q.terminal[p]],
        !.cause     = [p \in Packets |->
            IF p \in Finished(q, bits) THEN "completed" ELSE q.cause[p]]]

\* Mutant of Terminate: the cached occupancy gives back the whole payload.
TerminateWhole(q, t, gone, why) ==
    [q EXCEPT
        !.active   = q.active \ gone,
        !.queued   = q.queued
                     - Total([p \in Packets |-> IF p \in gone THEN Payload[p] ELSE 0]),
        !.terminal = [p \in Packets |-> IF p \in gone THEN t ELSE q.terminal[p]],
        !.cause    = [p \in Packets |-> IF p \in gone THEN why ELSE q.cause[p]]]

\* _terminate_packet past its guards, for each packet of gone: the packet
\* keeps its remaining bits and leaves the queue.
Terminate(q, t, gone, why) ==
    [q EXCEPT
        !.active   = q.active \ gone,
        !.queued   = q.queued
                     - Total([p \in Packets |->
                                 IF p \in gone THEN q.remaining[p] ELSE 0]),
        !.terminal = [p \in Packets |->
            IF p \in gone THEN t ELSE q.terminal[p]],
        !.cause    = [p \in Packets |->
            IF p \in gone THEN why ELSE q.cause[p]]]

-----------------------------------------------------------------------------
(* apply(EnqueuePacket): belongs says that bearer and timestamp match.     *)

EnqueueRaises(q, t, p, belongs) ==
    StaleTick(q, t) \/ ~belongs \/ q.cause[p] # "absent"

\* Mutant of Overflows: the occupancy before the packet is tested.
OverflowsLate(q, p) ==
    \/ MaxQueuedPackets # NoLimit /\ Cardinality(q.active) > MaxQueuedPackets
    \/ MaxQueuedBits # NoLimit /\ q.queued > MaxQueuedBits

Overflows(q, p) ==
    \/ MaxQueuedPackets # NoLimit /\ Cardinality(q.active) + 1 > MaxQueuedPackets
    \/ MaxQueuedBits # NoLimit /\ q.queued + Payload[p] > MaxQueuedBits

\* A new _PacketState, whether or not the queue has room for it.
Recorded(q, t, p) ==
    [q EXCEPT !.rank[p] = q.offered, !.offered = q.offered + 1,
              !.arrival[p] = t, !.remaining[p] = Payload[p]]

Enqueue(q, t, p, belongs) ==
    IF StaleTick(q, t) THEN q
    ELSE IF EnqueueRaises(q, t, p, belongs) THEN Stamp(q, t)
    ELSE LET r == Recorded(Stamp(q, t), t, p)
         IN  IF Overflows(q, p)
             THEN [r EXCEPT !.cause[p] = "overflow_drop", !.terminal[p] = t]
             ELSE [r EXCEPT !.cause[p] = "active",
                            !.active = q.active \cup {p},
                            !.queued = q.queued + Payload[p]]

-----------------------------------------------------------------------------
(* apply(ApplyService): immediate service of the head of the queue.        *)

\* Packets the loop would serve although their deadline has passed.
OverdueInReach(q, t, capacity) ==
    {p \in q.active : /\ Deadline[p] # NoTick /\ Deadline[p] < t
                      /\ BitsAhead(q, p) < capacity}

ServeRaises(q, t, capacity) ==
    StaleTick(q, t) \/ capacity < 0 \/ OverdueInReach(q, t, capacity) # {}

Serve(q, t, capacity) ==
    IF StaleTick(q, t) THEN q
    ELSE IF capacity < 0 THEN Stamp(q, t)
    ELSE LET bits == UpTo(q, FifoPlan(q, capacity), OverdueInReach(q, t, capacity))
         IN  Consume(MarkFirst(Stamp(q, t), t, bits), t, bits)

-----------------------------------------------------------------------------
(* apply(ExpirePacket), apply(FailPacket) and apply(CensorQueue).          *)

ExpireRaises(q, t, p) ==
    \/ StaleTick(q, t)
    \/ q.cause[p] = "absent"
    \/ q.cause[p] = "active" /\ (Deadline[p] = NoTick \/ t < Deadline[p])

Expire(q, t, p) ==
    IF StaleTick(q, t) THEN q
    ELSE IF q.cause[p] # "active" \/ ExpireRaises(q, t, p) THEN Stamp(q, t)
    ELSE Terminate(Stamp(q, t), t, {p}, "deadline_expired")

FailRaises(q, t, p) == StaleTick(q, t) \/ q.cause[p] = "absent"

Fail(q, t, p) ==
    IF StaleTick(q, t) THEN q
    ELSE IF q.cause[p] # "active" THEN Stamp(q, t)
    ELSE Terminate(Stamp(q, t), t, {p}, "phy_failure")

Censor(q, t) ==
    IF StaleTick(q, t) THEN q
    ELSE Terminate(Stamp(q, t), t, q.active, "censored_at_stop")

-----------------------------------------------------------------------------
(* reserve_service: plan now, consume when the slot completes.             *)

ReserveRejected(start, completion, capacity) ==
    completion <= start \/ capacity < 0

Planned(q, start, completion, capacity) ==
    [start |-> start, completion |-> completion, capacity |-> capacity,
     items |-> FifoPlan(q, capacity)]

ReserveRaises(q, start, completion, capacity) ==
    \/ StaleTick(q, start)
    \/ ReserveRejected(start, completion, capacity)
    \/ Planned(q, start, completion, capacity) \in q.known

\* Mutant of Reserve: first service is stamped with the completion tick.
ReserveStampsEnd(q, start, completion, capacity) ==
    IF StaleTick(q, start) THEN q
    ELSE IF ReserveRejected(start, completion, capacity) THEN Stamp(q, start)
    ELSE LET r == Planned(q, start, completion, capacity)
         IN  [MarkFirst(Stamp(q, start), completion, r.items)
                 EXCEPT !.known = q.known \cup {r}]

\* A duplicate plan raises after the loop has marked first-service ticks.
Reserve(q, start, completion, capacity) ==
    IF StaleTick(q, start) THEN q
    ELSE IF ReserveRejected(start, completion, capacity) THEN Stamp(q, start)
    ELSE LET r == Planned(q, start, completion, capacity)
         IN  [MarkFirst(Stamp(q, start), start, r.items)
                 EXCEPT !.known = q.known \cup {r}]

-----------------------------------------------------------------------------
(* complete_reserved_service: realise the plan, whatever has changed.      *)

\* Mutant of CompleteRejected: completed reservations are not remembered.
CompleteTwice(q, r) == r \notin q.known

CompleteRejected(q, r) == r \notin q.known \/ r \in q.done

\* Items that changed outside the service contract: the loop raises at the
\* first of them.  Items that became terminal are skipped.
Disturbed(q, r) ==
    {p \in Packets : /\ r.items[p] > 0
                     /\ q.cause[p] \notin Terminal
                     /\ p \notin q.active \/ r.items[p] > q.remaining[p]}

\* Mutant of Drawn: packets that ended since are served all the same.
DrawnFromEnded(q, r) == UpTo(q, r.items, Disturbed(q, r))

\* The reserved bits the call takes from each packet.
Drawn(q, r) ==
    UpTo(q, [p \in Packets |-> IF q.cause[p] \in Terminal THEN 0 ELSE r.items[p]],
         Disturbed(q, r))

CompleteRaises(q, r) ==
    StaleTick(q, r.completion) \/ CompleteRejected(q, r) \/ Disturbed(q, r) # {}

Complete(q, r) ==
    IF StaleTick(q, r.completion) THEN q
    ELSE IF CompleteRejected(q, r) THEN Stamp(q, r.completion)
    ELSE [Consume(Stamp(q, r.completion), r.completion, Drawn(q, r))
             EXCEPT !.done = IF Disturbed(q, r) = {} THEN @ \cup {r} ELSE @]

-----------------------------------------------------------------------------
(* What the queue and its ledger must agree on.                            *)

Known(q) == {p \in Packets : q.cause[p] # "absent"}

\* QueueLedger: the bits of the packets of a set, by what f gives each.
BitsOf(set, f) == Total([p \in Packets |-> IF p \in set THEN f[p] ELSE 0])

\* The occupancy that _enqueue tests against max_payload_bits and that the
\* schedulers read is a cached counter, updated by six code paths: it always
\* equals the bits that remain in the packets queued (QOS-002).
CachedOccupancy(q) == q.queued = BitsOf(q.active, q.remaining)

\* The deque and the packet states agree: queued are exactly the packets
\* with no terminal cause, so that every offered bit is in exactly one
\* column of the ledger (assert_conserved, QOS-001 and QOS-002).
LedgerReconciles(q) ==
    LET completed == {p \in Known(q) : q.cause[p] = "completed"}
        lost      == {p \in Known(q) : q.cause[p] \in Terminal \ {"completed"}}
    IN  /\ BitsOf(Known(q), Payload)
             = BitsOf(q.active, q.remaining)
               + BitsOf(q.active, [p \in Packets |-> Payload[p] - q.remaining[p]])
               + BitsOf(completed, Payload) + BitsOf(lost, Payload)
        /\ q.offered = Cardinality(q.active) + Cardinality(completed)
                       + Cardinality(lost)

\* service_consumed_bits, which the KPIs report as served traffic, is what
\* the packets have lost, summed over live, completed and dropped packets;
\* assert_conserved does not test it.
ServiceAccounted(q) ==
    q.served = BitsOf(Known(q), [p \in Packets |-> Payload[p] - q.remaining[p]])
=============================================================================
