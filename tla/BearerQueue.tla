----------------------------- MODULE BearerQueue -----------------------------
(***************************************************************************)
(* One bearer's packet queue (traffic/queue.py) under every order of the   *)
(* commands its callers may send: enqueues, immediate service, service     *)
(* reserved for a later completion, deadline expiry, PHY failure and       *)
(* censoring, valid or not, with reservations that overlap, complete late, *)
(* complete twice or are retried after an exception.                       *)
(***************************************************************************)
EXTENDS BearerQueueOps

CONSTANTS
    MaxTick,         \* bound: last tick a command carries
    MaxCapacity,     \* bound: largest service capacity of one command
    MaxReservations  \* bound: how many reservations are ever planned

ASSUME BoundAssumption ==
    MaxTick \in Nat /\ MaxCapacity \in Nat /\ MaxReservations \in Nat

VARIABLES
    queue,  \* the BearerQueue object
    drawn   \* history: drawn[r][p], bits reservation r has taken from p
queueVars == <<queue, drawn>>

CommandTicks == 0..MaxTick
Capacities   == -1..MaxCapacity

QueueInit == queue = EmptyQueue /\ drawn = [r \in {} |-> 0]

-----------------------------------------------------------------------------
\* A PacketRecord's deadline is later than its arrival.
EnqueuePacket(t, p, belongs) ==
    /\ Deadline[p] # NoTick => t < Deadline[p]
    /\ queue' = Enqueue(queue, t, p, belongs)
    /\ UNCHANGED drawn

ApplyService(t, capacity) ==
    queue' = Serve(queue, t, capacity) /\ UNCHANGED drawn

ExpirePacket(t, p) == queue' = Expire(queue, t, p) /\ UNCHANGED drawn

FailPacket(t, p) == queue' = Fail(queue, t, p) /\ UNCHANGED drawn

CensorQueue(t) == queue' = Censor(queue, t) /\ UNCHANGED drawn

ReserveService(start, completion, capacity) ==
    /\ Cardinality(queue.known) < MaxReservations
    /\ queue' = Reserve(queue, start, completion, capacity)
    /\ drawn' = [r \in queue'.known |->
                    IF r \in queue.known THEN drawn[r] ELSE [p \in Packets |-> 0]]

\* The caller may complete a reservation late, again, or after a failed try.
CompleteReservedService(r) ==
    /\ queue' = Complete(queue, r)
    /\ drawn' = IF StaleTick(queue, r.completion) \/ CompleteRejected(queue, r)
                THEN drawn
                ELSE [drawn EXCEPT ![r] =
                         [p \in Packets |-> drawn[r][p] + Drawn(queue, r)[p]]]

\* A reservation of another bearer: rejected once the clock has moved.
CompleteForeignReservation(t) ==
    /\ queue' = IF StaleTick(queue, t) THEN queue ELSE Stamp(queue, t)
    /\ UNCHANGED drawn

QueueNext ==
    \/ \E t \in CommandTicks, p \in Packets, belongs \in BOOLEAN :
          EnqueuePacket(t, p, belongs)
    \/ \E t \in CommandTicks, c \in Capacities : ApplyService(t, c)
    \/ \E t \in CommandTicks, p \in Packets : ExpirePacket(t, p)
    \/ \E t \in CommandTicks, p \in Packets : FailPacket(t, p)
    \/ \E t \in CommandTicks : CensorQueue(t)
    \/ \E s, e \in CommandTicks, c \in Capacities : ReserveService(s, e, c)
    \/ \E r \in queue.known : CompleteReservedService(r)
    \/ \E t \in CommandTicks : CompleteForeignReservation(t)

QueueSpec == QueueInit /\ [][QueueNext]_queueVars

-----------------------------------------------------------------------------
(* Properties.                                                             *)

QueueTypeOK ==
    /\ queue \in QueueState
    /\ drawn \in [queue.known -> [Packets -> Nat]]

\* The ledger of traffic/queue.py reconciles in every state: the cached
\* occupancy, the columns of QueueLedger and the service total are the sums
\* over the packets that they stand for (assert_conserved, QOS-001, QOS-002).
Ledger == CachedOccupancy(queue) /\ LedgerReconciles(queue) /\ ServiceAccounted(queue)

\* The configured bounds hold in every state, not only on arrival.
WithinLimits ==
    /\ MaxQueuedPackets # NoLimit => Cardinality(queue.active) <= MaxQueuedPackets
    /\ MaxQueuedBits # NoLimit => BitsOf(queue.active, queue.remaining) <= MaxQueuedBits

\* A packet's timeline is ordered, arrival, first service, end; a completed
\* packet was served first; only served packets have lost bits.
TimelineOrdered ==
    \A p \in Known(queue) :
        /\ queue.first[p] # NoTick => queue.arrival[p] <= queue.first[p]
        /\ queue.first[p] # NoTick /\ queue.terminal[p] # NoTick
              => queue.first[p] <= queue.terminal[p]
        /\ queue.remaining[p] < Payload[p] => queue.first[p] # NoTick
        /\ queue.cause[p] \in Terminal <=> queue.terminal[p] # NoTick

\* A reservation is kept as it was made.  It never takes from a packet more
\* than it reserved there, even when its completion raises half way and is
\* retried: the items already served must not be served again.  And it goes to
\* packets that were queued when the slot began: one that arrives during the
\* slot takes none of it (MAC-009).
DrawsAtMostReserved ==
    \A r \in queue.known : \A p \in Packets : drawn[r][p] <= r.items[p]
ReservedOnlyVisible ==
    \A r \in queue.known : \A p \in Packets :
        r.items[p] > 0 => queue.arrival[p] <= r.start /\ queue.first[p] <= r.start
ReservationsKept == DrawsAtMostReserved /\ ReservedOnlyVisible

\* The queue implements the abstract line of packets, whatever mixture of
\* immediate and reserved service, failures and retries it goes through: bits
\* leave first-in first-out even when a plan is older than the queue it meets,
\* a packet completes exactly when its last bit leaves, and one that has ended
\* keeps its cause and its bits though stale plans still name it (MAC-009,
\* QOS-001).
L == INSTANCE PacketLine WITH
        fate <- queue.cause, left <- queue.remaining, rank <- queue.rank

Implements == L!Spec
=============================================================================
