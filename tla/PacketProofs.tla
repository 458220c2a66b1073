---------------------------- MODULE PacketProofs ----------------------------
(***************************************************************************)
(* Proofs about what the simulations have in common, and about the traffic *)
(* run.                                                                    *)
(*                                                                         *)
(* First the queue calls of the handlers, as BearerQueueOpsProofs has      *)
(* them, and the capacity of a link.  Then the traffic run and its         *)
(* inductive invariant, TrafficInv: while the sources generate, each has   *)
(* filled its time packet by packet; while the run goes on, the heap holds *)
(* what is due, and a packet still queued has left no granted bit unused.  *)
(*                                                                         *)
(* Last the slots of the static and the dynamic simulation.  One inductive *)
(* invariant, PipelineInv, says what the queues, the pending events and    *)
(* the clock have to do with each other; it is stated over the cell that   *)
(* serves each UE, which the static simulation fixes and the dynamic one   *)
(* changes when nothing is promised to anyone.  The handlers shared by the *)
(* two are proved to preserve it once.  Then comes the order in which      *)
(* capacity is shared out over a UE's packets.                             *)
(***************************************************************************)
EXTENDS TrafficMechanics, SlotService, LinkCapacity, SumsProofs, FiniteSetTheorems

O == INSTANCE BearerQueueOpsProofs WITH Deadline <- DeadlineTick

-----------------------------------------------------------------------------
(* The queue calls of the handlers.                                        *)

\* The constants, with what is used of them.
LEMMA Configuration ==
    /\ NumPackets \in Nat /\ Packets = 1..NumPackets
    /\ \A p \in Packets : BearerOf[p] \in Bearers /\ Payload[p] \in Nat \ {0}
    /\ \A b \in Bearers : UeOf[b] \in Ues /\ Budget[b] \in Nat
    /\ Slot \in Nat /\ Slot > 0
    /\ MeasureStart \in Nat /\ MeasureEnd \in Nat /\ Stop \in Nat
    /\ MeasureEnd <= Stop /\ ArrivalTicks \subseteq 0..(MeasureEnd - 1)
BY PipelineAssumption DEF Packets

\* What a queue needs of the deadlines.
LEMMA QueuesConfigured ==
    ASSUME arrives \in [Packets -> Nat \cup {NoTick}]
    PROVE  /\ O!QueueAssumption
           /\ \A p \in Packets :
                 \/ Budget[BearerOf[p]] = NoBudget /\ DeadlineTick[p] = NoTick
                 \/ /\ Budget[BearerOf[p]] # NoBudget
                    /\ DeadlineTick[p] = arrives[p] + Budget[BearerOf[p]]
                    /\ DeadlineTick[p] \in Nat /\ DeadlineTick[p] > arrives[p]
                    /\ DeadlineTick[p] # NoTick
<1>1. \A p \in Packets :
          \/ Budget[BearerOf[p]] = NoBudget /\ DeadlineTick[p] = NoTick
          \/ /\ Budget[BearerOf[p]] # NoBudget
             /\ DeadlineTick[p] = arrives[p] + Budget[BearerOf[p]]
             /\ DeadlineTick[p] \in Nat /\ DeadlineTick[p] > arrives[p]
             /\ DeadlineTick[p] # NoTick
  BY Configuration DEF DeadlineTick, NoTick, NoBudget
<1>2. DeadlineTick \in [Packets -> Nat \cup {NoTick}]
  <2>1. DeadlineTick = [p \in Packets |-> DeadlineTick[p]]
    BY Configuration DEF DeadlineTick
  <2> QED BY <1>1, <2>1
<1>3. O!QueueAssumption
  BY <1>2, PipelineAssumption, LimitAssumption
     DEF O!QueueAssumption, O!Packets, O!NoTick, O!NoLimit, Packets, NoTick, NoLimit
<1> QED BY <1>1, <1>3

\* Names of the queue module and of its proofs stand for the same.
LEMMA Names ==
    /\ O!Packets = Packets /\ O!Ticks = Nat /\ O!NoTick = NoTick
    /\ O!Terminal = Terminal /\ O!Causes = Causes
    /\ \A q, t : O!StaleTick(q, t) = StaleTick(q, t)
BY DEF O!Packets, Packets, O!Ticks, O!NoTick, NoTick, O!Terminal, Terminal,
       O!Causes, Causes, O!StaleTick, StaleTick

\* What a valid queue says of the fields that the proofs below read.
LEMMA ValidParts ==
    ASSUME O!QueueAssumption, NEW q, O!Valid(q)
    PROVE  /\ q.lastTick \in Nat /\ q.offered \in Nat
           /\ q.active = {p \in Packets : q.cause[p] = "active"}
           /\ \A p \in Packets :
                 /\ q.cause[p] \in Causes
                 /\ q.remaining[p] \in Nat /\ q.rank[p] \in Nat /\ q.arrival[p] \in Nat
                 /\ q.terminal[p] \in Nat \cup {NoTick}
                 /\ q.cause[p] = "active" => q.remaining[p] > 0
                 /\ q.cause[p] # "absent" => q.rank[p] < q.offered
           /\ \A r \in q.known :
                 /\ r.start \in Nat /\ r.completion \in Nat /\ r.items \in [Packets -> Nat]
                 /\ \A p \in Packets : r.items[p] > 0 => q.cause[p] # "absent"
           /\ q.queued = Total([p \in Packets |->
                             IF q.cause[p] = "active" THEN q.remaining[p] ELSE 0])
<1>1. /\ q.lastTick \in Nat /\ q.offered \in Nat
      /\ q.cause \in [Packets -> Causes] /\ q.remaining \in [Packets -> Nat]
      /\ q.rank \in [Packets -> Nat] /\ q.arrival \in [Packets -> Nat]
      /\ q.terminal \in [Packets -> Nat \cup {NoTick}]
      /\ q.active = {p \in Packets : q.cause[p] = "active"}
  BY Names DEF O!Valid, O!Sound, O!QueueState, O!ActiveMatches
<1>2. \A r \in q.known :
         /\ r.start \in Nat /\ r.completion \in Nat /\ r.items \in [Packets -> Nat]
         /\ \A p \in Packets : r.items[p] > 0 => q.cause[p] # "absent"
  BY Names DEF O!Valid, O!Sound, O!QueueState, O!Reservation, O!Orderly, O!Visible
<1>3. \A p \in Packets : /\ q.cause[p] = "active" => q.remaining[p] > 0
                         /\ q.cause[p] # "absent" => q.rank[p] < q.offered
  BY <1>1, Names
     DEF O!Valid, O!Sound, O!RemainingBounded, O!RanksDistinct, O!Known
<1>4. q.queued = Total([p \in Packets |->
                     IF q.cause[p] = "active" THEN q.remaining[p] ELSE 0])
  <2> DEFINE f == [p \in Packets |-> IF p \in q.active THEN q.remaining[p] ELSE 0]
             g == [p \in Packets |-> IF q.cause[p] = "active" THEN q.remaining[p] ELSE 0]
  <2>1. f = g
    BY <1>1
  <2>2. q.queued = O!BitsOf(q.active, q.remaining)
    BY DEF O!Valid, O!Sound, O!CachedOccupancy
  <2>3. O!BitsOf(q.active, q.remaining) = BitsOf(q.active, q.remaining)
    BY DEF O!BitsOf, BitsOf, O!Total, Total, O!Sum, Sum, O!PartialSums, PartialSums,
       O!Packets, Packets
  <2>4. BitsOf(q.active, q.remaining) = Total(f)
    BY DEF BitsOf
  <2> HIDE DEF f, g
  <2>5. q.queued = Total(g)
    BY <2>1, <2>2, <2>3, <2>4
  <2> QED BY <2>5 DEF g
<1> QED BY <1>1, <1>2, <1>3, <1>4

\* First services, in a valid queue: after the arrival, and of a packet that
\* a reservation names no later than the start of its slot.
LEMMA FirstServices ==
    ASSUME O!QueueAssumption, NEW q, O!Valid(q)
    PROVE  /\ \A p \in Packets :
                 /\ q.first[p] \in Nat \cup {NoTick}
                 /\ q.cause[p] # "absent" /\ q.first[p] # NoTick => q.arrival[p] <= q.first[p]
           /\ \A r \in q.known : \A p \in Packets :
                 r.items[p] > 0 => q.first[p] # NoTick /\ q.first[p] <= r.start
BY Names DEF O!Valid, O!Sound, O!QueueState, O!Reservation, O!Orderly, O!Timely,
             O!PacketTimely, O!Visible

\* A new queue.
LEMMA EmptyCall ==
    ASSUME O!QueueAssumption
    PROVE  O!Valid(EmptyQueue)
<1>1. O!EmptyQueue = EmptyQueue
  BY DEF O!EmptyQueue, EmptyQueue, O!Packets, Packets, O!NoTick, NoTick
<1> QED BY <1>1, O!EmptyValid

\* Queue q has become s by recording packet p at tick t.
ArrivedAs(q, s, t, p) ==
    /\ O!Valid(s)
    /\ s.lastTick = t /\ s.known = q.known /\ s.done = q.done
    /\ s.served = q.served
    /\ s.cause[p] \in {"active", "overflow_drop"}
    /\ s.remaining[p] = Payload[p] /\ s.arrival[p] = t /\ s.rank[p] = q.offered
    /\ s.first[p] = q.first[p]
    /\ \A o \in Packets \ {p} :
          /\ s.cause[o] = q.cause[o] /\ s.remaining[o] = q.remaining[o]
          /\ s.terminal[o] = q.terminal[o] /\ s.rank[o] = q.rank[o]
          /\ s.arrival[o] = q.arrival[o] /\ s.first[o] = q.first[o]

\* The call of an arrival handler.
LEMMA EnqueueCall ==
    ASSUME O!QueueAssumption, NEW q, O!Valid(q), NEW t \in Nat, NEW p \in Packets,
           NEW belongs, ~EnqueueRaises(q, t, p, belongs),
           NEW s, s = Enqueue(q, t, p, belongs)
    PROVE  ArrivedAs(q, s, t, p)
<1>1. O!Enqueue(q, t, p, belongs) = Enqueue(q, t, p, belongs)
  <2>1. O!EnqueueRaises(q, t, p, belongs) <=> EnqueueRaises(q, t, p, belongs)
    BY DEF O!EnqueueRaises, EnqueueRaises, O!StaleTick, StaleTick
  <2>2. O!Overflows(q, p) <=> Overflows(q, p)
    BY DEF O!Overflows, Overflows, O!NoLimit, NoLimit, O!Cardinality, Cardinality
  <2>3. O!Recorded(O!Stamp(q, t), t, p) = Recorded(Stamp(q, t), t, p)
    BY DEF O!Recorded, Recorded, O!Stamp, Stamp
  <2>4. O!Stamp(q, t) = Stamp(q, t) /\ (O!StaleTick(q, t) <=> StaleTick(q, t))
    BY DEF O!Stamp, Stamp, O!StaleTick, StaleTick
  <2>5. /\ ~EnqueueRaises(q, t, p, belongs) /\ ~StaleTick(q, t)
        /\ ~O!EnqueueRaises(q, t, p, belongs) /\ ~O!StaleTick(q, t)
    BY <2>1, <2>4 DEF EnqueueRaises
  <2> QED BY <2>2, <2>3, <2>5 DEF O!Enqueue, Enqueue
<1>2. p \in O!Packets /\ t \in O!Ticks
  BY Names
<1>4. ~O!EnqueueRaises(q, t, p, belongs)
  BY DEF O!EnqueueRaises, EnqueueRaises, O!StaleTick, StaleTick
<1>3. O!Valid(s) /\ O!EnqueuedAs(q, s, t, p)
  BY <1>1, <1>2, <1>4, O!EnqueueEffect
<1>5. /\ q.cause \in [Packets -> Causes] /\ q.remaining \in [Packets -> Nat]
      /\ q.arrival \in [Packets -> Nat] /\ q.terminal \in [Packets -> Nat \cup {NoTick}]
      /\ q.rank \in [Packets -> Nat]
  BY Names DEF O!Valid, O!Sound, O!QueueState
<1> QED BY <1>3, <1>5 DEF O!EnqueuedAs, ArrivedAs

\* Queue q has become s by the deadline of packet p at tick t.
ExpiredAs(q, s, t, p) ==
    /\ O!Valid(s)
    /\ s.lastTick = t /\ s.known = q.known /\ s.done = q.done
    /\ s.served = q.served /\ s.remaining = q.remaining
    /\ s.rank = q.rank /\ s.arrival = q.arrival /\ s.first = q.first
    /\ \A o \in Packets :
          IF o = p /\ q.cause[p] = "active"
          THEN s.cause[o] = "deadline_expired" /\ s.terminal[o] = t
          ELSE s.cause[o] = q.cause[o] /\ s.terminal[o] = q.terminal[o]

\* The call of a deadline handler.
LEMMA ExpireCall ==
    ASSUME O!QueueAssumption, NEW q, O!Valid(q), NEW t \in Nat, NEW p \in Packets,
           ~ExpireRaises(q, t, p)
    PROVE  ExpiredAs(q, Expire(q, t, p), t, p)
<1>1. O!Expire(q, t, p) = Expire(q, t, p)
  BY DEF O!Expire, Expire, O!StaleTick, StaleTick, O!ExpireRaises, ExpireRaises,
         O!Terminate, Terminate, O!Stamp, Stamp, O!Total, Total, O!Sum, Sum,
         O!PartialSums, PartialSums, O!Packets, Packets, O!NoTick, NoTick
<1>2. ~O!ExpireRaises(q, t, p) /\ p \in O!Packets /\ t \in O!Ticks
  BY Names DEF O!ExpireRaises, ExpireRaises
<1> QED BY <1>1, <1>2, Names, O!ExpireEffect DEF ExpiredAs

\* The call of a censoring handler.
LEMMA CensorCall ==
    ASSUME O!QueueAssumption, NEW q, O!Valid(q), NEW t \in Nat, ~StaleTick(q, t)
    PROVE  LET s == Censor(q, t) IN
           /\ O!Valid(s)
           /\ s.lastTick = t /\ s.known = q.known /\ s.done = q.done
           /\ s.served = q.served /\ s.remaining = q.remaining
           /\ s.rank = q.rank /\ s.arrival = q.arrival /\ s.first = q.first
           /\ \A o \in Packets :
                 IF q.cause[o] = "active"
                 THEN s.cause[o] = "censored_at_stop" /\ s.terminal[o] = t
                 ELSE s.cause[o] = q.cause[o] /\ s.terminal[o] = q.terminal[o]
<1>1. O!Censor(q, t) = Censor(q, t)
  BY DEF O!Censor, Censor, O!StaleTick, StaleTick, O!Terminate, Terminate,
         O!Stamp, Stamp, O!Total, Total, O!Sum, Sum, O!PartialSums, PartialSums,
         O!Packets, Packets
<1>2. ~O!StaleTick(q, t) /\ t \in O!Ticks
  BY Names
<1> QED BY <1>1, <1>2, Names, O!CensorEffect

\* The call of a scheduling handler, for one bearer.
LEMMA ReserveCall ==
    ASSUME O!QueueAssumption, NEW q, O!Valid(q), NEW start \in Nat, NEW completion \in Nat,
           NEW capacity \in Nat, ~ReserveRaises(q, start, completion, capacity)
    PROVE  LET s == Reserve(q, start, completion, capacity)
               r == Planned(q, start, completion, capacity)
           IN
           /\ O!Valid(s)
           /\ s.lastTick = start /\ s.done = q.done
           /\ s.known = q.known \cup {r}
           /\ s.served = q.served /\ s.queued = q.queued
           /\ s.cause = q.cause /\ s.remaining = q.remaining /\ s.terminal = q.terminal
           /\ s.rank = q.rank /\ s.arrival = q.arrival /\ s.active = q.active
           /\ \A p \in Packets :
                 /\ s.first[p] # q.first[p] => q.first[p] = NoTick /\ s.first[p] = start
                 /\ r.items[p] \in Nat
                 /\ r.items[p] > 0 => q.cause[p] = "active" /\ r.items[p] <= q.remaining[p]
<1>1. /\ O!Planned(q, start, completion, capacity) = Planned(q, start, completion, capacity)
      /\ O!FifoPlan(q, capacity) = FifoPlan(q, capacity)
  BY DEF O!Planned, Planned, O!FifoPlan, FifoPlan, O!Clamp, Clamp, O!BitsAhead, BitsAhead,
         O!Ahead, Ahead, O!Total, Total, O!Sum, Sum, O!PartialSums, PartialSums,
         O!Packets, Packets
<1>2. O!Reserve(q, start, completion, capacity) = Reserve(q, start, completion, capacity)
  BY <1>1 DEF O!Reserve, Reserve, O!StaleTick, StaleTick, O!ReserveRejected, ReserveRejected,
         O!MarkFirst, MarkFirst, O!Stamp, Stamp, O!Packets, Packets, O!NoTick, NoTick
<1>3. /\ ~O!ReserveRaises(q, start, completion, capacity)
      /\ start \in O!Ticks /\ completion \in O!Ticks /\ capacity \in Int
  BY <1>1, Names
     DEF O!ReserveRaises, ReserveRaises, O!ReserveRejected, ReserveRejected
<1>4. ASSUME NEW p \in Packets
      PROVE  LET n == FifoPlan(q, capacity)[p] IN
             n \in Nat /\ (n > 0 => q.cause[p] = "active" /\ n <= q.remaining[p])
  <2>1. O!Drawable(q, FifoPlan(q, capacity))
    BY <1>1, <1>3, O!FifoPlanDrawable DEF O!Valid
  <2>2. /\ FifoPlan(q, capacity) \in [Packets -> Nat]
        /\ FifoPlan(q, capacity)[p] # 0
              => p \in q.active /\ FifoPlan(q, capacity)[p] <= q.remaining[p]
    BY <2>1, Names DEF O!Drawable
  <2>3. q.active = {o \in Packets : q.cause[o] = "active"}
    BY ValidParts
  <2> HIDE DEF FifoPlan
  <2> QED BY <2>2, <2>3
<1> DEFINE s == O!Reserve(q, start, completion, capacity)
           r == O!Planned(q, start, completion, capacity)
<1>5. /\ O!Valid(s)
      /\ s.lastTick = start /\ s.done = q.done
      /\ s.known = q.known \cup {r}
      /\ s.served = q.served /\ s.queued = q.queued
      /\ s.cause = q.cause /\ s.remaining = q.remaining /\ s.terminal = q.terminal
      /\ s.rank = q.rank /\ s.arrival = q.arrival
      /\ \A p \in Packets : s.first[p] # q.first[p] => q.first[p] = NoTick /\ s.first[p] = start
  BY <1>3, Names, O!ReserveEffect
<1>6. r.items = FifoPlan(q, capacity)
  BY <1>1 DEF Planned
<1>8. s = Reserve(q, start, completion, capacity) /\ r = Planned(q, start, completion, capacity)
  BY <1>1, <1>2
<1> HIDE DEF s, r
<1>7. s.active = q.active
  <2>1. s.active = {p \in Packets : s.cause[p] = "active"}
    BY <1>5, ValidParts
  <2>2. q.active = {p \in Packets : q.cause[p] = "active"}
    BY ValidParts
  <2> QED BY <1>5, <2>1, <2>2
<1> QED BY <1>4, <1>5, <1>6, <1>7, <1>8, Zenon

\* The call of a service handler, for one reservation.
LEMMA CompleteCall ==
    ASSUME O!QueueAssumption, NEW q, O!Valid(q), NEW r \in q.known, ~CompleteRaises(q, r)
    PROVE  LET s == Complete(q, r)
               bits == Drawn(q, r)
           IN
           /\ O!Valid(s)
           /\ s.lastTick = r.completion /\ s.known = q.known /\ s.done = q.done \cup {r}
           /\ s.served = q.served + Total(bits)
           /\ s.rank = q.rank /\ s.arrival = q.arrival /\ s.first = q.first
           /\ \A o \in Packets :
                 /\ bits[o] = IF q.cause[o] = "active" THEN r.items[o] ELSE 0
                 /\ bits[o] <= q.remaining[o]
                 /\ s.remaining[o] = q.remaining[o] - bits[o]
                 /\ IF bits[o] > 0 /\ bits[o] = q.remaining[o]
                    THEN s.cause[o] = "completed" /\ s.terminal[o] = r.completion
                    ELSE s.cause[o] = q.cause[o] /\ s.terminal[o] = q.terminal[o]
<1>1. /\ O!Disturbed(q, r) = Disturbed(q, r) /\ O!Drawn(q, r) = Drawn(q, r)
  BY DEF O!Disturbed, Disturbed, O!Drawn, Drawn, O!UpTo, UpTo, O!Packets, Packets,
         O!Terminal, Terminal
<1>2. O!Complete(q, r) = Complete(q, r)
  BY <1>1 DEF O!Complete, Complete, O!StaleTick, StaleTick,
         O!CompleteRejected, CompleteRejected, O!Consume, Consume, O!Finished, Finished,
         O!Stamp, Stamp, O!Total, Total, O!Sum, Sum, O!PartialSums, PartialSums,
         O!Packets, Packets
<1>3. ~O!CompleteRaises(q, r)
  BY <1>1 DEF O!CompleteRaises, CompleteRaises, O!StaleTick, StaleTick,
         O!CompleteRejected, CompleteRejected
<1>4. O!Total(Drawn(q, r)) = Total(Drawn(q, r))
  BY DEF O!Total, Total, O!Sum, Sum, O!PartialSums, PartialSums
<1> QED BY <1>1, <1>2, <1>3, <1>4, Names, O!CompleteEffect

-----------------------------------------------------------------------------
(* The capacity of a link.                                                 *)

\* Finitely many integers have an upper bound: the sum of the positive ones.
LEMMA FiniteBound ==
    ASSUME NEW S, IsFiniteSet(S), NEW g, \A s \in S : g[s] \in Int
    PROVE  \E n \in Nat : \A s \in S : g[s] <= n
<1>. PICK n \in Nat : ExistsSurjection(1..n, S)
  BY FS_NatSurjection
<1>1. PICK h : h \in Surjection(1..n, S)
  BY DEF ExistsSurjection
<1>2. /\ \A i \in 1..n : h[i] \in S
      /\ \A s \in S : \E i \in 1..n : h[i] = s
  BY <1>1 DEF Surjection
<1> DEFINE f == [i \in 1..n |-> IF g[h[i]] > 0 THEN g[h[i]] ELSE 0]
<1>3. \A i \in 1..n : f[i] \in Nat /\ g[h[i]] <= f[i]
  BY <1>2
<1> HIDE DEF f
<1>4. ASSUME NEW i \in 1..n
      PROVE  f[i] <= Sum(f, n)
  <2> DEFINE one == [j \in 1..n |-> IF j = i THEN f[i] ELSE 0]
  <2>1. one[i] = f[i] /\ \A j \in 1..n : one[j] \in Int /\ f[j] \in Int /\ one[j] <= f[j]
    BY <1>3
  <2>2. \A j \in 1..n : j # i => one[j] = 0
    OBVIOUS
  <2> HIDE DEF one
  <2>3. Sum(one, n) = one[i]
    BY <2>1, <2>2, SumSingle
  <2>4. Sum(one, n) <= Sum(f, n)
    BY <2>1, SumMonotone
  <2> QED BY <2>1, <2>3, <2>4
<1>5. Sum(f, n) \in Nat
  BY <1>3, SumNat
<1>6. \A s \in S : g[s] <= Sum(f, n)
  BY <1>2, <1>3, <1>4, <1>5
<1> QED BY <1>5, <1>6

\* A power of two is a natural: it counts the subsets of a set.
LEMMA PowersOfTwo == \A n \in Nat : 2^n \in Nat
<1> SUFFICES ASSUME NEW n \in Nat
             PROVE  2^n \in Nat
  OBVIOUS
<1>1. IsFiniteSet(1..n) /\ Cardinality(1..n) = n
  <2>1. IsFiniteSet(1..n) /\ Cardinality(1..n) = IF 1 > n THEN 0 ELSE n - 1 + 1
    BY FS_Interval
  <2> QED BY <2>1
<1>2. IsFiniteSet(SUBSET (1..n)) /\ Cardinality(SUBSET (1..n)) = 2^n
  BY <1>1, FS_SUBSET
<1> QED BY <1>2, FS_CardinalityType

\* The greatest of a bounded set, and the least of a set of naturals.
LEMMA MaxOf ==
    ASSUME NEW S, S \subseteq Int, S # {}, NEW n \in Int, \A s \in S : s <= n
    PROVE  Sets!Max(S) \in S /\ \A s \in S : s <= Sets!Max(S)
<1> DEFINE T == {k \in Nat : \E s \in S : k = n - s}
<1>1. T # {}
  <2>1. PICK s \in S : TRUE
    OBVIOUS
  <2>2. n - s \in T
    BY <2>1
  <2> QED BY <2>2
<1>2. PICK k \in T : \A j \in T : ~(j < k)
  BY <1>1, LeastNumber
<1>3. PICK m \in S : k = n - m
  BY <1>2
<1>4. ASSUME NEW s \in S
      PROVE  m >= s
  <2>1. n - s \in T
    OBVIOUS
  <2> HIDE DEF T
  <2> QED BY <1>2, <1>3, <2>1
<1>5. \E x \in S : \A y \in S : x >= y
  BY <1>4
<1>6. Sets!Max(S) \in S /\ \A y \in S : Sets!Max(S) >= y
  BY <1>5 DEF Sets!Max
<1> QED BY <1>6

\* The least of a set of naturals is one of them.
LEMMA MinOf ==
    ASSUME NEW S, S \subseteq Nat, S # {}
    PROVE  Sets!Min(S) \in S
<1>1. PICK m \in S : \A s \in S : ~(s < m)
  BY LeastNumber
<1>2. \E x \in S : \A y \in S : x <= y
  BY <1>1
<1> QED BY <1>2 DEF Sets!Min

\* The powers of two that the sizes of transport blocks need.
LEMMA Powers ==
    \A e \in 0..31 : 2^e \in Nat /\ 2^e > 0
<1>1. \A e \in 0..7 : 2^e \in Nat /\ 2^e > 0
  <2>1. \A e \in 0..7 : e \in {0, 1, 2, 3, 4, 5, 6, 7}
    OBVIOUS
  <2>2. \A e \in {0, 1, 2, 3, 4, 5, 6, 7} : 2^e \in {2^0, 2^1, 2^2, 2^3, 2^4, 2^5, 2^6, 2^7}
    BY Zenon
  <2>3. \A x \in {2^0, 2^1, 2^2, 2^3, 2^4, 2^5, 2^6, 2^7} : x \in Nat /\ x > 0
    OBVIOUS
  <2> QED BY <2>1, <2>2, <2>3, Zenon
<1>2. \A e \in 8..15 : 2^e \in Nat /\ 2^e > 0
  <2>1. \A e \in 8..15 : e \in {8, 9, 10, 11, 12, 13, 14, 15}
    OBVIOUS
  <2>2. \A e \in {8, 9, 10, 11, 12, 13, 14, 15} : 2^e \in {2^8, 2^9, 2^10, 2^11, 2^12, 2^13, 2^14, 2^15}
    BY Zenon
  <2>3. \A x \in {2^8, 2^9, 2^10, 2^11, 2^12, 2^13, 2^14, 2^15} : x \in Nat /\ x > 0
    OBVIOUS
  <2> QED BY <2>1, <2>2, <2>3, Zenon
<1>3. \A e \in 16..23 : 2^e \in Nat /\ 2^e > 0
  <2>1. \A e \in 16..23 : e \in {16, 17, 18, 19, 20, 21, 22, 23}
    OBVIOUS
  <2>2. \A e \in {16, 17, 18, 19, 20, 21, 22, 23} : 2^e \in {2^16, 2^17, 2^18, 2^19, 2^20, 2^21, 2^22, 2^23}
    BY Zenon
  <2>3. \A x \in {2^16, 2^17, 2^18, 2^19, 2^20, 2^21, 2^22, 2^23} : x \in Nat /\ x > 0
    OBVIOUS
  <2> QED BY <2>1, <2>2, <2>3, Zenon
<1>4. \A e \in 24..31 : 2^e \in Nat /\ 2^e > 0
  <2>1. \A e \in 24..31 : e \in {24, 25, 26, 27, 28, 29, 30, 31}
    OBVIOUS
  <2>2. \A e \in {24, 25, 26, 27, 28, 29, 30, 31} : 2^e \in {2^24, 2^25, 2^26, 2^27, 2^28, 2^29, 2^30, 2^31}
    BY Zenon
  <2>3. \A x \in {2^24, 2^25, 2^26, 2^27, 2^28, 2^29, 2^30, 2^31} : x \in Nat /\ x > 0
    OBVIOUS
  <2> QED BY <2>1, <2>2, <2>3, Zenon
<1>5. \A e \in 0..31 : e \in 0..7 \/ e \in 8..15 \/ e \in 16..23 \/ e \in 24..31
  OBVIOUS
<1> QED BY <1>1, <1>2, <1>3, <1>4, <1>5, Zenon

\* The rows of the table of MCS.
LEMMA McsRows ==
    \A i \in 1..29 : /\ McsTable[i][1] \in Nat /\ McsTable[i][2] \in Nat
                     /\ McsTable[i][3] \in Nat /\ McsTable[i][3] <= 55547
<1>1. ASSUME NEW i \in 1..29
      PROVE  i \in {1, 2, 3, 4, 5, 6, 7, 8, 9, 10, 11, 12, 13, 14, 15, 16, 17, 18, 19, 20,
                    21, 22, 23, 24, 25, 26, 27, 28, 29}
  OBVIOUS
<1>2. ASSUME NEW i \in 1..29
      PROVE  McsTable[i][1] \in Nat
  BY <1>1 DEF McsTable
<1>3. ASSUME NEW i \in 1..29
      PROVE  McsTable[i][2] \in Nat
  BY <1>1 DEF McsTable
<1>4. ASSUME NEW i \in 1..29
      PROVE  McsTable[i][3] \in Nat /\ McsTable[i][3] <= 55547
  BY <1>1 DEF McsTable
<1> QED BY <1>2, <1>3, <1>4

\* The MCS selected is a row of the table: of the rows that a CQI supports
\* one has the greatest efficiency and, among those, the greatest number.
LEMMA McsIsBest ==
    ASSUME NEW cqi, \E m \in 0..28 : McsTable[m + 1][3] <= CqiEfficiency[cqi]
    PROVE  /\ McsOf(cqi) \in 0..28
           /\ McsTable[McsOf(cqi) + 1][3] <= CqiEfficiency[cqi]
           /\ \A n \in 0..28 : McsTable[n + 1][3] <= CqiEfficiency[cqi] =>
                 McsTable[n + 1][3] <= McsTable[McsOf(cqi) + 1][3]
<1> DEFINE Supported == {m \in 0..28 : McsTable[m + 1][3] <= CqiEfficiency[cqi]}
           Better(m, n) == \/ McsTable[m + 1][3] > McsTable[n + 1][3]
                           \/ McsTable[m + 1][3] = McsTable[n + 1][3] /\ m >= n
           value(m) == 100 * McsTable[m + 1][3] + m
           values == {value(m) : m \in Supported}
           most == 5554728
<1>1. Supported # {} /\ McsOf(cqi) = CHOOSE m \in Supported : \A n \in Supported : Better(m, n)
  BY DEF McsOf
<1>2. \A m \in 0..28 : McsTable[m + 1][3] \in Nat /\ McsTable[m + 1][3] <= 55547
  BY McsRows
<1>3. \A m \in Supported : m \in 0..28
  OBVIOUS
<1>4. \A m \in Supported : value(m) \in Int /\ value(m) <= most
  BY <1>2, <1>3
<1>5. values \subseteq Int /\ values # {} /\ \A v \in values : v <= most
  BY <1>1, <1>4
<1>6. PICK m \in Supported : \A n \in Supported : value(n) <= value(m)
  <2>0. most \in Int
    OBVIOUS
  <2> HIDE DEF values, most
  <2>1. Sets!Max(values) \in values /\ \A v \in values : v <= Sets!Max(values)
    BY <1>5, <2>0, MaxOf
  <2>2. PICK m \in Supported : Sets!Max(values) = value(m)
    BY <2>1 DEF values
  <2>3. \A n \in Supported : value(n) \in values
    BY DEF values
  <2> QED BY <2>1, <2>2, <2>3
<1>7. ASSUME NEW n \in Supported
      PROVE  Better(m, n)
  <2> DEFINE a == McsTable[m + 1][3]
             b == McsTable[n + 1][3]
  <2>1. a \in Nat /\ b \in Nat /\ m \in 0..28 /\ n \in 0..28 /\ 100 * b + n <= 100 * a + m
    <3> HIDE DEF Supported
    <3> QED BY <1>2, <1>3, <1>6
  <2> HIDE DEF a, b, Supported
  <2>2. a > b \/ (a = b /\ m >= n)
    BY <2>1
  <2> QED BY <2>2 DEF a, b
<1> HIDE DEF Supported, Better
<1>8. McsOf(cqi) \in Supported /\ \A n \in Supported : Better(McsOf(cqi), n)
  BY <1>1, <1>7
<1>9. ASSUME NEW n \in Supported
      PROVE  McsTable[n + 1][3] <= McsTable[McsOf(cqi) + 1][3]
  <2> DEFINE a == McsTable[McsOf(cqi) + 1][3]
             b == McsTable[n + 1][3]
  <2>1. a \in Nat /\ b \in Nat
    BY <1>2, <1>3, <1>8
  <2>2. a > b \/ a = b
    BY <1>8 DEF Better
  <2> HIDE DEF a, b
  <2>3. b <= a
    BY <2>1, <2>2
  <2> QED BY <2>3 DEF a, b
<1> QED BY <1>3, <1>8, <1>9 DEF Supported

LEMMA McsIsRow ==
    ASSUME NEW cqi, McsOf(cqi) # NoMcs
    PROVE  /\ McsOf(cqi) \in 0..28
           /\ McsTable[McsOf(cqi) + 1][3] <= CqiEfficiency[cqi]
           /\ \A n \in 0..28 : McsTable[n + 1][3] <= CqiEfficiency[cqi] =>
                 McsTable[n + 1][3] <= McsTable[McsOf(cqi) + 1][3]
<1> DEFINE Supported == {m \in 0..28 : McsTable[m + 1][3] <= CqiEfficiency[cqi]}
<1>1. Supported # {}
  BY DEF McsOf
<1>2. \E m \in 0..28 : McsTable[m + 1][3] <= CqiEfficiency[cqi]
  BY <1>1
<1> QED BY <1>2, McsIsBest

\* Division rounded up.
LEMMA CeilDivBounds ==
    ASSUME NEW a \in Nat, NEW b \in Nat, b > 0
    PROVE  CeilDiv(a, b) \in Nat /\ b * CeilDiv(a, b) >= a
<1> DEFINE k == (-a) \div b
<1>1. k \in Int /\ b * k <= -a
  OBVIOUS
<1>2. k <= 0
  OBVIOUS
<1>3. -k \in Nat /\ b * (-k) = -(b * k) /\ b * k \in Int
  BY <1>1, <1>2
<1> HIDE DEF k
<1>4. b * (-k) >= a
  BY <1>1, <1>3
<1> QED BY <1>3, <1>4 DEF CeilDiv, k

\* A positive number lies in the octave of its logarithm.
LEMMA Octave ==
    ASSUME NEW x \in Nat, x > 0
    PROVE  \E e \in 0..30 : /\ FloorLog2(x) = e - 10
                            /\ 2^e <= x
                            /\ e < 30 => x < 2^(e + 1)
<1> DEFINE P(e) == 2^e <= x /\ (e < 30 => x < 2^(e + 1))
           T == {e \in 0..30 : 2^e <= x}
<1>1. T # {} /\ T \subseteq Int /\ \A e \in T : e <= 30
  <2>1. 0 \in T
    <3>1. 2^0 = 1
      OBVIOUS
    <3>2. 0 \in 0..30 /\ 2^0 <= x
      BY <3>1
    <3> QED BY <3>2, Zenon
  <2>2. T \subseteq 0..30
    BY Zenon
  <2> HIDE DEF T
  <2> QED BY <2>1, <2>2
<1>2. Sets!Max(T) \in T /\ \A e \in T : e <= Sets!Max(T)
  <2> DEFINE top == 30
  <2>1. top \in Int /\ \A e \in T : e <= top
    BY <1>1
  <2> HIDE DEF T, top
  <2> QED BY <1>1, <2>1, MaxOf
<1>3. P(Sets!Max(T))
  <2> DEFINE m == Sets!Max(T)
  <2>1. m \in 0..30 /\ 2^m <= x
    BY <1>2
  <2>2. ASSUME m < 30
        PROVE  x < 2^(m + 1)
    <3>1. m + 1 \in 0..30 /\ m + 1 \in 0..31 /\ ~(m + 1 <= m)
      BY <2>1, <2>2
    <3>2. m + 1 \notin T
      <4> HIDE DEF T
      <4> QED BY <1>2, <3>1
    <3>3. 2^(m + 1) \in Nat
      BY <3>1, Powers, Zenon
    <3>4. ~(2^(m + 1) <= x)
      BY <3>1, <3>2
    <3> QED BY <3>3, <3>4
  <2> QED BY <2>1, <2>2
<1> DEFINE e == CHOOSE e \in 0..30 : P(e)
<1>4. e \in 0..30 /\ P(e)
  <2>1. Sets!Max(T) \in 0..30
    BY <1>2
  <2> HIDE DEF P, T
  <2> QED BY <1>3, <2>1
<1>5. FloorLog2(x) = e - 10
  BY DEF FloorLog2
<1> HIDE DEF e
<1> QED BY <1>4, <1>5

\* The greatest amount of information, in 1024ths of a bit, that the table
\* of small transport blocks covers.
SmallInfo == 3824 * 1024

-----------------------------------------------------------------------------
(* More resources, or a better link, never carry less.                     *)

\* Each power is twice the one before.
LEMMA PowersDouble ==
    \A e \in 0..30 : 2^(e + 1) = 2 * 2^e
<1>1. ASSUME NEW e \in 0..7
      PROVE  2^(e + 1) = 2 * 2^e
  <2>1. e = 0 \/ e = 1 \/ e = 2 \/ e = 3 \/ e = 4 \/ e = 5 \/ e = 6 \/ e = 7
    OBVIOUS
  <2>2. /\ 2^(0 + 1) = 2 * 2^0 /\ 2^(1 + 1) = 2 * 2^1 /\ 2^(2 + 1) = 2 * 2^2
        /\ 2^(3 + 1) = 2 * 2^3 /\ 2^(4 + 1) = 2 * 2^4 /\ 2^(5 + 1) = 2 * 2^5
        /\ 2^(6 + 1) = 2 * 2^6 /\ 2^(7 + 1) = 2 * 2^7
    OBVIOUS
  <2> QED BY <2>1, <2>2, Zenon
<1>2. ASSUME NEW e \in 8..15
      PROVE  2^(e + 1) = 2 * 2^e
  <2>1. e = 8 \/ e = 9 \/ e = 10 \/ e = 11 \/ e = 12 \/ e = 13 \/ e = 14 \/ e = 15
    OBVIOUS
  <2>2. /\ 2^(8 + 1) = 2 * 2^8 /\ 2^(9 + 1) = 2 * 2^9 /\ 2^(10 + 1) = 2 * 2^10
        /\ 2^(11 + 1) = 2 * 2^11 /\ 2^(12 + 1) = 2 * 2^12 /\ 2^(13 + 1) = 2 * 2^13
        /\ 2^(14 + 1) = 2 * 2^14 /\ 2^(15 + 1) = 2 * 2^15
    OBVIOUS
  <2> QED BY <2>1, <2>2, Zenon
<1>3. ASSUME NEW e \in 16..23
      PROVE  2^(e + 1) = 2 * 2^e
  <2>1. e = 16 \/ e = 17 \/ e = 18 \/ e = 19 \/ e = 20 \/ e = 21 \/ e = 22 \/ e = 23
    OBVIOUS
  <2>2. /\ 2^(16 + 1) = 2 * 2^16 /\ 2^(17 + 1) = 2 * 2^17 /\ 2^(18 + 1) = 2 * 2^18
        /\ 2^(19 + 1) = 2 * 2^19 /\ 2^(20 + 1) = 2 * 2^20 /\ 2^(21 + 1) = 2 * 2^21
        /\ 2^(22 + 1) = 2 * 2^22 /\ 2^(23 + 1) = 2 * 2^23
    OBVIOUS
  <2> QED BY <2>1, <2>2, Zenon
<1>4. ASSUME NEW e \in 24..30
      PROVE  2^(e + 1) = 2 * 2^e
  <2>1. e = 24 \/ e = 25 \/ e = 26 \/ e = 27 \/ e = 28 \/ e = 29 \/ e = 30
    OBVIOUS
  <2>2. /\ 2^(24 + 1) = 2 * 2^24 /\ 2^(25 + 1) = 2 * 2^25 /\ 2^(26 + 1) = 2 * 2^26
        /\ 2^(27 + 1) = 2 * 2^27 /\ 2^(28 + 1) = 2 * 2^28 /\ 2^(29 + 1) = 2 * 2^29
        /\ 2^(30 + 1) = 2 * 2^30
    OBVIOUS
  <2> QED BY <2>1, <2>2, Zenon
<1>5. \A e \in 0..30 : e \in 0..7 \/ e \in 8..15 \/ e \in 16..23 \/ e \in 24..30
  OBVIOUS
<1> QED BY <1>1, <1>2, <1>3, <1>4, <1>5, Zenon

\* Powers grow with the exponent.
LEMMA PowersGrow ==
    ASSUME NEW d \in 0..31, NEW e \in 0..31, d <= e
    PROVE  2^d <= 2^e
<1> DEFINE T == {i \in Nat : d <= i /\ i <= 31 /\ ~(2^d <= 2^i)}
<1> SUFFICES ASSUME e \in T PROVE FALSE
  OBVIOUS
<1>1. PICK m \in T : \A i \in T : ~(i < m)
  BY LeastNumber
<1>2. \A i \in 0..31 : 2^i \in Nat
  BY Powers
<1>3. m # d /\ m \in 0..31
  BY <1>1, <1>2
<1>4. m - 1 \in 0..30 /\ m - 1 \in 0..31 /\ d <= m - 1 /\ m - 1 \notin T
  BY <1>1, <1>3
<1>5. 2^d <= 2^(m - 1)
  BY <1>4
<1>6. 2^m = 2 * 2^(m - 1)
  <2>1. (m - 1) + 1 = m
    BY <1>3
  <2>2. 2^((m - 1) + 1) = 2 * 2^(m - 1)
    BY <1>4, PowersDouble, Zenon
  <2> QED BY <2>1, <2>2
<1>7. 2^d \in Nat /\ 2^(m - 1) \in Nat
  BY <1>2, <1>4
<1>8. 2^d <= 2^m
  BY <1>5, <1>6, <1>7
<1> QED BY <1>1, <1>8

\* Whole division.
LEMMA DivBounds ==
    ASSUME NEW a \in Nat, NEW b \in Nat, b > 0
    PROVE  a \div b \in Nat /\ b * (a \div b) <= a /\ a < b * (a \div b) + b
OBVIOUS

\* Products grow with a factor.
LEMMA TimesGrows ==
    ASSUME NEW a \in Nat, NEW b \in Nat, NEW c \in Nat, b <= c
    PROVE  a * b \in Nat /\ a * c \in Nat /\ a * b <= a * c
OBVIOUS

\* A factor is bounded by the bound of its product.
LEMMA FactorBelow ==
    ASSUME NEW a \in Nat, NEW b \in Nat, NEW c \in Nat, a > 0, a * b < a * c + a
    PROVE  b <= c
<1> SUFFICES ASSUME c + 1 <= b PROVE FALSE
  OBVIOUS
<1>1. a * (c + 1) <= a * b
  BY TimesGrows
<1>2. a * (c + 1) = a * c + a
  OBVIOUS
<1> QED BY <1>1, <1>2

\* Division rounded up gives the least number of parts.
LEMMA CeilDivLeast ==
    ASSUME NEW a \in Nat, NEW b \in Nat, b > 0
    PROVE  /\ CeilDiv(a, b) \in Nat /\ b * CeilDiv(a, b) < a + b
           /\ \A k \in Nat : a <= b * k => CeilDiv(a, b) <= k
<1> DEFINE c == CeilDiv(a, b)
<1>1. c \in Nat
  BY CeilDivBounds
<1>2. b * c < a + b
  <2> DEFINE k == (-a) \div b
  <2>1. k \in Int /\ -a < b * k + b
    OBVIOUS
  <2>2. b * (-k) = -(b * k) /\ b * k \in Int
    BY <2>1
  <2> HIDE DEF k
  <2>3. b * (-k) < a + b
    BY <2>1, <2>2
  <2> QED BY <2>3 DEF CeilDiv, k
<1> HIDE DEF c
<1>3. ASSUME NEW k \in Nat, a <= b * k
      PROVE  c <= k
  <2>1. b * k \in Nat /\ b * c \in Nat
    BY <1>1
  <2>2. b * c < b * k + b
    BY <1>2, <1>3, <2>1
  <2> QED BY <1>1, <2>2, FactorBelow
<1> QED BY <1>1, <1>2, <1>3 DEF c

\* More takes no fewer parts.
LEMMA CeilDivGrows ==
    ASSUME NEW a \in Nat, NEW d \in Nat, a <= d, NEW b \in Nat, b > 0
    PROVE  CeilDiv(a, b) <= CeilDiv(d, b)
<1>1. CeilDiv(d, b) \in Nat /\ d <= b * CeilDiv(d, b)
  BY CeilDivBounds
<1>2. a <= b * CeilDiv(d, b)
  <2>1. b * CeilDiv(d, b) \in Nat
    BY <1>1
  <2> QED BY <1>1, <2>1
<1> QED BY <1>1, <1>2, CeilDivLeast

\* The bits of blocks equal code blocks of whole bytes, n bits being the
\* least they hold.
Blocks(n, blocks) == 8 * blocks * CeilDiv(n, 8 * blocks)

LEMMA BlocksHold ==
    ASSUME NEW n \in Nat, NEW c \in Nat, c > 0
    PROVE  Blocks(n, c) \in Nat /\ n <= Blocks(n, c) /\ Blocks(n, c) < n + 8 * c
<1> DEFINE b == 8 * c
<1>1. b \in Nat /\ b > 0
  OBVIOUS
<1>2. Blocks(n, c) = b * CeilDiv(n, b)
  BY DEF Blocks
<1> HIDE DEF b
<1>3. CeilDiv(n, b) \in Nat /\ n <= b * CeilDiv(n, b) /\ b * CeilDiv(n, b) < n + b
  BY <1>1, CeilDivBounds, CeilDivLeast
<1>4. b * CeilDiv(n, b) \in Nat
  BY <1>1, <1>3
<1> QED BY <1>2, <1>3, <1>4 DEF b

\* As many blocks of more bits.
LEMMA BlocksGrow ==
    ASSUME NEW n \in Nat, NEW m \in Nat, n <= m, NEW c \in Nat, c > 0
    PROVE  Blocks(n, c) <= Blocks(m, c)
<1> DEFINE b == 8 * c
<1>1. b \in Nat /\ b > 0
  OBVIOUS
<1>2. Blocks(n, c) = b * CeilDiv(n, b) /\ Blocks(m, c) = b * CeilDiv(m, b)
  BY DEF Blocks
<1> HIDE DEF b
<1>3. CeilDiv(n, b) \in Nat /\ CeilDiv(m, b) \in Nat /\ CeilDiv(n, b) <= CeilDiv(m, b)
  BY <1>1, CeilDivBounds, CeilDivGrows
<1> QED BY <1>1, <1>2, <1>3, TimesGrows

\* Bits cut into the fewest blocks of 8 * u bits: more bits fill no less.
LEMMA SegmentsGrow ==
    ASSUME NEW u \in Nat, u > 0, NEW n \in Nat, NEW m \in Nat, 0 < n, n <= m
    PROVE  Blocks(n, CeilDiv(n, 8 * u)) <= Blocks(m, CeilDiv(m, 8 * u))
<1> DEFINE b == 8 * u
           c == CeilDiv(n, b)
           d == CeilDiv(m, b)
<1>1. b \in Nat /\ b > 0
  OBVIOUS
<1>2. /\ c \in Nat /\ n <= b * c
      /\ d \in Nat /\ m <= b * d /\ b * d < m + b
      /\ c <= d
  <2> HIDE DEF b
  <2> QED BY <1>1, CeilDivBounds, CeilDivLeast, CeilDivGrows
<1>3. c > 0
  <2>1. c = 0 => b * c = 0
    BY <1>1
  <2> HIDE DEF c
  <2> QED BY <1>2, <2>1
<1> HIDE DEF c, d
<1>4. CASE c = d
  BY <1>2, <1>3, <1>4, BlocksGrow DEF c, d
<1>5. CASE c < d
  <2>1. Blocks(n, c) <= b * c
    <3>1. n <= (8 * c) * u /\ 8 * c \in Nat /\ 8 * c > 0
      BY <1>2, <1>3
    <3>2. CeilDiv(n, 8 * c) \in Nat /\ CeilDiv(n, 8 * c) <= u
      <4> DEFINE e == 8 * c
      <4> HIDE DEF e
      <4>1. e \in Nat /\ e > 0 /\ n <= e * u
        BY <3>1 DEF e
      <4>2. CeilDiv(n, e) \in Nat /\ CeilDiv(n, e) <= u
        BY <4>1, CeilDivLeast
      <4> QED BY <4>2 DEF e
    <3>3. (8 * c) * CeilDiv(n, 8 * c) <= (8 * c) * u
      BY <3>1, <3>2, TimesGrows
    <3> QED BY <1>2, <3>1, <3>2, <3>3 DEF Blocks
  <2>2. b * c < m
    <3> HIDE DEF b
    <3>1. b * (c + 1) <= b * d
      BY <1>1, <1>2, <1>5, TimesGrows
    <3>2. b * (c + 1) = b * c + b /\ b * c \in Nat /\ b * d \in Nat
      BY <1>1, <1>2
    <3> QED BY <1>1, <1>2, <3>1, <3>2
  <2>3. m <= Blocks(m, d) /\ Blocks(m, d) \in Nat /\ Blocks(n, c) \in Nat
    <3>1. c \in Nat /\ d \in Nat /\ d > 0
      BY <1>2, <1>3, <1>5
    <3>2. Blocks(n, c) \in Nat
      BY <1>3, <3>1, BlocksHold
    <3>3. m <= Blocks(m, d) /\ Blocks(m, d) \in Nat
      BY <3>1, BlocksHold
    <3> QED BY <3>2, <3>3
  <2>4. b * c \in Nat
    BY <1>1, <1>2
  <2>5. Blocks(n, c) <= Blocks(m, d)
    <3> HIDE DEF b
    <3> QED BY <2>1, <2>2, <2>3, <2>4
  <2> QED BY <2>5 DEF c, d
<1>6. c = d \/ c < d
  BY <1>2
<1> QED BY <1>4, <1>5, <1>6

\* The least number of an upper part of a set of naturals.
LEMMA MinLeast ==
    ASSUME NEW S, S \subseteq Nat, S # {}
    PROVE  \A s \in S : Sets!Min(S) <= s
<1>1. PICK m \in S : \A s \in S : ~(s < m)
  BY LeastNumber
<1>2. \E x \in S : \A y \in S : x <= y
  BY <1>1
<1> QED BY <1>2 DEF Sets!Min

\* The greater of two.
LEMMA MaxOfTwo ==
    ASSUME NEW a \in Int, NEW b \in Int
    PROVE  Sets!Max({a, b}) = IF a <= b THEN b ELSE a
<1>1. {a, b} \subseteq Int /\ {a, b} # {}
  OBVIOUS
<1>2. PICK n \in Int : a <= n /\ b <= n
  OBVIOUS
<1>3. \A s \in {a, b} : s <= n
  BY <1>2
<1>4. Sets!Max({a, b}) \in {a, b} /\ \A s \in {a, b} : s <= Sets!Max({a, b})
  BY <1>1, <1>3, MaxOf
<1> QED BY <1>4

\* What SmallBlock looks up: n rounded down to whole quanta, and at least 24.
DownTo(quantum, n) == quantum * (n \div (1024 * quantum))
AtLeast24(x) == IF 24 <= x THEN x ELSE 24
RoundedDown(n) == Sets!Max({24, DownTo(2^Sets!Max({3, FloorLog2(n) - 6}), n)})

\* There are three quanta, by octave.
LEMMA RoundedCases ==
    ASSUME NEW n \in Nat, n > 0, n <= SmallInfo
    PROVE  \/ n < 1048576 /\ RoundedDown(n) = AtLeast24(DownTo(8, n))
           \/ 1048576 <= n /\ n < 2097152 /\ RoundedDown(n) = AtLeast24(DownTo(16, n))
           \/ 2097152 <= n /\ RoundedDown(n) = AtLeast24(DownTo(32, n))
<1>1. PICK e \in 0..30 : FloorLog2(n) = e - 10 /\ 2^e <= n /\ (e < 30 => n < 2^(e + 1))
  BY Octave
<1>2. 2^20 = 1048576 /\ 2^21 = 2097152 /\ 2^22 = 4194304
  OBVIOUS
<1>3. e <= 21
  <2> SUFFICES ASSUME e >= 22 PROVE FALSE
    BY <1>1
  <2>1. e \in 0..31 /\ 22 \in 0..31
    OBVIOUS
  <2>2. 2^22 <= 2^e
    BY <2>1, PowersGrow
  <2>3. 2^e \in Nat
    BY <2>1, Powers, Zenon
  <2>4. 4194304 <= n
    BY <1>1, <1>2, <2>2, <2>3
  <2> QED BY <2>4 DEF SmallInfo
<1> DEFINE f == IF e <= 19 THEN 3 ELSE e - 16
<1>4. Sets!Max({3, FloorLog2(n) - 6}) = f
  <2>1. e - 16 \in Int /\ FloorLog2(n) - 6 = e - 16
    BY <1>1
  <2>2. Sets!Max({3, e - 16}) = IF 3 <= e - 16 THEN e - 16 ELSE 3
    BY <2>1, MaxOfTwo
  <2> QED BY <2>1, <2>2
<1>5. ASSUME NEW q \in Nat, q > 0, q = 2^f
      PROVE  RoundedDown(n) = AtLeast24(DownTo(q, n))
  <2>1. RoundedDown(n) = Sets!Max({24, DownTo(q, n)})
    <3> HIDE DEF f
    <3> QED BY <1>4, <1>5 DEF RoundedDown
  <2>2. DownTo(q, n) \in Nat
    <3>1. 1024 * q \in Nat /\ 1024 * q > 0
      BY <1>5
    <3>2. n \div (1024 * q) \in Nat
      BY <3>1, DivBounds
    <3> QED BY <3>2 DEF DownTo
  <2> QED BY <2>1, <2>2, MaxOfTwo DEF AtLeast24
<1>6. CASE e <= 19
  <2>1. 2^(e + 1) <= 2^20 /\ 2^(e + 1) \in Nat /\ n < 2^(e + 1)
    <3>1. e + 1 \in 0..31 /\ 20 \in 0..31 /\ e + 1 <= 20 /\ e < 30
      BY <1>6
    <3> QED BY <1>1, <3>1, PowersGrow, Powers
  <2>2. 8 = 2^f
    BY <1>6
  <2>3. RoundedDown(n) = AtLeast24(DownTo(8, n))
    <3> HIDE DEF f
    <3> QED BY <1>5, <2>2
  <2> QED BY <1>2, <2>1, <2>3
<1>7. CASE e = 20
  <2>1. 16 = 2^f /\ e + 1 = 21
    BY <1>7
  <2>2. RoundedDown(n) = AtLeast24(DownTo(16, n))
    <3> HIDE DEF f
    <3> QED BY <1>5, <2>1
  <2>3. 2^20 <= n /\ n < 2^21
    BY <1>1, <1>7, <2>1
  <2> QED BY <1>2, <2>2, <2>3
<1>8. CASE e = 21
  <2>1. 32 = 2^f
    BY <1>8
  <2>2. RoundedDown(n) = AtLeast24(DownTo(32, n))
    <3> HIDE DEF f
    <3> QED BY <1>5, <2>1
  <2>3. 2^21 <= n
    BY <1>1, <1>8
  <2> QED BY <1>2, <2>2, <2>3
<1> QED BY <1>1, <1>3, <1>6, <1>7, <1>8

\* More rounds down to no less, across the octaves too.
LEMMA RoundedGrows ==
    ASSUME NEW m \in Nat, m > 0, NEW n \in Nat, m <= n, n <= SmallInfo
    PROVE  /\ RoundedDown(m) \in Nat /\ RoundedDown(n) \in Nat
           /\ RoundedDown(m) <= RoundedDown(n) /\ RoundedDown(n) <= 3824
<1>1. n <= 3915776 /\ m <= SmallInfo /\ n > 0
  BY DEF SmallInfo
<1>2. /\ DownTo(8, m) \in Nat /\ DownTo(8, n) \in Nat /\ DownTo(8, m) <= DownTo(8, n)
      /\ n < 1048576 => DownTo(8, n) <= 1024
      /\ m < 1048576 => DownTo(8, m) <= 1024
  BY DEF DownTo
<1>3. /\ DownTo(16, m) \in Nat /\ DownTo(16, n) \in Nat /\ DownTo(16, m) <= DownTo(16, n)
      /\ n < 2097152 => DownTo(16, n) <= 2048
      /\ m < 2097152 => DownTo(16, m) <= 2048
      /\ 1048576 <= n => 1024 <= DownTo(16, n)
  BY DEF DownTo
<1>4. /\ DownTo(32, m) \in Nat /\ DownTo(32, n) \in Nat /\ DownTo(32, m) <= DownTo(32, n)
      /\ 2097152 <= n => 2048 <= DownTo(32, n)
      /\ DownTo(32, n) <= 3824
  BY <1>1 DEF DownTo
<1>5. \/ m < 1048576 /\ RoundedDown(m) = AtLeast24(DownTo(8, m))
      \/ 1048576 <= m /\ m < 2097152 /\ RoundedDown(m) = AtLeast24(DownTo(16, m))
      \/ 2097152 <= m /\ RoundedDown(m) = AtLeast24(DownTo(32, m))
  BY <1>1, RoundedCases
<1>6. \/ n < 1048576 /\ RoundedDown(n) = AtLeast24(DownTo(8, n))
      \/ 1048576 <= n /\ n < 2097152 /\ RoundedDown(n) = AtLeast24(DownTo(16, n))
      \/ 2097152 <= n /\ RoundedDown(n) = AtLeast24(DownTo(32, n))
  BY <1>1, RoundedCases
<1> QED BY <1>2, <1>3, <1>4, <1>5, <1>6 DEF AtLeast24

\* Within the table, more information has no smaller block.
LEMMA SmallBlockGrows ==
    ASSUME NEW m \in Nat, m > 0, NEW n \in Nat, m <= n, n <= SmallInfo
    PROVE  /\ SmallBlock(m) \in Nat /\ SmallBlock(n) \in Nat
           /\ SmallBlock(m) <= SmallBlock(n) /\ SmallBlock(n) <= 3824
<1> DEFINE Fitting(x) == {s \in SmallTbs : s >= RoundedDown(x)}
<1>1. SmallTbs \subseteq Nat /\ 3824 \in SmallTbs
  BY DEF SmallTbs
<1>2. /\ RoundedDown(m) \in Nat /\ RoundedDown(n) \in Nat
      /\ RoundedDown(m) <= RoundedDown(n) /\ RoundedDown(n) <= 3824
  BY RoundedGrows
<1>3. SmallBlock(m) = Sets!Min(Fitting(m)) /\ SmallBlock(n) = Sets!Min(Fitting(n))
  BY DEF SmallBlock, RoundedDown, DownTo
<1>4. /\ Fitting(n) \subseteq Fitting(m) /\ 3824 \in Fitting(n)
      /\ Fitting(m) \subseteq Nat /\ Fitting(n) \subseteq Nat
  <2>1. \A s \in SmallTbs : s \in Nat
    BY <1>1
  <2>2. \A s \in SmallTbs : s >= RoundedDown(n) => s >= RoundedDown(m)
    BY <1>2, <2>1
  <2>3. Fitting(n) \subseteq Fitting(m)
    BY <2>2
  <2>4. 3824 \in Fitting(n)
    BY <1>1, <1>2
  <2>5. Fitting(m) \subseteq Nat /\ Fitting(n) \subseteq Nat
    BY <2>1
  <2> QED BY <2>3, <2>4, <2>5
<1> HIDE DEF Fitting
<1>5. Fitting(m) # {} /\ Fitting(n) # {}
  BY <1>4
<1>6. Sets!Min(Fitting(n)) \in Fitting(n) /\ \A s \in Fitting(n) : Sets!Min(Fitting(n)) <= s
  BY <1>4, <1>5, MinOf, MinLeast
<1>7. /\ Sets!Min(Fitting(m)) \in Fitting(m)
      /\ \A s \in Fitting(m) : Sets!Min(Fitting(m)) <= s
  BY <1>4, <1>5, MinOf, MinLeast
<1> QED BY <1>3, <1>4, <1>6, <1>7

\* The quantum of a block beyond the table, and the octave it comes from.
Shifted(n) == n - 24 * 1024
StepOf(n)  == FloorLog2(Shifted(n)) - 5
RoundedHalfUp(n) ==
    2^StepOf(n) * ((2 * Shifted(n) + 1024 * 2^StepOf(n)) \div (2048 * 2^StepOf(n)))

\* Fifteen powers further.
LEMMA PowersShift ==
    \A e \in 0..15 : 2^(e + 15) = 2^15 * 2^e
<1>1. ASSUME NEW e \in 0..7
      PROVE  2^(e + 15) = 2^15 * 2^e
  <2>1. e = 0 \/ e = 1 \/ e = 2 \/ e = 3 \/ e = 4 \/ e = 5 \/ e = 6 \/ e = 7
    OBVIOUS
  <2>2. /\ 2^(0 + 15) = 2^15 * 2^0 /\ 2^(1 + 15) = 2^15 * 2^1
        /\ 2^(2 + 15) = 2^15 * 2^2 /\ 2^(3 + 15) = 2^15 * 2^3
        /\ 2^(4 + 15) = 2^15 * 2^4 /\ 2^(5 + 15) = 2^15 * 2^5
        /\ 2^(6 + 15) = 2^15 * 2^6 /\ 2^(7 + 15) = 2^15 * 2^7
    OBVIOUS
  <2> QED BY <2>1, <2>2, Zenon
<1>2. ASSUME NEW e \in 8..15
      PROVE  2^(e + 15) = 2^15 * 2^e
  <2>1. e = 8 \/ e = 9 \/ e = 10 \/ e = 11 \/ e = 12 \/ e = 13 \/ e = 14 \/ e = 15
    OBVIOUS
  <2>2. /\ 2^(8 + 15) = 2^15 * 2^8 /\ 2^(9 + 15) = 2^15 * 2^9
        /\ 2^(10 + 15) = 2^15 * 2^10 /\ 2^(11 + 15) = 2^15 * 2^11
        /\ 2^(12 + 15) = 2^15 * 2^12 /\ 2^(13 + 15) = 2^15 * 2^13
        /\ 2^(14 + 15) = 2^15 * 2^14 /\ 2^(15 + 15) = 2^15 * 2^15
    OBVIOUS
  <2> QED BY <2>1, <2>2, Zenon
<1>3. \A e \in 0..15 : e \in 0..7 \/ e \in 8..15
  OBVIOUS
<1> QED BY <1>1, <1>2, <1>3, Zenon

\* The quantum is a 32nd to a 64th of what is rounded, or the greatest one.
LEMMA StepParts ==
    ASSUME NEW n \in Nat, n > SmallInfo
    PROVE  /\ Shifted(n) \in Nat /\ Shifted(n) > 3891200
           /\ StepOf(n) \in 6..15 /\ 2^StepOf(n) \in Nat /\ 2^StepOf(n) > 0
           /\ 32768 * 2^StepOf(n) <= Shifted(n)
           /\ StepOf(n) < 15 => Shifted(n) < 65536 * 2^StepOf(n)
<1>1. Shifted(n) \in Nat /\ Shifted(n) > 3891200
  BY DEF Shifted, SmallInfo
<1>2. PICK e \in 0..30 : /\ FloorLog2(Shifted(n)) = e - 10 /\ 2^e <= Shifted(n)
                         /\ e < 30 => Shifted(n) < 2^(e + 1)
  <2>1. Shifted(n) > 0
    BY <1>1
  <2> QED BY <1>1, <2>1, Octave
<1>3. e >= 21
  <2> SUFFICES ASSUME e <= 20 PROVE FALSE
    BY <1>2
  <2>1. e + 1 \in 0..31 /\ 21 \in 0..31 /\ e + 1 <= 21 /\ e < 30
    BY <1>2
  <2>2. 2^(e + 1) <= 2^21 /\ 2^(e + 1) \in Nat
    BY <2>1, PowersGrow, Powers
  <2>3. 2^21 = 2097152
    OBVIOUS
  <2> QED BY <1>1, <1>2, <2>1, <2>2, <2>3
<1> DEFINE s == e - 15
<1>4. s \in 6..15 /\ StepOf(n) = s /\ s + 15 = e
  BY <1>2, <1>3 DEF StepOf
<1> HIDE DEF s
<1>5. 2^s \in Nat /\ 2^s > 0 /\ s \in 0..15
  <2>1. s \in 0..31 /\ s \in 0..15
    BY <1>4
  <2> QED BY <2>1, Powers, Zenon
<1>6. 2^e = 32768 * 2^s
  <2>1. 2^e = 2^15 * 2^s
    BY <1>4, <1>5, PowersShift, Zenon
  <2>2. 2^15 = 32768
    OBVIOUS
  <2> QED BY <2>1, <2>2
<1>7. 2^(e + 1) = 65536 * 2^s
  <2>1. 2^(e + 1) = 2 * 2^e
    BY PowersDouble, Zenon
  <2> QED BY <1>5, <1>6, <2>1
<1>8. s < 15 <=> e < 30
  BY <1>4
<1> QED BY <1>1, <1>2, <1>4, <1>5, <1>6, <1>7, <1>8

\* x rounds to k quanta: it is within half of one.
RoundsTo(x, q, k) ==
    2048 * (q * k) <= 2 * x + 1024 * q /\ 2 * x + 1024 * q < 2048 * (q * k) + 2048 * q

LEMMA RoundedHalf ==
    ASSUME NEW x \in Nat, NEW q \in Nat, q > 0,
           NEW k, k = (2 * x + 1024 * q) \div (2048 * q)
    PROVE  k \in Nat /\ q * k \in Nat /\ RoundsTo(x, q, k)
<1> DEFINE a == 2 * x + 1024 * q
           b == 2048 * q
<1>1. a \in Nat /\ b \in Nat /\ b > 0 /\ k = a \div b
  OBVIOUS
<1>2. k \in Nat /\ b * k <= a /\ a < b * k + b
  <2> HIDE DEF a, b
  <2> QED BY <1>1, DivBounds
<1>3. b * k = 2048 * (q * k) /\ q * k \in Nat
  BY <1>2
<1>4. k \in Nat /\ q * k \in Nat /\ 2048 * (q * k) <= a /\ a < 2048 * (q * k) + b
  <2> HIDE DEF a, b
  <2> QED BY <1>2, <1>3
<1> QED BY <1>4 DEF RoundsTo

\* Two quanta are equal, or of different octaves.
SameOrFarther(x, q, y, r) == q = r \/ (2 * q <= r /\ x < 65536 * q /\ 32768 * r <= y)

\* More rounds to no less, across the octaves too.
LEMMA HalfUpGrows ==
    ASSUME NEW x \in Nat, NEW y \in Nat, x <= y,
           NEW q \in Nat, q > 0, NEW r \in Nat, r > 0,
           NEW i \in Nat, NEW k \in Nat,
           RoundsTo(x, q, i), RoundsTo(y, r, k), SameOrFarther(x, q, y, r)
    PROVE  q * i <= r * k
<1>0. /\ 2048 * (q * i) <= 2 * x + 1024 * q
      /\ 2 * y + 1024 * r < 2048 * (r * k) + 2048 * r
  BY DEF RoundsTo
<1>1. CASE q = r
  <2>1. q * i \in Nat /\ q * k \in Nat
    OBVIOUS
  <2>2. q * i < q * k + q
    BY <1>0, <1>1, <2>1
  <2>3. i <= k
    BY <2>2, FactorBelow
  <2> QED BY <1>1, <2>3, TimesGrows
<1>2. CASE 2 * q <= r /\ x < 65536 * q /\ 32768 * r <= y
  <2>1. q * i \in Nat /\ r * k \in Nat /\ q * 64 = 64 * q /\ r * 32 = 32 * r
    OBVIOUS
  <2>2. q * i < q * 64 + q
    BY <1>0, <1>2, <2>1
  <2>3. i <= 64
    BY <2>2, FactorBelow
  <2>4. r * 32 < r * k + r
    BY <1>0, <1>2, <2>1
  <2>5. 32 <= k
    BY <2>4, FactorBelow
  <2>6. q * i <= q * 64 /\ r * 32 <= r * k
    BY <2>3, <2>5, TimesGrows
  <2> QED BY <1>2, <2>1, <2>6
<1> QED BY <1>1, <1>2 DEF SameOrFarther

\* What Quantized returns is at least 3840 and within a 64th of what it is
\* given, and more information quantizes to no fewer bits.
LEMMA QuantizedParts ==
    ASSUME NEW n \in Nat, n > SmallInfo
    PROVE  /\ Quantized(n) \in Nat /\ Quantized(n) >= 3840 /\ RoundedHalfUp(n) \in Nat
           /\ Quantized(n) = IF 3840 <= RoundedHalfUp(n) THEN RoundedHalfUp(n) ELSE 3840
           /\ 65536 * Quantized(n) <= 65 * Shifted(n)
           /\ 63 * Shifted(n) <= 65536 * Quantized(n)
<1> DEFINE x == Shifted(n)
           q == 2^StepOf(n)
           k == (2 * x + 1024 * q) \div (2048 * q)
           r == q * k
<1>1. x \in Nat /\ x > 3891200 /\ q \in Nat /\ q > 0 /\ 32768 * q <= x
  BY StepParts
<1>2. RoundedHalfUp(n) = r
  BY DEF RoundedHalfUp
<1>3. Quantized(n) = Sets!Max({3840, r})
  BY DEF Quantized, Shifted, StepOf
<1> HIDE DEF x, q
<1>4. r \in Nat /\ RoundsTo(x, q, k)
  BY <1>1, RoundedHalf
<1> HIDE DEF k
<1>5. Quantized(n) = IF 3840 <= r THEN r ELSE 3840
  BY <1>3, <1>4, MaxOfTwo
<1>6. 65536 * r <= 65 * x /\ 63 * x <= 65536 * r
  <2>1. 2048 * r <= 2 * x + 1024 * q /\ 2 * x + 1024 * q < 2048 * r + 2048 * q
    BY <1>4 DEF RoundsTo, r
  <2> HIDE DEF r
  <2> QED BY <1>1, <1>4, <2>1
<1> QED BY <1>1, <1>2, <1>4, <1>5, <1>6 DEF x

LEMMA QuantizedGrows ==
    ASSUME NEW m \in Nat, m > SmallInfo, NEW n \in Nat, m <= n
    PROVE  Quantized(m) <= Quantized(n)
<1>0. n > SmallInfo
  BY DEF SmallInfo
<1> DEFINE x == Shifted(m)
           q == 2^StepOf(m)
           i == (2 * x + 1024 * q) \div (2048 * q)
           y == Shifted(n)
           r == 2^StepOf(n)
           k == (2 * y + 1024 * r) \div (2048 * r)
<1>1. /\ x \in Nat /\ q \in Nat /\ q > 0 /\ 32768 * q <= x /\ StepOf(m) \in 6..15
      /\ StepOf(m) < 15 => x < 65536 * q
  BY StepParts
<1>2. /\ y \in Nat /\ r \in Nat /\ r > 0 /\ 32768 * r <= y /\ StepOf(n) \in 6..15
      /\ StepOf(n) < 15 => y < 65536 * r
  BY <1>0, StepParts
<1>3. x <= y
  BY DEF Shifted
<1>4. SameOrFarther(x, q, y, r)
  <2>0. StepOf(m) \in 6..15 /\ StepOf(n) \in 6..15
    BY <1>1, <1>2
  <2>1. ASSUME NEW a \in 6..15, NEW b \in 6..15, a < b
        PROVE  2 * 2^a <= 2^b /\ 2^a \in Nat /\ 2^b \in Nat
    <3>1. a \in 0..30 /\ a \in 0..31 /\ a + 1 \in 0..31 /\ b \in 0..31 /\ a + 1 <= b
      BY <2>1
    <3>2. 2^(a + 1) <= 2^b
      BY <3>1, PowersGrow
    <3>3. 2^(a + 1) = 2 * 2^a
      BY <3>1, PowersDouble, Zenon
    <3>4. 2^a \in Nat /\ 2^b \in Nat
      BY <3>1, Powers, Zenon
    <3> QED BY <3>2, <3>3, <3>4
  <2>2. CASE StepOf(m) = StepOf(n)
    BY <2>2 DEF SameOrFarther
  <2>3. CASE StepOf(m) < StepOf(n)
    <3>1. 2 * q <= r
      BY <2>0, <2>1, <2>3, Zenon
    <3>2. StepOf(m) < 15
      BY <2>0, <2>3
    <3> HIDE DEF x, y, q, r
    <3> QED BY <1>1, <1>2, <3>1, <3>2 DEF SameOrFarther
  <2>4. CASE StepOf(n) < StepOf(m)
    <3>1. 2 * r <= q
      BY <2>0, <2>1, <2>4, Zenon
    <3>2. StepOf(n) < 15
      BY <2>0, <2>4
    <3> HIDE DEF x, y, q, r
    <3> QED BY <1>1, <1>2, <1>3, <3>1, <3>2
  <2>5. StepOf(m) = StepOf(n) \/ StepOf(m) < StepOf(n) \/ StepOf(n) < StepOf(m)
    BY <2>0
  <2> QED BY <2>2, <2>3, <2>4, <2>5
<1>5. RoundedHalfUp(m) = q * i /\ RoundedHalfUp(n) = r * k
  BY DEF RoundedHalfUp
<1> HIDE DEF x, y, q, r
<1>11. i = (2 * x + 1024 * q) \div (2048 * q) /\ k = (2 * y + 1024 * r) \div (2048 * r)
  OBVIOUS
<1> HIDE DEF i, k
<1>6. i \in Nat /\ q * i \in Nat /\ RoundsTo(x, q, i)
  <2>1. x \in Nat /\ q \in Nat /\ q > 0
    BY <1>1
  <2>2. i = (2 * x + 1024 * q) \div (2048 * q)
    BY <1>11
  <2> QED BY <2>1, <2>2, RoundedHalf
<1>7. k \in Nat /\ r * k \in Nat /\ RoundsTo(y, r, k)
  <2>1. y \in Nat /\ r \in Nat /\ r > 0
    BY <1>2
  <2>2. k = (2 * y + 1024 * r) \div (2048 * r)
    BY <1>11
  <2> QED BY <2>1, <2>2, RoundedHalf
<1>8. q * i <= r * k
  BY <1>1, <1>2, <1>3, <1>4, <1>6, <1>7, HalfUpGrows
<1>9. Quantized(m) = IF 3840 <= RoundedHalfUp(m) THEN RoundedHalfUp(m) ELSE 3840
  BY QuantizedParts
<1>10. Quantized(n) = IF 3840 <= RoundedHalfUp(n) THEN RoundedHalfUp(n) ELSE 3840
  BY <1>0, QuantizedParts
<1> QED BY <1>5, <1>6, <1>7, <1>8, <1>9, <1>10

\* A block beyond the table is its code blocks' bits less a CRC, and holds
\* what was quantized.
LEMMA LargeParts ==
    ASSUME NEW n \in Nat, n > SmallInfo, NEW rate \in Nat
    PROVE  LET bits   == Quantized(n)
               blocks == CodeBlocks(bits, rate)
           IN  /\ bits \in Nat /\ bits >= 3840 /\ blocks \in Nat /\ blocks > 0
               /\ LargeBlock(n, rate) = Blocks(bits + 24, blocks) - 24
               /\ LargeBlock(n, rate) \in Nat /\ LargeBlock(n, rate) >= bits
<1> DEFINE bits == Quantized(n)
           blocks == CodeBlocks(bits, rate)
<1>1. bits \in Nat /\ bits >= 3840
  BY QuantizedParts
<1>2. LargeBlock(n, rate) = Blocks(bits + 24, blocks) - 24
  BY DEF LargeBlock, Blocks
<1> HIDE DEF bits
<1>3. blocks \in Nat /\ blocks > 0
  <2> DEFINE a == bits + 24
  <2>0. a \in Nat /\ a > 0
    BY <1>1
  <2> HIDE DEF a
  <2>1. CeilDiv(a, 3816) \in Nat /\ 3816 * CeilDiv(a, 3816) >= a
    BY <2>0, CeilDivBounds
  <2>2. CeilDiv(a, 8424) \in Nat /\ 8424 * CeilDiv(a, 8424) >= a
    BY <2>0, CeilDivBounds
  <2>3. CeilDiv(a, 3816) > 0 /\ CeilDiv(a, 8424) > 0
    BY <2>0, <2>1, <2>2
  <2> QED BY <2>1, <2>2, <2>3 DEF CodeBlocks, a
<1> HIDE DEF blocks
<1>4. bits + 24 <= Blocks(bits + 24, blocks) /\ Blocks(bits + 24, blocks) \in Nat
  <2>1. bits + 24 \in Nat
    BY <1>1
  <2> QED BY <1>3, <2>1, BlocksHold
<1> QED BY <1>1, <1>2, <1>3, <1>4 DEF bits, blocks

\* More information has no smaller block at rates of one kind, whose blocks
\* are cut alike.
LEMMA LargeGrows ==
    ASSUME NEW m \in Nat, m > SmallInfo, NEW n \in Nat, m <= n,
           NEW rate \in Nat, NEW higher \in Nat, rate <= 256 <=> higher <= 256
    PROVE  LargeBlock(m, rate) <= LargeBlock(n, higher)
<1>0. n > SmallInfo
  BY DEF SmallInfo
<1> DEFINE a == Quantized(m) + 24
           b == Quantized(n) + 24
           c == CodeBlocks(Quantized(m), rate)
           d == CodeBlocks(Quantized(n), higher)
<1>1. /\ a \in Nat /\ a > 0 /\ b \in Nat /\ a <= b
      /\ Quantized(m) = a - 24 /\ Quantized(n) = b - 24
  <2>1. Quantized(m) \in Nat /\ Quantized(n) \in Nat /\ Quantized(m) <= Quantized(n)
    BY <1>0, QuantizedParts, QuantizedGrows
  <2> QED BY <2>1
<1>2. c \in Nat /\ c > 0 /\ LargeBlock(m, rate) = Blocks(a, c) - 24
  BY LargeParts
<1>3. d \in Nat /\ d > 0 /\ LargeBlock(n, higher) = Blocks(b, d) - 24
  BY <1>0, LargeParts
<1>4. Blocks(a, c) <= Blocks(b, d)
  <2>1. CASE rate <= 256
    <3>1. c = CeilDiv(a, 8 * 477) /\ d = CeilDiv(b, 8 * 477)
      BY <2>1 DEF CodeBlocks
    <3> HIDE DEF a, b, c, d
    <3>2. Blocks(a, CeilDiv(a, 8 * 477)) <= Blocks(b, CeilDiv(b, 8 * 477))
      <4> DEFINE u == 477
      <4>1. u \in Nat /\ u > 0
        OBVIOUS
      <4> HIDE DEF u
      <4>2. Blocks(a, CeilDiv(a, 8 * u)) <= Blocks(b, CeilDiv(b, 8 * u))
        BY <1>1, <4>1, SegmentsGrow
      <4> QED BY <4>2 DEF u
    <3> QED BY <3>1, <3>2
  <2>2. CASE rate > 256
    <3>1. /\ c = IF a > 8448 THEN CeilDiv(a, 8 * 1053) ELSE 1
          /\ d = IF b > 8448 THEN CeilDiv(b, 8 * 1053) ELSE 1
      <4>0. ~(rate <= 256) /\ ~(higher <= 256)
        BY <2>2
      <4>1. c = IF Quantized(m) > 8424 THEN CeilDiv(a, 8424) ELSE 1
        BY <4>0 DEF CodeBlocks
      <4>2. d = IF Quantized(n) > 8424 THEN CeilDiv(b, 8424) ELSE 1
        BY <4>0 DEF CodeBlocks
      <4> HIDE DEF a, b, c, d
      <4> QED BY <1>1, <4>1, <4>2
    <3> HIDE DEF a, b, c, d
    <3>2. CASE a > 8448
      <4>1. Blocks(a, CeilDiv(a, 8 * 1053)) <= Blocks(b, CeilDiv(b, 8 * 1053))
        <5> DEFINE u == 1053
        <5>1. u \in Nat /\ u > 0
          OBVIOUS
        <5> HIDE DEF u
        <5>2. Blocks(a, CeilDiv(a, 8 * u)) <= Blocks(b, CeilDiv(b, 8 * u))
          BY <1>1, <5>1, SegmentsGrow
        <5> QED BY <5>2 DEF u
      <4>2. a > 8448 /\ b > 8448
        BY <1>1, <3>2
      <4> QED BY <3>1, <4>1, <4>2
    <3>3. CASE ~(b > 8448)
      <4>1. c = 1 /\ d = 1
        BY <1>1, <3>1, <3>3
      <4> QED BY <1>1, <4>1, BlocksGrow
    <3>4. CASE ~(a > 8448) /\ b > 8448
      <4>1. c = 1
        BY <3>1, <3>4
      <4>2. Blocks(a, 1) <= Blocks(8448, 1)
        BY <1>1, <3>4, BlocksGrow
      <4>3. Blocks(8448, 1) = 8448
        BY DEF Blocks, CeilDiv
      <4>4. b <= Blocks(b, d) /\ Blocks(b, d) \in Nat
        BY <1>1, <1>3, BlocksHold
      <4>5. Blocks(a, 1) \in Nat
        BY <1>1, BlocksHold
      <4> QED BY <1>1, <3>4, <4>1, <4>2, <4>3, <4>4, <4>5
    <3> QED BY <3>2, <3>3, <3>4
  <2> QED BY <2>1, <2>2
<1>5. Blocks(a, c) \in Nat /\ Blocks(b, d) \in Nat
  <2> HIDE DEF a, b, c, d
  <2> QED BY <1>1, <1>2, <1>3, BlocksHold
<1> HIDE DEF a, b, c, d
<1> QED BY <1>2, <1>3, <1>4, <1>5

\* From the low rates to the others there is so much more information that
\* neither the rounding nor the other cut makes up for it.
LEMMA LargeGrowsAcross ==
    ASSUME NEW m \in Nat, m > SmallInfo, NEW n \in Nat, 616 * m <= 502 * n,
           NEW rate \in Nat, NEW higher \in Nat, rate <= 256
    PROVE  LargeBlock(m, rate) <= LargeBlock(n, higher)
<1>0. n > SmallInfo
  BY DEF SmallInfo
<1> DEFINE a == Quantized(m)
           b == Quantized(n)
           c == CodeBlocks(a, rate)
<1>1. /\ a \in Nat /\ b \in Nat /\ a >= 3840
      /\ 65536 * a <= 65 * Shifted(m) /\ 63 * Shifted(n) <= 65536 * b
  BY <1>0, QuantizedParts
<1>2. Shifted(m) = m - 24576 /\ Shifted(n) = n - 24576
  BY DEF Shifted
<1>3. c \in Nat /\ c > 0 /\ LargeBlock(m, rate) = Blocks(a + 24, c) - 24
  BY LargeParts
<1>4. LargeBlock(n, higher) \in Nat /\ b <= LargeBlock(n, higher)
  BY <1>0, LargeParts
<1>5. c = CeilDiv(a + 24, 3816)
  BY DEF CodeBlocks
<1> HIDE DEF a, b, c
<1>6. 3816 * c < (a + 24) + 3816
  <2>1. a + 24 \in Nat
    BY <1>1
  <2> QED BY <1>5, <2>1, CeilDivLeast
<1>7. Blocks(a + 24, c) < (a + 24) + 8 * c /\ Blocks(a + 24, c) \in Nat
  <2>1. a + 24 \in Nat
    BY <1>1
  <2> QED BY <1>3, <2>1, BlocksHold
<1>8. a + 8 * c <= b
  <2>1. 65536 * a <= 65 * (m - 24576) /\ 63 * (n - 24576) <= 65536 * b
    BY <1>1, <1>2
  <2> QED BY <1>1, <1>3, <1>6, <2>1
<1> QED BY <1>1, <1>3, <1>4, <1>7, <1>8

\* The bits an MCS carries per resource element, in 1024ths.
Product(row) == row[1] * row[2]

\* The efficiencies of the table are the products, rounded; the low rates
\* are those of its first four rows.
LEMMA McsProducts ==
    \A i \in 1..29 :
        /\ Product(McsTable[i]) \in Nat
        /\ 1024 * McsTable[i][3] <= 10000 * Product(McsTable[i]) + 512
        /\ 10000 * Product(McsTable[i]) <= 1024 * McsTable[i][3] + 512
        /\ McsTable[i][2] <= 256 => Product(McsTable[i]) <= 502
        /\ McsTable[i][2] > 256 => Product(McsTable[i]) >= 616
<1> DEFINE Row(i) == McsTable[i]
           P(i) ==
              /\ Product(Row(i)) \in Nat
              /\ 1024 * Row(i)[3] <= 10000 * Product(Row(i)) + 512
              /\ 10000 * Product(Row(i)) <= 1024 * Row(i)[3] + 512
              /\ Row(i)[2] <= 256 => Product(Row(i)) <= 502
              /\ Row(i)[2] > 256 => Product(Row(i)) >= 616
<1>1. /\ Row(1) = <<2, 120, 2344>> /\ Row(2) = <<2, 157, 3066>> /\ Row(3) = <<2, 193, 3770>>
      /\ Row(4) = <<2, 251, 4902>> /\ Row(5) = <<2, 308, 6016>> /\ Row(6) = <<2, 379, 7402>>
      /\ Row(7) = <<2, 449, 8770>> /\ Row(8) = <<2, 526, 10273>> /\ Row(9) = <<2, 602, 11758>>
      /\ Row(10) = <<2, 679, 13262>> /\ Row(11) = <<4, 340, 13281>> /\ Row(12) = <<4, 378, 14766>>
      /\ Row(13) = <<4, 434, 16953>> /\ Row(14) = <<4, 490, 19141>> /\ Row(15) = <<4, 553, 21602>>
      /\ Row(16) = <<4, 616, 24063>> /\ Row(17) = <<4, 658, 25703>> /\ Row(18) = <<6, 438, 25664>>
      /\ Row(19) = <<6, 466, 27305>> /\ Row(20) = <<6, 517, 30293>> /\ Row(21) = <<6, 567, 33223>>
      /\ Row(22) = <<6, 616, 36094>> /\ Row(23) = <<6, 666, 39023>> /\ Row(24) = <<6, 719, 42129>>
      /\ Row(25) = <<6, 772, 45234>> /\ Row(26) = <<6, 822, 48164>> /\ Row(27) = <<6, 873, 51152>>
      /\ Row(28) = <<6, 910, 53320>> /\ Row(29) = <<6, 948, 55547>>
  BY DEF McsTable
<1> HIDE DEF Row
<1>2. P(1) /\ P(2) /\ P(3) /\ P(4) /\ P(5)
  BY <1>1 DEF Product
<1>3. P(6) /\ P(7) /\ P(8) /\ P(9) /\ P(10)
  BY <1>1 DEF Product
<1>4. P(11) /\ P(12) /\ P(13) /\ P(14) /\ P(15)
  BY <1>1 DEF Product
<1>5. P(16) /\ P(17) /\ P(18) /\ P(19) /\ P(20)
  BY <1>1 DEF Product
<1>6. P(21) /\ P(22) /\ P(23) /\ P(24) /\ P(25)
  BY <1>1 DEF Product
<1>7. P(26) /\ P(27) /\ P(28) /\ P(29)
  BY <1>1 DEF Product
<1> HIDE DEF P
<1>8. ASSUME NEW i \in 1..29
      PROVE  P(i)
  <2>1. \/ i = 1 \/ i = 2 \/ i = 3 \/ i = 4 \/ i = 5 \/ i = 6 \/ i = 7 \/ i = 8 \/ i = 9
        \/ i = 10 \/ i = 11 \/ i = 12 \/ i = 13 \/ i = 14 \/ i = 15 \/ i = 16 \/ i = 17
        \/ i = 18 \/ i = 19 \/ i = 20 \/ i = 21 \/ i = 22 \/ i = 23 \/ i = 24 \/ i = 25
        \/ i = 26 \/ i = 27 \/ i = 28 \/ i = 29
    OBVIOUS
  <2> QED BY <1>2, <1>3, <1>4, <1>5, <1>6, <1>7, <2>1
<1> QED BY <1>8 DEF P, Row

\* No worse an SINR has no lower CQI.
LEMMA CqiGrows ==
    ASSUME NEW s1 \in Nat, NEW n1 \in Nat, n1 > 0, NEW s2 \in Nat, NEW n2 \in Nat,
           s1 * n2 <= s2 * n1
    PROVE  CqiOf(<<s1, n1>>) \in 0..15 /\ CqiOf(<<s2, n2>>) \in 0..15
           /\ CqiOf(<<s1, n1>>) <= CqiOf(<<s2, n2>>)
<1> DEFINE S == {Outage} \cup {cqi \in 1..15 : Reaches(<<s1, n1>>, cqi)}
           T == {Outage} \cup {cqi \in 1..15 : Reaches(<<s2, n2>>, cqi)}
<1>1. ASSUME NEW cqi \in 1..15, Reaches(<<s1, n1>>, cqi)
      PROVE  Reaches(<<s2, n2>>, cqi)
  <2> DEFINE k == CqiThreshold[cqi] * Margin
  <2>1. k \in Nat
    <3>1. CqiThreshold[cqi] \in Nat
      BY DEF CqiThreshold
    <3> QED BY <3>1, CapacityAssumption
  <2>2. s1 * 10000 >= k * n1
    BY <1>1 DEF Reaches
  <2> HIDE DEF k
  <2>3. s2 * 10000 >= k * n2
    <3> SUFFICES ASSUME s2 * 10000 + 1 <= k * n2 PROVE FALSE
      BY <2>1
    <3>1. n1 * (s2 * 10000 + 1) <= n1 * (k * n2)
      <4>1. k * n2 \in Nat /\ s2 * 10000 + 1 \in Nat
        BY <2>1
      <4> QED BY <4>1, TimesGrows
    <3>2. n2 * (k * n1) <= n2 * (s1 * 10000)
      <4>1. k * n1 \in Nat /\ s1 * 10000 \in Nat
        BY <2>1
      <4> QED BY <2>2, <4>1, TimesGrows
    <3>3. n1 * (k * n2) = n2 * (k * n1) /\ n2 * (s1 * 10000) = 10000 * (s1 * n2)
      BY <2>1
    <3>4. n1 * (s2 * 10000 + 1) = 10000 * (s2 * n1) + n1
      OBVIOUS
    <3>5. s1 * n2 \in Nat /\ s2 * n1 \in Nat /\ n1 * (k * n2) \in Nat
      BY <2>1
    <3> QED BY <3>1, <3>2, <3>3, <3>4, <3>5
  <2> QED BY <2>3 DEF Reaches, k
<1>2. S \subseteq T /\ S # {} /\ T \subseteq 0..15
  BY <1>1 DEF Outage
<1>3. CqiOf(<<s1, n1>>) = Sets!Max(S) /\ CqiOf(<<s2, n2>>) = Sets!Max(T)
  BY DEF CqiOf
<1> HIDE DEF S, T
<1> DEFINE top == 15
<1>4. /\ S \subseteq Int /\ T \subseteq Int /\ T # {} /\ top \in Int
      /\ \A s \in S : s <= top
      /\ \A s \in T : s <= top
  <2>1. \A s \in 0..15 : s \in Int /\ s <= top
    OBVIOUS
  <2>2. top \in Int
    OBVIOUS
  <2> HIDE DEF top
  <2> QED BY <1>2, <2>1, <2>2
<1> HIDE DEF top
<1>5. Sets!Max(S) \in S /\ \A s \in S : s <= Sets!Max(S)
  BY <1>2, <1>4, MaxOf
<1>6. Sets!Max(T) \in T /\ \A s \in T : s <= Sets!Max(T)
  BY <1>4, MaxOf
<1> QED BY <1>2, <1>3, <1>5, <1>6

\* A CQI's efficiency grows with it.
LEMMA EfficiencyGrows ==
    ASSUME NEW p \in 1..15, NEW q \in 1..15, p <= q
    PROVE  CqiEfficiency[p] \in Nat /\ CqiEfficiency[q] \in Nat
           /\ CqiEfficiency[p] <= CqiEfficiency[q]
<1> DEFINE E(i) == CqiEfficiency[i]
<1>1. /\ E(1) = 1523 /\ E(2) = 2344 /\ E(3) = 3770 /\ E(4) = 6016 /\ E(5) = 8770
      /\ E(6) = 11758 /\ E(7) = 14766 /\ E(8) = 19141 /\ E(9) = 24063 /\ E(10) = 27305
      /\ E(11) = 33223 /\ E(12) = 39023 /\ E(13) = 45234 /\ E(14) = 51152 /\ E(15) = 55547
  BY DEF CqiEfficiency
<1> HIDE DEF E
<1>2. E(p) \in Nat /\ E(q) \in Nat /\ E(p) <= E(q)
  BY <1>1
<1> QED BY <1>2 DEF E

\* A higher CQI selects an MCS of no less efficiency.
LEMMA McsGrows ==
    ASSUME NEW p \in 1..15, NEW q \in 1..15, p <= q, McsOf(p) # NoMcs
    PROVE  /\ McsOf(q) # NoMcs /\ McsOf(p) \in 0..28 /\ McsOf(q) \in 0..28
           /\ McsTable[McsOf(p) + 1][3] <= McsTable[McsOf(q) + 1][3]
<1>1. McsOf(p) \in 0..28 /\ McsTable[McsOf(p) + 1][3] <= CqiEfficiency[p]
  BY McsIsRow
<1>2. McsTable[McsOf(p) + 1][3] <= CqiEfficiency[q]
  <2>1. McsTable[McsOf(p) + 1][3] \in Nat
    BY <1>1, McsRows
  <2> QED BY <1>1, <2>1, EfficiencyGrows
<1>3. McsOf(q) \in 0..28
  BY <1>1, <1>2, McsIsBest
<1>4. McsOf(q) # NoMcs
  BY <1>3 DEF NoMcs
<1> QED BY <1>1, <1>2, <1>3, <1>4, McsIsRow

\* The information of an allocation, in 1024ths of a bit.
Info(prbs, mcs) == (prbs * DataRe) * Product(McsTable[mcs + 1])

LEMMA InfoParts ==
    ASSUME NEW prbs \in Nat, NEW mcs \in 0..28
    PROVE  LET rate == McsTable[mcs + 1][2]
           IN  /\ Info(prbs, mcs) \in Nat /\ rate \in Nat
               /\ TransportBlock(prbs, mcs) =
                     IF Info(prbs, mcs) = 0 THEN 0
                     ELSE IF Info(prbs, mcs) <= SmallInfo THEN SmallBlock(Info(prbs, mcs))
                     ELSE LargeBlock(Info(prbs, mcs), rate)
<1> DEFINE row == McsTable[mcs + 1]
           n == prbs * DataRe * row[1] * row[2]
<1>1. row[1] \in Nat /\ row[2] \in Nat /\ DataRe \in Nat
  <2>1. mcs + 1 \in 1..29
    OBVIOUS
  <2>2. MaxRe \in Nat
    BY DEF MaxRe
  <2> QED BY <2>1, <2>2, McsRows, CapacityAssumption
<1>2. TransportBlock(prbs, mcs) = IF n = 0 THEN 0
                                  ELSE IF n <= SmallInfo THEN SmallBlock(n)
                                  ELSE LargeBlock(n, row[2])
  BY DEF TransportBlock, SmallInfo
<1>3. n = Info(prbs, mcs) /\ n \in Nat
  <2> DEFINE a == prbs * DataRe
             b == row[1]
             c == row[2]
  <2>1. a \in Nat /\ b \in Nat /\ c \in Nat
    BY <1>1
  <2>2. Info(prbs, mcs) = a * (b * c) /\ n = a * b * c
    BY DEF Info, Product
  <2> HIDE DEF a, b, c, n
  <2>3. a * (b * c) = a * b * c /\ a * b * c \in Nat
    BY <2>1
  <2> QED BY <2>2, <2>3
<1> HIDE DEF n
<1> QED BY <1>1, <1>2, <1>3

\* Whatever the levels and the interference, a capacity is a number of bits.
LEMMA CapacityIsSize ==
    ASSUME NEW sinr, NEW prbs \in Nat
    PROVE  CapacityBits(sinr, prbs) \in Nat
<1>1. ASSUME NEW mcs \in 0..28
      PROVE  TransportBlock(prbs, mcs) \in Nat
  <2> DEFINE i == Info(prbs, mcs)
             rate == McsTable[mcs + 1][2]
  <2>1. /\ i \in Nat /\ rate \in Nat
        /\ TransportBlock(prbs, mcs) = IF i = 0 THEN 0
                                       ELSE IF i <= SmallInfo THEN SmallBlock(i)
                                       ELSE LargeBlock(i, rate)
    BY InfoParts
  <2> HIDE DEF i, rate
  <2>2. i > 0 /\ i <= SmallInfo => SmallBlock(i) \in Nat
    <3>1. i <= i
      BY <2>1
    <3> QED BY <2>1, <3>1, SmallBlockGrows
  <2>3. i > SmallInfo => LargeBlock(i, rate) \in Nat
    BY <2>1, LargeParts
  <2> QED BY <2>1, <2>2, <2>3 DEF SmallInfo
<1>2. McsOf(CqiOf(sinr)) # NoMcs => McsOf(CqiOf(sinr)) \in 0..28
  BY McsIsRow
<1> QED BY <1>1, <1>2 DEF CapacityBits

\* More PRBs, at an MCS of no less efficiency, carry no less.
LEMMA TransportGrows ==
    ASSUME NEW x \in Nat, NEW y \in Nat, x <= y, NEW m \in 0..28, NEW n \in 0..28,
           McsTable[m + 1][3] <= McsTable[n + 1][3]
    PROVE  TransportBlock(x, m) <= TransportBlock(y, n)
<1> DEFINE i == Info(x, m)
           j == Info(y, n)
           p == Product(McsTable[m + 1])
           q == Product(McsTable[n + 1])
           rate == McsTable[m + 1][2]
           higher == McsTable[n + 1][2]
           a == x * DataRe
           b == y * DataRe
<1>1. m + 1 \in 1..29 /\ n + 1 \in 1..29
  OBVIOUS
<1>2. /\ p \in Nat /\ q \in Nat /\ p <= q
      /\ rate <= 256 => p <= 502
      /\ rate > 256 => p >= 616
      /\ higher <= 256 => q <= 502
      /\ higher > 256 => q >= 616
  <2> DEFINE e == McsTable[m + 1][3]
             f == McsTable[n + 1][3]
  <2>1. e \in Nat /\ f \in Nat /\ e <= f
    BY <1>1, McsRows
  <2>2. /\ p \in Nat /\ 10000 * p <= 1024 * e + 512
        /\ rate <= 256 => p <= 502
        /\ rate > 256 => p >= 616
    BY <1>1, McsProducts
  <2>3. /\ q \in Nat /\ 1024 * f <= 10000 * q + 512
        /\ higher <= 256 => q <= 502
        /\ higher > 256 => q >= 616
    BY <1>1, McsProducts
  <2> HIDE DEF e, f, p, q, rate, higher
  <2>4. p <= q
    BY <2>1, <2>2, <2>3
  <2> QED BY <2>2, <2>3, <2>4
<1>3. a \in Nat /\ b \in Nat /\ a <= b /\ i = a * p /\ j = b * q
  <2>1. DataRe \in Nat
    <3>1. MaxRe \in Nat
      BY DEF MaxRe
    <3> QED BY <3>1, CapacityAssumption
  <2>2. x * DataRe \in Nat /\ y * DataRe \in Nat /\ x * DataRe <= y * DataRe
    <3>1. DataRe * x \in Nat /\ DataRe * y \in Nat /\ DataRe * x <= DataRe * y
      BY <2>1, TimesGrows
    <3> QED BY <2>1, <3>1
  <2> QED BY <2>2, Zenon DEF Info
<1>4. /\ i \in Nat /\ rate \in Nat
      /\ TransportBlock(x, m) = IF i = 0 THEN 0
                                ELSE IF i <= SmallInfo THEN SmallBlock(i)
                                ELSE LargeBlock(i, rate)
  BY InfoParts
<1>5. /\ j \in Nat /\ higher \in Nat
      /\ TransportBlock(y, n) = IF j = 0 THEN 0
                                ELSE IF j <= SmallInfo THEN SmallBlock(j)
                                ELSE LargeBlock(j, higher)
  BY InfoParts
<1> HIDE DEF i, j, p, q, rate, higher, a, b
<1>6. i <= j
  <2>1. a * p <= a * q /\ a * p \in Nat /\ a * q \in Nat
    BY <1>2, <1>3, TimesGrows
  <2>2. q * a <= q * b /\ q * a = a * q /\ q * b = b * q
    BY <1>2, <1>3, TimesGrows
  <2> QED BY <1>3, <1>4, <1>5, <2>1, <2>2
<1>7. rate <= 256 /\ higher > 256 => 616 * i <= 502 * j
  <2> SUFFICES ASSUME rate <= 256, higher > 256
               PROVE  616 * i <= 502 * j
    OBVIOUS
  <2>1. a * p <= a * 502 /\ b * 616 <= b * q
    BY <1>2, <1>3, TimesGrows
  <2>2. a * p \in Nat /\ b * q \in Nat
    BY <1>2, <1>3
  <2> QED BY <1>3, <2>1, <2>2
<1>8. CASE i = 0
  <2>1. TransportBlock(y, n) \in Nat
    <3>1. j > 0 /\ j <= SmallInfo => SmallBlock(j) \in Nat
      <4>1. j <= j
        BY <1>5
      <4> QED BY <1>5, <4>1, SmallBlockGrows
    <3>2. j > SmallInfo => LargeBlock(j, higher) \in Nat
      BY <1>5, LargeParts
    <3> QED BY <1>5, <3>1, <3>2 DEF SmallInfo
  <2> QED BY <1>4, <1>8, <2>1
<1>9. CASE i > 0 /\ j <= SmallInfo
  <2>1. i <= SmallInfo /\ j # 0 /\ i # 0
    BY <1>4, <1>5, <1>6, <1>9 DEF SmallInfo
  <2>2. SmallBlock(i) <= SmallBlock(j)
    BY <1>4, <1>5, <1>6, <1>9, SmallBlockGrows
  <2> QED BY <1>4, <1>5, <1>9, <2>1, <2>2
<1>10. CASE i > 0 /\ i <= SmallInfo /\ j > SmallInfo
  <2>1. SmallBlock(i) <= 3824 /\ SmallBlock(i) \in Nat
    <3>1. i <= i
      BY <1>4
    <3> QED BY <1>4, <1>10, <3>1, SmallBlockGrows
  <2>2. Quantized(j) \in Nat /\ Quantized(j) >= 3840
    BY <1>5, <1>10, QuantizedParts
  <2>3. LargeBlock(j, higher) >= Quantized(j) /\ LargeBlock(j, higher) \in Nat
    BY <1>5, <1>10, LargeParts
  <2>4. ~(j <= SmallInfo) /\ j # 0 /\ i # 0
    BY <1>4, <1>5, <1>10 DEF SmallInfo
  <2> QED BY <1>4, <1>5, <1>10, <2>1, <2>2, <2>3, <2>4
<1>11. CASE i > SmallInfo
  <2>1. ~(i <= SmallInfo) /\ i # 0 /\ ~(j <= SmallInfo) /\ j # 0
    BY <1>4, <1>5, <1>6, <1>11 DEF SmallInfo
  <2>2. ~(rate > 256 /\ higher <= 256)
    BY <1>2
  <2>3. LargeBlock(i, rate) <= LargeBlock(j, higher)
    <3>1. CASE rate <= 256 <=> higher <= 256
      BY <1>4, <1>5, <1>6, <1>11, <3>1, LargeGrows
    <3>2. CASE rate <= 256 /\ higher > 256
      BY <1>4, <1>5, <1>7, <1>11, <3>2, LargeGrowsAcross
    <3> QED BY <1>4, <1>5, <2>2, <3>1, <3>2
  <2> QED BY <1>4, <1>5, <2>1, <2>3
<1>12. i = 0 \/ (i > 0 /\ j <= SmallInfo) \/ (i > 0 /\ i <= SmallInfo /\ j > SmallInfo)
       \/ i > SmallInfo
  BY <1>4, <1>5 DEF SmallInfo
<1> QED BY <1>8, <1>9, <1>10, <1>11, <1>12

\* More PRBs, at no worse an SINR, carry no less.
LEMMA CapacityGrows ==
    ASSUME NEW x \in Nat, NEW y \in Nat, x <= y,
           NEW s1 \in Nat, NEW n1 \in Nat, n1 > 0, NEW s2 \in Nat, NEW n2 \in Nat,
           s1 * n2 <= s2 * n1
    PROVE  CapacityBits(<<s1, n1>>, x) <= CapacityBits(<<s2, n2>>, y)
<1> DEFINE p == CqiOf(<<s1, n1>>)
           q == CqiOf(<<s2, n2>>)
<1>1. p \in 0..15 /\ q \in 0..15 /\ p <= q
  BY CqiGrows
<1>2. CapacityBits(<<s1, n1>>, x) \in Nat /\ CapacityBits(<<s2, n2>>, y) \in Nat
  BY CapacityIsSize
<1>3. CASE x = 0 \/ DataRe = 0 \/ p = Outage \/ McsOf(p) = NoMcs
  <2>1. CapacityBits(<<s1, n1>>, x) = 0
    BY <1>3 DEF CapacityBits
  <2> QED BY <1>2, <2>1
<1>4. CASE ~(x = 0 \/ DataRe = 0 \/ p = Outage \/ McsOf(p) = NoMcs)
  <2>1. CapacityBits(<<s1, n1>>, x) = TransportBlock(x, McsOf(p))
    BY <1>4 DEF CapacityBits
  <2>2. p \in 1..15 /\ q \in 1..15 /\ q # Outage /\ y # 0
    BY <1>1, <1>4 DEF Outage
  <2>3. /\ McsOf(q) # NoMcs /\ McsOf(p) \in 0..28 /\ McsOf(q) \in 0..28
        /\ McsTable[McsOf(p) + 1][3] <= McsTable[McsOf(q) + 1][3]
    BY <1>1, <1>4, <2>2, McsGrows
  <2>4. CapacityBits(<<s2, n2>>, y) = TransportBlock(y, McsOf(q))
    BY <1>4, <2>2, <2>3 DEF CapacityBits
  <2>5. TransportBlock(x, McsOf(p)) <= TransportBlock(y, McsOf(q))
    BY <2>3, TransportGrows
  <2> QED BY <2>1, <2>4, <2>5
<1> QED BY <1>3, <1>4

-----------------------------------------------------------------------------
(* Events.                                                                 *)

\* The kernel dispatches the least pending event and drops it.
Dispatched(e) ==
    /\ e \in heap /\ e.tick <= Stop /\ \A h \in heap \ {e} : Precedes(e, h)
    /\ now' = e.tick /\ arrives' = arrives /\ mode' = "running"

\* The parts of the events that the proofs read.
LEMMA EventParts ==
    /\ \A p : /\ Arrival(p).kind = "packet_arrival" /\ Arrival(p).tick = arrives[p]
             /\ Arrival(p).phase = 40 /\ Arrival(p).entity = BearerOf[p]
             /\ Arrival(p).seq = p /\ Arrival(p).packet = p /\ Arrival(p).work = NoWork
    /\ \A p : /\ Expiry(p).kind = "packet_deadline" /\ Expiry(p).tick = DeadlineTick[p]
             /\ Expiry(p).phase = 20 /\ Expiry(p).entity = BearerOf[p]
             /\ Expiry(p).seq = p /\ Expiry(p).packet = p /\ Expiry(p).work = NoWork
    /\ \A b : /\ Censoring(b).kind = "censor_at_stop" /\ Censoring(b).tick = Stop
             /\ Censoring(b).phase = 80 /\ Censoring(b).entity = b
             /\ Censoring(b).seq = 0 /\ Censoring(b).work = NoWork
    /\ NoWork.plan = {}
BY DEF Arrival, Expiry, Censoring, EventOf, NoWork, DeadlinePhase, ArrivalPhase, ObservationPhase

-----------------------------------------------------------------------------
(* The traffic run: its inductive invariant.                               *)

\* Packets of bearer b that its source has generated, and the longest of the
\* source's intervals.
Emitted(b) == {p \in Generated : BearerOf[p] = b}
Longest(b) == Extrema!Max(Intervals(b) \cup FirstIntervals(b))

\* Bearer b's source has filled the time up to tick c, packet by packet.
Filled(b, c) ==
    LET ends == {arrives[p] : p \in Emitted(b)} IN
    /\ \A p \in Emitted(b) : arrives[p] < c
    /\ \A p, o \in Emitted(b) : p < o => arrives[p] < arrives[o]
    /\ \A p \in Emitted(b), o \in Packets : BearerOf[o] = b /\ o < p => o \in Emitted(b)
    /\ \A t \in {0} \cup ends :
          t + Longest(b) < c => \E s \in ends : s > t \/ (t = 0 /\ s = 0)

\* Bearer b's source has been built.
Built(b) == b < source \/ (b = source /\ clock # NoTick)

Generation ==
    /\ arrives \in [Packets -> Nat \cup {NoTick}]
    /\ \A p \in Packets : arrives[p] < MeasureEnd
    /\ source \in 1..NumBearers + 1 /\ clock \in Nat \cup {NoTick}
    /\ grants \in Grants
    /\ \A b \in Bearers :
          IF Built(b) THEN Filled(b, IF b < source THEN MeasureEnd ELSE clock)
          ELSE Emitted(b) = {} /\ StreamsOf(b) \cap streams = {}

Refusable ==
    \/ source \in Bearers /\ Unused(source) = {}
    \/ \E k \in DOMAIN grants : BadGrant(grants[k])

\* Nothing runs before the schedule is complete.
Prepared ==
    /\ mode \in {"generating", "refused", "running", "done"}
    /\ mode \in {"generating", "refused"} => heap = {}
    /\ mode = "generating" => queues = [b \in Bearers |-> EmptyQueue] /\ now = 0
    /\ mode = "refused" => Refusable
    /\ mode \in {"running", "done"} =>
          source = NumBearers + 1 /\ \A k \in DOMAIN grants : ~BadGrant(grants[k])

\* The grants of bearer b at tick t, as they are scheduled.
GrantOf(b, t) == GrantEvent(t, b, GrantedBits(b, t))

\* Every pending event is one that the schedule made.
Expected(e) ==
    /\ e.tick \in Nat
    /\ \/ e.packet \in Packets /\ arrives[e.packet] # NoTick /\ e = Arrival(e.packet)
       \/ /\ e.packet \in Packets /\ arrives[e.packet] # NoTick
          /\ DeadlineTick[e.packet] # NoTick /\ e = Expiry(e.packet)
       \/ e.entity \in Bearers /\ e = Censoring(e.entity)
       \/ e.entity \in Bearers /\ e = GrantOf(e.entity, e.tick)

\* Clocks are behind the kernel's and events ahead.
Clocks ==
    /\ now \in Nat /\ now <= Stop
    /\ mode = "done" => \A e \in heap : e.tick > Stop
    /\ queues = [b \in Bearers |-> queues[b]]
    /\ \A b \in Bearers : O!Valid(queues[b]) /\ queues[b].lastTick <= now
    /\ \A e \in heap : Expected(e) /\ now <= e.tick
    /\ \A b \in Bearers, t \in 1..Stop :
          <<t, b>> \in GrantKeys /\ GrantOf(b, t) \notin heap => t <= now

\* A packet is absent until its arrival, if it was generated at all, and its
\* expiry is pending while it is queued.
Scheduling(p) ==
    LET q == queues[BearerOf[p]] IN
    /\ arrives[p] = NoTick => q.cause[p] = "absent"
    /\ arrives[p] # NoTick =>
          /\ Arrival(p) \in heap <=> q.cause[p] = "absent"
          /\ q.cause[p] \in {"absent", "active"} /\ DeadlineTick[p] # NoTick
                => Expiry(p) \in heap
    /\ \A b \in Bearers \ {BearerOf[p]} : queues[b].cause[p] = "absent"

\* The bits granted to bearer b after tick a, at the ticks of a set.
GrantedAfter(b, a, ticks) ==
    Sum([t \in 1..Stop |-> IF a < t /\ t \in ticks THEN GrantedBits(b, t) ELSE 0], Stop)

\* Ticks at which no grant of bearer b is pending.
Spent(b) == {t \in 1..Stop : GrantOf(b, t) \notin heap}

\* While a packet is queued, its bearer has been served all that was granted
\* since the packet arrived; one that expired or was censored ended like that.
Kept(p) ==
    LET b == BearerOf[p]
        q == queues[b]
    IN  /\ q.cause[p] = "active" => q.served >= GrantedAfter(b, arrives[p], Spent(b))
        /\ q.cause[p] \in {"deadline_expired", "censored_at_stop"} =>
              /\ q.terminal[p] \in Nat
              /\ q.served >= GrantedAfter(b, arrives[p], {t \in 1..Stop : t <= q.terminal[p]})

Executing ==
    mode \in {"running", "done"} =>
        /\ Clocks
        /\ \A p \in Packets : Scheduling(p) /\ Kept(p)

TrafficInv == Generation /\ Prepared /\ Executing

-----------------------------------------------------------------------------
(* The queue call of a grant, and the events of the traffic run.           *)

\* The call of _service_handler.
LEMMA ServeCall ==
    ASSUME O!QueueAssumption, NEW q, O!Valid(q), NEW t \in Nat, NEW capacity \in Nat,
           ~ServeRaises(q, t, capacity)
    PROVE  /\ O!Valid(Serve(q, t, capacity))
           /\ O!ServedAs(q, Serve(q, t, capacity), t, capacity)
<1>1. /\ O!FifoPlan(q, capacity) = FifoPlan(q, capacity)
      /\ O!OverdueInReach(q, t, capacity) = OverdueInReach(q, t, capacity)
  BY DEF O!FifoPlan, FifoPlan, O!Clamp, Clamp, O!BitsAhead, BitsAhead, O!Ahead, Ahead,
         O!Total, Total, O!Sum, Sum, O!PartialSums, PartialSums, O!Packets, Packets,
         O!OverdueInReach, OverdueInReach, O!NoTick, NoTick
<1>2. O!Serve(q, t, capacity) = Serve(q, t, capacity)
  BY <1>1 DEF O!Serve, Serve, O!StaleTick, StaleTick, O!UpTo, UpTo, O!Consume, Consume,
         O!MarkFirst, MarkFirst, O!Finished, Finished, O!Stamp, Stamp, O!Total, Total,
         O!Sum, Sum, O!PartialSums, PartialSums, O!Packets, Packets, O!NoTick, NoTick
<1>3. ~O!ServeRaises(q, t, capacity) /\ t \in O!Ticks /\ capacity \in Int
  BY <1>1, Names DEF O!ServeRaises, ServeRaises
<1> QED BY <1>2, <1>3, O!ServeEffect, Zenon

\* What the grants add up to is a number of bits, none where nothing is
\* granted.
LEMMA GrantedNat ==
    ASSUME grants \in Grants, NEW b, NEW t
    PROVE  /\ GrantedBits(b, t) \in Nat
           /\ <<t, b>> \notin GrantKeys => GrantedBits(b, t) = 0
<1> DEFINE terms == [k \in DOMAIN grants |->
                        IF grants[k].bearer = b /\ grants[k].tick = t
                        THEN grants[k].capacity ELSE 0]
<1>1. /\ Len(grants) \in Nat /\ DOMAIN grants = 1..Len(grants)
      /\ \A k \in DOMAIN grants : grants[k] \in [bearer : Nat, tick : Nat, capacity : Nat]
  <2> DEFINE grant == [bearer : Nat, tick : Nat, capacity : Nat]
  <2>1. grants \in Seq(grant)
    BY SourceAssumption
  <2> HIDE DEF grant
  <2>2. Len(grants) \in Nat /\ DOMAIN grants = 1..Len(grants)
        /\ \A k \in DOMAIN grants : grants[k] \in grant
    BY <2>1
  <2> QED BY <2>2 DEF grant
<1>2. \A k \in 1..Len(grants) : terms[k] \in Nat
  BY <1>1
<1>3. ASSUME <<t, b>> \notin GrantKeys
      PROVE  \A k \in 1..Len(grants) : terms[k] = 0
  BY <1>1, <1>3 DEF GrantKeys
<1>4. GrantedBits(b, t) = Sum(terms, Len(grants))
  BY DEF GrantedBits
<1> HIDE DEF terms
<1>5. Sum(terms, Len(grants)) \in Nat
  BY <1>1, <1>2, SumNat
<1>6. <<t, b>> \notin GrantKeys => Sum(terms, Len(grants)) = 0
  BY <1>1, <1>3, SumZero
<1> QED BY <1>4, <1>5, <1>6

\* The parts of a grant event.
LEMMA GrantParts ==
    \A b, t : LET e == GrantOf(b, t) IN
              /\ e.kind = "service_completion" /\ e.tick = t /\ e.phase = 10
              /\ e.entity = b /\ e.seq = 0
              /\ (CHOOSE n \in e.work.plan : TRUE) = GrantedBits(b, t)
<1> SUFFICES ASSUME NEW b, NEW t
             PROVE  LET e == GrantOf(b, t) IN
                    /\ e.kind = "service_completion" /\ e.tick = t /\ e.phase = 10
                    /\ e.entity = b /\ e.seq = 0
                    /\ (CHOOSE n \in e.work.plan : TRUE) = GrantedBits(b, t)
  OBVIOUS
<1> DEFINE n == GrantedBits(b, t)
<1> HIDE DEF n
<1>1. GrantOf(b, t) = GrantEvent(t, b, n)
  BY DEF GrantOf, n
<1>2. /\ GrantEvent(t, b, n).kind = "service_completion" /\ GrantEvent(t, b, n).tick = t
      /\ GrantEvent(t, b, n).phase = 10 /\ GrantEvent(t, b, n).entity = b
      /\ GrantEvent(t, b, n).seq = 0 /\ GrantEvent(t, b, n).work.plan = {n}
  BY DEF GrantEvent, EventOf, NoWork, ServicePhase
<1>3. (CHOOSE m \in {n} : TRUE) = n
  OBVIOUS
<1> QED BY <1>1, <1>2, <1>3 DEF n

-----------------------------------------------------------------------------
(* Generation.                                                             *)

\* What a configuration says of a source: intervals are positive, and none is
\* longer than the longest.
LEMMA SourceParts ==
    ASSUME NEW b \in Bearers
    PROVE  /\ \A i \in Intervals(b) : i \in Nat /\ i > 0 /\ i <= Longest(b)
           /\ \A i \in FirstIntervals(b) : i \in Nat /\ i <= Longest(b)
           /\ Longest(b) \in Nat
<1> DEFINE S == Intervals(b) \cup FirstIntervals(b)
<1>1. \E n \in Nat : /\ \A i \in Intervals(b) : i \in Nat /\ i > 0 /\ i <= n
                     /\ \A i \in FirstIntervals(b) : i \in Nat /\ i <= n
                     /\ Intervals(b) # {}
  <2>1. CASE SourceOf[b] \in PeriodicSources
    <3>1. /\ SourceOf[b].type = "periodic" /\ SourceOf[b].interval \in Nat
          /\ SourceOf[b].interval > 0 /\ SourceOf[b].offset \in Nat
      BY <2>1 DEF PeriodicSources
    <3>2. Intervals(b) = {SourceOf[b].interval} /\ FirstIntervals(b) = {SourceOf[b].offset}
      BY <3>1 DEF Intervals, FirstIntervals
    <3>3. SourceOf[b].interval + SourceOf[b].offset \in Nat
      BY <3>1
    <3> QED BY <3>1, <3>2, <3>3
  <2>2. CASE SourceOf[b] \in PoissonSources
    <3>1. SourceOf[b].type = "poisson" /\ MaxDraw \in Nat
      BY <2>2, SourceAssumption DEF PoissonSources
    <3>2. Intervals(b) = {IF draw > 0 THEN draw ELSE 1 : draw \in 0..MaxDraw}
          /\ FirstIntervals(b) = Intervals(b)
      BY <3>1 DEF Intervals, FirstIntervals
    <3>3. \A i \in Intervals(b) : i \in Nat /\ i > 0 /\ i <= MaxDraw + 1
      BY <3>1, <3>2
    <3>4. 1 \in Intervals(b) /\ MaxDraw + 1 \in Nat
      BY <3>1, <3>2
    <3> QED BY <3>2, <3>3, <3>4
  <2>3. CASE SourceOf[b] \in UniformSources
    <3>1. /\ SourceOf[b].type = "bounded_uniform" /\ SourceOf[b].minimum \in Nat
          /\ SourceOf[b].minimum > 0 /\ SourceOf[b].maximum \in Nat
          /\ SourceOf[b].minimum <= SourceOf[b].maximum
      BY <2>3 DEF UniformSources
    <3>2. Intervals(b) = SourceOf[b].minimum..SourceOf[b].maximum
          /\ FirstIntervals(b) = Intervals(b)
      BY <3>1 DEF Intervals, FirstIntervals
    <3> QED BY <3>1, <3>2
  <2> QED BY <2>1, <2>2, <2>3, SourceAssumption
<1>2. S \subseteq Int /\ S # {} /\ \E n \in Int : \A i \in S : i <= n
  BY <1>1
<1>3. Extrema!Max(S) = Sets!Max(S)
  BY DEF Extrema!Max, Sets!Max
<1>4. Extrema!Max(S) \in S /\ \A i \in S : i <= Extrema!Max(S)
  BY <1>2, <1>3, MaxOf
<1> QED BY <1>1, <1>4 DEF Longest

\* No two bearers use a stream.
LEMMA StreamsApart ==
    ASSUME NEW a, NEW b, a # b
    PROVE  StreamsOf(a) \cap StreamsOf(b) = {}
BY DEF StreamsOf

\* The traffic run begins with nothing generated.
LEMMA TrafficStarts == TrafficInit => TrafficInv
<1> SUFFICES ASSUME TrafficInit PROVE TrafficInv
  OBVIOUS
<1>1. /\ arrives = [p \in Packets |-> NoTick] /\ heap = {} /\ now = 0
      /\ queues = [b \in Bearers |-> EmptyQueue]
      /\ mode = "generating" /\ grants \in Grants
      /\ source = 1 /\ clock = NoTick /\ streams = {}
  BY DEF TrafficInit
<1>2. \A p \in Packets : arrives[p] = NoTick
  BY <1>1
<1>3. Generation
  <2>1. 1 \in 1..NumBearers + 1
    BY PipelineAssumption
  <2>2. NoTick < MeasureEnd
    BY Configuration DEF NoTick
  <2>3. \A b \in Bearers : ~Built(b)
    BY <1>1 DEF Built, Bearers
  <2>4. \A b \in Bearers : Emitted(b) = {} /\ StreamsOf(b) \cap streams = {}
    BY <1>1, <1>2 DEF Emitted, Generated
  <2> QED BY <1>1, <1>2, <2>1, <2>2, <2>3, <2>4 DEF Generation
<1>4. Prepared
  BY <1>1 DEF Prepared
<1> QED BY <1>1, <1>3, <1>4 DEF TrafficInv, Executing

\* What generation depends on.
GenerationSame == UNCHANGED <<arrives, inputs>>

LEMMA GenerationKept ==
    ASSUME Generation, GenerationSame
    PROVE  Generation'
BY DEF Generation, GenerationSame, inputs, Filled, Emitted, Generated, Built

\* A refusal is one that the input explains.
LEMMA RefusalSafe ==
    ASSUME TrafficInv, mode = "generating", Refusable, Refuse
    PROVE  TrafficInv'
<1>1. /\ mode' = "refused"
      /\ UNCHANGED <<arrives, queues, heap, trace, now, grants, source, clock, streams>>
  BY DEF Refuse
<1>2. Generation'
  BY <1>1, GenerationKept DEF TrafficInv, GenerationSame, inputs
<1>3. Refusable'
  BY <1>1 DEF Refusable, Unused
<1> QED BY <1>1, <1>2, <1>3 DEF TrafficInv, Prepared, Executing

\* A step of the generation of packets keeps the rest of the invariant.
LEMMA StillGenerating ==
    ASSUME TrafficInv, mode = "generating", UNCHANGED <<queues, heap, now, mode>>
    PROVE  Prepared' /\ Executing'
BY DEF TrafficInv, Prepared, Executing

\* A source is built once, with streams of its own.
LEMMA OpenSafe == TrafficInv /\ Open => TrafficInv'
<1> SUFFICES ASSUME TrafficInv, Open PROVE TrafficInv'
  OBVIOUS
<1>1. /\ Generation /\ mode = "generating" /\ source \in Bearers /\ clock = NoTick
      /\ source \in Nat /\ ~Built(source)
  BY PipelineAssumption DEF TrafficInv, Open, Generation, Built, Bearers
<1>2. Emitted(source) = {} /\ StreamsOf(source) \cap streams = {}
  BY <1>1 DEF Generation
<1>3. /\ streams' = streams \cup StreamsOf(source)
      /\ clock' \in FirstIntervals(source)
      /\ UNCHANGED <<pipeline, grants, source>>
  BY <1>2 DEF Open
<1>4. UNCHANGED <<arrives, queues, heap, trace, now, mode>> /\ UNCHANGED <<grants, source>>
  BY <1>3 DEF pipeline
<1>5. clock' \in Nat /\ clock' <= Longest(source) /\ clock' # NoTick
  BY <1>1, <1>3, SourceParts DEF NoTick
<1>6. ASSUME NEW b \in Bearers
      PROVE  IF Built(b)' THEN Filled(b, IF b < source THEN MeasureEnd ELSE clock)'
             ELSE (Emitted(b) = {} /\ StreamsOf(b) \cap streams = {})'
  <2>1. b \in Nat /\ Emitted(b)' = Emitted(b)
    BY <1>4 DEF Bearers, Emitted, Generated
  <2>2. CASE b = source
    <3>1. Built(b)' /\ ~(b < source')
      BY <1>4, <1>5, <2>1, <2>2 DEF Built
    <3>2. Emitted(b)' = {}
      BY <1>2, <2>1, <2>2
    <3>3. Longest(b) \in Nat /\ clock' <= Longest(b)
      BY <1>5, <2>2, SourceParts
    <3>4. Filled(b, clock)'
      BY <1>5, <3>2, <3>3 DEF Filled
    <3> QED BY <3>1, <3>4
  <2>3. CASE b # source
    <3>1. Built(b)' <=> Built(b)
      BY <1>1, <1>4, <2>3 DEF Built
    <3>2. CASE Built(b)
      <4>1. b < source /\ Filled(b, MeasureEnd)
        BY <1>1, <2>3, <3>2 DEF Generation, Built
      <4>2. Filled(b, MeasureEnd)'
        BY <1>4, <2>1, <4>1 DEF Filled
      <4> QED BY <1>4, <3>1, <3>2, <4>1, <4>2
    <3>3. CASE ~Built(b)
      <4>1. Emitted(b) = {} /\ StreamsOf(b) \cap streams = {}
        BY <1>1, <3>3 DEF Generation
      <4>2. StreamsOf(b) \cap streams' = {}
        BY <1>3, <2>3, <4>1, StreamsApart
      <4> QED BY <2>1, <3>1, <3>3, <4>1, <4>2
    <3> QED BY <3>2, <3>3
  <2> QED BY <2>2, <2>3
<1>7. Generation'
  BY <1>1, <1>4, <1>5, <1>6 DEF Generation
<1> QED BY <1>1, <1>4, <1>7, StillGenerating DEF TrafficInv

\* The next packet follows those generated, at most the longest interval
\* after the last of them.
LEMMA FilledOn ==
    ASSUME Generation, source \in Bearers, clock # NoTick, source' = source,
           NEW q \in Unused(source), \A o \in Unused(source) : q <= o,
           arrives' = [arrives EXCEPT ![q] = clock],
           clock' \in Nat, clock < clock', clock' <= clock + Longest(source)
    PROVE  /\ Filled(source, clock)'
           /\ \A b \in Bearers : b # source => Emitted(b)' = Emitted(b)
<1> DEFINE b == source
<1>1. /\ Filled(b, clock) /\ clock \in Nat /\ b \in Nat
      /\ arrives \in [Packets -> Nat \cup {NoTick}]
  <2>1. ~(b < b) /\ Built(b)
    BY DEF Built, Bearers
  <2> QED BY <2>1 DEF Generation, Bearers
<1>2. q \in Packets /\ BearerOf[q] = b /\ arrives[q] = NoTick
  BY DEF Unused
<1>3. /\ arrives'[q] = clock
      /\ \A p \in Packets : p # q => arrives'[p] = arrives[p]
      /\ \A p \in Packets : p \in Nat /\ arrives'[p] \in Nat \cup {NoTick}
  BY <1>1, <1>2 DEF Packets
<1>4. \A a \in Bearers : a # b => Emitted(a)' = Emitted(a)
  BY <1>2, <1>3 DEF Emitted, Generated
<1>5. Emitted(b)' = Emitted(b) \cup {q} /\ q \notin Emitted(b)
  <2>1. NoTick # clock
    OBVIOUS
  <2> QED BY <1>2, <1>3, <2>1 DEF Emitted, Generated
<1>6. /\ \A p \in Emitted(b) : p \in Packets /\ arrives[p] \in Nat /\ arrives[p] < clock
      /\ \A p \in Emitted(b) : p < q
      /\ \A o \in Packets : BearerOf[o] = b /\ o < q => o \in Emitted(b)
  <2>1. \A p \in Emitted(b) : p \in Packets /\ arrives[p] \in Nat /\ arrives[p] < clock
    BY <1>1 DEF Filled, Emitted, Generated
  <2>2. \A o \in Packets : BearerOf[o] = b /\ o < q => o \in Emitted(b)
    <3>1. \A o \in Packets : o < q => o \notin Unused(b)
      BY <1>2, <1>3
    <3> QED BY <3>1 DEF Unused, Emitted, Generated
  <2>3. \A p \in Emitted(b) : p < q
    <3>1. \A p \in Emitted(b) : ~(q < p)
      BY <1>1, <1>2, <1>5 DEF Filled
    <3> QED BY <1>2, <1>3, <1>5, <2>1, <3>1
  <2> QED BY <2>1, <2>2, <2>3
<1>7. \A p \in Emitted(b)' : arrives'[p] < clock'
  BY <1>1, <1>3, <1>5, <1>6
<1>8. \A p, o \in Emitted(b)' : p < o => arrives'[p] < arrives'[o]
  <2> SUFFICES ASSUME NEW p \in Emitted(b)', NEW o \in Emitted(b)', p < o
               PROVE  arrives'[p] < arrives'[o]
    OBVIOUS
  <2>1. p # q
    BY <1>2, <1>3, <1>5, <1>6
  <2>2. CASE o = q
    BY <1>3, <1>5, <1>6, <2>1, <2>2
  <2>3. CASE o # q
    BY <1>1, <1>3, <1>5, <1>6, <2>1, <2>3 DEF Filled
  <2> QED BY <2>2, <2>3
<1>9. \A p \in Emitted(b)', o \in Packets : BearerOf[o] = b /\ o < p => o \in Emitted(b)'
  BY <1>1, <1>5, <1>6 DEF Filled
<1>10. ASSUME NEW t \in {0} \cup {arrives'[p] : p \in Emitted(b)'}, t + Longest(b) < clock'
       PROVE  \E s \in {arrives'[p] : p \in Emitted(b)'} : s > t \/ (t = 0 /\ s = 0)
  <2>1. t \in Nat /\ t <= clock /\ Longest(b) \in Nat
    BY <1>1, <1>3, <1>5, <1>6, SourceParts
  <2>2. t # clock
    BY <1>1, <1>10, <2>1
  <2>3. clock \in {arrives'[p] : p \in Emitted(b)'}
    <3>1. q \in Emitted(b)'
      BY <1>5
    <3> QED BY <1>3, <3>1
  <2>4. clock > t
    BY <1>1, <2>1, <2>2
  <2> QED BY <2>3, <2>4, Zenon
<1>11. Filled(b, clock)'
  <2>1. Longest(b)' = Longest(b)
    BY DEF Longest, Intervals, FirstIntervals
  <2> QED BY <1>7, <1>8, <1>9, <1>10 DEF Filled
<1> QED BY <1>4, <1>11

\* A packet is generated at the clock, with the next number of its bearer.
LEMMA EmitSafe == TrafficInv /\ Emit => TrafficInv'
<1> SUFFICES ASSUME TrafficInv, Emit PROVE TrafficInv'
  OBVIOUS
<1>1. /\ Generation /\ mode = "generating" /\ source \in Bearers /\ clock # NoTick
      /\ clock \in Nat /\ clock < MeasureEnd /\ source \in Nat
      /\ arrives \in [Packets -> Nat \cup {NoTick}]
  BY DEF TrafficInv, Emit, Generation, Due, Bearers
<1>2. CASE Unused(source) = {}
  <2>1. Refusable /\ Refuse
    BY <1>1, <1>2 DEF Emit, Refusable
  <2> QED BY <1>1, <2>1, RefusalSafe
<1>3. CASE Unused(source) # {}
  <2> DEFINE q == Extrema!Min(Unused(source))
  <2>1. q \in Unused(source) /\ \A o \in Unused(source) : q <= o
    <3>1. Unused(source) \subseteq Nat
      BY DEF Unused, Packets
    <3>2. PICK m \in Unused(source) : \A o \in Unused(source) : ~(o < m)
      BY <1>3, <3>1, LeastNumber
    <3>3. \A o \in Unused(source) : m <= o
      BY <3>1, <3>2
    <3> QED BY <3>3 DEF Extrema!Min
  <2>2. PICK interval \in Intervals(source) :
           /\ arrives' = [arrives EXCEPT ![q] = clock]
           /\ clock' = clock + interval
           /\ mode' = IF interval > 0 THEN mode ELSE "refused"
           /\ UNCHANGED <<queues, heap, trace, now, grants, source, streams>>
    BY <1>3 DEF Emit
  <2> HIDE DEF q
  <2>3. interval \in Nat /\ interval > 0 /\ interval <= Longest(source) /\ Longest(source) \in Nat
    BY <1>1, SourceParts
  <2>4. /\ clock' \in Nat /\ clock < clock' /\ clock' <= clock + Longest(source)
        /\ clock' # NoTick /\ mode' = mode
    BY <1>1, <2>2, <2>3 DEF NoTick
  <2>5. /\ Filled(source, clock)'
        /\ \A b \in Bearers : b # source => Emitted(b)' = Emitted(b)
    BY <1>1, <2>1, <2>2, <2>4, FilledOn
  <2>6. ASSUME NEW b \in Bearers
        PROVE  IF Built(b)' THEN Filled(b, IF b < source THEN MeasureEnd ELSE clock)'
               ELSE (Emitted(b) = {} /\ StreamsOf(b) \cap streams = {})'
    <3>1. b \in Nat /\ (Built(b)' <=> Built(b))
      BY <1>1, <2>2, <2>4 DEF Built, Bearers
    <3>2. CASE b = source
      BY <1>1, <2>2, <2>4, <2>5, <3>1, <3>2 DEF Built
    <3>3. CASE b # source
      <4>1. Emitted(b)' = Emitted(b)
        BY <2>5, <3>3
      <4>2. CASE Built(b)
        <5>1. b < source /\ Filled(b, MeasureEnd)
          BY <1>1, <3>1, <3>3, <4>2 DEF Generation, Built
        <5>2. q \notin Emitted(b)
          BY <2>1, <3>3 DEF Unused, Emitted
        <5>3. \A p \in Emitted(b) : arrives'[p] = arrives[p]
          BY <1>1, <2>2, <5>2 DEF Emitted, Generated
        <5>4. Longest(b)' = Longest(b)
          BY DEF Longest, Intervals, FirstIntervals
        <5>5. {arrives'[p] : p \in Emitted(b)'} = {arrives[p] : p \in Emitted(b)}
          BY <4>1, <5>3
        <5>6. Filled(b, MeasureEnd)'
          BY <4>1, <5>1, <5>3, <5>4, <5>5 DEF Filled
        <5> QED BY <2>2, <3>1, <4>2, <5>1, <5>6
      <4>3. CASE ~Built(b)
        BY <1>1, <2>2, <3>1, <4>1, <4>3 DEF Generation
      <4> QED BY <4>2, <4>3
    <3> QED BY <3>2, <3>3
  <2>7. Generation'
    <3>1. \A p \in Packets : arrives'[p] < MeasureEnd
      BY <1>1, <2>2 DEF Generation
    <3>2. arrives' \in [Packets -> Nat \cup {NoTick}]
      BY <1>1, <2>2
    <3> QED BY <1>1, <2>2, <2>4, <2>6, <3>1, <3>2 DEF Generation
  <2> QED BY <1>1, <2>2, <2>4, <2>7, StillGenerating DEF TrafficInv
<1> QED BY <1>2, <1>3

\* A source is done when its clock has reached the generation stop.
LEMMA CloseSafe == TrafficInv /\ Close => TrafficInv'
<1> SUFFICES ASSUME TrafficInv, Close PROVE TrafficInv'
  OBVIOUS
<1>1. /\ Generation /\ mode = "generating" /\ source \in Bearers /\ clock # NoTick
      /\ clock \in Nat /\ ~(clock < MeasureEnd) /\ source \in Nat
      /\ arrives \in [Packets -> Nat \cup {NoTick}]
      /\ source' = source + 1 /\ clock' = NoTick
      /\ UNCHANGED <<pipeline, grants, streams>>
  BY DEF TrafficInv, Close, Generation, Due, Bearers
<1>2. UNCHANGED <<arrives, queues, heap, trace, now, mode>> /\ UNCHANGED <<grants, streams>>
  BY <1>1 DEF pipeline
<1>3. ASSUME NEW b \in Bearers
      PROVE  IF Built(b)' THEN Filled(b, IF b < source THEN MeasureEnd ELSE clock)'
             ELSE (Emitted(b) = {} /\ StreamsOf(b) \cap streams = {})'
  <2>1. /\ b \in Nat /\ Emitted(b)' = Emitted(b) /\ (Built(b)' <=> b < source')
        /\ (b < source' <=> Built(b))
    BY <1>1, <1>2 DEF Built, Bearers, Emitted, Generated
  <2>2. CASE ~Built(b)
    BY <1>1, <1>2, <2>1, <2>2 DEF Generation
  <2>3. CASE b < source
    <3>1. Filled(b, MeasureEnd)
      BY <1>1, <2>3 DEF Generation, Built
    <3> QED BY <1>2, <2>1, <2>3, <3>1 DEF Filled, Built
  <2>4. CASE b = source
    <3>1. Filled(b, clock)
      BY <1>1, <2>1, <2>4 DEF Generation, Built
    <3>2. /\ \A p \in Emitted(b) : arrives[p] < MeasureEnd /\ arrives[p] \in Nat
          /\ Longest(b) \in Nat /\ MeasureEnd \in Nat
      BY <1>1, SourceParts, Configuration DEF Generation, Emitted, Generated
    <3>3. \A t \in {0} \cup {arrives[p] : p \in Emitted(b)} :
             t + Longest(b) < MeasureEnd => t + Longest(b) < clock
      BY <1>1, <3>2
    <3>4. Filled(b, MeasureEnd)
      BY <3>1, <3>2, <3>3 DEF Filled
    <3>5. Filled(b, MeasureEnd)'
      BY <1>2, <2>1, <3>4 DEF Filled
    <3> QED BY <1>1, <2>1, <2>4, <3>5 DEF Built
  <2> QED BY <1>1, <2>1, <2>2, <2>3, <2>4 DEF Built
<1>4. Generation'
  <2>1. source + 1 \in 1..NumBearers + 1
    BY <1>1, PipelineAssumption DEF Bearers
  <2> QED BY <1>1, <1>2, <1>3, <2>1 DEF Generation
<1> QED BY <1>1, <1>2, <1>4, StillGenerating DEF TrafficInv

-----------------------------------------------------------------------------
(* The schedule is complete: the run begins.                               *)

\* Grants at ticks that are never reached or were not granted add nothing.
LEMMA GrantedAfterNat ==
    ASSUME grants \in Grants, NEW b, NEW a, NEW S
    PROVE  GrantedAfter(b, a, S) \in Nat
<1> DEFINE f == [t \in 1..Stop |-> IF a < t /\ t \in S THEN GrantedBits(b, t) ELSE 0]
<1>1. \A t \in 1..Stop : f[t] \in Nat
  BY GrantedNat
<1> HIDE DEF f
<1>2. Sum(f, Stop) \in Nat
  BY <1>1, SumNat, Configuration
<1> QED BY <1>2 DEF GrantedAfter, f

\* The queues' constants, whatever has been generated.
LEMMA TrafficParts ==
    ASSUME Generation
    PROVE  /\ O!QueueAssumption /\ grants \in Grants
           /\ \A p \in Packets :
                 /\ BearerOf[p] \in Bearers /\ arrives[p] \in Nat \cup {NoTick}
                 /\ arrives[p] < Stop
                 /\ DeadlineTick[p] # NoTick =>
                       DeadlineTick[p] \in Nat /\ DeadlineTick[p] > arrives[p]
<1>1. /\ arrives \in [Packets -> Nat \cup {NoTick}] /\ grants \in Grants
      /\ \A p \in Packets : arrives[p] \in Int /\ arrives[p] < MeasureEnd
  BY DEF Generation, NoTick
<1>2. /\ O!QueueAssumption
      /\ \A p \in Packets : DeadlineTick[p] # NoTick =>
             DeadlineTick[p] \in Nat /\ DeadlineTick[p] > arrives[p]
  BY <1>1, QueuesConfigured
<1> QED BY <1>1, <1>2, Configuration

\* With the schedule complete, every generated packet is pending.
LEMMA BeginSafe == TrafficInv /\ Begin => TrafficInv'
<1> SUFFICES ASSUME TrafficInv, Begin PROVE TrafficInv'
  OBVIOUS
<1>1. /\ Generation /\ Prepared /\ mode = "generating" /\ source \notin Bearers
      /\ queues = [b \in Bearers |-> EmptyQueue] /\ now = 0
  BY DEF TrafficInv, Prepared, Begin
<1>2. CASE \E k \in DOMAIN grants : BadGrant(grants[k])
  <2>1. Refusable /\ Refuse
    BY <1>2 DEF Begin, Refusable
  <2> QED BY <1>1, <2>1, RefusalSafe
<1>3. CASE \A k \in DOMAIN grants : ~BadGrant(grants[k])
  <2>1. /\ heap' = TrafficEvents(Bearers) \cup GrantEvents
        /\ mode' = "running"
        /\ UNCHANGED <<arrives, queues, trace, now, inputs>>
    BY <1>3 DEF Begin
  <2>2. UNCHANGED <<arrives, inputs, grants, source, queues, now>>
    BY <2>1 DEF inputs
  <2>3. Generation'
    BY <1>1, <2>2, GenerationKept DEF GenerationSame
  <2>4. Prepared'
    <3>1. source = NumBearers + 1
      BY <1>1, PipelineAssumption DEF Generation, Bearers
    <3>2. (\A k \in DOMAIN grants : ~BadGrant(grants[k]))'
      BY <1>3, <2>2 DEF BadGrant
    <3> QED BY <2>1, <2>2, <3>1, <3>2 DEF Prepared
  <2>5. /\ \A b \in Bearers : queues'[b] = EmptyQueue
        /\ EmptyQueue.lastTick = 0 /\ \A p \in Packets : EmptyQueue.cause[p] = "absent"
    BY <1>1, <2>2 DEF EmptyQueue
  <2>6. \A b, t : GrantOf(b, t)' = GrantOf(b, t) /\ GrantKeys' = GrantKeys
    BY <2>2 DEF GrantOf, GrantEvent, GrantedBits, GrantKeys
  <2>7. /\ DeadlineTick' = DeadlineTick
        /\ \A p : Arrival(p)' = Arrival(p) /\ Expiry(p)' = Expiry(p)
    BY <2>2 DEF DeadlineTick, Arrival, Expiry
  <2>8. /\ \A p \in Packets : arrives[p] # NoTick =>
               /\ Arrival(p) \in heap'
               /\ DeadlineTick[p] # NoTick => Expiry(p) \in heap'
        /\ \A e \in heap' :
               \/ \E p \in Packets : arrives[p] # NoTick /\ e = Arrival(p)
               \/ \E p \in Packets : /\ arrives[p] # NoTick /\ DeadlineTick[p] # NoTick
                                     /\ e = Expiry(p)
               \/ \E b \in Bearers : e = Censoring(b)
               \/ e \in GrantEvents
    BY <2>1, Configuration DEF TrafficEvents
  <2>9. \A b, t : <<t, b>> \in GrantKeys => GrantOf(b, t) \in heap'
    <3>1. \A b, t : <<t, b>> \in GrantKeys => GrantOf(b, t) \in GrantEvents
      BY DEF GrantEvents, GrantOf
    <3> QED BY <2>1, <3>1
  <2>10. ASSUME NEW e \in GrantEvents
         PROVE  e.entity \in Bearers /\ e.tick \in Nat /\ e = GrantOf(e.entity, e.tick)
    <3>1. PICK k \in DOMAIN grants :
              e = GrantEvent(grants[k].tick, grants[k].bearer,
                             GrantedBits(grants[k].bearer, grants[k].tick))
      BY DEF GrantEvents, GrantKeys
    <3> DEFINE b == grants[k].bearer
               t == grants[k].tick
    <3>2. b \in Bearers /\ t \in Nat
      <4> DEFINE grant == [bearer : Nat, tick : Nat, capacity : Nat]
      <4>1. grants \in Seq(grant)
        BY <1>1, SourceAssumption DEF Generation
      <4> HIDE DEF grant
      <4>2. grants[k] \in grant
        BY <4>1
      <4> QED BY <1>3, <4>2 DEF BadGrant, grant
    <3>3. e = GrantOf(b, t)
      BY <3>1 DEF GrantOf
    <3>4. e.entity = b /\ e.tick = t
      BY <3>3, GrantParts
    <3> HIDE DEF b, t
    <3> QED BY <3>2, <3>3, <3>4
  <2>11. \A e \in heap' : Expected(e)' /\ now' <= e.tick
    <3> SUFFICES ASSUME NEW e \in heap'
                 PROVE  Expected(e)' /\ now' <= e.tick
      OBVIOUS
    <3>1. CASE \E p \in Packets : arrives[p] # NoTick /\ e = Arrival(p)
      <4>1. PICK p \in Packets : arrives[p] # NoTick /\ e = Arrival(p)
        BY <3>1
      <4>2. arrives[p] \in Nat /\ e.packet = p /\ e.tick = arrives[p]
        BY <1>1, <4>1, TrafficParts, EventParts
      <4> QED BY <1>1, <2>2, <2>7, <4>1, <4>2 DEF Expected
    <3>2. CASE \E p \in Packets : /\ arrives[p] # NoTick /\ DeadlineTick[p] # NoTick
                                  /\ e = Expiry(p)
      <4>1. PICK p \in Packets : arrives[p] # NoTick /\ DeadlineTick[p] # NoTick /\ e = Expiry(p)
        BY <3>2
      <4>2. DeadlineTick[p] \in Nat /\ e.packet = p /\ e.tick = DeadlineTick[p]
        BY <1>1, <4>1, TrafficParts, EventParts
      <4> QED BY <1>1, <2>2, <2>7, <4>1, <4>2 DEF Expected
    <3>3. CASE \E b \in Bearers : e = Censoring(b)
      <4>1. e.entity \in Bearers /\ e = Censoring(e.entity) /\ e.tick = Stop /\ Stop \in Nat
        BY <3>3, EventParts, Configuration
      <4>2. Censoring(e.entity)' = Censoring(e.entity)
        BY DEF Censoring
      <4> QED BY <1>1, <2>2, <4>1, <4>2 DEF Expected
    <3>4. CASE e \in GrantEvents
      BY <1>1, <2>2, <2>6, <2>10, <3>4 DEF Expected
    <3> QED BY <2>8, <3>1, <3>2, <3>3, <3>4
  <2>12. Clocks'
    <3>1. \A b \in Bearers : O!Valid(queues[b])'
      BY <1>1, <2>5, TrafficParts, EmptyCall
    <3>2. queues' = [b \in Bearers |-> queues'[b]]
      BY <1>1, <2>2
    <3>3. \A b \in Bearers : queues'[b].lastTick <= now'
      BY <1>1, <2>2, <2>5
    <3>4. \A b \in Bearers, t \in 1..Stop :
             (<<t, b>> \in GrantKeys /\ GrantOf(b, t) \notin heap => t <= now)'
      BY <2>6, <2>9
    <3> QED BY <1>1, <2>1, <2>2, <2>11, <3>1, <3>2, <3>3, <3>4, Configuration DEF Clocks
  <2>13. ASSUME NEW p \in Packets
         PROVE  Scheduling(p)' /\ Kept(p)'
    <3>1. BearerOf[p] \in Bearers
      BY Configuration
    <3>2. \A b \in Bearers : queues'[b].cause[p] = "absent"
      BY <2>5
    <3>3. Scheduling(p)'
      BY <2>2, <2>7, <2>8, <3>1, <3>2 DEF Scheduling
    <3>4. Kept(p)'
      BY <3>1, <3>2 DEF Kept
    <3> QED BY <3>3, <3>4
  <2> QED BY <2>3, <2>4, <2>12, <2>13 DEF TrafficInv, Executing
<1> QED BY <1>2, <1>3

-----------------------------------------------------------------------------
(* The steps of the run.                                                   *)

\* The state of a run that goes on, and what can be pending in it.
LEMMA RunParts ==
    ASSUME TrafficInv, mode = "running"
    PROVE  /\ Generation /\ Prepared /\ Clocks
           /\ \A p \in Packets : Scheduling(p) /\ Kept(p)
           /\ now \in Nat /\ now <= Stop /\ Stop \in Nat
           /\ \A b \in Bearers : /\ O!Valid(queues[b]) /\ queues[b].lastTick <= now
                                 /\ queues[b].lastTick \in Nat
           /\ \A e \in heap : Expected(e) /\ e.tick \in Nat /\ now <= e.tick
<1>1. /\ Generation /\ Prepared /\ Clocks /\ \A p \in Packets : Scheduling(p) /\ Kept(p)
      /\ O!QueueAssumption
  BY TrafficParts DEF TrafficInv, Executing
<1>2. \A b \in Bearers : queues[b].lastTick \in Nat
  BY <1>1, ValidParts DEF Clocks
<1> QED BY <1>1, <1>2, Configuration DEF Clocks, Expected

\* A pending event is what its kind says.
LEMMA ExpectedKinds ==
    ASSUME NEW e, Expected(e)
    PROVE  /\ e.kind = "packet_arrival" =>
                 e.packet \in Packets /\ arrives[e.packet] # NoTick /\ e = Arrival(e.packet)
           /\ e.kind = "packet_deadline" =>
                 /\ e.packet \in Packets /\ arrives[e.packet] # NoTick
                 /\ DeadlineTick[e.packet] # NoTick /\ e = Expiry(e.packet)
           /\ e.kind = "censor_at_stop" => e.entity \in Bearers /\ e = Censoring(e.entity)
           /\ e.kind = "service_completion" =>
                 e.entity \in Bearers /\ e = GrantOf(e.entity, e.tick)
           /\ e.kind \in {"packet_arrival", "packet_deadline", "censor_at_stop",
                          "service_completion"}
           /\ e.phase \in Int /\ (e.kind # "service_completion" => e.phase > 10)
           /\ e.kind = "service_completion" => e.phase = 10
<1>1. CASE e.packet \in Packets /\ arrives[e.packet] # NoTick /\ e = Arrival(e.packet)
  BY <1>1, EventParts
<1>2. CASE /\ e.packet \in Packets /\ arrives[e.packet] # NoTick
           /\ DeadlineTick[e.packet] # NoTick /\ e = Expiry(e.packet)
  BY <1>2, EventParts
<1>3. CASE e.entity \in Bearers /\ e = Censoring(e.entity)
  BY <1>3, EventParts
<1>4. CASE e.entity \in Bearers /\ e = GrantOf(e.entity, e.tick)
  BY <1>4, GrantParts
<1> QED BY <1>1, <1>2, <1>3, <1>4 DEF Expected

\* What the handler of event e may do to packet p when it turns the bearer's
\* queue q into s.
Moved(e, q, s, p) ==
    /\ q.cause[p] = "absent" =>
          IF e = Arrival(p) THEN s.cause[p] \in {"active", "overflow_drop"}
          ELSE s.cause[p] = "absent"
    /\ q.cause[p] = "active" =>
          \/ s.cause[p] = "active" /\ e # Expiry(p)
          \/ s.cause[p] = "completed"
          \/ /\ s.cause[p] \in {"deadline_expired", "censored_at_stop"}
             /\ s.terminal[p] = e.tick /\ e.kind # "service_completion"
    /\ q.cause[p] \in Terminal => s.cause[p] = q.cause[p] /\ s.terminal[p] = q.terminal[p]

\* The handler of event e turns the queue of its bearer b into s.
Advanced(e, b, s) ==
    /\ Dispatched(e) /\ heap' = heap \ {e} /\ UNCHANGED inputs
    /\ b \in Bearers /\ e.entity = b /\ queues' = [queues EXCEPT ![b] = s]
    /\ O!Valid(s) /\ s.lastTick = e.tick
    /\ s.served \in Nat /\ queues[b].served \in Nat /\ s.served >= queues[b].served
    /\ \A p \in Packets : Moved(e, queues[b], s, p)
    /\ e.kind = "service_completion" =>
          \A p \in Packets : s.cause[p] = "active" =>
              s.served >= queues[b].served + GrantedBits(b, e.tick)

\* What such a handler leaves alone.
LEMMA AdvancedParts ==
    ASSUME TrafficInv, mode = "running", NEW e, NEW b, NEW s, Advanced(e, b, s)
    PROVE  /\ e \in heap /\ Expected(e) /\ e.tick \in Nat /\ e.tick <= Stop /\ now <= e.tick
           /\ now' = e.tick /\ heap' = heap \ {e} /\ mode' = "running"
           /\ queues'[b] = s /\ \A a \in Bearers : a # b => queues'[a] = queues[a]
           /\ queues' = [a \in Bearers |-> queues'[a]]
           /\ UNCHANGED <<arrives, grants, source, clock, streams>>
           /\ DeadlineTick' = DeadlineTick /\ GrantKeys' = GrantKeys
           /\ \A p : Arrival(p)' = Arrival(p) /\ Expiry(p)' = Expiry(p)
           /\ \A a, t : GrantOf(a, t)' = GrantOf(a, t) /\ GrantedBits(a, t)' = GrantedBits(a, t)
           /\ \A f \in heap' : f \in heap /\ Precedes(e, f)
<1>1. /\ e \in heap /\ Expected(e) /\ e.tick \in Nat /\ now <= e.tick
      /\ queues = [a \in Bearers |-> queues[a]]
  BY RunParts DEF Advanced, Dispatched, Clocks
<1>2. UNCHANGED <<arrives, grants, source, clock, streams>>
  BY DEF Advanced, Dispatched, inputs
<1>3. /\ DeadlineTick' = DeadlineTick /\ GrantKeys' = GrantKeys
      /\ \A a, t : GrantedBits(a, t)' = GrantedBits(a, t)
  BY <1>2 DEF DeadlineTick, GrantKeys, GrantedBits
<1>4. /\ \A p : Arrival(p)' = Arrival(p) /\ Expiry(p)' = Expiry(p)
      /\ \A a, t : GrantOf(a, t)' = GrantOf(a, t)
  BY <1>2, <1>3 DEF Arrival, Expiry, GrantOf, GrantEvent
<1>5. queues'[b] = s /\ \A a \in Bearers : a # b => queues'[a] = queues[a]
      /\ queues' = [c \in Bearers |-> queues'[c]]
  BY <1>1 DEF Advanced
<1> QED BY <1>1, <1>2, <1>3, <1>4, <1>5 DEF Advanced, Dispatched

\* It keeps the clocks in order.
LEMMA AdvancedClocks ==
    ASSUME TrafficInv, mode = "running", NEW e, NEW b, NEW s, Advanced(e, b, s)
    PROVE  Clocks'
<1>1. ASSUME NEW f \in heap'
      PROVE  Expected(f)' /\ now' <= f.tick
  <2>1. f \in heap /\ Expected(f) /\ f.tick \in Nat /\ Precedes(e, f) /\ e.tick \in Nat
    BY <1>1, RunParts, AdvancedParts
  <2>2. now' <= f.tick
    BY <2>1, AdvancedParts DEF Precedes
  <2>3. \A a : Censoring(a)' = Censoring(a)
    BY DEF Censoring
  <2> QED BY <2>1, <2>2, <2>3, AdvancedParts DEF Expected
<1>2. ASSUME NEW a \in Bearers
      PROVE  O!Valid(queues[a])' /\ queues'[a].lastTick <= now'
  <2>1. CASE a = b
    <3>1. queues'[a] = s /\ O!Valid(s) /\ s.lastTick = now' /\ now' \in Nat
      BY <2>1, AdvancedParts DEF Advanced
    <3> QED BY <3>1
  <2>2. CASE a # b
    <3>1. O!Valid(queues[a]) /\ queues[a].lastTick <= now /\ queues[a].lastTick \in Nat
          /\ now \in Nat /\ now' \in Nat /\ now <= now'
      BY RunParts, AdvancedParts
    <3>2. queues'[a] = queues[a]
      BY <2>2, AdvancedParts
    <3> QED BY <3>1, <3>2
  <2> QED BY <2>1, <2>2
<1>3. ASSUME NEW a \in Bearers, NEW t \in 1..Stop, <<t, a>> \in GrantKeys,
             GrantOf(a, t) \notin heap'
      PROVE  t <= now'
  <2>1. CASE GrantOf(a, t) \in heap
    <3>1. GrantOf(a, t) = e
      BY <1>3, <2>1, AdvancedParts
    <3>2. e.tick = t
      BY <3>1, GrantParts
    <3> QED BY <3>2, AdvancedParts
  <2>2. CASE GrantOf(a, t) \notin heap
    <3>1. t <= now
      BY <1>3, <2>2, RunParts DEF Clocks
    <3> QED BY <3>1, AdvancedParts, RunParts
  <2> QED BY <2>1, <2>2
<1>4. now' \in Nat /\ now' <= Stop /\ mode' # "done" /\ queues' = [a \in Bearers |-> queues'[a]]
  BY AdvancedParts
<1>5. \A a \in Bearers, t \in 1..Stop :
          (<<t, a>> \in GrantKeys /\ GrantOf(a, t) \notin heap => t <= now)'
  BY <1>3, AdvancedParts
<1> QED BY <1>1, <1>2, <1>4, <1>5 DEF Clocks

\* It keeps the schedule and the queues in step.
LEMMA AdvancedScheduling ==
    ASSUME TrafficInv, mode = "running", NEW e, NEW b, NEW s, Advanced(e, b, s),
           NEW p \in Packets
    PROVE  Scheduling(p)'
<1> DEFINE own == BearerOf[p]
           q == queues[own]
<1>1. /\ own \in Bearers /\ Scheduling(p) /\ e.entity = b /\ b \in Bearers
      /\ \A a \in Bearers : queues'[a] = IF a = b THEN s ELSE queues[a]
      /\ heap' = heap \ {e} /\ arrives' = arrives
      /\ Arrival(p)' = Arrival(p) /\ Expiry(p)' = Expiry(p) /\ DeadlineTick' = DeadlineTick
  BY RunParts, AdvancedParts, Configuration DEF Advanced
<1>2. ASSUME NEW a \in Bearers \ {own}
      PROVE  queues'[a].cause[p] = "absent"
  <2>1. queues[a].cause[p] = "absent"
    BY <1>1 DEF Scheduling
  <2>2. CASE a = b
    <3>1. e # Arrival(p)
      BY <1>1, <2>2, EventParts
    <3> QED BY <1>1, <2>1, <2>2, <3>1 DEF Advanced, Moved
  <2> QED BY <1>1, <2>1, <2>2
<1>3. CASE own # b
  <2>1. e # Arrival(p) /\ e # Expiry(p)
    BY <1>1, <1>3, EventParts
  <2> QED BY <1>1, <1>2, <1>3, <2>1 DEF Scheduling
<1>4. CASE own = b /\ q.cause[p] = "absent" /\ e = Arrival(p)
  <2>1. s.cause[p] \in {"active", "overflow_drop"} /\ Arrival(p) \notin heap'
    BY <1>1, <1>4 DEF Advanced, Moved
  <2>2. arrives[p] # NoTick
    BY <1>4, AdvancedParts, EventParts, ExpectedKinds
  <2>3. Expiry(p) # e
    BY <1>4, EventParts
  <2> QED BY <1>1, <1>2, <1>4, <2>1, <2>2, <2>3 DEF Scheduling
<1>5. CASE own = b /\ q.cause[p] = "absent" /\ e # Arrival(p)
  <2>1. s.cause[p] = "absent"
    BY <1>1, <1>5 DEF Advanced, Moved
  <2>2. CASE arrives[p] # NoTick
    <3>1. Arrival(p) \in heap /\ Precedes(e, Arrival(p))
      BY <1>1, <1>5, <2>2, AdvancedParts DEF Scheduling
    <3>2. DeadlineTick[p] # NoTick => Expiry(p) # e
      <4>1. DeadlineTick[p] # NoTick => /\ DeadlineTick[p] \in Nat /\ arrives[p] \in Nat
                                        /\ DeadlineTick[p] > arrives[p]
        BY <2>2, RunParts, TrafficParts
      <4>2. DeadlineTick[p] # NoTick => ~Precedes(Expiry(p), Arrival(p))
        BY <4>1, EventParts DEF Precedes
      <4> QED BY <3>1, <4>2
    <3> QED BY <1>1, <1>2, <1>5, <2>1, <2>2, <3>1, <3>2 DEF Scheduling
  <2>3. CASE arrives[p] = NoTick
    BY <1>1, <1>2, <1>5, <2>1, <2>3 DEF Scheduling
  <2> QED BY <2>2, <2>3
<1>6. CASE own = b /\ q.cause[p] # "absent"
  <2>1. q.cause[p] \in Causes
    BY <1>1, RunParts, TrafficParts, ValidParts
  <2>2. s.cause[p] # "absent" /\ (s.cause[p] = "active" => q.cause[p] = "active" /\ e # Expiry(p))
    BY <1>1, <1>6, <2>1 DEF Advanced, Moved, Causes, Terminal
  <2> QED BY <1>1, <1>2, <1>6, <2>2 DEF Scheduling
<1> QED BY <1>3, <1>4, <1>5, <1>6

\* Sums of grants over fewer ticks, and over one more.
LEMMA GrantedOver ==
    ASSUME grants \in Grants, NEW b, NEW a, NEW S, NEW T, NEW tick,
           \A t \in T : a < t => t \in S \/ t = tick \/ GrantedBits(b, t) = 0
    PROVE  GrantedAfter(b, a, T) <= GrantedAfter(b, a, S) + GrantedBits(b, tick)
<1> DEFINE f == [t \in 1..Stop |-> IF a < t /\ t \in T THEN GrantedBits(b, t) ELSE 0]
           g == [t \in 1..Stop |-> IF a < t /\ t \in S THEN GrantedBits(b, t) ELSE 0]
           one == [t \in 1..Stop |-> IF t = tick THEN GrantedBits(b, t) ELSE 0]
           both == [t \in 1..Stop |-> g[t] + one[t]]
<1>1. /\ \A t \in 1..Stop : f[t] \in Nat /\ g[t] \in Nat /\ one[t] \in Nat
      /\ \A t \in 1..Stop : t # tick => one[t] = 0
      /\ tick \in 1..Stop => one[tick] = GrantedBits(b, tick)
      /\ GrantedBits(b, tick) \in Nat /\ Stop \in Nat
  BY GrantedNat, Configuration
<1>2. \A t \in 1..Stop : both[t] \in Int /\ both[t] = g[t] + one[t] /\ f[t] <= both[t]
  BY <1>1, GrantedNat
<1>3. GrantedAfter(b, a, T) = Sum(f, Stop) /\ GrantedAfter(b, a, S) = Sum(g, Stop)
  BY DEF GrantedAfter
<1> HIDE DEF f, g, one, both
<1>4. Sum(f, Stop) <= Sum(both, Stop) /\ Sum(both, Stop) = Sum(g, Stop) + Sum(one, Stop)
  BY <1>1, <1>2, SumMonotone, SumAdd
<1>5. Sum(one, Stop) \in Nat /\ Sum(one, Stop) <= GrantedBits(b, tick)
  <2>1. CASE tick \in 1..Stop
    BY <1>1, <2>1, SumSingle
  <2>2. CASE tick \notin 1..Stop
    BY <1>1, <2>2, SumZero
  <2> QED BY <2>1, <2>2
<1>6. Sum(f, Stop) \in Nat /\ Sum(g, Stop) \in Nat
  BY <1>1, SumNat
<1> QED BY <1>1, <1>3, <1>4, <1>5, <1>6

\* Over fewer ticks no more is granted.
LEMMA GrantedFewer ==
    ASSUME grants \in Grants, NEW b, NEW a, NEW S, NEW T, T \subseteq S
    PROVE  GrantedAfter(b, a, T) <= GrantedAfter(b, a, S)
<1> DEFINE f == [t \in 1..Stop |-> IF a < t /\ t \in T THEN GrantedBits(b, t) ELSE 0]
           g == [t \in 1..Stop |-> IF a < t /\ t \in S THEN GrantedBits(b, t) ELSE 0]
<1>1. \A t \in 1..Stop : f[t] \in Int /\ g[t] \in Int /\ f[t] <= g[t]
  <2>1. \A t \in 1..Stop : GrantedBits(b, t) \in Nat
    BY GrantedNat
  <2> QED BY <2>1
<1> HIDE DEF f, g
<1>2. Sum(f, Stop) <= Sum(g, Stop)
  BY <1>1, SumMonotone, Configuration
<1> QED BY <1>2 DEF GrantedAfter, f, g

\* A sum over ticks at which nothing is granted is nothing.
LEMMA GrantedNothing ==
    ASSUME grants \in Grants, NEW b, NEW a, NEW S,
           \A t \in S : a < t => GrantedBits(b, t) = 0
    PROVE  GrantedAfter(b, a, S) = 0
<1> DEFINE f == [t \in 1..Stop |-> IF a < t /\ t \in S THEN GrantedBits(b, t) ELSE 0]
<1>1. \A t \in 1..Stop : f[t] = 0
  OBVIOUS
<1> HIDE DEF f
<1>2. Sum(f, Stop) = 0
  BY <1>1, SumZero, Configuration
<1> QED BY <1>2 DEF GrantedAfter, f

\* While a packet stays queued, a grant leaves its bits to its bearer; when
\* it ends, no grant up to that tick is pending.
LEMMA AdvancedKept ==
    ASSUME TrafficInv, mode = "running", NEW e, NEW b, NEW s, Advanced(e, b, s),
           NEW p \in Packets
    PROVE  Kept(p)'
<1> DEFINE own == BearerOf[p]
           q == queues[own]
<1>1. /\ own \in Bearers /\ Kept(p) /\ e.entity = b /\ b \in Bearers
      /\ \A a \in Bearers : queues'[a] = IF a = b THEN s ELSE queues[a]
      /\ heap' = heap \ {e} /\ arrives' = arrives /\ now' = e.tick
      /\ grants \in Grants /\ arrives[p] \in Int
  <2>1. Kept(p) /\ Generation
    BY RunParts
  <2>2. own \in Bearers /\ grants \in Grants /\ arrives[p] \in Int
    BY <2>1, TrafficParts DEF NoTick
  <2>3. e.entity = b /\ b \in Bearers
    BY DEF Advanced
  <2> QED BY <2>1, <2>2, <2>3, AdvancedParts
<1>2. \A a, c, S : GrantedAfter(a, c, S)' = GrantedAfter(a, c, S)
  BY AdvancedParts DEF GrantedAfter
<1>3. /\ Spent(own)' = {t \in 1..Stop : GrantOf(own, t) \notin heap \/ GrantOf(own, t) = e}
      /\ Spent(own) = {t \in 1..Stop : GrantOf(own, t) \notin heap}
  BY <1>1, AdvancedParts DEF Spent
<1>4. CASE own # b
  <2>1. \A t : GrantOf(own, t) # e
    BY <1>1, <1>4, GrantParts
  <2>2. Spent(own)' = Spent(own)
    BY <1>3, <2>1
  <2> QED BY <1>1, <1>2, <1>4, <2>2 DEF Kept
<1>5. CASE own = b
  <2>1. /\ Moved(e, q, s, p) /\ q.cause[p] \in Causes
        /\ s.served \in Nat /\ q.served \in Nat /\ s.served >= q.served
        /\ queues'[own] = s
    BY <1>1, <1>5, RunParts, TrafficParts, ValidParts DEF Advanced
  <2>2. \A c, S : GrantedAfter(own, c, S) \in Nat
    BY <1>1, GrantedAfterNat
  <2>3. ASSUME s.cause[p] = "active"
        PROVE  s.served >= GrantedAfter(own, arrives[p], Spent(own)')
    <3>1. CASE q.cause[p] = "absent"
      <4>1. e = Arrival(p) /\ now' = arrives[p]
        BY <1>1, <2>1, <2>3, <3>1, EventParts DEF Moved
      <4>2. \A t \in Spent(own)' : arrives[p] < t => <<t, own>> \notin GrantKeys
        <5>1. \A t \in 1..Stop : GrantOf(own, t)' \notin heap' /\ <<t, own>> \in GrantKeys' => t <= now'
          BY <1>1, AdvancedClocks DEF Clocks
        <5>2. \A t \in Spent(own)' : t \in 1..Stop /\ GrantOf(own, t)' \notin heap'
          BY DEF Spent
        <5>3. \A t \in Spent(own)' : t \in Int /\ (<<t, own>> \in GrantKeys => t <= arrives[p])
          BY <4>1, <5>1, <5>2, AdvancedParts
        <5> QED BY <1>1, <5>3
      <4>3. GrantedAfter(own, arrives[p], Spent(own)') = 0
        <5> DEFINE S == Spent(own)'
        <5>1. \A t \in S : arrives[p] < t => GrantedBits(own, t) = 0
          BY <1>1, <4>2, GrantedNat
        <5> HIDE DEF S
        <5>2. GrantedAfter(own, arrives[p], S) = 0
          BY <1>1, <5>1, GrantedNothing
        <5> QED BY <5>2 DEF S
      <4> QED BY <2>1, <4>3
    <3>2. CASE q.cause[p] = "active" /\ e.kind = "service_completion"
      <4>1. s.served >= q.served + GrantedBits(own, e.tick)
        BY <1>5, <2>3, <3>2 DEF Advanced
      <4>2. \A t \in Spent(own)' : t \in Spent(own) \/ t = e.tick
        BY <1>3, GrantParts
      <4>3. GrantedAfter(own, arrives[p], Spent(own)')
               <= GrantedAfter(own, arrives[p], Spent(own)) + GrantedBits(own, e.tick)
        BY <1>1, <4>2, GrantedOver
      <4>4. q.served >= GrantedAfter(own, arrives[p], Spent(own)) /\ GrantedBits(own, e.tick) \in Nat
        BY <1>1, <3>2, GrantedNat DEF Kept
      <4> QED BY <2>1, <2>2, <4>1, <4>3, <4>4
    <3>3. CASE q.cause[p] = "active" /\ e.kind # "service_completion"
      <4>1. \A t : GrantOf(own, t) # e
        BY <3>3, GrantParts
      <4>2. Spent(own)' = Spent(own)
        BY <1>3, <4>1
      <4>3. q.served >= GrantedAfter(own, arrives[p], Spent(own))
        BY <1>1, <3>3 DEF Kept
      <4> QED BY <2>1, <2>2, <4>2, <4>3
    <3> QED BY <2>1, <2>3, <3>1, <3>2, <3>3 DEF Moved, Causes, Terminal
  <2>4. ASSUME s.cause[p] \in {"deadline_expired", "censored_at_stop"}
        PROVE  /\ s.terminal[p] \in Nat
               /\ s.served >= GrantedAfter(own, arrives[p], {t \in 1..Stop : t <= s.terminal[p]})
    <3>1. CASE q.cause[p] \in Terminal
      <4>1. s.cause[p] = q.cause[p] /\ s.terminal[p] = q.terminal[p]
        BY <2>1, <3>1 DEF Moved
      <4>2. /\ q.terminal[p] \in Nat
            /\ q.served >= GrantedAfter(own, arrives[p], {t \in 1..Stop : t <= q.terminal[p]})
        BY <1>1, <2>4, <4>1 DEF Kept
      <4> QED BY <2>1, <2>2, <4>1, <4>2
    <3>2. CASE q.cause[p] = "active"
      <4>1. s.terminal[p] = e.tick /\ e.kind # "service_completion" /\ e.tick \in Nat
        BY <2>1, <2>4, <3>2, AdvancedParts DEF Moved
      <4>2. \A t \in {t \in 1..Stop : t <= s.terminal[p]} : t \in Spent(own)
        <5> SUFFICES ASSUME NEW t \in 1..Stop, t <= e.tick, GrantOf(own, t) \in heap
                     PROVE  FALSE
          BY <1>3, <4>1
        <5>1. GrantOf(own, t) # e /\ GrantOf(own, t).tick = t /\ GrantOf(own, t).phase = 10
          BY <4>1, GrantParts
        <5>2. Precedes(e, GrantOf(own, t))
          BY <1>1, <5>1, AdvancedParts
        <5>3. e.phase > 10 /\ e.phase \in Int
          BY <4>1, AdvancedParts, ExpectedKinds, EventParts
        <5> QED BY <4>1, <5>1, <5>2, <5>3 DEF Precedes
      <4>3. GrantedAfter(own, arrives[p], {t \in 1..Stop : t <= s.terminal[p]})
               <= GrantedAfter(own, arrives[p], Spent(own))
        BY <1>1, <4>2, GrantedFewer
      <4>4. q.served >= GrantedAfter(own, arrives[p], Spent(own))
        BY <1>1, <3>2 DEF Kept
      <4> QED BY <2>1, <2>2, <4>1, <4>3, <4>4
    <3>3. CASE q.cause[p] = "absent"
      BY <2>1, <2>4, <3>3 DEF Moved
    <3> QED BY <2>1, <3>1, <3>2, <3>3 DEF Causes
  <2> QED BY <1>1, <1>2, <2>1, <2>3, <2>4 DEF Kept
<1> QED BY <1>4, <1>5

\* Such a handler preserves the invariant.
LEMMA AdvancedSafe ==
    ASSUME TrafficInv, mode = "running", NEW e, NEW b, NEW s, Advanced(e, b, s)
    PROVE  TrafficInv'
<1>1. UNCHANGED <<arrives, grants, source, clock, streams>> /\ mode' = "running"
  BY AdvancedParts
<1>2. Generation'
  BY <1>1, RunParts, GenerationKept DEF GenerationSame, inputs
<1>3. Prepared'
  <2>1. source = NumBearers + 1 /\ \A k \in DOMAIN grants : ~BadGrant(grants[k])
    BY RunParts DEF Prepared
  <2>2. (\A k \in DOMAIN grants : ~BadGrant(grants[k]))'
    BY <1>1, <2>1 DEF BadGrant
  <2> QED BY <1>1, <2>1, <2>2 DEF Prepared
<1>4. Clocks' /\ \A p \in Packets : Scheduling(p)' /\ Kept(p)'
  BY AdvancedClocks, AdvancedScheduling, AdvancedKept
<1> QED BY <1>2, <1>3, <1>4 DEF TrafficInv, Executing

-----------------------------------------------------------------------------
(* The handlers.                                                           *)

\* What a handler knows of the queue of its event's bearer.
LEMMA PoppedParts ==
    ASSUME TrafficInv, NEW e \in heap, NEW kind, Pop(e, kind)
    PROVE  /\ mode = "running" /\ e.kind = kind /\ Expected(e) /\ e.entity \in Bearers
           /\ e.tick \in Nat /\ e.tick <= Stop /\ now' = e.tick /\ arrives' = arrives
           /\ \A h \in heap \ {e} : Precedes(e, h)
           /\ O!QueueAssumption /\ O!Valid(queues[e.entity])
           /\ queues[e.entity].served \in Nat
           /\ ~StaleTick(queues[e.entity], e.tick)
           /\ \A p \in Packets : queues[e.entity].cause[p] \in Causes
<1>1. mode = "running" /\ e.kind = kind /\ e.tick <= Stop /\ now' = e.tick /\ arrives' = arrives
      /\ \A h \in heap \ {e} : Precedes(e, h)
  BY DEF Pop
<1>2. Expected(e) /\ e.tick \in Nat /\ now <= e.tick /\ now \in Nat
  BY <1>1, RunParts
<1>3. O!QueueAssumption /\ \A p \in Packets : BearerOf[p] \in Bearers
  BY <1>1, RunParts, TrafficParts
<1>4. e.entity \in Bearers
  BY <1>2, <1>3, ExpectedKinds, EventParts
<1>5. /\ O!Valid(queues[e.entity]) /\ queues[e.entity].lastTick \in Nat
      /\ queues[e.entity].lastTick <= now
  BY <1>1, <1>4, RunParts
<1>6. queues[e.entity].served \in Nat
  BY <1>5 DEF O!Valid, O!Sound, O!QueueState
<1>7. ~StaleTick(queues[e.entity], e.tick)
  BY <1>2, <1>5 DEF StaleTick
<1>8. \A p \in Packets : queues[e.entity].cause[p] \in Causes
  BY <1>3, <1>5, ValidParts
<1> QED BY <1>1, <1>2, <1>3, <1>4, <1>5, <1>6, <1>7, <1>8

\* A handler that does not raise, and what it makes of its queue.
LEMMA DoneAdvances ==
    ASSUME TrafficInv, NEW e \in heap, NEW kind, Pop(e, kind), UNCHANGED inputs,
           NEW s, queues' = [queues EXCEPT ![e.entity] = s], Done(e, {}),
           O!Valid(s), s.lastTick = e.tick,
           s.served \in Nat, s.served >= queues[e.entity].served,
           \A p \in Packets : Moved(e, queues[e.entity], s, p),
           kind = "service_completion" =>
               \A p \in Packets : s.cause[p] = "active" =>
                   s.served >= queues[e.entity].served + GrantedBits(e.entity, e.tick)
    PROVE  TrafficInv'
<1>1. Dispatched(e) /\ heap' = heap \ {e}
  BY PoppedParts DEF Dispatched, Done
<1>2. Advanced(e, e.entity, s)
  BY <1>1, PoppedParts DEF Advanced
<1> QED BY <1>2, PoppedParts, AdvancedSafe

\* A packet arrives once.
LEMMA TrafficArrivalSafe ==
    ASSUME TrafficInv, NEW e \in heap, ArrivalHandler(e), UNCHANGED inputs
    PROVE  TrafficInv'
<1> DEFINE q == queues[e.entity]
           p == e.packet
           s == Enqueue(q, e.tick, p, TRUE)
<1>1. Pop(e, "packet_arrival")
  BY DEF ArrivalHandler
<1>2. /\ mode = "running" /\ e.kind = "packet_arrival" /\ Expected(e) /\ e.entity \in Bearers
      /\ e.tick \in Nat /\ O!QueueAssumption /\ O!Valid(q) /\ q.served \in Nat
      /\ ~StaleTick(q, e.tick) /\ \A o \in Packets : q.cause[o] \in Causes
  BY <1>1, PoppedParts
<1>3. p \in Packets /\ arrives[p] # NoTick /\ e = Arrival(p) /\ e.entity = BearerOf[p]
  BY <1>2, ExpectedKinds, EventParts
<1>4. q.cause[p] = "absent"
  BY <1>2, <1>3, RunParts DEF Scheduling
<1>5. ~EnqueueRaises(q, e.tick, p, TRUE)
  BY <1>2, <1>4 DEF EnqueueRaises
<1>6. queues' = [queues EXCEPT ![e.entity] = s] /\ Done(e, {})
  BY <1>5 DEF ArrivalHandler
<1> HIDE DEF s, q
<1>7. ArrivedAs(q, s, e.tick, p)
  BY <1>2, <1>3, <1>5, EnqueueCall DEF s
<1> HIDE DEF p
<1>8. \A o : e = Arrival(o) <=> o = p
  BY <1>3, EventParts
<1>9. \A o : e # Expiry(o)
  BY <1>2, EventParts
<1>10. \A o \in Packets : Moved(e, q, s, o)
  BY <1>2, <1>3, <1>4, <1>7, <1>8, <1>9 DEF Moved, ArrivedAs, Causes, Terminal
<1>11. O!Valid(s) /\ s.lastTick = e.tick /\ s.served \in Nat /\ s.served >= q.served
  BY <1>2, <1>7 DEF ArrivedAs
<1>12. \A o \in Packets : Moved(e, queues[e.entity], s, o)
  BY <1>10 DEF q
<1>13. s.served >= queues[e.entity].served
  BY <1>11 DEF q
<1> HIDE DEF q
<1>14. ("packet_arrival" = "service_completion") =>
          \A o \in Packets : s.cause[o] = "active" =>
              s.served >= queues[e.entity].served + GrantedBits(e.entity, e.tick)
  OBVIOUS
<1> QED BY <1>1, <1>6, <1>11, <1>12, <1>13, <1>14, DoneAdvances

\* A packet expires at its deadline, after its arrival.
LEMMA TrafficDeadlineSafe ==
    ASSUME TrafficInv, NEW e \in heap, DeadlineHandler(e), UNCHANGED inputs
    PROVE  TrafficInv'
<1> DEFINE q == queues[e.entity]
           p == e.packet
           s == Expire(q, e.tick, p)
<1>1. Pop(e, "packet_deadline")
  BY DEF DeadlineHandler
<1>2. /\ mode = "running" /\ e.kind = "packet_deadline" /\ Expected(e) /\ e.entity \in Bearers
      /\ e.tick \in Nat /\ O!QueueAssumption /\ O!Valid(q) /\ q.served \in Nat
      /\ ~StaleTick(q, e.tick) /\ \A o \in Packets : q.cause[o] \in Causes
      /\ \A h \in heap \ {e} : Precedes(e, h)
  BY <1>1, PoppedParts
<1>3. /\ p \in Packets /\ arrives[p] # NoTick /\ DeadlineTick[p] # NoTick /\ e = Expiry(p)
      /\ e.entity = BearerOf[p] /\ e.tick = DeadlineTick[p]
  BY <1>2, ExpectedKinds, EventParts
<1>4. q.cause[p] # "absent"
  <2>1. Arrival(p) # e
    BY <1>2, EventParts
  <2>2. /\ DeadlineTick[p] \in Nat /\ arrives[p] \in Nat /\ DeadlineTick[p] > arrives[p]
    BY <1>2, <1>3, RunParts, TrafficParts
  <2>3. ~Precedes(e, Arrival(p))
    BY <1>3, <2>2, EventParts DEF Precedes
  <2> QED BY <1>2, <1>3, <2>1, <2>3, RunParts DEF Scheduling
<1>5. ~ExpireRaises(q, e.tick, p)
  BY <1>2, <1>3, <1>4 DEF ExpireRaises
<1>6. queues' = [queues EXCEPT ![e.entity] = s] /\ Done(e, {})
  BY <1>5 DEF DeadlineHandler
<1> HIDE DEF s, q
<1>7. ExpiredAs(q, s, e.tick, p)
  BY <1>2, <1>3, <1>5, ExpireCall DEF s
<1> HIDE DEF p
<1>8. \A o : e = Expiry(o) <=> o = p
  BY <1>3, EventParts
<1>9. \A o : e # Arrival(o)
  BY <1>2, EventParts
<1>10. \A o \in Packets : Moved(e, q, s, o)
  BY <1>2, <1>3, <1>4, <1>7, <1>8, <1>9 DEF Moved, ExpiredAs, Causes, Terminal
<1>11. O!Valid(s) /\ s.lastTick = e.tick /\ s.served \in Nat /\ s.served >= q.served
  BY <1>2, <1>7 DEF ExpiredAs
<1>12. \A o \in Packets : Moved(e, queues[e.entity], s, o)
  BY <1>10 DEF q
<1>13. s.served >= queues[e.entity].served
  BY <1>11 DEF q
<1> HIDE DEF q
<1>14. ("packet_deadline" = "service_completion") =>
          \A o \in Packets : s.cause[o] = "active" =>
              s.served >= queues[e.entity].served + GrantedBits(e.entity, e.tick)
  OBVIOUS
<1> QED BY <1>1, <1>6, <1>11, <1>12, <1>13, <1>14, DoneAdvances

\* Censoring ends what is queued.
LEMMA TrafficCensorSafe ==
    ASSUME TrafficInv, NEW e \in heap, CensorHandler(e), UNCHANGED inputs
    PROVE  TrafficInv'
<1> DEFINE q == queues[e.entity]
           s == Censor(q, e.tick)
<1>1. Pop(e, "censor_at_stop")
  BY DEF CensorHandler
<1>2. /\ mode = "running" /\ e.kind = "censor_at_stop" /\ e.entity \in Bearers
      /\ e.tick \in Nat /\ O!QueueAssumption /\ O!Valid(q) /\ q.served \in Nat
      /\ ~StaleTick(q, e.tick) /\ \A o \in Packets : q.cause[o] \in Causes
  BY <1>1, PoppedParts
<1>3. queues' = [queues EXCEPT ![e.entity] = s] /\ Done(e, {})
  BY <1>2 DEF CensorHandler
<1>4. /\ O!Valid(s) /\ s.lastTick = e.tick /\ s.served = q.served
      /\ \A o \in Packets :
            IF q.cause[o] = "active"
            THEN s.cause[o] = "censored_at_stop" /\ s.terminal[o] = e.tick
            ELSE s.cause[o] = q.cause[o] /\ s.terminal[o] = q.terminal[o]
  BY <1>2, CensorCall
<1> HIDE DEF s, q
<1>5. \A o : e # Arrival(o) /\ e # Expiry(o)
  BY <1>2, EventParts
<1>6. \A o \in Packets : Moved(e, q, s, o)
  BY <1>2, <1>4, <1>5 DEF Moved, Causes, Terminal
<1>7. s.served \in Nat /\ s.served >= q.served
  BY <1>2, <1>4
<1> QED BY <1>1, <1>3, <1>4, <1>6, <1>7, DoneAdvances DEF q

\* A grant never finds a packet past its deadline: that packet's expiry would
\* have come first.
LEMMA GrantSafe ==
    ASSUME TrafficInv, NEW e \in heap, GrantHandler(e), UNCHANGED inputs
    PROVE  TrafficInv'
<1> DEFINE q == queues[e.entity]
           capacity == GrantedBits(e.entity, e.tick)
           s == Serve(q, e.tick, capacity)
<1>1. Pop(e, "service_completion")
  BY DEF GrantHandler
<1>2. /\ mode = "running" /\ e.kind = "service_completion" /\ Expected(e) /\ e.entity \in Bearers
      /\ e.tick \in Nat /\ O!QueueAssumption /\ O!Valid(q) /\ q.served \in Nat
      /\ ~StaleTick(q, e.tick) /\ \A o \in Packets : q.cause[o] \in Causes
      /\ \A h \in heap \ {e} : Precedes(e, h)
  BY <1>1, PoppedParts
<1>3. (CHOOSE n \in e.work.plan : TRUE) = capacity
  BY <1>2, ExpectedKinds, GrantParts
<1>4. capacity \in Nat
  BY <1>2, RunParts, TrafficParts, GrantedNat
<1>5. OverdueInReach(q, e.tick, capacity) = {}
  <2>a. q.active = {p \in Packets : q.cause[p] = "active"}
    <3> HIDE DEF q
    <3> QED BY <1>2, ValidParts
  <2> SUFFICES ASSUME NEW p \in q.active, DeadlineTick[p] # NoTick, DeadlineTick[p] < e.tick
               PROVE  FALSE
    BY DEF OverdueInReach
  <2>1. p \in Packets /\ q.cause[p] = "active"
    BY <2>a
  <2>2. BearerOf[p] = e.entity /\ arrives[p] # NoTick /\ Expiry(p) \in heap
    BY <1>2, <2>1, RunParts DEF Scheduling
  <2>3. Expiry(p) # e /\ DeadlineTick[p] \in Nat
    BY <1>2, <2>1, EventParts, RunParts, TrafficParts
  <2>4. Precedes(e, Expiry(p)) /\ Expiry(p).tick = DeadlineTick[p]
    BY <1>2, <2>2, <2>3, EventParts
  <2> QED BY <1>2, <2>3, <2>4 DEF Precedes
<1>6. ~ServeRaises(q, e.tick, capacity)
  BY <1>2, <1>4, <1>5 DEF ServeRaises
<1>7. queues' = [queues EXCEPT ![e.entity] = s] /\ Done(e, {})
  BY <1>3, <1>6 DEF GrantHandler
<1> HIDE DEF capacity, q
<1>8. O!Valid(s) /\ O!ServedAs(q, s, e.tick, capacity)
  BY <1>2, <1>4, <1>6, ServeCall
<1> HIDE DEF s
<1>9. \A o : e # Arrival(o) /\ e # Expiry(o)
  BY <1>2, EventParts
<1>10. \A o \in Packets : Moved(e, q, s, o)
  BY <1>2, <1>8, <1>9, Names DEF Moved, O!ServedAs, Causes, Terminal
<1>11. /\ s.lastTick = e.tick /\ s.served \in Nat /\ s.served >= q.served
       /\ \A p \in Packets : s.cause[p] = "active" => s.served >= q.served + capacity
  BY <1>8, Names DEF O!ServedAs
<1> QED BY <1>1, <1>2, <1>7, <1>8, <1>10, <1>11, DoneAdvances DEF q, capacity

\* The run returns when only expiries after the stop are left.
LEMMA TrafficFinishSafe ==
    ASSUME TrafficInv, Finish, UNCHANGED inputs
    PROVE  TrafficInv'
<1>1. /\ mode = "running" /\ mode' = "done" /\ now' = Stop
      /\ \A h \in heap : h.tick > Stop
      /\ UNCHANGED <<arrives, queues, heap, trace>>
      /\ UNCHANGED <<grants, source, clock, streams>>
  BY DEF Finish, inputs
<1>2. Generation'
  BY <1>1, RunParts, GenerationKept DEF GenerationSame, inputs
<1>3. Prepared'
  <2>1. source = NumBearers + 1 /\ \A k \in DOMAIN grants : ~BadGrant(grants[k])
    BY <1>1, RunParts DEF Prepared
  <2>2. (\A k \in DOMAIN grants : ~BadGrant(grants[k]))'
    BY <1>1, <2>1 DEF BadGrant
  <2> QED BY <1>1, <2>1, <2>2 DEF Prepared
<1>4. /\ DeadlineTick' = DeadlineTick /\ GrantKeys' = GrantKeys
      /\ \A a, t : GrantedBits(a, t)' = GrantedBits(a, t)
  BY <1>1 DEF DeadlineTick, GrantKeys, GrantedBits
<1>5. /\ \A p : Arrival(p)' = Arrival(p) /\ Expiry(p)' = Expiry(p)
      /\ \A a, t : GrantOf(a, t)' = GrantOf(a, t)
      /\ \A a : Censoring(a)' = Censoring(a)
  BY <1>1, <1>4 DEF Arrival, Expiry, GrantOf, GrantEvent, Censoring
<1>6. \A p \in Packets : Scheduling(p)'
  <2>1. \A p \in Packets : Scheduling(p)
    BY <1>1, RunParts
  <2> QED BY <1>1, <1>4, <1>5, <2>1 DEF Scheduling
<1>7. \A p \in Packets : Kept(p)'
  <2>1. \A p \in Packets : Kept(p)
    BY <1>1, RunParts
  <2>2. /\ \A a, c, S : GrantedAfter(a, c, S)' = GrantedAfter(a, c, S)
        /\ \A a : Spent(a)' = Spent(a)
    BY <1>1, <1>4, <1>5 DEF GrantedAfter, Spent
  <2> QED BY <1>1, <2>1, <2>2 DEF Kept
<1>8. Clocks'
  <2>1. /\ Clocks /\ now \in Nat /\ now <= Stop /\ Stop \in Nat
        /\ \A b \in Bearers : /\ O!Valid(queues[b]) /\ queues[b].lastTick <= now
                              /\ queues[b].lastTick \in Nat
        /\ \A e \in heap : Expected(e) /\ e.tick \in Nat
    BY <1>1, RunParts
  <2>2. \A e \in heap : Expected(e)' /\ now' <= e.tick
    BY <1>1, <1>4, <1>5, <2>1 DEF Expected
  <2>3. \A b \in Bearers : O!Valid(queues[b])' /\ queues'[b].lastTick <= now'
    BY <1>1, <2>1
  <2> QED BY <1>1, <1>4, <1>5, <2>1, <2>2, <2>3 DEF Clocks
<1> QED BY <1>2, <1>3, <1>6, <1>7, <1>8 DEF TrafficInv, Executing

-----------------------------------------------------------------------------
(* The traffic run: the theorems.                                          *)

\* The invariant does not depend on the trace.
LEMMA TrafficUnchanged == TrafficInv /\ UNCHANGED trafficVars => TrafficInv'
<1> SUFFICES ASSUME TrafficInv, UNCHANGED trafficVars PROVE TrafficInv'
  OBVIOUS
<1>1. UNCHANGED <<arrives, queues, heap, now, mode, grants, source, clock, streams>>
  BY DEF trafficVars, pipeline
<1>2. Generation'
  BY <1>1, GenerationKept DEF TrafficInv, GenerationSame, inputs
<1>3. DeadlineTick' = DeadlineTick /\ GrantKeys' = GrantKeys
      /\ \A a, t : GrantedBits(a, t)' = GrantedBits(a, t)
  BY <1>1 DEF DeadlineTick, GrantKeys, GrantedBits
<1>4. Prepared'
  BY <1>1 DEF TrafficInv, Prepared, Refusable, Unused, BadGrant
<1>5. Executing'
  <2>1. /\ \A p : Arrival(p)' = Arrival(p) /\ Expiry(p)' = Expiry(p)
        /\ \A a, t : GrantOf(a, t)' = GrantOf(a, t)
        /\ \A a : Censoring(a)' = Censoring(a)
    BY <1>1, <1>3 DEF Arrival, Expiry, GrantOf, GrantEvent, Censoring
  <2>2. \A e : Expected(e)' <=> Expected(e)
    BY <1>1, <1>3, <2>1 DEF Expected
  <2>3. Clocks => Clocks'
    BY <1>1, <1>3, <2>1, <2>2 DEF Clocks
  <2>4. \A p \in Packets : Scheduling(p) => Scheduling(p)'
    BY <1>1, <1>3, <2>1 DEF Scheduling
  <2>5. /\ \A a, c, S : GrantedAfter(a, c, S)' = GrantedAfter(a, c, S)
        /\ \A a : Spent(a)' = Spent(a)
    BY <1>1, <1>3, <2>1 DEF GrantedAfter, Spent
  <2>6. \A p \in Packets : Kept(p) => Kept(p)'
    BY <1>1, <2>5 DEF Kept
  <2> QED BY <1>1, <2>3, <2>4, <2>6 DEF TrafficInv, Executing
<1> QED BY <1>2, <1>4, <1>5 DEF TrafficInv

\* Every step preserves the invariant.
LEMMA TrafficStep == TrafficInv /\ [TrafficNext]_trafficVars => TrafficInv'
<1> SUFFICES ASSUME TrafficInv, TrafficNext PROVE TrafficInv'
  BY TrafficUnchanged
<1>1. CASE Open
  BY <1>1, OpenSafe
<1>2. CASE Emit
  BY <1>2, EmitSafe
<1>3. CASE Close
  BY <1>3, CloseSafe
<1>4. CASE Begin
  BY <1>4, BeginSafe
<1>5. ASSUME NEW e \in heap, ArrivalHandler(e), UNCHANGED inputs PROVE TrafficInv'
  BY <1>5, TrafficArrivalSafe
<1>6. ASSUME NEW e \in heap, DeadlineHandler(e), UNCHANGED inputs PROVE TrafficInv'
  BY <1>6, TrafficDeadlineSafe
<1>7. ASSUME NEW e \in heap, GrantHandler(e), UNCHANGED inputs PROVE TrafficInv'
  BY <1>7, GrantSafe
<1>8. ASSUME NEW e \in heap, CensorHandler(e), UNCHANGED inputs PROVE TrafficInv'
  BY <1>8, TrafficCensorSafe
<1>9. CASE Finish /\ UNCHANGED inputs
  BY <1>9, TrafficFinishSafe
<1> QED BY <1>1, <1>2, <1>3, <1>4, <1>5, <1>6, <1>7, <1>8, <1>9 DEF TrafficNext

\* The invariant of the traffic run.
THEOREM TrafficInvariant == TrafficSpec => []TrafficInv
BY TrafficStarts, TrafficStep, PTL DEF TrafficSpec

\* No two pending events of the traffic run have the same key.
LEMMA TrafficKeys ==
    ASSUME NEW e, NEW h, Expected(e), Expected(h), Key(e) = Key(h)
    PROVE  e = h
<1>1. /\ e.tick = h.tick /\ e.phase = h.phase /\ e.entity = h.entity /\ e.seq = h.seq
      /\ e.kind = h.kind
  BY DEF Key
<1>2. CASE e.kind = "packet_arrival"
  <2>1. e = Arrival(e.packet) /\ h = Arrival(h.packet)
    BY <1>1, <1>2, ExpectedKinds
  <2>2. e.seq = e.packet /\ h.seq = h.packet
    BY <2>1, EventParts
  <2> QED BY <1>1, <2>1, <2>2
<1>3. CASE e.kind = "packet_deadline"
  <2>1. e = Expiry(e.packet) /\ h = Expiry(h.packet)
    BY <1>1, <1>3, ExpectedKinds
  <2>2. e.seq = e.packet /\ h.seq = h.packet
    BY <2>1, EventParts
  <2> QED BY <1>1, <2>1, <2>2
<1>4. CASE e.kind \in {"censor_at_stop", "service_completion"}
  BY <1>1, <1>4, ExpectedKinds
<1> QED BY <1>2, <1>3, <1>4, ExpectedKinds

\* A valid configuration is refused for the safety budget of a source or a
\* grant that cannot be applied only, the run never fails, and no two pending
\* events have the same key.
THEOREM TrafficRefusals == TrafficSpec => []RefusesOnlyBadInput
<1>1. TrafficInv => RefusesOnlyBadInput
  <2> SUFFICES ASSUME TrafficInv PROVE RefusesOnlyBadInput
    OBVIOUS
  <2>1. NeverFails /\ (mode = "refused" => Refusable)
    BY DEF TrafficInv, Prepared, NeverFails
  <2>2. \A e, h \in heap : Key(e) = Key(h) => e = h
    <3>1. \A e \in heap : Expected(e)
      BY DEF TrafficInv, Prepared, Executing, Clocks
    <3> QED BY <3>1, TrafficKeys
  <2> QED BY <2>1, <2>2 DEF RefusesOnlyBadInput, Refusable
<1> QED BY <1>1, TrafficInvariant, PTL

\* When the run begins every source has filled the time to the generation
\* stop, in strict time order and never further apart than its longest
\* interval.
THEOREM TrafficFillsTheWindow == TrafficSpec => []SourcesFillTheWindow
<1>1. TrafficInv => SourcesFillTheWindow
  <2> SUFFICES ASSUME TrafficInv, mode \in {"running", "done"}, NEW b \in Bearers
               PROVE  LET mine == {p \in Generated : BearerOf[p] = b}
                          longest == Extrema!Max(Intervals(b) \cup FirstIntervals(b))
                          ends == {arrives[p] : p \in mine}
                      IN  /\ \A p \in mine : arrives[p] < MeasureEnd
                          /\ \A p, o \in mine : p < o => arrives[p] < arrives[o]
                          /\ \A t \in {0} \cup ends :
                                t + longest < MeasureEnd =>
                                    \E s \in ends : s > t \/ (t = 0 /\ s = 0)
    BY DEF SourcesFillTheWindow
  <2>1. b < source /\ Built(b)
    BY PipelineAssumption DEF TrafficInv, Prepared, Built, Bearers
  <2>2. Filled(b, MeasureEnd)
    BY <2>1 DEF TrafficInv, Generation
  <2> QED BY <2>2 DEF Filled, Emitted, Longest
<1> QED BY <1>1, TrafficInvariant, PTL

\* When the run is over, a packet that expired or was censored could not have
\* had more: its bearer's packets were given all that was granted while the
\* packet was queued.
THEOREM TrafficGrantsUsed == TrafficSpec => []GrantsUsed
<1>1. TrafficInv => GrantsUsed
  <2> SUFFICES ASSUME TrafficInv, mode = "done", NEW p \in Generated,
                      queues[BearerOf[p]].cause[p] \in {"deadline_expired", "censored_at_stop"}
               PROVE  LET b == BearerOf[p]
                          q == queues[b]
                          usable == Sum([t \in 1..Stop |->
                                            IF arrives[p] < t /\ t <= q.terminal[p]
                                            THEN GrantedBits(b, t) ELSE 0], Stop)
                      IN  q.served >= usable
    BY Zenon DEF GrantsUsed
  <2> DEFINE b == BearerOf[p]
             q == queues[b]
             f == [t \in 1..Stop |-> IF arrives[p] < t /\ t <= q.terminal[p]
                                     THEN GrantedBits(b, t) ELSE 0]
             g == [t \in 1..Stop |-> IF arrives[p] < t /\ t \in {x \in 1..Stop : x <= q.terminal[p]}
                                     THEN GrantedBits(b, t) ELSE 0]
  <2>1. Kept(p) /\ p \in Packets
    BY DEF TrafficInv, Executing, Generated
  <2>2. q.served >= Sum(g, Stop)
    BY <2>1 DEF Kept, GrantedAfter
  <2>3. f = g
    OBVIOUS
  <2> HIDE DEF f, g
  <2>4. q.served >= Sum(f, Stop)
    BY <2>2, <2>3
  <2> QED BY <2>4 DEF f
<1> QED BY <1>1, TrafficInvariant, PTL

-----------------------------------------------------------------------------
(* Slots and events.                                                       *)

At(k) == k * Slot

\* Multiples of a positive number.
LEMMA Multiples ==
    ASSUME NEW n \in Nat, n > 0
    PROVE  /\ \A j, k \in Nat : j < k => j * n + n <= k * n
           /\ \A a \in Nat : \A k \in 0..((a \div n) - 1) : k * n + n <= a
<1>1. ASSUME NEW j \in Nat, NEW k \in Nat, j < k
      PROVE  j * n + n <= k * n
  <2>1. PICK m \in Nat : k = m + (j + 1)
    BY <1>1
  <2>2. (m + (j + 1)) * n = m * n + (j + 1) * n /\ m * n \in Nat /\ (j + 1) * n = j * n + n
    OBVIOUS
  <2> QED BY <2>1, <2>2
<1>2. ASSUME NEW a \in Nat, NEW k \in 0..((a \div n) - 1)
      PROVE  k * n + n <= a
  OBVIOUS
<1> QED BY <1>1, <1>2

\* A sequence is one longer when something is appended to it.
LEMMA Appended ==
    \A S, f, x : f \in Seq(S) => Len(Append(f, x)) = Len(f) + 1
<1> SUFFICES ASSUME NEW S, NEW f \in Seq(S), NEW x
             PROVE  Len(Append(f, x)) = Len(f) + 1
  OBVIOUS
<1> DEFINE T == S \cup {x}
<1>1. f \in Seq(T) /\ x \in T
  OBVIOUS
<1> HIDE DEF T
<1> QED BY <1>1

\* Slots follow each other, and end by the stop.
LEMMA SlotTimes ==
    /\ \A k \in Nat : At(k) \in Nat /\ At(k + 1) = At(k) + Slot
    /\ \A j, k \in Nat : j < k => At(j) + Slot <= At(k)
    /\ \A k \in Slots : k \in Nat /\ At(k) + Slot <= Stop
<1>1. ASSUME NEW k \in Nat
      PROVE  At(k) \in Nat /\ At(k + 1) = At(k) + Slot
  BY Configuration DEF At
<1>2. \A j, k \in Nat : j < k => At(j) + Slot <= At(k)
  BY Multiples, Configuration DEF At
<1>3. \A k \in Slots : k \in Nat /\ At(k) + Slot <= Stop
  <2>1. \A k \in 0..((Stop \div Slot) - 1) : k * Slot + Slot <= Stop
    BY Multiples, Configuration
  <2> QED BY <2>1 DEF Slots, At
<1> QED BY <1>1, <1>2, <1>3

\* The parts of the events that the proofs read.
LEMMA SlotEventParts ==
    /\ \A p : /\ Arrival(p).kind = "packet_arrival" /\ Arrival(p).tick = arrives[p]
             /\ Arrival(p).phase = 40 /\ Arrival(p).entity = BearerOf[p]
             /\ Arrival(p).seq = p /\ Arrival(p).packet = p /\ Arrival(p).work = NoWork
    /\ \A p : /\ Expiry(p).kind = "packet_deadline" /\ Expiry(p).tick = DeadlineTick[p]
             /\ Expiry(p).phase = 20 /\ Expiry(p).entity = BearerOf[p]
             /\ Expiry(p).seq = p /\ Expiry(p).packet = p /\ Expiry(p).work = NoWork
    /\ \A b : /\ Censoring(b).kind = "censor_at_stop" /\ Censoring(b).tick = Stop
             /\ Censoring(b).phase = 80 /\ Censoring(b).entity = b
             /\ Censoring(b).seq = 0 /\ Censoring(b).work = NoWork
    /\ \A c, k : /\ SlotStart(c, k).kind = "scheduling" /\ SlotStart(c, k).tick = At(k)
                /\ SlotStart(c, k).phase = 60 /\ SlotStart(c, k).entity = c
                /\ SlotStart(c, k).seq = k /\ SlotStart(c, k).work = NoWork
    /\ \A c, w : \A k \in Nat :
                /\ SlotEnd(c, k, w).kind = "service_completion"
                /\ SlotEnd(c, k, w).tick = At(k) + Slot
                /\ SlotEnd(c, k, w).phase = 10 /\ SlotEnd(c, k, w).entity = c
                /\ SlotEnd(c, k, w).seq = k /\ SlotEnd(c, k, w).work = w
    /\ NoWork.plan = {}
<1>1. \A k \in Nat : (k + 1) * Slot = At(k) + Slot
  BY Configuration DEF At
<1> QED
  BY <1>1 DEF Arrival, Expiry, Censoring, SlotStart, SlotEnd, EventOf, NoWork, At,
              ServicePhase, DeadlinePhase, ArrivalPhase, SchedulingPhase, ObservationPhase

\* Every pending event is one of those the schedule and the handlers make.
Scheduled(e) ==
    /\ e.tick \in Nat
    /\ e.kind = "packet_arrival" => e.packet \in Packets /\ e = Arrival(e.packet)
    /\ e.kind = "packet_deadline" =>
          e.packet \in Packets /\ DeadlineTick[e.packet] # NoTick /\ e = Expiry(e.packet)
    /\ e.kind = "censor_at_stop" => e.entity \in Bearers /\ e = Censoring(e.entity)
    /\ e.kind = "scheduling" =>
          e.entity \in Cells /\ e.seq \in Slots /\ e = SlotStart(e.entity, e.seq)
    /\ IF e.kind = "service_completion"
       THEN e.entity \in Cells /\ e.seq \in Slots /\ e = SlotEnd(e.entity, e.seq, e.work)
       ELSE e.work.plan = {}

\* The completion of a slot comes before the expiries of its tick, and after
\* every start of a slot at its own start.
LEMMA ServiceParts ==
    ASSUME NEW e, Scheduled(e), e.kind = "service_completion"
    PROVE  /\ e.seq \in Slots /\ e.seq \in Nat /\ e.entity \in Cells
           /\ e.phase = 10 /\ e.tick = At(e.seq) + Slot /\ At(e.seq) \in Nat
<1>1. e.seq \in Slots /\ e.entity \in Cells /\ e = SlotEnd(e.entity, e.seq, e.work)
  BY DEF Scheduled
<1>2. e.seq \in Nat /\ At(e.seq) \in Nat
  BY <1>1, SlotTimes
<1>3. /\ SlotEnd(e.entity, e.seq, e.work).phase = 10
      /\ SlotEnd(e.entity, e.seq, e.work).tick = At(e.seq) + Slot
  BY <1>2, SlotEventParts
<1> QED BY <1>1, <1>2, <1>3

-----------------------------------------------------------------------------
(* The inductive invariant.  A bearer belongs to the cell that own gives   *)
(* its UE.                                                                 *)

\* The state has its type, clocks are behind the kernel's and events ahead.
Running ==
    /\ arrives \in ArrivalPatterns
    /\ now \in Nat /\ now <= Stop /\ mode \in {"running", "done"}
    /\ mode = "done" => \A e \in heap : e.tick > Stop
    /\ queues = [b \in Bearers |-> queues[b]]
    /\ \A b \in Bearers : /\ O!Valid(queues[b]) /\ queues[b].lastTick <= now
                          /\ queues[b].done \subseteq queues[b].known
    /\ \A e \in heap : Scheduled(e) /\ now <= e.tick

\* A packet is absent until its arrival, and its expiry is pending while it
\* is queued; bearers know their own packets only, in their order.
PacketPending(p) ==
    LET q == queues[BearerOf[p]] IN
    /\ Arrival(p) \in heap <=> q.cause[p] = "absent"
    /\ q.cause[p] \in {"absent", "active"} /\ DeadlineTick[p] # NoTick => Expiry(p) \in heap
    /\ q.cause[p] # "absent" => q.arrival[p] = arrives[p] /\ arrives[p] <= now
    /\ \A b \in Bearers \ {BearerOf[p]} : queues[b].cause[p] = "absent"

InOrder(p, o) ==
    LET q == queues[BearerOf[p]] IN
    BearerOf[o] = BearerOf[p] /\ o < p /\ q.cause[p] # "absent"
    => q.cause[o] # "absent" /\ q.rank[o] < q.rank[p]

Traffic ==
    /\ \A p \in Packets : PacketPending(p)
    /\ \A p, o \in Packets : InOrder(p, o)

\* Once a bearer is censored, all its packets have ended.
Censored ==
    \A p \in Packets :
        Censoring(BearerOf[p]) \notin heap => queues[BearerOf[p]].cause[p] \in Terminal

\* A reservation that a completion can realise.
Intact(q, r) ==
    \A p \in Packets :
        r.items[p] > 0 =>
            \/ q.cause[p] \in Terminal
            \/ q.cause[p] = "active" /\ r.items[p] <= q.remaining[p]

Promise(own, e, s) ==
    LET q == queues[s.bearer] IN
    /\ s.bearer \in Bearers /\ own[UeOf[s.bearer]] = e.entity
    /\ s.reservation \in q.known /\ s.reservation \notin q.done
    /\ s.reservation.start = At(e.seq) /\ s.reservation.completion = e.tick
    /\ Intact(q, s.reservation)

\* The slots in service: one per cell, all of the same time.
InService(own, e) ==
    /\ At(e.seq) <= now
    /\ SlotStart(e.entity, e.seq) \notin heap
    /\ \A s \in e.work.plan : Promise(own, e, s)
    /\ \A s, r \in e.work.plan : s.bearer = r.bearer => s = r
    /\ \A f \in heap : f.kind = "service_completion" =>
          f.seq = e.seq /\ (f.entity = e.entity => f = e)

Services(own) == \A e \in heap : e.kind = "service_completion" => InService(own, e)

\* Nothing is reserved yet for a slot that has not started.
Unreserved(own, b) ==
    \A k \in Slots : SlotStart(own[UeOf[b]], k) \in heap =>
        \A r \in queues[b].known : r.start # At(k)

\* DeadlinesKept, of the queue that knows the packet.
EndedInTime(p) ==
    LET q == queues[BearerOf[p]] IN
    DeadlineTick[p] # NoTick =>
        /\ q.cause[p] = "completed" => q.terminal[p] <= DeadlineTick[p]
        /\ q.cause[p] = "deadline_expired" =>
              /\ q.terminal[p] = DeadlineTick[p]
              /\ \A e \in heap : \A s \in e.work.plan :
                    s.reservation.items[p] > 0 => e.tick > DeadlineTick[p]

PipelineInv(own) ==
    /\ Running /\ Traffic /\ Censored
    /\ Services(own)
    /\ \A b \in Bearers : Unreserved(own, b)
    /\ \A p \in Packets : EndedInTime(p)

-----------------------------------------------------------------------------
(* Steps that serve nothing: an arrival, an expiry or a censoring.         *)

\* Deadlines are fixed with the arrivals, and so is what is scheduled.
LEMMA SameSchedule ==
    ASSUME arrives' = arrives
    PROVE  /\ DeadlineTick' = DeadlineTick
           /\ \A p : Arrival(p)' = Arrival(p) /\ Expiry(p)' = Expiry(p)
           /\ \A e : Scheduled(e)' <=> Scheduled(e)
<1>1. DeadlineTick' = DeadlineTick
  BY DEF DeadlineTick
<1>2. \A p : Arrival(p)' = Arrival(p) /\ Expiry(p)' = Expiry(p)
  BY <1>1 DEF Arrival, Expiry
<1> QED BY <1>1, <1>2 DEF Scheduled

\* What the invariant says of queues, and of an event that is dispatched.
LEMMA Parts ==
    ASSUME NEW own, PipelineInv(own)
    PROVE  /\ arrives \in [Packets -> Nat] /\ now \in Nat
           /\ O!QueueAssumption
           /\ \A p \in Packets : /\ BearerOf[p] \in Bearers /\ arrives[p] < Stop
                                 /\ DeadlineTick[p] # NoTick =>
                                       DeadlineTick[p] \in Nat /\ DeadlineTick[p] > arrives[p]
           /\ \A b \in Bearers : /\ O!Valid(queues[b]) /\ queues[b].lastTick <= now
                                 /\ queues[b].done \subseteq queues[b].known
           /\ \A e \in heap : e.tick \in Nat /\ now <= e.tick /\ Scheduled(e)
<1>1. arrives \in [Packets -> Nat] /\ \A p \in Packets : arrives[p] < Stop
  BY Configuration DEF PipelineInv, Running, ArrivalPatterns
<1>2. O!QueueAssumption /\ \A p \in Packets : DeadlineTick[p] # NoTick =>
          DeadlineTick[p] \in Nat /\ DeadlineTick[p] > arrives[p]
  <2>1. arrives \in [Packets -> Nat \cup {NoTick}]
    BY <1>1
  <2> QED BY <2>1, QueuesConfigured
<1> QED BY <1>1, <1>2, Configuration DEF PipelineInv, Running, Scheduled

\* What event e does to the packets of a queue q that it turns into s: it
\* records the packet that arrives, and ends the one that expires or those
\* that are censored.
Unserved(e, q, s) ==
    \A p \in Packets :
        /\ s.first[p] = q.first[p]
        /\ q.cause[p] # "absent" =>
              /\ s.rank[p] = q.rank[p] /\ s.arrival[p] = q.arrival[p]
              /\ s.remaining[p] = q.remaining[p]
              /\ \/ s.cause[p] = q.cause[p] /\ s.terminal[p] = q.terminal[p]
                 \/ /\ q.cause[p] = "active" /\ s.terminal[p] = e.tick
                    /\ \/ s.cause[p] = "deadline_expired" /\ e = Expiry(p)
                       \/ s.cause[p] = "censored_at_stop"
        /\ q.cause[p] = "absent" =>
              IF e = Arrival(p)
              THEN /\ s.cause[p] \in {"active", "overflow_drop"} /\ s.arrival[p] = arrives[p]
                   /\ \A o \in Packets : q.cause[o] # "absent" => s.rank[o] < s.rank[p]
              ELSE s.cause[p] = "absent"
        /\ e = Expiry(p) => s.cause[p] # "active"
        /\ e.kind = "censor_at_stop" => s.cause[p] # "active"

\* A handler of event e that turns the queue of bearer b into s.
Handled(e, b, s) ==
    /\ Dispatched(e) /\ heap' = heap \ {e}
    /\ b \in Bearers /\ e.entity = b /\ queues' = [queues EXCEPT ![b] = s]
    /\ O!Valid(s) /\ s.lastTick = e.tick
    /\ s.known = queues[b].known /\ s.done = queues[b].done
    /\ s.served = queues[b].served
    /\ Unserved(e, queues[b], s)

\* Pending reservations stay intact in a queue that nothing is served from.
LEMMA IntactUnserved ==
    ASSUME O!QueueAssumption, NEW e, NEW q, O!Valid(q), NEW s, Unserved(e, q, s),
           NEW r \in q.known, Intact(q, r)
    PROVE  Intact(s, r)
<1> SUFFICES ASSUME NEW p \in Packets, r.items[p] > 0
             PROVE  \/ s.cause[p] \in Terminal
                    \/ s.cause[p] = "active" /\ r.items[p] <= s.remaining[p]
  BY DEF Intact
<1>1. q.cause[p] # "absent"
  BY ValidParts
<1> QED BY <1>1 DEF Unserved, Intact, Terminal

\* Such a handler keeps the clocks in order.
LEMMA HandledRunning ==
    ASSUME NEW own, PipelineInv(own), NEW e, NEW b, NEW s, Handled(e, b, s)
    PROVE  Running'
<1>1. /\ e \in heap /\ e.tick \in Nat /\ now <= e.tick /\ Running
      /\ queues = [a \in Bearers |-> queues[a]]
  BY Parts DEF Handled, Dispatched, PipelineInv, Running
<1>2. /\ queues'[b] = s /\ \A a \in Bearers : a # b => queues'[a] = queues[a]
      /\ queues' = [a \in Bearers |-> queues'[a]]
  BY <1>1 DEF Handled
<1>3. ASSUME NEW f \in heap'
      PROVE  Scheduled(f)' /\ now' <= f.tick
  <2>1. f \in heap /\ Precedes(e, f) /\ Scheduled(f) /\ f.tick \in Nat
    BY <1>3, Parts DEF Handled, Dispatched
  <2> QED BY <1>1, <2>1, SameSchedule DEF Handled, Dispatched, Precedes
<1>4. ASSUME NEW a \in Bearers
      PROVE  /\ O!Valid(queues[a])' /\ queues'[a].lastTick <= now'
             /\ queues'[a].done \subseteq queues'[a].known
  <2>3. queues'[a].done \subseteq queues'[a].known
    BY <1>1, <1>2, Parts DEF Handled
  <2>1. CASE a = b
    BY <1>1, <1>2, <2>1, <2>3 DEF Handled, Dispatched
  <2>2. CASE a # b
    <3>1. O!Valid(queues[a]) /\ queues[a].lastTick <= now /\ queues[a].lastTick \in Nat
      BY Parts, ValidParts
    <3> QED BY <1>1, <1>2, <2>2, <2>3, <3>1, Parts DEF Handled, Dispatched
  <2> QED BY <2>1, <2>2
<1>5. /\ (arrives \in ArrivalPatterns)' /\ now' \in Nat /\ now' <= Stop
      /\ mode' = "running"
  BY <1>1 DEF Handled, Dispatched, Running, ArrivalPatterns
<1> QED BY <1>2, <1>3, <1>4, <1>5 DEF Running

\* Such a handler leaves the slots in service as they are.
LEMMA HandledServices ==
    ASSUME NEW own, PipelineInv(own), NEW e, NEW b, NEW s, Handled(e, b, s)
    PROVE  Services(own)' /\ \A a \in Bearers : Unreserved(own, a)'
<1>1. /\ e \in heap /\ e.tick \in Nat /\ now <= e.tick /\ now \in Nat
      /\ queues = [a \in Bearers |-> queues[a]]
  BY Parts DEF Handled, Dispatched, PipelineInv, Running
<1>2. queues'[b] = s /\ \A a \in Bearers : a # b => queues'[a] = queues[a]
  BY <1>1 DEF Handled
<1>3. \A a \in Bearers : /\ queues'[a].known = queues[a].known
                         /\ queues'[a].done = queues[a].done
  BY <1>2 DEF Handled
<1>4. ASSUME NEW f \in heap', f.kind = "service_completion"
      PROVE  InService(own, f)'
  <2>1. f \in heap /\ InService(own, f) /\ f.seq \in Nat
    BY <1>4, Parts, SlotTimes DEF Handled, PipelineInv, Services, Scheduled
  <2>2. ASSUME NEW r \in f.work.plan
        PROVE  Promise(own, f, r)'
    <3>1. Promise(own, f, r)
      BY <2>1 DEF InService
    <3>2. Intact(queues'[r.bearer], r.reservation)
      <4>1. CASE r.bearer = b
        BY <1>2, <3>1, <4>1, IntactUnserved, Parts DEF Promise, Handled
      <4>2. CASE r.bearer # b
        BY <1>2, <3>1, <4>2 DEF Promise
      <4> QED BY <4>1, <4>2
    <3> QED BY <1>3, <3>1, <3>2 DEF Promise
  <2>3. At(f.seq) <= now'
    BY <1>1, <2>1, SlotTimes DEF InService, Handled, Dispatched
  <2> QED BY <2>1, <2>2, <2>3 DEF InService, Handled
<1>5. ASSUME NEW a \in Bearers
      PROVE  Unreserved(own, a)'
  BY <1>3 DEF Unreserved, Handled, PipelineInv
<1> QED BY <1>4, <1>5 DEF Services

\* Such a handler keeps the schedule and the queues in step.
LEMMA HandledTraffic ==
    ASSUME NEW own, PipelineInv(own), NEW e, NEW b, NEW s, Handled(e, b, s)
    PROVE  Traffic'
<1>1. /\ e \in heap /\ e.tick \in Nat /\ now <= e.tick /\ now \in Nat /\ Traffic
      /\ queues = [a \in Bearers |-> queues[a]] /\ Scheduled(e) /\ e.entity = b
  BY Parts DEF Handled, Dispatched, PipelineInv, Running
<1>2. queues'[b] = s /\ \A a \in Bearers : a # b => queues'[a] = queues[a]
  BY <1>1 DEF Handled
<1>3. \A p : Arrival(p)' = Arrival(p) /\ Expiry(p)' = Expiry(p) /\ DeadlineTick' = DeadlineTick
  BY SameSchedule DEF Handled, Dispatched
<1>4. ASSUME NEW p \in Packets
      PROVE  PacketPending(p)'
  <2> DEFINE q == queues[BearerOf[p]]
  <2>1. BearerOf[p] \in Bearers /\ PacketPending(p) /\ arrives[p] \in Nat
    BY <1>1, Parts DEF Traffic
  <2>2. ASSUME NEW a \in Bearers \ {BearerOf[p]}
        PROVE  queues'[a].cause[p] = "absent"
    <3>1. queues[a].cause[p] = "absent"
      BY <2>1 DEF PacketPending
    <3>2. CASE a = b
      <4>1. e # Arrival(p)
        BY <1>1, <3>2, SlotEventParts
      <4> QED BY <1>2, <3>1, <3>2, <4>1 DEF Handled, Unserved
    <3>3. CASE a # b
      BY <1>2, <3>1, <3>3
    <3> QED BY <3>2, <3>3
  <2>3. CASE BearerOf[p] # b
    <3>1. e # Arrival(p) /\ e # Expiry(p)
      BY <1>1, <2>3, SlotEventParts
    <3> QED BY <1>1, <1>2, <1>3, <2>1, <2>2, <2>3, <3>1
            DEF PacketPending, Handled, Dispatched
  <2>4. CASE BearerOf[p] = b /\ q.cause[p] = "absent"
    <3>1. CASE e = Arrival(p)
      <4>1. s.cause[p] # "absent" /\ s.arrival[p] = arrives[p] /\ arrives[p] = e.tick
        BY <2>4, <3>1, SlotEventParts DEF Handled, Unserved
      <4>2. DeadlineTick[p] # NoTick => Expiry(p) \in heap /\ Expiry(p) # e
        BY <2>1, <2>4, <3>1, SlotEventParts DEF PacketPending
      <4>3. Arrival(p) \notin heap'
        BY <3>1 DEF Handled
      <4> QED BY <1>1, <1>2, <1>3, <2>1, <2>2, <2>4, <4>1, <4>2, <4>3
              DEF PacketPending, Handled, Dispatched
    <3>2. CASE e # Arrival(p)
      <4>1. s.cause[p] = "absent" /\ Arrival(p) \in heap
        BY <2>1, <2>4, <3>2 DEF Handled, Unserved, PacketPending
      <4>2. DeadlineTick[p] # NoTick => Expiry(p) # e
        <5>1. DeadlineTick[p] # NoTick => Precedes(Arrival(p), Expiry(p))
          BY Parts, SlotEventParts DEF Precedes
        <5>2. DeadlineTick[p] # NoTick => ~Precedes(Expiry(p), Arrival(p))
          BY <2>1, Parts, SlotEventParts DEF Precedes
        <5> QED BY <3>2, <4>1, <5>2 DEF Handled, Dispatched
      <4> QED BY <1>1, <1>2, <1>3, <2>1, <2>2, <2>4, <3>2, <4>1, <4>2
              DEF PacketPending, Handled, Dispatched
    <3> QED BY <3>1, <3>2
  <2>5. CASE BearerOf[p] = b /\ q.cause[p] # "absent"
    <3>1. /\ s.cause[p] # "absent" /\ s.arrival[p] = q.arrival[p]
          /\ s.cause[p] = "active" => q.cause[p] = "active" /\ e # Expiry(p)
      BY <2>5 DEF Handled, Unserved
    <3>2. Arrival(p) \notin heap'
      BY <2>1, <2>5 DEF PacketPending, Handled
    <3> QED BY <1>1, <1>2, <1>3, <2>1, <2>2, <2>5, <3>1, <3>2
            DEF PacketPending, Handled, Dispatched
  <2> QED BY <2>3, <2>4, <2>5
<1>5. ASSUME NEW p \in Packets, NEW o \in Packets, BearerOf[o] = BearerOf[p], o < p,
             queues'[BearerOf[p]].cause[p] # "absent"
      PROVE  /\ queues'[BearerOf[p]].cause[o] # "absent"
             /\ queues'[BearerOf[p]].rank[o] < queues'[BearerOf[p]].rank[p]
  <2> DEFINE q == queues[BearerOf[p]]
  <2>1. BearerOf[p] \in Bearers /\ PacketPending(p) /\ PacketPending(o) /\ InOrder(p, o)
    BY <1>1, Parts DEF Traffic
  <2>2. CASE BearerOf[p] # b
    BY <1>2, <1>5, <2>1, <2>2 DEF InOrder
  <2>3. CASE BearerOf[p] = b /\ q.cause[p] # "absent"
    BY <1>2, <1>5, <2>1, <2>3 DEF InOrder, Handled, Unserved
  <2>4. CASE BearerOf[p] = b /\ q.cause[p] = "absent"
    <3>1. e = Arrival(p)
      BY <1>2, <1>5, <2>4 DEF Handled, Unserved
    <3>2. q.cause[o] # "absent"
      <4>1. arrives[o] <= arrives[p]
        BY <1>5 DEF PipelineInv, Running, ArrivalPatterns, Packets
      <4>2. Arrival(o) # Arrival(p) /\ ~Precedes(Arrival(p), Arrival(o))
        <5>1. o \in Int /\ p \in Int /\ arrives[o] \in Int /\ arrives[p] \in Int
          BY Parts, Configuration
        <5>2. BearerOf[p] \in Int
          BY <2>1 DEF Bearers
        <5>3. /\ Arrival(p).tick = arrives[p] /\ Arrival(p).phase = 40
              /\ Arrival(p).entity = BearerOf[p] /\ Arrival(p).seq = p
              /\ Arrival(o).tick = arrives[o] /\ Arrival(o).phase = 40
              /\ Arrival(o).entity = BearerOf[p] /\ Arrival(o).seq = o
          BY <1>5, SlotEventParts
        <5> QED BY <1>5, <4>1, <5>1, <5>2, <5>3 DEF Precedes
      <4>3. Arrival(o) \notin heap
        BY <3>1, <4>2 DEF Handled, Dispatched
      <4> QED BY <1>5, <2>1, <4>3 DEF PacketPending
    <3> QED BY <1>2, <2>4, <3>1, <3>2 DEF Handled, Unserved
  <2> QED BY <2>2, <2>3, <2>4
<1> QED BY <1>4, <1>5 DEF Traffic, InOrder

\* Such a handler ends packets in time, and the packets of a bearer it
\* censors.
LEMMA HandledEnded ==
    ASSUME NEW own, PipelineInv(own), NEW e, NEW b, NEW s, Handled(e, b, s)
    PROVE  Censored' /\ \A p \in Packets : EndedInTime(p)'
<1>1. /\ e \in heap /\ e.tick \in Nat /\ Traffic /\ Censored
      /\ queues = [a \in Bearers |-> queues[a]] /\ Scheduled(e) /\ e.entity = b
  BY Parts DEF Handled, Dispatched, PipelineInv, Running
<1>2. queues'[b] = s /\ \A a \in Bearers : a # b => queues'[a] = queues[a]
  BY <1>1 DEF Handled
<1>3. DeadlineTick' = DeadlineTick
  BY SameSchedule DEF Handled, Dispatched
<1>4. ASSUME NEW p \in Packets, Censoring(BearerOf[p]) \notin heap'
      PROVE  queues'[BearerOf[p]].cause[p] \in Terminal
  <2> DEFINE q == queues[BearerOf[p]]
  <2>1. BearerOf[p] \in Bearers /\ PacketPending(p) /\ arrives[p] \in Nat /\ arrives[p] < Stop
    BY <1>1, Parts DEF Traffic
  <2>2. CASE Censoring(BearerOf[p]) \notin heap
    <3>1. q.cause[p] \in Terminal
      BY <1>1, <2>2 DEF Censored
    <3> QED BY <1>2, <2>1, <3>1 DEF Handled, Unserved, Terminal
  <2>3. CASE Censoring(BearerOf[p]) \in heap
    <3>1. e = Censoring(BearerOf[p]) /\ b = BearerOf[p]
      BY <1>1, <1>4, <2>3, SlotEventParts DEF Handled
    <3>2. q.cause[p] # "absent"
      <4>1. ~Precedes(e, Arrival(p)) /\ Arrival(p) # e
        BY <2>1, <3>1, SlotEventParts, Configuration DEF Precedes
      <4> QED BY <2>1, <4>1 DEF PacketPending, Handled, Dispatched
    <3>3. s.cause[p] \in Causes /\ s.cause[p] # "absent"
      <4>1. s.cause[p] \in Causes
        BY <2>1, Parts, ValidParts DEF Handled
      <4>2. s.cause[p] = q.cause[p] \/ s.cause[p] \in {"deadline_expired", "censored_at_stop"}
        BY <2>1, <3>1, <3>2 DEF Handled, Unserved
      <4> QED BY <3>2, <4>1, <4>2
    <3>4. s.cause[p] # "active"
      BY <3>1, SlotEventParts DEF Handled, Unserved
    <3> QED BY <1>2, <3>1, <3>3, <3>4 DEF Causes
  <2> QED BY <2>2, <2>3
<1>5. ASSUME NEW p \in Packets
      PROVE  EndedInTime(p)'
  <2> DEFINE q == queues[BearerOf[p]]
             t == queues'[BearerOf[p]]
  <2>1. BearerOf[p] \in Bearers /\ EndedInTime(p)
    BY Parts DEF PipelineInv
  <2>2. CASE t.cause[p] = q.cause[p] /\ t.terminal[p] = q.terminal[p]
    BY <1>3, <2>1, <2>2 DEF EndedInTime, Handled
  <2>3. CASE /\ t.cause[p] = "deadline_expired" /\ t.terminal[p] = e.tick
             /\ e = Expiry(p) /\ BearerOf[p] = b
    <3>1. e.tick = DeadlineTick[p] /\ e.phase = 20
      BY <2>3, SlotEventParts
    <3>2. ASSUME NEW f \in heap', NEW r \in f.work.plan
          PROVE  f.tick > DeadlineTick[p]
      <4>1. f \in heap /\ f.kind = "service_completion" /\ Precedes(e, f) /\ f.tick \in Nat
        BY <3>2, Parts DEF Handled, Dispatched, Scheduled
      <4>2. f.phase = 10
        BY <4>1, Parts, ServiceParts
      <4> QED BY <1>1, <3>1, <4>1, <4>2 DEF Precedes
    <3> QED BY <1>3, <2>3, <3>1, <3>2 DEF EndedInTime
  <2>4. CASE t.cause[p] \in {"active", "overflow_drop", "censored_at_stop", "absent"}
    BY <2>4 DEF EndedInTime
  <2>5. CASE BearerOf[p] = b
    BY <1>2, <2>2, <2>3, <2>4, <2>5 DEF Handled, Unserved
  <2>6. CASE BearerOf[p] # b
    BY <1>2, <2>1, <2>2, <2>6
  <2> QED BY <2>5, <2>6
<1> QED BY <1>4, <1>5 DEF Censored

\* A handled event preserves the invariant.
LEMMA HandledInv ==
    ASSUME NEW own, PipelineInv(own), NEW e, NEW b, NEW s, Handled(e, b, s)
    PROVE  PipelineInv(own)'
BY HandledRunning, HandledServices, HandledTraffic, HandledEnded DEF PipelineInv

\* A handler is given the least event of its kind.
LEMMA Popped ==
    ASSUME NEW own, PipelineInv(own), NEW e \in heap, NEW kind, Pop(e, kind)
    PROVE  /\ e.kind = kind /\ e.tick \in Nat /\ now <= e.tick /\ Scheduled(e)
           /\ e.tick <= Stop
           /\ \A h \in heap \ {e} : Precedes(e, h)
           /\ now' = e.tick /\ arrives' = arrives
           /\ \A b \in Bearers : ~StaleTick(queues[b], e.tick)
<1>1. \A b \in Bearers : queues[b].lastTick \in Nat /\ queues[b].lastTick <= now /\ now \in Nat
  BY Parts, ValidParts
<1> QED BY <1>1, Parts DEF Pop, StaleTick

\* Arrivals are recorded: the queue has not seen the packet.
LEMMA ArrivalKeeps ==
    ASSUME NEW own, PipelineInv(own), NEW e \in heap, ArrivalHandler(e)
    PROVE  PipelineInv(own)' /\ \E b, s : Handled(e, b, s)
<1> DEFINE p == e.packet
           b == e.entity
           q == queues[b]
           yes == TRUE
           s == Enqueue(q, e.tick, p, yes)
<1>1. /\ e.kind = "packet_arrival" /\ e.tick \in Nat /\ now <= e.tick /\ Scheduled(e)
      /\ e.tick <= Stop
      /\ \A h \in heap \ {e} : Precedes(e, h)
      /\ now' = e.tick /\ arrives' = arrives
      /\ \A a \in Bearers : ~StaleTick(queues[a], e.tick)
  BY Popped DEF ArrivalHandler
<1>2. /\ p \in Packets /\ e = Arrival(p) /\ b \in Bearers /\ b = BearerOf[p]
      /\ e.tick = arrives[p]
  BY <1>1, SlotEventParts, Parts DEF Scheduled
<1>3. q.cause[p] = "absent"
  BY <1>2 DEF PipelineInv, Traffic, PacketPending
<1>4. ~EnqueueRaises(q, e.tick, p, yes)
  BY <1>1, <1>2, <1>3 DEF EnqueueRaises
<1>5. /\ queues' = [queues EXCEPT ![b] = s]
      /\ heap' = (heap \ {e}) \cup {} /\ mode' = "running"
  BY <1>4 DEF ArrivalHandler, Done
<1>12. s = Enqueue(q, e.tick, p, yes)
  OBVIOUS
<1> HIDE DEF yes, s
<1>6. O!Valid(q) /\ O!QueueAssumption
  BY <1>2, Parts
<1>13. ArrivedAs(q, s, e.tick, p)
  <2>1. p \in Packets /\ e.tick \in Nat
    BY <1>1, <1>2
  <2> HIDE DEF p, q
  <2> QED BY <2>1, <1>4, <1>6, <1>12, EnqueueCall, Zenon
<1>7. /\ O!Valid(s) /\ s.served = q.served
      /\ s.lastTick = e.tick /\ s.known = q.known /\ s.done = q.done
      /\ s.cause[p] \in {"active", "overflow_drop"}
      /\ s.arrival[p] = e.tick /\ s.rank[p] = q.offered
      /\ \A o \in Packets \ {p} :
            /\ s.cause[o] = q.cause[o] /\ s.remaining[o] = q.remaining[o]
            /\ s.terminal[o] = q.terminal[o] /\ s.rank[o] = q.rank[o]
            /\ s.arrival[o] = q.arrival[o]
      /\ \A o \in Packets : s.first[o] = q.first[o]
  BY <1>13 DEF ArrivedAs
<1>8. \A o \in Packets : q.cause[o] # "absent" => o # p /\ s.rank[o] < s.rank[p]
  BY <1>3, <1>6, <1>7, ValidParts
<1>9. \A o \in Packets : e # Expiry(o) /\ (e = Arrival(o) => o = p)
  BY <1>1, <1>2, SlotEventParts
<1>14. e.tick = arrives[p] /\ e.kind # "censor_at_stop"
  BY <1>2, SlotEventParts
<1>10. Unserved(e, q, s)
  <2> HIDE DEF p, q
  <2> QED BY <1>2, <1>3, <1>7, <1>8, <1>9, <1>14 DEF Unserved
<1>11. Handled(e, b, s)
  BY <1>1, <1>2, <1>5, <1>7, <1>10 DEF Handled, Dispatched
<1> QED BY <1>11, HandledInv

\* Expiries end their packet or find it ended: the packet has arrived, and
\* its deadline is now.
LEMMA DeadlineKeeps ==
    ASSUME NEW own, PipelineInv(own), NEW e \in heap, DeadlineHandler(e)
    PROVE  PipelineInv(own)' /\ \E b, s : Handled(e, b, s)
<1> DEFINE p == e.packet
           b == e.entity
           q == queues[b]
           s == Expire(q, e.tick, p)
<1>1. /\ e.kind = "packet_deadline" /\ e.tick \in Nat /\ now <= e.tick /\ Scheduled(e)
      /\ e.tick <= Stop
      /\ \A h \in heap \ {e} : Precedes(e, h)
      /\ now' = e.tick /\ arrives' = arrives
      /\ \A a \in Bearers : ~StaleTick(queues[a], e.tick)
  BY Popped DEF DeadlineHandler
<1>2. /\ p \in Packets /\ e = Expiry(p) /\ b \in Bearers /\ b = BearerOf[p]
      /\ DeadlineTick[p] # NoTick /\ e.tick = DeadlineTick[p]
  BY <1>1, SlotEventParts, Parts DEF Scheduled
<1>3. q.cause[p] # "absent"
  <2>1. arrives[p] < DeadlineTick[p] /\ arrives[p] \in Nat /\ DeadlineTick[p] \in Nat
    BY <1>2, Parts
  <2>2. Arrival(p) # e /\ ~Precedes(e, Arrival(p))
    BY <1>1, <1>2, <2>1, SlotEventParts DEF Precedes
  <2>3. Arrival(p) \notin heap
    BY <1>1, <2>2
  <2> QED BY <1>2, <2>3 DEF PipelineInv, Traffic, PacketPending
<1>4. ~ExpireRaises(q, e.tick, p)
  BY <1>1, <1>2, <1>3 DEF ExpireRaises
<1>5. /\ queues' = [queues EXCEPT ![b] = s]
      /\ heap' = (heap \ {e}) \cup {} /\ mode' = "running"
  BY <1>4 DEF DeadlineHandler, Done
<1> HIDE DEF s
<1>6. O!Valid(q) /\ O!QueueAssumption
  BY <1>2, Parts
<1>7. /\ O!Valid(s) /\ s.served = q.served
      /\ s.lastTick = e.tick /\ s.known = q.known /\ s.done = q.done
      /\ s.remaining = q.remaining /\ s.rank = q.rank /\ s.arrival = q.arrival
      /\ s.first = q.first
      /\ \A o \in Packets :
            IF o = p /\ q.cause[p] = "active"
            THEN s.cause[o] = "deadline_expired" /\ s.terminal[o] = e.tick
            ELSE s.cause[o] = q.cause[o] /\ s.terminal[o] = q.terminal[o]
  <2>1. p \in Packets /\ e.tick \in Nat
    BY <1>1, <1>2
  <2>2. s = Expire(q, e.tick, p)
    BY DEF s
  <2> HIDE DEF p, q
  <2>3. ExpiredAs(q, Expire(q, e.tick, p), e.tick, p)
    BY <1>4, <1>6, <2>1, ExpireCall, Zenon
  <2> QED BY <2>2, <2>3 DEF ExpiredAs
<1>8. \A o \in Packets : e # Arrival(o) /\ (e = Expiry(o) => o = p)
  BY <1>1, <1>2, SlotEventParts
<1>9. Unserved(e, q, s)
  BY <1>1, <1>2, <1>7, <1>8 DEF Unserved
<1>10. Handled(e, b, s)
  BY <1>1, <1>2, <1>5, <1>7, <1>9 DEF Handled, Dispatched
<1> QED BY <1>10, HandledInv

\* Censoring ends what a bearer has queued when the run stops.
LEMMA CensorKeeps ==
    ASSUME NEW own, PipelineInv(own), NEW e \in heap, CensorHandler(e)
    PROVE  PipelineInv(own)' /\ \E b, s : Handled(e, b, s)
<1> DEFINE b == e.entity
           q == queues[b]
           s == Censor(q, e.tick)
<1>1. /\ e.kind = "censor_at_stop" /\ e.tick \in Nat /\ now <= e.tick /\ Scheduled(e)
      /\ e.tick <= Stop
      /\ \A h \in heap \ {e} : Precedes(e, h)
      /\ now' = e.tick /\ arrives' = arrives
      /\ \A a \in Bearers : ~StaleTick(queues[a], e.tick)
  BY Popped DEF CensorHandler
<1>2. b \in Bearers
  BY <1>1 DEF Scheduled
<1>3. /\ queues' = [queues EXCEPT ![b] = s]
      /\ heap' = (heap \ {e}) \cup {} /\ mode' = "running"
  BY <1>1, <1>2 DEF CensorHandler, Done
<1> HIDE DEF s
<1>4. O!Valid(q) /\ O!QueueAssumption
  BY <1>2, Parts
<1>5. /\ O!Valid(s) /\ s.served = q.served
      /\ s.lastTick = e.tick /\ s.known = q.known /\ s.done = q.done
      /\ s.remaining = q.remaining /\ s.rank = q.rank /\ s.arrival = q.arrival
      /\ s.first = q.first
      /\ \A o \in Packets :
            IF q.cause[o] = "active"
            THEN s.cause[o] = "censored_at_stop" /\ s.terminal[o] = e.tick
            ELSE s.cause[o] = q.cause[o] /\ s.terminal[o] = q.terminal[o]
  BY <1>1, <1>2, <1>4, CensorCall DEF s
<1>6. \A o \in Packets : e # Arrival(o) /\ e # Expiry(o)
  BY <1>1, SlotEventParts
<1>7. Unserved(e, q, s)
  BY <1>5, <1>6 DEF Unserved
<1>8. Handled(e, b, s)
  BY <1>1, <1>2, <1>3, <1>5, <1>7 DEF Handled, Dispatched
<1> QED BY <1>8, HandledInv

-----------------------------------------------------------------------------
(* Steps of the slots.                                                     *)

\* A share is a natural, and nothing of no capacity.
LEMMA ShareParts ==
    ASSUME NEW own, PipelineInv(own), NEW capacity, NEW b \in Bearers,
           capacity[UeOf[b]] \in Nat
    PROVE  /\ Share(capacity, b) \in Nat
           /\ Share(capacity, b) > 0 => capacity[UeOf[b]] > 0
<1> DEFINE u == UeOf[b]
           c == capacity[u]
           share == [p \in Packets |-> IF BearerOf[p] = b THEN Selected(u, c, p) ELSE 0]
<1>1. ASSUME NEW p \in Packets
      PROVE  Selected(u, c, p) \in Nat /\ (c = 0 => Selected(u, c, p) = 0)
  <2> DEFINE older == {o \in QueuedInUe(u) : Older(o, p)}
             f == [o \in Packets |->
                      IF o \in older THEN queues[BearerOf[o]].remaining[o] ELSE 0]
             n == queues[BearerOf[p]].remaining[p]
  <2>1. \A o \in Packets : queues[BearerOf[o]].remaining[o] \in Nat
    BY Parts, ValidParts
  <2>2. Total(f) \in Nat
    <3>1. \A i \in 1..NumPackets : f[i] \in Nat
      BY <2>1, Configuration
    <3> HIDE DEF f
    <3> QED BY <3>1, SumNat, Configuration DEF Total
  <2>3. Selected(u, c, p) = IF p \in QueuedInUe(u) THEN Clamp(c - Total(f), n) ELSE 0
    BY DEF Selected
  <2> HIDE DEF f, n, c, u
  <2>4. n \in Nat /\ c \in Nat
    BY <2>1 DEF n, c, u
  <2> QED BY <2>2, <2>3, <2>4 DEF Clamp
<1>2. Share(capacity, b) = Sum(share, NumPackets)
  BY DEF Share, BearerCapacity, Total
<1>3. \A i \in 1..NumPackets : share[i] \in Nat /\ (c = 0 => share[i] = 0)
  BY <1>1, Configuration
<1> HIDE DEF share, c
<1>4. Sum(share, NumPackets) \in Nat /\ (c = 0 => Sum(share, NumPackets) = 0)
  BY <1>3, SumNat, SumZero, Configuration
<1> QED BY <1>2, <1>4 DEF c

\* What a scheduling handler reserves of bearer b, having found queue q.
Offer(e, capacity, b) ==
    Planned(queues[b], e.tick, e.tick + Slot, Share(capacity, b))

\* A handler of slot start e that leaves the slot end f pending: it reserves
\* for bearers of the cell, once each, and marks only first services.
Reserved(own, e, b) ==
    LET q == queues[b]
        s == queues'[b]
    IN  /\ O!Valid(s) /\ s.lastTick <= e.tick /\ s.done = q.done /\ s.served = q.served
        /\ s.cause = q.cause /\ s.remaining = q.remaining /\ s.terminal = q.terminal
        /\ s.rank = q.rank /\ s.arrival = q.arrival
        /\ \A p \in Packets :
              s.first[p] # q.first[p] => q.first[p] = NoTick /\ s.first[p] = e.tick
        /\ q.known \subseteq s.known /\ \A r \in s.known \ q.known : r.start = e.tick
        /\ own[UeOf[b]] # e.entity => s = q

Offered(own, e, s) ==
    LET b == s.bearer
        r == s.reservation
    IN  /\ b \in Bearers /\ own[UeOf[b]] = e.entity
        /\ r \in queues'[b].known /\ r \notin queues[b].known
        /\ r.start = e.tick /\ r.completion = e.tick + Slot
        /\ \A p \in Packets : r.items[p] > 0 =>
              queues[b].cause[p] = "active" /\ r.items[p] <= queues[b].remaining[p]

Committed(own, e, f) ==
    /\ Dispatched(e) /\ e.kind = "scheduling"
    /\ f = SlotEnd(e.entity, e.seq, f.work) /\ heap' = (heap \ {e}) \cup {f}
    /\ queues' = [b \in Bearers |-> queues'[b]]
    /\ \A b \in Bearers : Reserved(own, e, b)
    /\ \A s \in f.work.plan : Offered(own, e, s)
    /\ \A s, r \in f.work.plan : s.bearer = r.bearer => s = r

\* The events of a slot.
LEMMA CommittedEvents ==
    ASSUME NEW own, PipelineInv(own), NEW e, NEW f, Committed(own, e, f)
    PROVE  /\ e \in heap /\ e.tick \in Nat /\ now <= e.tick /\ now \in Nat /\ e.tick <= Stop
           /\ e.entity \in Cells /\ e.seq \in Slots /\ e.seq \in Nat
           /\ e = SlotStart(e.entity, e.seq) /\ e.tick = At(e.seq) /\ e.phase = 60
           /\ f.kind = "service_completion" /\ f.entity = e.entity /\ f.seq = e.seq
           /\ f.tick = e.tick + Slot /\ f.tick \in Nat /\ Scheduled(f)
           /\ f # e /\ heap' = (heap \ {e}) \cup {f}
           /\ \A p : Arrival(p) # f /\ Expiry(p) # f /\ Censoring(p) # f
                     /\ Arrival(p) # e /\ Expiry(p) # e /\ Censoring(p) # e
           /\ \A c, k : SlotStart(c, k) # f
<1>1. /\ e \in heap /\ e.tick \in Nat /\ now <= e.tick /\ now \in Nat /\ Scheduled(e)
      /\ e.tick <= Stop /\ e.kind = "scheduling"
      /\ f = SlotEnd(e.entity, e.seq, f.work) /\ heap' = (heap \ {e}) \cup {f}
  BY Parts DEF Committed, Dispatched
<1>2. /\ e.entity \in Cells /\ e.seq \in Slots /\ e.seq \in Nat
      /\ e = SlotStart(e.entity, e.seq)
  BY <1>1, SlotTimes DEF Scheduled
<1>3. e.tick = At(e.seq) /\ e.phase = 60
  BY <1>2, SlotEventParts
<1>4. /\ f.kind = "service_completion" /\ f.entity = e.entity /\ f.seq = e.seq
      /\ f.tick = e.tick + Slot
  BY <1>1, <1>2, <1>3, SlotEventParts
<1>5. f.tick \in Nat /\ Scheduled(f)
  BY <1>1, <1>2, <1>4, Configuration DEF Scheduled
<1>6. /\ \A p : Arrival(p) # f /\ Expiry(p) # f /\ Censoring(p) # f
                /\ Arrival(p) # e /\ Expiry(p) # e /\ Censoring(p) # e
      /\ \A c, k : SlotStart(c, k) # f
  BY <1>1, <1>4, SlotEventParts
<1> QED BY <1>1, <1>2, <1>3, <1>4, <1>5, <1>6

\* A slot that starts keeps the clocks in order.
LEMMA CommittedRunning ==
    ASSUME NEW own, PipelineInv(own), NEW e, NEW f, Committed(own, e, f)
    PROVE  Running'
<1>1. ASSUME NEW g \in heap'
      PROVE  Scheduled(g)' /\ now' <= g.tick
  <2>1. Scheduled(g)' <=> Scheduled(g)
    BY SameSchedule DEF Committed, Dispatched
  <2>2. CASE g = f
    BY <2>1, <2>2, CommittedEvents, Configuration DEF Committed, Dispatched
  <2>3. CASE g # f
    <3>1. g \in heap /\ Precedes(e, g) /\ Scheduled(g) /\ g.tick \in Nat
      BY <2>3, Parts DEF Committed, Dispatched
    <3> QED BY <2>1, <3>1, CommittedEvents DEF Committed, Dispatched, Precedes
  <2> QED BY <2>2, <2>3
<1>2. ASSUME NEW b \in Bearers
      PROVE  /\ O!Valid(queues[b])' /\ queues'[b].lastTick <= now'
             /\ queues'[b].done \subseteq queues'[b].known
  <2>1. queues[b].done \subseteq queues[b].known
    BY Parts
  <2> QED BY <2>1 DEF Committed, Dispatched, Reserved
<1>3. e.tick \in Nat /\ e.tick <= Stop
  BY CommittedEvents
<1>4. (arrives \in ArrivalPatterns)'
  BY DEF Committed, Dispatched, PipelineInv, Running, ArrivalPatterns
<1> QED BY <1>1, <1>2, <1>3, <1>4 DEF Running, Committed, Dispatched

\* A slot that starts ends no packet and records none.
LEMMA CommittedTraffic ==
    ASSUME NEW own, PipelineInv(own), NEW e, NEW f, Committed(own, e, f)
    PROVE  Traffic' /\ Censored'
<1>1. /\ \A p : Arrival(p)' = Arrival(p) /\ Expiry(p)' = Expiry(p)
      /\ DeadlineTick' = DeadlineTick /\ arrives' = arrives /\ now' = e.tick
  BY SameSchedule DEF Committed, Dispatched
<1>2. \A b \in Bearers :
         /\ queues'[b].cause = queues[b].cause /\ queues'[b].rank = queues[b].rank
         /\ queues'[b].arrival = queues[b].arrival
  BY DEF Committed, Reserved
<1>3. \A p : /\ Arrival(p) \in heap' <=> Arrival(p) \in heap
             /\ Expiry(p) \in heap' <=> Expiry(p) \in heap
             /\ Censoring(p) \in heap' <=> Censoring(p) \in heap
  BY CommittedEvents
<1>4. ASSUME NEW p \in Packets
      PROVE  PacketPending(p)'
  <2>1. PacketPending(p) /\ BearerOf[p] \in Bearers /\ arrives[p] \in Nat
    BY Parts DEF PipelineInv, Traffic
  <2>2. arrives[p] <= now => arrives[p] <= now'
    BY <1>1, <2>1, CommittedEvents
  <2> QED BY <1>1, <1>2, <1>3, <2>1, <2>2 DEF PacketPending
<1>5. ASSUME NEW p \in Packets, NEW o \in Packets
      PROVE  InOrder(p, o)'
  BY <1>2, Parts DEF PipelineInv, Traffic, InOrder
<1>6. Censored'
  BY <1>2, <1>3, Parts DEF PipelineInv, Censored
<1> QED BY <1>4, <1>5, <1>6 DEF Traffic

\* The slots in service when another starts are of other cells and of the
\* same time.
LEMMA OthersInService ==
    ASSUME NEW own, PipelineInv(own), NEW e, NEW f, Committed(own, e, f),
           NEW g \in heap, g.kind = "service_completion"
    PROVE  /\ g # e /\ g # f /\ InService(own, g)
           /\ g.seq = e.seq /\ g.entity # e.entity
<1>1. g # e /\ InService(own, g) /\ Scheduled(g) /\ Precedes(e, g)
  BY Parts DEF Committed, Dispatched, PipelineInv, Services
<1>2. /\ g.seq \in Nat /\ g.phase = 10 /\ g.tick = At(g.seq) + Slot /\ At(g.seq) \in Nat
  BY <1>1, ServiceParts
<1>3. At(g.seq) <= e.tick /\ e.tick < At(g.seq) + Slot
  BY <1>1, <1>2, CommittedEvents DEF InService, Precedes
<1>4. g.seq = e.seq
  <2>1. /\ e.seq \in Nat /\ e.tick = At(e.seq) /\ At(e.seq) \in Nat
        /\ Slot \in Nat /\ Slot > 0
    BY CommittedEvents, SlotTimes, Configuration
  <2>2. /\ g.seq < e.seq => At(g.seq) + Slot <= At(e.seq)
        /\ e.seq < g.seq => At(e.seq) + Slot <= At(g.seq)
    BY <1>2, <2>1, SlotTimes
  <2> QED BY <1>2, <1>3, <2>1, <2>2
<1>5. g.entity # e.entity
  BY <1>1, <1>4, CommittedEvents DEF InService
<1> QED BY <1>1, <1>4, <1>5, CommittedEvents

\* The new slot is in service, and the others still are.
LEMMA CommittedServices ==
    ASSUME NEW own, PipelineInv(own), NEW e, NEW f, Committed(own, e, f)
    PROVE  Services(own)'
<1>1. /\ e.seq \in Nat /\ e.tick = At(e.seq) /\ f.tick = e.tick + Slot
      /\ f.entity = e.entity /\ f.seq = e.seq /\ f.kind = "service_completion"
      /\ e = SlotStart(e.entity, e.seq) /\ f # e /\ heap' = (heap \ {e}) \cup {f}
      /\ \A c, k : SlotStart(c, k) # f
  BY CommittedEvents
<1>2. now' = e.tick /\ now <= e.tick /\ now \in Nat /\ e.tick \in Nat
  BY CommittedEvents DEF Committed, Dispatched
<1>3. \A g \in heap : g.kind = "service_completion" =>
          /\ g # e /\ g # f /\ InService(own, g)
          /\ g.seq = e.seq /\ g.entity # e.entity
  BY OthersInService
<1>4. ASSUME NEW g \in heap', g.kind = "service_completion", NEW h \in heap',
             h.kind = "service_completion"
      PROVE  h.seq = g.seq /\ (h.entity = g.entity => h = g)
  <2>1. CASE g = f
    BY <1>1, <1>3, <1>4, <2>1
  <2>2. CASE g # f /\ h = f
    BY <1>1, <1>3, <1>4, <2>2
  <2>3. CASE g # f /\ h # f
    BY <1>1, <1>3, <1>4, <2>3 DEF InService
  <2> QED BY <2>1, <2>2, <2>3
<1>5. ASSUME NEW g \in heap', g.kind = "service_completion"
      PROVE  /\ At(g.seq) <= now'
             /\ SlotStart(g.entity, g.seq) \notin heap'
             /\ \A s \in g.work.plan : Promise(own, g, s)'
             /\ \A s, r \in g.work.plan : s.bearer = r.bearer => s = r
  <2>1. CASE g = f
    <3>1. ASSUME NEW s \in f.work.plan
          PROVE  Promise(own, f, s)'
      <4> DEFINE b == s.bearer
                 r == s.reservation
      <4>1. /\ b \in Bearers /\ own[UeOf[b]] = e.entity
            /\ r \in queues'[b].known /\ r \notin queues[b].known
            /\ r.start = e.tick /\ r.completion = e.tick + Slot
            /\ \A p \in Packets : r.items[p] > 0 =>
                  queues[b].cause[p] = "active" /\ r.items[p] <= queues[b].remaining[p]
        BY DEF Committed, Offered
      <4>2. queues'[b].done = queues[b].done /\ queues[b].done \subseteq queues[b].known
        BY <4>1, Parts DEF Committed, Reserved
      <4>3. queues'[b].cause = queues[b].cause /\ queues'[b].remaining = queues[b].remaining
        BY <4>1 DEF Committed, Reserved
      <4> QED BY <1>1, <4>1, <4>2, <4>3 DEF Promise, Intact
    <3> QED BY <1>1, <1>2, <2>1, <3>1 DEF Committed
  <2>2. CASE g # f
    <3>1. /\ g \in heap /\ InService(own, g) /\ g.seq = e.seq /\ g.entity # e.entity
      BY <1>1, <1>3, <1>5, <2>2
    <3>2. ASSUME NEW s \in g.work.plan
          PROVE  Promise(own, g, s)'
      <4>1. Promise(own, g, s)
        BY <3>1 DEF InService
      <4>2. queues'[s.bearer] = queues[s.bearer]
        BY <3>1, <4>1 DEF Promise, Committed, Reserved
      <4> QED BY <4>1, <4>2 DEF Promise
    <3> QED BY <1>1, <1>2, <3>1, <3>2 DEF InService
  <2> QED BY <2>1, <2>2
<1> QED BY <1>4, <1>5 DEF Services, InService

\* Slots that have not started are unreserved, and what has ended is not
\* promised.
LEMMA CommittedRest ==
    ASSUME NEW own, PipelineInv(own), NEW e, NEW f, Committed(own, e, f)
    PROVE  /\ \A b \in Bearers : Unreserved(own, b)'
           /\ \A p \in Packets : EndedInTime(p)'
<1>1. /\ e.seq \in Nat /\ e.tick = At(e.seq) /\ heap' = (heap \ {e}) \cup {f}
      /\ e = SlotStart(e.entity, e.seq) /\ \A c, k : SlotStart(c, k) # f
  BY CommittedEvents
<1>2. ASSUME NEW b \in Bearers, NEW k \in Slots, SlotStart(own[UeOf[b]], k) \in heap',
             NEW r \in queues'[b].known
      PROVE  r.start # At(k)
  <2>1. SlotStart(own[UeOf[b]], k) \in heap /\ SlotStart(own[UeOf[b]], k) # e
    BY <1>1, <1>2
  <2>2. CASE r \in queues[b].known
    BY <2>1, <2>2 DEF PipelineInv, Unreserved
  <2>3. CASE r \notin queues[b].known
    <3>1. own[UeOf[b]] = e.entity /\ r.start = e.tick
      BY <2>3, <1>2 DEF Committed, Reserved
    <3>2. k # e.seq /\ k \in Nat
      BY <1>1, <2>1, <3>1, SlotTimes
    <3>3. Slot > 0 /\ Slot \in Nat /\ At(k) \in Nat /\ At(e.seq) \in Nat
      BY <1>1, <3>2, SlotTimes, Configuration
    <3>4. k < e.seq \/ e.seq < k
      BY <1>1, <3>2
    <3>5. At(k) + Slot <= At(e.seq) \/ At(e.seq) + Slot <= At(k)
      BY <1>1, <3>2, <3>4, SlotTimes
    <3> QED BY <1>1, <3>1, <3>3, <3>5
  <2> QED BY <2>2, <2>3
<1>3. ASSUME NEW p \in Packets
      PROVE  EndedInTime(p)'
  <2> DEFINE a == BearerOf[p]
  <2>1. /\ a \in Bearers /\ EndedInTime(p) /\ PacketPending(p)
        /\ queues'[a].cause = queues[a].cause /\ queues'[a].terminal = queues[a].terminal
        /\ DeadlineTick' = DeadlineTick
    BY Parts, SameSchedule
       DEF PipelineInv, Traffic, Committed, Dispatched, Reserved
  <2>2. ASSUME NEW s \in f.work.plan, s.reservation.items[p] > 0
        PROVE  queues[a].cause[p] = "active"
    <3>1. s.bearer \in Bearers /\ queues[s.bearer].cause[p] = "active"
      BY <2>2 DEF Committed, Offered
    <3> QED BY <2>1, <3>1 DEF PacketPending
  <2> QED BY <1>1, <2>1, <2>2 DEF EndedInTime
<1> QED BY <1>2, <1>3 DEF Unreserved

\* A slot that starts preserves the invariant.
LEMMA CommittedInv ==
    ASSUME NEW own, PipelineInv(own), NEW e, NEW f, Committed(own, e, f)
    PROVE  PipelineInv(own)'
BY CommittedRunning, CommittedTraffic, CommittedServices, CommittedRest DEF PipelineInv

\* What a handler of slot start e that goes by own may give the UEs.
MayCarry(own, e, capacity) ==
    \A u \in Ues : capacity[u] \in Nat /\ (capacity[u] > 0 => own[u] = e.entity)

\* A grant is for a bearer of the cell, and its reservation is a new one:
\* the only other reservations that start here would be of this very slot.
LEMMA Granted ==
    ASSUME NEW own, PipelineInv(own), NEW e \in heap, Pop(e, "scheduling"),
           NEW capacity, MayCarry(own, e, capacity),
           NEW b \in Bearers, Share(capacity, b) > 0
    PROVE  /\ own[UeOf[b]] = e.entity /\ Share(capacity, b) \in Nat
           /\ Offer(e, capacity, b) \notin queues[b].known
           /\ ~ReserveRaises(queues[b], e.tick, e.tick + Slot, Share(capacity, b))
<1>1. UeOf[b] \in Ues /\ Slot \in Nat /\ Slot > 0
  BY Configuration
<1>2. /\ Share(capacity, b) \in Nat /\ own[UeOf[b]] = e.entity
  BY <1>1, ShareParts DEF MayCarry
<1>3. /\ e.tick \in Nat /\ ~StaleTick(queues[b], e.tick) /\ e.kind = "scheduling"
      /\ Scheduled(e)
  BY Popped
<1>4. e.seq \in Slots /\ e = SlotStart(own[UeOf[b]], e.seq) /\ e.tick = At(e.seq)
  BY <1>2, <1>3, SlotEventParts DEF Scheduled
<1>5. \A r \in queues[b].known : r.start # e.tick
  BY <1>4 DEF PipelineInv, Unreserved
<1>6. Offer(e, capacity, b).start = e.tick
  BY DEF Offer, Planned
<1>7. Offer(e, capacity, b) \notin queues[b].known
  BY <1>5, <1>6
<1>8. ~ReserveRaises(queues[b], e.tick, e.tick + Slot, Share(capacity, b))
  BY <1>1, <1>2, <1>3, <1>7 DEF ReserveRaises, ReserveRejected, Offer
<1> QED BY <1>2, <1>7, <1>8

\* The scheduling handler does not raise, and keeps the invariant.
LEMMA CommitKeeps ==
    ASSUME NEW own, PipelineInv(own), NEW e \in heap, Pop(e, "scheduling"),
           NEW observed, NEW prbs, NEW capacity, MayCarry(own, e, capacity),
           Commit(e, observed, prbs, capacity)
    PROVE  /\ PipelineInv(own)'
           /\ \E f : Committed(own, e, f) /\ f.work.plan = PlanOf(capacity, e.tick)
<1> DEFINE granted == {b \in Bearers : Share(capacity, b) > 0}
           work    == [eligible |-> observed, prbs |-> prbs, capacity |-> capacity,
                       plan |-> PlanOf(capacity, e.tick)]
           f       == SlotEnd(e.entity, e.seq, work)
<1>1. /\ e.kind = "scheduling" /\ e.tick \in Nat /\ now <= e.tick /\ Scheduled(e)
      /\ e.tick <= Stop /\ \A h \in heap \ {e} : Precedes(e, h)
      /\ now' = e.tick /\ arrives' = arrives
      /\ \A b \in Bearers : ~StaleTick(queues[b], e.tick)
  BY Popped
<1>2. e.seq \in Nat /\ Slot \in Nat /\ Slot > 0
  BY <1>1, SlotTimes, Configuration DEF Scheduled
<1>3. ASSUME NEW b \in granted
      PROVE  /\ own[UeOf[b]] = e.entity /\ Share(capacity, b) \in Nat
             /\ Offer(e, capacity, b) \notin queues[b].known
             /\ ~ReserveRaises(queues[b], e.tick, e.tick + Slot, Share(capacity, b))
  BY Granted
<1>4. /\ queues' = [b \in Bearers |->
             IF b \in granted
             THEN Reserve(queues[b], e.tick, e.tick + Slot, Share(capacity, b))
             ELSE queues[b]]
      /\ heap' = (heap \ {e}) \cup {f} /\ mode' = "running"
  BY <1>3 DEF Commit, Done
<1>5. f = SlotEnd(e.entity, e.seq, f.work) /\ f.work.plan = PlanOf(capacity, e.tick)
  <2>1. f.work = work
    BY <1>2, SlotEventParts
  <2> QED BY <2>1
<1>6. ASSUME NEW b \in granted
      PROVE  LET q == queues[b]
                 s == queues'[b]
                 r == Offer(e, capacity, b)
             IN  /\ O!Valid(s)
                 /\ s.lastTick = e.tick /\ s.done = q.done /\ s.served = q.served
                 /\ s.known = q.known \cup {r}
                 /\ s.cause = q.cause /\ s.remaining = q.remaining /\ s.terminal = q.terminal
                 /\ s.rank = q.rank /\ s.arrival = q.arrival
                 /\ \A p \in Packets :
                       /\ s.first[p] # q.first[p] => q.first[p] = NoTick /\ s.first[p] = e.tick
                       /\ r.items[p] > 0 => q.cause[p] = "active" /\ r.items[p] <= q.remaining[p]
  <2>1. /\ queues'[b] = Reserve(queues[b], e.tick, e.tick + Slot, Share(capacity, b))
        /\ O!Valid(queues[b]) /\ O!QueueAssumption /\ e.tick + Slot \in Nat
    BY <1>1, <1>2, <1>4, Parts
  <2> HIDE DEF granted
  <2> QED BY <1>1, <1>3, <2>1, ReserveCall DEF Offer
<1> HIDE DEF granted, f, work
<1>7. ASSUME NEW b \in Bearers
      PROVE  Reserved(own, e, b)
  <2>1. CASE b \in granted
    <3>1. Offer(e, capacity, b).start = e.tick
      BY DEF Offer, Planned
    <3> QED BY <1>1, <1>3, <1>6, <2>1, <3>1 DEF Reserved
  <2>2. CASE b \notin granted
    <3>1. queues'[b] = queues[b]
      BY <1>4, <2>2
    <3>2. O!Valid(queues[b]) /\ queues[b].lastTick <= e.tick
      <4>1. /\ O!Valid(queues[b]) /\ queues[b].lastTick <= now
            /\ O!QueueAssumption /\ now \in Nat
        BY Parts
      <4>2. queues[b].lastTick \in Nat
        BY <4>1, ValidParts
      <4> QED BY <1>1, <4>1, <4>2
    <3> QED BY <3>1, <3>2 DEF Reserved
  <2> QED BY <2>1, <2>2
<1>8. \A s \in f.work.plan : s.bearer \in granted /\ s.reservation = Offer(e, capacity, s.bearer)
  BY <1>5 DEF PlanOf, Offer, granted
<1>9. ASSUME NEW s \in f.work.plan
      PROVE  Offered(own, e, s)
  <2>1. s.bearer \in granted /\ s.bearer \in Bearers
        /\ s.reservation = Offer(e, capacity, s.bearer)
    BY <1>8 DEF granted
  <2>2. /\ Offer(e, capacity, s.bearer).start = e.tick
        /\ Offer(e, capacity, s.bearer).completion = e.tick + Slot
    BY DEF Offer, Planned
  <2> QED BY <1>3, <1>6, <2>1, <2>2 DEF Offered
<1>10. \A s, r \in f.work.plan : s.bearer = r.bearer => s = r
  BY <1>5 DEF PlanOf
<1>11. Committed(own, e, f)
  <2>1. queues' = [b \in Bearers |-> queues'[b]]
    BY <1>4
  <2> QED BY <1>1, <1>4, <1>5, <1>7, <1>9, <1>10, <2>1 DEF Committed, Dispatched
<1> QED BY <1>5, <1>11, CommittedInv

\* A handler of slot end e that turns queue q into s: it completes packets
\* of the queue, and moves nothing else that the invariant relates.
ServedAs(e, q, s) ==
    /\ O!Valid(s) /\ s.lastTick = e.tick
    /\ s.known = q.known /\ s.done \subseteq s.known
    /\ s.rank = q.rank /\ s.arrival = q.arrival /\ s.first = q.first
    /\ \A p \in Packets :
          \/ s.cause[p] = q.cause[p] /\ s.terminal[p] = q.terminal[p]
          \/ /\ q.cause[p] = "active" /\ s.cause[p] = "completed" /\ s.terminal[p] = e.tick
             /\ q.first[p] # NoTick /\ q.first[p] <= At(e.seq)

Served(own, e) ==
    /\ Dispatched(e) /\ e.kind = "service_completion" /\ heap' = heap \ {e}
    /\ queues' = [b \in Bearers |-> queues'[b]]
    /\ \A b \in Bearers :
          \/ queues'[b] = queues[b]
          \/ own[UeOf[b]] = e.entity /\ ServedAs(e, queues[b], queues'[b])
    /\ \A b \in Bearers : queues'[b].served = queues[b].served + ServedBits(e.work.plan, b)

\* A slot that ends keeps the clocks in order, the schedule and the queues in
\* step, and leaves the others as they are.
LEMMA ServedParts ==
    ASSUME NEW own, PipelineInv(own), NEW e, Served(own, e)
    PROVE  /\ Running' /\ Traffic' /\ Censored'
           /\ Services(own)' /\ \A b \in Bearers : Unreserved(own, b)'
<1>1. /\ e \in heap /\ e.tick \in Nat /\ now <= e.tick /\ now \in Nat /\ e.tick <= Stop
      /\ now' = e.tick /\ arrives' = arrives /\ heap' = heap \ {e} /\ Scheduled(e)
      /\ e.kind = "service_completion"
  BY Parts DEF Served, Dispatched
<1>2. /\ \A p : Arrival(p)' = Arrival(p) /\ Expiry(p)' = Expiry(p)
      /\ \A p : Arrival(p) # e /\ Expiry(p) # e /\ Censoring(p) # e
      /\ DeadlineTick' = DeadlineTick
  BY <1>1, SameSchedule, SlotEventParts
<1>3. ASSUME NEW b \in Bearers
      PROVE  /\ queues'[b].known = queues[b].known
             /\ queues'[b].rank = queues[b].rank /\ queues'[b].arrival = queues[b].arrival
             /\ \A p \in Packets :
                   \/ queues'[b].cause[p] = queues[b].cause[p]
                   \/ queues[b].cause[p] = "active" /\ queues'[b].cause[p] = "completed"
  BY DEF Served, ServedAs
<1>4. Running'
  <2>1. ASSUME NEW f \in heap'
        PROVE  Scheduled(f)' /\ now' <= f.tick
    <3>1. f \in heap /\ Precedes(e, f) /\ Scheduled(f) /\ f.tick \in Nat
      BY <1>1, Parts DEF Served, Dispatched
    <3> QED BY <1>1, <3>1, SameSchedule DEF Precedes
  <2>2. ASSUME NEW b \in Bearers
        PROVE  /\ O!Valid(queues[b])' /\ queues'[b].lastTick <= now'
               /\ queues'[b].done \subseteq queues'[b].known
    <3>1. /\ O!Valid(queues[b]) /\ queues[b].lastTick <= now /\ O!QueueAssumption
          /\ queues[b].done \subseteq queues[b].known
      BY Parts
    <3>2. queues[b].lastTick \in Nat
      BY <3>1, ValidParts
    <3> QED BY <1>1, <3>1, <3>2 DEF Served, ServedAs
  <2>3. (arrives \in ArrivalPatterns)'
    BY <1>1 DEF PipelineInv, Running, ArrivalPatterns
  <2>4. mode' = "running" /\ queues' = [b \in Bearers |-> queues'[b]]
    BY DEF Served, Dispatched
  <2> QED BY <1>1, <2>1, <2>2, <2>3, <2>4 DEF Running
<1>5. Traffic'
  <2>1. ASSUME NEW p \in Packets
        PROVE  PacketPending(p)'
    <3>1. PacketPending(p) /\ BearerOf[p] \in Bearers /\ arrives[p] \in Nat
      BY Parts DEF PipelineInv, Traffic
    <3>2. arrives[p] <= now => arrives[p] <= now'
      BY <1>1, <3>1
    <3> QED BY <1>1, <1>2, <1>3, <3>1, <3>2 DEF PacketPending
  <2>2. ASSUME NEW p \in Packets, NEW o \in Packets
        PROVE  InOrder(p, o)'
    <3>1. InOrder(p, o) /\ BearerOf[p] \in Bearers
      BY Parts DEF PipelineInv, Traffic
    <3> QED BY <1>3, <3>1 DEF InOrder
  <2> QED BY <2>1, <2>2 DEF Traffic
<1>6. Censored'
  <2>1. ASSUME NEW p \in Packets, Censoring(BearerOf[p]) \notin heap'
        PROVE  queues'[BearerOf[p]].cause[p] \in Terminal
    <3>1. BearerOf[p] \in Bearers /\ queues[BearerOf[p]].cause[p] \in Terminal
      BY <1>1, <1>2, <2>1, Parts DEF PipelineInv, Censored
    <3> QED BY <1>3, <3>1 DEF Terminal
  <2> QED BY <2>1 DEF Censored
<1>7. Services(own)'
  <2>1. ASSUME NEW f \in heap', f.kind = "service_completion"
        PROVE  InService(own, f)'
    <3>1. f \in heap /\ f # e /\ InService(own, f) /\ f.entity # e.entity
      BY <1>1, <2>1 DEF PipelineInv, Services, InService
    <3>2. ASSUME NEW s \in f.work.plan
          PROVE  Promise(own, f, s)'
      <4>1. Promise(own, f, s)
        BY <3>1 DEF InService
      <4>2. queues'[s.bearer] = queues[s.bearer]
        BY <3>1, <4>1 DEF Promise, Served
      <4> QED BY <4>1, <4>2 DEF Promise
    <3>3. At(f.seq) <= now'
      <4>1. f.seq \in Nat /\ At(f.seq) \in Nat
        BY <2>1, <3>1, Parts, ServiceParts
      <4> QED BY <1>1, <3>1, <4>1 DEF InService
    <3> QED BY <1>1, <3>1, <3>2, <3>3 DEF InService
  <2> QED BY <2>1 DEF Services
<1>8. ASSUME NEW b \in Bearers
      PROVE  Unreserved(own, b)'
  BY <1>1, <1>3 DEF PipelineInv, Unreserved
<1> QED BY <1>4, <1>5, <1>6, <1>7, <1>8

\* A packet that completes does so before its expiry, which is pending and
\* comes after the completion even on the same tick.
LEMMA ServedEnded ==
    ASSUME NEW own, PipelineInv(own), NEW e, Served(own, e), NEW p \in Packets
    PROVE  EndedInTime(p)'
<1> DEFINE q == queues[BearerOf[p]]
           t == queues'[BearerOf[p]]
<1>1. /\ e \in heap /\ e.tick \in Nat /\ heap' = heap \ {e} /\ DeadlineTick' = DeadlineTick
      /\ BearerOf[p] \in Bearers /\ EndedInTime(p) /\ PacketPending(p)
      /\ e.kind = "service_completion" /\ Scheduled(e)
      /\ DeadlineTick[p] # NoTick => DeadlineTick[p] \in Nat
  BY Parts, SameSchedule DEF Served, Dispatched, PipelineInv, Traffic
<1>2. CASE t.cause[p] = q.cause[p] /\ t.terminal[p] = q.terminal[p]
  BY <1>1, <1>2 DEF EndedInTime
<1>3. CASE q.cause[p] = "active" /\ t.cause[p] = "completed" /\ t.terminal[p] = e.tick
  <2>1. ASSUME DeadlineTick[p] # NoTick
        PROVE  e.tick <= DeadlineTick[p]
    <3>1. Expiry(p) \in heap /\ Expiry(p) # e /\ Expiry(p).tick = DeadlineTick[p]
      BY <1>1, <1>3, <2>1, SlotEventParts DEF PacketPending
    <3>2. Precedes(e, Expiry(p))
      BY <3>1 DEF Served, Dispatched
    <3> QED BY <1>1, <2>1, <3>1, <3>2 DEF Precedes
  <2> QED BY <1>1, <1>3, <2>1 DEF EndedInTime
<1> QED BY <1>1, <1>2, <1>3 DEF Served, ServedAs

\* A slot that ends preserves the invariant.
LEMMA ServedInv ==
    ASSUME NEW own, PipelineInv(own), NEW e, Served(own, e)
    PROVE  PipelineInv(own)'
BY ServedParts, ServedEnded DEF PipelineInv

\* The service handler does not raise, and keeps the invariant.
LEMMA ServiceKeeps ==
    ASSUME NEW own, PipelineInv(own), NEW e \in heap, NEW lost, ServiceHandler(e, lost)
    PROVE  PipelineInv(own)' /\ Served(own, e)
<1> DEFINE plan == e.work.plan
<1>1. /\ e.kind = "service_completion" /\ e.tick \in Nat /\ e.tick <= Stop
      /\ \A h \in heap \ {e} : Precedes(e, h)
      /\ now' = e.tick /\ arrives' = arrives
      /\ \A b \in Bearers : ~StaleTick(queues[b], e.tick)
  BY Popped DEF ServiceHandler
<1>2. InService(own, e)
  BY <1>1 DEF PipelineInv, Services
<1>3. ASSUME NEW s \in plan
      PROVE  /\ s.bearer \in Bearers /\ own[UeOf[s.bearer]] = e.entity
             /\ s.reservation \in queues[s.bearer].known
             /\ s.reservation.completion = e.tick /\ s.reservation.start = At(e.seq)
             /\ ~CompleteRaises(queues[s.bearer], s.reservation)
  <2> DEFINE q == queues[s.bearer]
             r == s.reservation
  <2>1. Promise(own, e, s)
    BY <1>2 DEF InService
  <2>2. /\ O!QueueAssumption /\ O!Valid(q)
    BY <2>1, Parts DEF Promise
  <2>3. q.active = {p \in Packets : q.cause[p] = "active"}
    BY <2>2, ValidParts
  <2>4. \A p \in Packets : q.remaining[p] \in Nat /\ r.items[p] \in Nat
    BY <2>1, <2>2, ValidParts DEF Promise
  <2>5. Disturbed(q, r) = {}
    BY <2>1, <2>3, <2>4 DEF Disturbed, Promise, Intact
  <2>6. ~StaleTick(q, r.completion) /\ ~CompleteRejected(q, r)
    BY <1>1, <2>1 DEF Promise, CompleteRejected
  <2>7. ~CompleteRaises(q, r)
    BY <2>5, <2>6 DEF CompleteRaises
  <2> QED BY <2>1, <2>7 DEF Promise
<1>4. /\ queues' = [b \in Bearers |->
             IF PlanOfBearer(plan, b) = {} THEN queues[b]
             ELSE Complete(queues[b], ReservationOf(plan, b))]
      /\ heap' = heap \ {e} /\ mode' = "running"
  <2>1. ~ \E s \in plan : CompleteRaises(queues[s.bearer], s.reservation)
    BY <1>3
  <2> QED BY <2>1 DEF ServiceHandler, Done
<1>5. ASSUME NEW b \in Bearers, PlanOfBearer(plan, b) # {}
      PROVE  /\ own[UeOf[b]] = e.entity /\ ServedAs(e, queues[b], queues'[b])
             /\ queues'[b].served = queues[b].served + ServedBits(plan, b)
  <2> DEFINE m == CHOOSE s \in PlanOfBearer(plan, b) : TRUE
             q == queues[b]
             r == m.reservation
             t == Complete(q, r)
  <2>1. m \in plan /\ m.bearer = b
    <3>1. m \in PlanOfBearer(plan, b)
      BY <1>5
    <3> QED BY <3>1 DEF PlanOfBearer
  <2>2. queues'[b] = t /\ ServedBits(plan, b) = Total(Drawn(q, r))
    BY <1>4, <1>5 DEF ReservationOf, ServedBits
  <2> HIDE DEF m
  <2>3. /\ r \in q.known /\ r.completion = e.tick /\ ~CompleteRaises(q, r)
        /\ own[UeOf[b]] = e.entity /\ r.start = At(e.seq)
    BY <1>3, <2>1
  <2>4. /\ O!QueueAssumption /\ O!Valid(q) /\ q.done \subseteq q.known
    BY Parts
  <2>5. /\ O!Valid(t)
        /\ t.lastTick = r.completion /\ t.known = q.known /\ t.done = q.done \cup {r}
        /\ t.rank = q.rank /\ t.arrival = q.arrival /\ t.first = q.first
        /\ t.served = q.served + Total(Drawn(q, r))
        /\ \A o \in Packets :
              /\ Drawn(q, r)[o] = IF q.cause[o] = "active" THEN r.items[o] ELSE 0
              /\ IF Drawn(q, r)[o] > 0 /\ Drawn(q, r)[o] = q.remaining[o]
                 THEN t.cause[o] = "completed" /\ t.terminal[o] = r.completion
                 ELSE t.cause[o] = q.cause[o] /\ t.terminal[o] = q.terminal[o]
    BY <2>3, <2>4, CompleteCall
  <2> HIDE DEF t, q, r
  <2>6. ServedAs(e, q, t)
    <3>1. t.done \subseteq t.known
      BY <2>3, <2>4, <2>5
    <3>2. \A o \in Packets :
             \/ t.cause[o] = q.cause[o] /\ t.terminal[o] = q.terminal[o]
             \/ /\ q.cause[o] = "active" /\ t.cause[o] = "completed" /\ t.terminal[o] = e.tick
                /\ q.first[o] # NoTick /\ q.first[o] <= At(e.seq)
      <4>1. \A o \in Packets : r.items[o] > 0 => q.first[o] # NoTick /\ q.first[o] <= r.start
        BY <2>3, <2>4, FirstServices
      <4> QED BY <2>3, <2>5, <4>1
    <3> QED BY <2>3, <2>5, <3>1, <3>2 DEF ServedAs
  <2> QED BY <2>2, <2>3, <2>5, <2>6 DEF q
<1>6. Served(own, e)
  <2>1. ASSUME NEW b \in Bearers, PlanOfBearer(plan, b) = {}
        PROVE  /\ queues'[b] = queues[b]
               /\ queues'[b].served = queues[b].served + ServedBits(plan, b)
    <3>1. queues'[b] = queues[b] /\ ServedBits(plan, b) = 0
      BY <1>4, <2>1 DEF ServedBits
    <3>2. queues[b].served \in Nat
      BY Parts DEF O!Valid, O!Sound, O!QueueState
    <3> QED BY <3>1, <3>2
  <2>2. queues' = [b \in Bearers |-> queues'[b]]
    BY <1>4
  <2> QED BY <1>1, <1>4, <1>5, <2>1, <2>2 DEF Served, Dispatched
<1> QED BY <1>6, ServedInv

\* The end of the run.
LEMMA FinishKeeps ==
    ASSUME NEW own, PipelineInv(own), Finish
    PROVE  PipelineInv(own)'
<1>1. /\ arrives' = arrives /\ queues' = queues /\ heap' = heap
      /\ now' = Stop /\ mode' = "done" /\ \A h \in heap : h.tick > Stop
      /\ now <= Stop /\ now \in Nat /\ Stop \in Nat
  BY Parts, Configuration DEF Finish, PipelineInv, Running
<1>2. /\ \A p : Arrival(p)' = Arrival(p) /\ Expiry(p)' = Expiry(p)
      /\ DeadlineTick' = DeadlineTick /\ \A e : Scheduled(e)' <=> Scheduled(e)
  BY <1>1, SameSchedule
<1>3. Running'
  <2>1. \A b \in Bearers : O!Valid(queues[b])' /\ queues[b].lastTick \in Nat
    BY <1>1, Parts, ValidParts
  <2>2. \A e \in heap : Scheduled(e)' /\ e.tick >= Stop
    BY <1>1, <1>2, Parts
  <2>3. (arrives \in ArrivalPatterns)'
    BY <1>1 DEF PipelineInv, Running, ArrivalPatterns
  <2> QED BY <1>1, <2>1, <2>2, <2>3 DEF Running, PipelineInv
<1>4. Traffic' /\ Censored'
  <2>1. ASSUME NEW p \in Packets
        PROVE  PacketPending(p)'
    <3>1. PacketPending(p) /\ arrives[p] \in Nat
      BY Parts DEF PipelineInv, Traffic
    <3> QED BY <1>1, <1>2, <3>1 DEF PacketPending
  <2>2. Censored' /\ \A p, o \in Packets : InOrder(p, o)'
    BY <1>1 DEF PipelineInv, Traffic, InOrder, Censored
  <2> QED BY <2>1, <2>2 DEF Traffic
<1>5. Services(own)'
  <2>1. ASSUME NEW f \in heap, f.kind = "service_completion"
        PROVE  InService(own, f)'
    <3>1. InService(own, f) /\ f.seq \in Nat /\ At(f.seq) \in Nat
      BY <2>1, Parts, ServiceParts DEF PipelineInv, Services
    <3> QED BY <1>1, <3>1 DEF InService, Promise
  <2> QED BY <1>1, <2>1 DEF Services
<1>6. /\ \A b \in Bearers : Unreserved(own, b)'
      /\ \A p \in Packets : EndedInTime(p)'
  BY <1>1, <1>2 DEF PipelineInv, Unreserved, EndedInTime
<1> QED BY <1>3, <1>4, <1>5, <1>6 DEF PipelineInv

\* A step that leaves the pipeline as it is.
LEMMA StutterKeeps ==
    ASSUME NEW own, PipelineInv(own), UNCHANGED pipeline
    PROVE  PipelineInv(own)'
<1>1. /\ arrives' = arrives /\ queues' = queues /\ heap' = heap
      /\ now' = now /\ mode' = mode
  BY DEF pipeline
<1>2. /\ \A p : Arrival(p)' = Arrival(p) /\ Expiry(p)' = Expiry(p)
      /\ DeadlineTick' = DeadlineTick /\ \A e : Scheduled(e)' <=> Scheduled(e)
  BY <1>1, SameSchedule
<1>3. Running'
  <2>1. \A b \in Bearers : O!Valid(queues[b])'
    BY <1>1, Parts
  <2> QED BY <1>1, <1>2, <2>1 DEF PipelineInv, Running, ArrivalPatterns
<1>4. Traffic' /\ Censored'
  BY <1>1, <1>2 DEF PipelineInv, Traffic, PacketPending, InOrder, Censored
<1>5. Services(own)'
  BY <1>1 DEF PipelineInv, Services, InService, Promise
<1>6. /\ \A b \in Bearers : Unreserved(own, b)'
      /\ \A p \in Packets : EndedInTime(p)'
  BY <1>1, <1>2 DEF PipelineInv, Unreserved, EndedInTime
<1> QED BY <1>3, <1>4, <1>5, <1>6 DEF PipelineInv

-----------------------------------------------------------------------------
(* Sharing out capacity, oldest packet first.                              *)

\* Sums over sets of packets.
LEMMA BitsFacts ==
    ASSUME NEW f, \A p \in Packets : f[p] \in Nat
    PROVE  /\ \A S : BitsOf(S, f) \in Nat
           /\ \A S, T : (\A p \in Packets : p \in S => p \in T) => BitsOf(S, f) <= BitsOf(T, f)
           /\ \A S : \A p \in Packets : p \notin S => BitsOf(S \cup {p}, f) = BitsOf(S, f) + f[p]
<1> DEFINE in(S) == [p \in Packets |-> IF p \in S THEN f[p] ELSE 0]
<1>1. \A S : \A i \in 1..NumPackets : in(S)[i] = IF i \in S THEN f[i] ELSE 0
  BY Configuration
<1>2. \A S : BitsOf(S, f) = Sum(in(S), NumPackets)
  BY DEF BitsOf, Total
<1>3. NumPackets \in Nat /\ Packets = 1..NumPackets
  BY Configuration
<1> HIDE DEF in
<1>4. ASSUME NEW S
      PROVE  BitsOf(S, f) \in Nat
  <2>1. \A i \in 1..NumPackets : in(S)[i] \in Nat
    BY <1>1, <1>3
  <2> QED BY <1>2, <1>3, <2>1, SumNat
<1>5. ASSUME NEW S, NEW T, \A p \in Packets : p \in S => p \in T
      PROVE  BitsOf(S, f) <= BitsOf(T, f)
  <2>1. \A i \in 1..NumPackets : in(S)[i] \in Int /\ in(T)[i] \in Int /\ in(S)[i] <= in(T)[i]
    BY <1>1, <1>3, <1>5
  <2> QED BY <1>2, <1>3, <2>1, SumMonotone
<1>6. ASSUME NEW S, NEW p \in Packets, p \notin S
      PROVE  BitsOf(S \cup {p}, f) = BitsOf(S, f) + f[p]
  <2> DEFINE T == S \cup {p}
             one == in({p})
  <2>1. \A i \in 1..NumPackets :
           in(S)[i] \in Int /\ one[i] \in Int /\ in(T)[i] = in(S)[i] + one[i]
    BY <1>1, <1>3, <1>6
  <2>2. one[p] = f[p] /\ one[p] \in Int /\ \A i \in 1..NumPackets : i # p => one[i] = 0
    BY <1>1, <1>3
  <2> HIDE DEF T, one
  <2>3. Sum(one, NumPackets) = f[p]
    BY <1>3, <2>2, SumSingle
  <2>4. Sum(in(T), NumPackets) = Sum(in(S), NumPackets) + Sum(one, NumPackets)
    BY <1>3, <2>1, SumAdd
  <2> QED BY <1>2, <2>3, <2>4 DEF T
<1> QED BY <1>4, <1>5, <1>6

\* The same set, with terms that grow.
LEMMA BitsGrow ==
    ASSUME NEW S, NEW f, NEW g,
           \A p \in Packets : p \in S => f[p] \in Nat /\ g[p] \in Nat /\ f[p] <= g[p]
    PROVE  BitsOf(S, f) <= BitsOf(S, g)
<1> DEFINE h == [p \in Packets |-> IF p \in S THEN f[p] ELSE 0]
           k == [p \in Packets |-> IF p \in S THEN g[p] ELSE 0]
<1>1. \A i \in 1..NumPackets : h[i] \in Int /\ k[i] \in Int /\ h[i] <= k[i]
  BY Configuration
<1>2. BitsOf(S, f) = Sum(h, NumPackets) /\ BitsOf(S, g) = Sum(k, NumPackets)
  BY DEF BitsOf, Total
<1> HIDE DEF h, k
<1> QED BY <1>1, <1>2, SumMonotone, Configuration

\* The same set, with terms that agree on it.
LEMMA BitsAgree ==
    ASSUME NEW S, NEW f, NEW g,
           \A p \in Packets : p \in S => f[p] \in Nat /\ f[p] = g[p]
    PROVE  BitsOf(S, f) = BitsOf(S, g)
<1> DEFINE h == [p \in Packets |-> IF p \in S THEN f[p] ELSE 0]
           k == [p \in Packets |-> IF p \in S THEN g[p] ELSE 0]
<1>1. \A i \in 1..NumPackets : h[i] \in Int /\ h[i] = k[i]
  BY Configuration
<1>2. BitsOf(S, f) = Sum(h, NumPackets) /\ BitsOf(S, g) = Sum(k, NumPackets)
  BY DEF BitsOf, Total
<1> HIDE DEF h, k
<1> QED BY <1>1, <1>2, SumSame, Configuration

\* A line of packets: before[p] are those of the line before p, and bits[p]
\* what p waits for.
Line(line, before, bits) ==
    /\ line \subseteq Packets
    /\ \A p \in Packets : bits[p] \in Nat
    /\ \A p \in line :
          /\ bits[p] > 0 /\ before[p] \subseteq line /\ p \notin before[p]
          /\ \A o \in line : o = p \/ o \in before[p] \/ p \in before[o]
          /\ \A o \in before[p] : before[o] \subseteq before[p]

\* What p gets of capacity c when each gets what those before it leave.
Part(line, before, bits, c, p) ==
    IF p \in line THEN Clamp(c - BitsOf(before[p], bits), bits[p]) ELSE 0

PartsOf(line, before, bits, c) ==
    [p \in Packets |-> Part(line, before, bits, c, p)]

\* A packet gets something only when all before it get everything.
LEMMA BeforeInFull ==
    ASSUME NEW line, NEW before, NEW bits, Line(line, before, bits), NEW c \in Nat,
           NEW p \in line
    PROVE  /\ Part(line, before, bits, c, p) \in Nat
           /\ Part(line, before, bits, c, p) <= bits[p]
           /\ Part(line, before, bits, c, p) > 0 => BitsOf(before[p], bits) < c
           /\ Part(line, before, bits, c, p) > 0 =>
                 \A o \in before[p] : Part(line, before, bits, c, o) = bits[o]
<1>1. p \in Packets /\ bits[p] \in Nat /\ BitsOf(before[p], bits) \in Nat
  BY BitsFacts DEF Line
<1>2. /\ Part(line, before, bits, c, p) \in Nat
      /\ Part(line, before, bits, c, p) <= bits[p]
      /\ Part(line, before, bits, c, p) > 0 => BitsOf(before[p], bits) < c
  BY <1>1 DEF Part, Clamp
<1>3. ASSUME Part(line, before, bits, c, p) > 0, NEW o \in before[p]
      PROVE  Part(line, before, bits, c, o) = bits[o]
  <2>1. /\ o \in line /\ o \in Packets /\ bits[o] \in Nat
        /\ o \notin before[o] /\ before[o] \subseteq before[p]
    BY DEF Line
  <2>2. BitsOf(before[o] \cup {o}, bits) = BitsOf(before[o], bits) + bits[o]
    BY <2>1, BitsFacts DEF Line
  <2>3. BitsOf(before[o] \cup {o}, bits) <= BitsOf(before[p], bits)
    BY <2>1, BitsFacts DEF Line
  <2>4. BitsOf(before[o], bits) \in Nat
    BY BitsFacts DEF Line
  <2>5. BitsOf(before[p], bits) < c
    BY <1>2, <1>3
  <2> QED BY <1>1, <2>1, <2>2, <2>3, <2>4, <2>5 DEF Part, Clamp
<1> QED BY <1>2, <1>3

\* Each packet of some of the line, given what these get in total and in
\* their order, gets the same as before.
LEMMA PartsAgree ==
    ASSUME NEW line, NEW before, NEW bits, Line(line, before, bits), NEW c \in Nat,
           NEW some, NEW p \in line, p \in some
    PROVE  LET part  == PartsOf(line, before, bits, c)
               share == BitsOf(line \cap some, part)
           IN  Clamp(share - BitsOf(before[p] \cap some, bits), bits[p]) = part[p]
<1> DEFINE part  == PartsOf(line, before, bits, c)
           share == BitsOf(line \cap some, part)
           ahead == before[p] \cap some
<1>1. /\ p \in Packets /\ line \subseteq Packets /\ before[p] \subseteq line
      /\ p \notin before[p] /\ bits[p] \in Nat /\ bits[p] > 0
      /\ \A o \in Packets : bits[o] \in Nat
  BY DEF Line
<1>2. \A o \in Packets : part[o] \in Nat /\ part[o] <= bits[o]
  <2>1. ASSUME NEW o \in Packets
        PROVE  part[o] \in Nat /\ part[o] <= bits[o]
    <3>1. part[o] = Part(line, before, bits, c, o)
      BY DEF PartsOf
    <3>2. CASE o \in line
      BY <3>1, <3>2, BeforeInFull
    <3>3. CASE o \notin line
      BY <1>1, <3>1, <3>3 DEF Part
    <3> QED BY <3>2, <3>3
  <2> QED BY <2>1
<1>3. \A o, r \in line : part[o] > 0 /\ r \in before[o] => part[r] = bits[r]
  <2>1. ASSUME NEW o \in line, NEW r \in line, part[o] > 0, r \in before[o]
        PROVE  part[r] = bits[r]
    <3>1. /\ part[o] = Part(line, before, bits, c, o)
          /\ part[r] = Part(line, before, bits, c, r)
      BY <1>1 DEF PartsOf
    <3> QED BY <2>1, <3>1, BeforeInFull
  <2> QED BY <2>1
<1> HIDE DEF part
<1>4. /\ BitsOf(ahead, part) \in Nat /\ BitsOf(ahead, bits) \in Nat /\ share \in Nat
      /\ BitsOf(ahead \cup {p}, part) = BitsOf(ahead, part) + part[p]
      /\ BitsOf(ahead \cup {p}, bits) = BitsOf(ahead, bits) + bits[p]
      /\ BitsOf(ahead \cup {p}, part) <= share
      /\ BitsOf(ahead, part) <= BitsOf(ahead, bits)
  <2>1. p \notin ahead /\ \A o \in Packets : o \in ahead \cup {p} => o \in line \cap some
    BY <1>1
  <2>2. BitsOf(ahead, part) <= BitsOf(ahead, bits)
    BY <1>1, <1>2, BitsGrow
  <2> QED BY <1>1, <1>2, <2>1, <2>2, BitsFacts
<1>5. part[p] > 0 => BitsOf(ahead, part) = BitsOf(ahead, bits)
  <2>1. ASSUME part[p] > 0
        PROVE  \A o \in Packets : o \in ahead => part[o] \in Nat /\ part[o] = bits[o]
    BY <1>1, <1>2, <1>3, <2>1
  <2> QED BY <2>1, BitsAgree
<1>6. ASSUME part[p] = bits[p]
      PROVE  Clamp(share - BitsOf(ahead, bits), bits[p]) = part[p]
  <2> HIDE DEF share, ahead
  <2> QED BY <1>1, <1>2, <1>4, <1>5, <1>6 DEF Clamp
<1>7. ASSUME part[p] # bits[p]
      PROVE  Clamp(share - BitsOf(ahead, bits), bits[p]) = part[p]
  <2>1. share = BitsOf(ahead \cup {p}, part)
    <3> DEFINE f == [o \in Packets |-> IF o \in line \cap some THEN part[o] ELSE 0]
               g == [o \in Packets |-> IF o \in ahead \cup {p} THEN part[o] ELSE 0]
    <3>1. ASSUME NEW o \in Packets
          PROVE  f[o] = g[o] /\ f[o] \in Int
      <4>1. CASE o \in ahead \cup {p}
        BY <1>1, <1>2, <4>1
      <4>2. CASE o \in line \cap some /\ o \notin ahead \cup {p}
        <5>1. p \in before[o]
          BY <4>2 DEF Line
        <5>2. part[o] = 0
          BY <1>2, <1>3, <1>7, <3>1, <4>2, <5>1
        <5> QED BY <4>2, <5>2
      <4>3. CASE o \notin line \cap some /\ o \notin ahead \cup {p}
        BY <4>3
      <4> QED BY <4>1, <4>2, <4>3
    <3>2. share = Sum(f, NumPackets) /\ BitsOf(ahead \cup {p}, part) = Sum(g, NumPackets)
      BY DEF BitsOf, Total
    <3> HIDE DEF f, g
    <3> QED BY <3>1, <3>2, SumSame, Configuration
  <2>2. share = BitsOf(ahead, part) + part[p]
    BY <1>4, <2>1
  <2> HIDE DEF share, ahead
  <2>3. /\ BitsOf(ahead, part) \in Nat /\ BitsOf(ahead, bits) \in Nat
        /\ part[p] \in Nat /\ part[p] <= bits[p] /\ bits[p] \in Nat
        /\ BitsOf(ahead, part) <= BitsOf(ahead, bits)
    BY <1>1, <1>2, <1>4
  <2> QED BY <1>5, <2>2, <2>3 DEF Clamp
<1>8. Clamp(share - BitsOf(ahead, bits), bits[p]) = part[p]
  BY <1>6, <1>7
<1> QED BY <1>8 DEF part

\* The packets of UE u in the order of _oldest_packet_first_capacity.
OlderOf(u) == [p \in Packets |-> {o \in QueuedInUe(u) : Older(o, p)}]
Unsent == [p \in Packets |-> queues[BearerOf[p]].remaining[p]]

\* That order is a line.
LEMMA UeLine ==
    ASSUME NEW own, PipelineInv(own), NEW u
    PROVE  Line(QueuedInUe(u), OlderOf(u), Unsent)
<1>1. \A p \in Packets : /\ arrives[p] \in Nat /\ BearerOf[p] \in Int /\ p \in Int
                         /\ O!Valid(queues[BearerOf[p]]) /\ O!QueueAssumption
  BY Parts, Configuration DEF Bearers
<1>2. \A p \in Packets :
         /\ Unsent[p] \in Nat
         /\ queues[BearerOf[p]].cause[p] = "active" => Unsent[p] > 0
  <2>1. ASSUME NEW p \in Packets
        PROVE  /\ Unsent[p] \in Nat
               /\ queues[BearerOf[p]].cause[p] = "active" => Unsent[p] > 0
    <3> DEFINE q == queues[BearerOf[p]]
    <3>1. Unsent[p] = q.remaining[p] /\ O!Valid(q) /\ O!QueueAssumption
      BY <1>1 DEF Unsent
    <3> HIDE DEF q
    <3>2. q.remaining[p] \in Nat /\ (q.cause[p] = "active" => q.remaining[p] > 0)
      BY <3>1, ValidParts
    <3> QED BY <3>1, <3>2 DEF q
  <2> QED BY <2>1
<1>3. \A p, o \in Packets : o = p \/ Older(o, p) \/ Older(p, o)
  BY <1>1 DEF Older
<1>4. /\ \A p \in Packets : ~Older(p, p)
      /\ \A p, o, r \in Packets : Older(r, o) /\ Older(o, p) => Older(r, p)
  BY <1>1 DEF Older
<1>5. /\ QueuedInUe(u) \subseteq Packets
      /\ \A p \in QueuedInUe(u) : Unsent[p] > 0
      /\ \A p \in Packets : OlderOf(u)[p] = {o \in QueuedInUe(u) : Older(o, p)}
  BY <1>2 DEF QueuedInUe, OlderOf
<1>6. ASSUME NEW p \in QueuedInUe(u)
      PROVE  /\ OlderOf(u)[p] \subseteq QueuedInUe(u) /\ p \notin OlderOf(u)[p]
             /\ \A o \in QueuedInUe(u) :
                   o = p \/ o \in OlderOf(u)[p] \/ p \in OlderOf(u)[o]
             /\ \A o \in OlderOf(u)[p] : OlderOf(u)[o] \subseteq OlderOf(u)[p]
  BY <1>3, <1>4, <1>5
<1> QED BY <1>2, <1>5, <1>6 DEF Line

\* The walk gives each packet what those before it leave.
LEMMA SelectedIsPart ==
    ASSUME NEW u, NEW c, NEW p \in Packets
    PROVE  Selected(u, c, p) = Part(QueuedInUe(u), OlderOf(u), Unsent, c, p)
<1> DEFINE older == {o \in QueuedInUe(u) : Older(o, p)}
           f == [o \in Packets |->
                    IF o \in older THEN queues[BearerOf[o]].remaining[o] ELSE 0]
           g == [o \in Packets |-> IF o \in older THEN Unsent[o] ELSE 0]
<1>1. f = g
  BY DEF Unsent
<1>2. BitsOf(older, Unsent) = Total(g)
  BY DEF BitsOf
<1>3. OlderOf(u)[p] = older /\ Unsent[p] = queues[BearerOf[p]].remaining[p]
  BY DEF OlderOf, Unsent
<1>4. Selected(u, c, p) = IF p \in QueuedInUe(u)
                          THEN Clamp(c - Total(f), queues[BearerOf[p]].remaining[p]) ELSE 0
  BY DEF Selected
<1> HIDE DEF older, f, g
<1> QED BY <1>1, <1>2, <1>3, <1>4 DEF Part

\* Among the packets of one bearer, older is ahead in its queue: the arrivals
\* of a bearer are numbered in their order.
LEMMA AheadIsOlder ==
    ASSUME NEW own, PipelineInv(own), NEW p \in Packets,
           queues[BearerOf[p]].cause[p] = "active"
    PROVE  Ahead(queues[BearerOf[p]], p)
             = OlderOf(UeOf[BearerOf[p]])[p] \cap {o \in Packets : BearerOf[o] = BearerOf[p]}
<1> DEFINE b == BearerOf[p]
           q == queues[b]
<1>1. /\ b \in Bearers /\ O!QueueAssumption /\ O!Valid(q) /\ p \in Int
      /\ \A o \in Packets : PacketPending(o) /\ o \in Int /\ arrives[o] \in Nat
      /\ \A o \in Packets : InOrder(o, p) /\ InOrder(p, o)
  <2>1. b \in Bearers /\ O!QueueAssumption /\ O!Valid(q)
    BY Parts
  <2>2. \A o \in Packets : o \in Int
    BY Configuration
  <2>3. \A o \in Packets : arrives[o] \in Nat
    BY Parts
  <2>4. Traffic
    BY DEF PipelineInv
  <2> QED BY <2>1, <2>2, <2>3, <2>4 DEF Traffic
<1>2. /\ q.active = {o \in Packets : q.cause[o] = "active"}
      /\ \A o \in Packets : q.rank[o] \in Nat
  BY <1>1, ValidParts
<1>3. \A o \in Packets : q.cause[o] = "active" => BearerOf[o] = b
  BY <1>1 DEF PacketPending
<1>4. \A o \in Packets : BearerOf[o] = b /\ q.cause[o] = "active"
         => /\ o < p => q.rank[o] < q.rank[p]
            /\ p < o => q.rank[p] < q.rank[o]
  BY <1>1 DEF InOrder
<1>5. \A o \in Packets : BearerOf[o] = b =>
         /\ o <= p => arrives[o] <= arrives[p]
         /\ p <= o => arrives[p] <= arrives[o]
  <2>1. ASSUME NEW o \in Packets, NEW r \in Packets, BearerOf[o] = BearerOf[r], o < r
        PROVE  arrives[o] <= arrives[r]
    BY <2>1 DEF PipelineInv, Running, ArrivalPatterns, Packets
  <2>2. ASSUME NEW o \in Packets, BearerOf[o] = b
        PROVE  /\ o <= p => arrives[o] <= arrives[p]
               /\ p <= o => arrives[p] <= arrives[o]
    BY <1>1, <2>1, <2>2
  <2> QED BY <2>2
<1>6. \A o \in Packets : BearerOf[o] = b => (Older(o, p) <=> o < p)
  <2>1. b \in Int
    BY <1>1 DEF Bearers
  <2> QED BY <1>1, <1>5, <2>1 DEF Older
<1>7. ASSUME NEW o \in Packets, BearerOf[o] = b, q.cause[o] = "active"
      PROVE  q.rank[o] < q.rank[p] <=> Older(o, p)
  BY <1>1, <1>2, <1>4, <1>6, <1>7
<1>8. OlderOf(UeOf[b])[p] = {o \in QueuedInUe(UeOf[b]) : Older(o, p)}
  BY DEF OlderOf
<1>9. \A o \in Packets : BearerOf[o] = b =>
         (o \in QueuedInUe(UeOf[b]) <=> q.cause[o] = "active")
  BY DEF QueuedInUe
<1>10. QueuedInUe(UeOf[b]) \subseteq Packets
  BY DEF QueuedInUe
<1> HIDE DEF q, b
<1>11. Ahead(q, p) = OlderOf(UeOf[b])[p] \cap {o \in Packets : BearerOf[o] = b}
  BY <1>2, <1>3, <1>7, <1>8, <1>9, <1>10 DEF Ahead
<1> QED BY <1>11 DEF q, b

\* A bearer's share is what the walk over the packets of its UE selects.
LEMMA ShareIsParts ==
    ASSUME NEW capacity, NEW b \in Bearers
    PROVE  LET u    == UeOf[b]
               part == PartsOf(QueuedInUe(u), OlderOf(u), Unsent, capacity[u])
           IN  Share(capacity, b)
                 = BitsOf(QueuedInUe(u) \cap {o \in Packets : BearerOf[o] = b}, part)
<1> DEFINE u    == UeOf[b]
           line == QueuedInUe(u)
           part == PartsOf(line, OlderOf(u), Unsent, capacity[u])
           some == {o \in Packets : BearerOf[o] = b}
           f    == [o \in Packets |->
                       IF BearerOf[o] = b THEN Selected(u, capacity[u], o) ELSE 0]
           g    == [o \in Packets |-> IF o \in line \cap some THEN part[o] ELSE 0]
<1>1. ASSUME NEW o \in Packets
      PROVE  f[o] = g[o]
  <2>1. Selected(u, capacity[u], o) = part[o] /\ (o \notin line => part[o] = 0)
    BY SelectedIsPart DEF Part, PartsOf
  <2> HIDE DEF part, line
  <2> QED BY <2>1
<1>2. f = g
  BY <1>1
<1>3. Share(capacity, b) = Total(f)
  BY DEF Share, BearerCapacity
<1>4. BitsOf(line \cap some, part) = Total(g)
  BY DEF BitsOf
<1> HIDE DEF f, g
<1> QED BY <1>2, <1>3, <1>4

\* The queue's own first-in first-out plan gives each packet what the walk
\* over the packets of its UE selected for it.
LEMMA PlanAgrees ==
    ASSUME NEW own, PipelineInv(own), NEW capacity, NEW p \in Packets,
           queues[BearerOf[p]].cause[p] = "active", capacity[UeOf[BearerOf[p]]] \in Nat
    PROVE  FifoPlan(queues[BearerOf[p]], Share(capacity, BearerOf[p]))[p]
             = Part(QueuedInUe(UeOf[BearerOf[p]]), OlderOf(UeOf[BearerOf[p]]), Unsent,
                    capacity[UeOf[BearerOf[p]]], p)
<1> DEFINE b    == BearerOf[p]
           q    == queues[b]
           u    == UeOf[b]
           c    == capacity[u]
           line == QueuedInUe(u)
           part == PartsOf(line, OlderOf(u), Unsent, c)
           some == {o \in Packets : BearerOf[o] = b}
           n    == Share(capacity, b)
<1>1. /\ b \in Bearers /\ O!QueueAssumption /\ O!Valid(q)
  BY Parts
<1>2. q.active = {o \in Packets : q.cause[o] = "active"}
  BY <1>1, ValidParts
<1>3. p \in line /\ p \in some /\ p \in q.active
  BY <1>2 DEF QueuedInUe
<1>4. Line(line, OlderOf(u), Unsent)
  BY UeLine
<1>5. n = BitsOf(line \cap some, part)
  BY <1>1, ShareIsParts
<1>6. Clamp(n - BitsOf(OlderOf(u)[p] \cap some, Unsent), Unsent[p]) = part[p]
  <2>1. c \in Nat
    OBVIOUS
  <2> HIDE DEF line, some, c, u, n
  <2> QED BY <1>3, <1>4, <1>5, <2>1, PartsAgree
<1>7. BitsAhead(q, p) = BitsOf(OlderOf(u)[p] \cap some, Unsent)
  <2> DEFINE f == [o \in Packets |-> IF o \in Ahead(q, p) THEN q.remaining[o] ELSE 0]
             g == [o \in Packets |-> IF o \in Ahead(q, p) THEN Unsent[o] ELSE 0]
  <2>1. Ahead(q, p) = OlderOf(u)[p] \cap some
    BY AheadIsOlder
  <2>2. f = g
    BY <2>1 DEF Unsent
  <2>3. BitsAhead(q, p) = Total(f)
    BY DEF BitsAhead
  <2>4. BitsOf(Ahead(q, p), Unsent) = Total(g)
    BY DEF BitsOf
  <2> HIDE DEF f, g
  <2> QED BY <2>1, <2>2, <2>3, <2>4
<1>8. FifoPlan(q, n)[p] = Clamp(n - BitsAhead(q, p), q.remaining[p])
  BY <1>3 DEF FifoPlan
<1>9. Unsent[p] = q.remaining[p]
  BY DEF Unsent
<1>10. part[p] = Part(line, OlderOf(u), Unsent, c, p)
  BY DEF PartsOf
<1> HIDE DEF part, line, q, n, some
<1>11. FifoPlan(q, n)[p] = Part(line, OlderOf(u), Unsent, c, p)
  BY <1>6, <1>7, <1>8, <1>9, <1>10
<1> QED BY <1>11 DEF part, line, q, n, some

\* Slots in service serve the packets of a UE in the order of their arrival:
\* OldestFirst, of the slots of own.
LEMMA OfferedOldestFirst ==
    ASSUME NEW own, PipelineInv(own), NEW e \in heap, Pop(e, "scheduling"),
           NEW capacity, MayCarry(own, e, capacity),
           NEW s \in PlanOf(capacity, e.tick), NEW p \in Packets, NEW o \in Packets,
           s.reservation.items[p] > 0, UeOf[BearerOf[o]] = UeOf[BearerOf[p]],
           arrives[o] < arrives[p], queues[BearerOf[o]].cause[o] = "active"
    PROVE  \E r \in PlanOf(capacity, e.tick) :
              r.reservation.items[o] = queues[BearerOf[o]].remaining[o]
<1> DEFINE b    == BearerOf[p]
           a    == BearerOf[o]
           u    == UeOf[b]
           c    == capacity[u]
           line == QueuedInUe(u)
           r    == [bearer |-> a, reservation |-> Offer(e, capacity, a)]
<1>1. /\ s.bearer \in Bearers /\ Share(capacity, s.bearer) > 0
      /\ s.reservation = Offer(e, capacity, s.bearer)
  BY DEF PlanOf, Offer
<1>2. /\ \A x \in Packets : BearerOf[x] \in Bearers /\ PacketPending(x)
      /\ b \in Bearers /\ a \in Bearers /\ u \in Ues /\ c \in Nat
      /\ O!QueueAssumption /\ \A x \in Bearers : O!Valid(queues[x])
  BY Parts, Configuration DEF PipelineInv, Traffic, MayCarry
<1>3. \A x \in Bearers : Offer(e, capacity, x).items = FifoPlan(queues[x], Share(capacity, x))
  BY DEF Offer, Planned
<1>4. queues[b].cause[p] = "active" /\ s.bearer = b
  <2>1. p \in queues[s.bearer].active
    <3>1. FifoPlan(queues[s.bearer], Share(capacity, s.bearer))[p] > 0
      BY <1>1, <1>3
    <3> QED BY <3>1 DEF FifoPlan
  <2>2. O!Valid(queues[s.bearer])
    BY <1>1, <1>2
  <2>3. queues[s.bearer].active = {x \in Packets : queues[s.bearer].cause[x] = "active"}
    BY <1>2, <2>2, ValidParts
  <2> QED BY <1>1, <1>2, <2>1, <2>3 DEF PacketPending
<1>5. p \in line /\ o \in line /\ o \in OlderOf(u)[p]
  BY <1>4 DEF QueuedInUe, OlderOf, Older
<1>6. Part(line, OlderOf(u), Unsent, c, p) > 0
  BY <1>1, <1>2, <1>3, <1>4, PlanAgrees
<1>7. Part(line, OlderOf(u), Unsent, c, o) = Unsent[o]
  <2>1. Line(line, OlderOf(u), Unsent)
    BY UeLine
  <2> HIDE DEF line, c, u
  <2> QED BY <1>2, <1>5, <1>6, <2>1, BeforeInFull
<1>8. r.reservation.items[o] = queues[a].remaining[o]
  <2>1. FifoPlan(queues[a], Share(capacity, a))[o] = Part(line, OlderOf(u), Unsent, c, o)
    BY <1>2, PlanAgrees
  <2> QED BY <1>2, <1>3, <1>7, <2>1 DEF Unsent
<1>9. Share(capacity, a) > 0
  <2> DEFINE q == queues[a]
             n == Share(capacity, a)
  <2>1. q.cause[o] = "active" /\ O!Valid(q) /\ n \in Nat
    BY <1>2, ShareParts
  <2>2. q.remaining[o] > 0 /\ q.remaining[o] \in Nat
    BY <1>2, <2>1, ValidParts
  <2>3. BitsAhead(q, o) \in Nat
    <3> DEFINE f == [x \in Packets |-> IF x \in Ahead(q, o) THEN q.remaining[x] ELSE 0]
    <3>1. \A i \in 1..NumPackets : f[i] \in Nat
      BY <1>2, <2>1, ValidParts, Configuration
    <3>2. BitsAhead(q, o) = Sum(f, NumPackets)
      BY DEF BitsAhead, Total
    <3> HIDE DEF f
    <3> QED BY <3>1, <3>2, SumNat, Configuration
  <2>6. r.reservation.items = FifoPlan(q, n)
    BY <1>2, <1>3
  <2>7. FifoPlan(q, n)[o] = q.remaining[o]
    BY <1>8, <2>6
  <2>4. FifoPlan(q, n)[o] \in {0, Clamp(n - BitsAhead(q, o), q.remaining[o])}
    BY DEF FifoPlan
  <2> HIDE DEF q, n
  <2>5. n > 0
    BY <2>1, <2>2, <2>3, <2>4, <2>7 DEF Clamp
  <2> QED BY <2>5 DEF n
<1>10. r \in PlanOf(capacity, e.tick)
  BY <1>2, <1>9 DEF PlanOf, Offer
<1> QED BY <1>8, <1>10

\* Pending promises are for packets that have arrived, in the queues of their
\* bearers, and the queues of the UE are those of the cell that serves them.
LEMMA PromisedPacket ==
    ASSUME NEW own, PipelineInv(own), NEW e \in heap, NEW s \in e.work.plan,
           NEW p \in Packets, s.reservation.items[p] > 0
    PROVE  /\ e.kind = "service_completion" /\ InService(own, e)
           /\ s.bearer = BearerOf[p] /\ own[UeOf[BearerOf[p]]] = e.entity
           /\ queues[BearerOf[p]].cause[p] # "absent" /\ arrives[p] <= now
<1>1. e.kind = "service_completion" /\ InService(own, e) /\ Promise(own, e, s)
  BY Parts DEF PipelineInv, Services, Scheduled, InService
<1> DEFINE q == queues[s.bearer]
           r == s.reservation
<1>2. r \in q.known /\ r.items[p] > 0 /\ O!Valid(q) /\ O!QueueAssumption
      /\ s.bearer \in Bearers
  BY <1>1, Parts DEF Promise
<1>3. q.cause[p] # "absent"
  <2> HIDE DEF q, r
  <2> QED BY <1>2, ValidParts
<1>4. PacketPending(p)
  BY DEF PipelineInv, Traffic
<1>5. s.bearer = BearerOf[p]
  BY <1>2, <1>3, <1>4 DEF PacketPending
<1> QED BY <1>1, <1>3, <1>4, <1>5 DEF PacketPending, Promise

\* A packet that arrives now is younger than any that is promised service.
LEMMA HandledOldest ==
    ASSUME NEW own, PipelineInv(own), OldestFirst, NEW e, NEW b, NEW s, Handled(e, b, s)
    PROVE  OldestFirst'
<1>1. /\ heap' = heap \ {e} /\ arrives' = arrives /\ e \in heap /\ now <= e.tick
      /\ now \in Nat /\ e.tick \in Nat
  BY Parts DEF Handled, Dispatched
<1>2. ASSUME NEW a \in Bearers, NEW o \in Packets, queues'[a].cause[o] = "active",
             a = BearerOf[o], arrives[o] < e.tick
      PROVE  /\ queues[a].cause[o] = "active"
             /\ queues'[a].remaining[o] = queues[a].remaining[o]
  <2>1. CASE a # b
    BY <1>2, <2>1 DEF Handled, PipelineInv, Running
  <2>2. CASE a = b
    <3>1. queues'[a] = s /\ Unserved(e, queues[a], s)
      BY <2>2 DEF Handled, PipelineInv, Running
    <3>2. e # Arrival(o)
      BY <1>1, <1>2, SlotEventParts, Parts
    <3> QED BY <1>2, <3>1, <3>2 DEF Unserved
  <2> QED BY <2>1, <2>2
<1> SUFFICES ASSUME NEW f \in heap', NEW r \in f.work.plan,
                    NEW p \in Packets, NEW o \in Packets,
                    r.reservation.items[p] > 0,
                    UeOf[BearerOf[o]] = UeOf[BearerOf[p]], arrives[o] < arrives[p],
                    queues'[BearerOf[o]].cause[o] = "active"
             PROVE  \E x \in f.work.plan :
                       x.reservation.items[o] = queues'[BearerOf[o]].remaining[o]
  BY <1>1 DEF OldestFirst
<1>3. f \in heap /\ BearerOf[o] \in Bearers /\ arrives[o] \in Nat /\ arrives[p] \in Nat
  BY <1>1, Parts
<1>4. arrives[o] < e.tick
  BY <1>1, <1>3, PromisedPacket
<1>5. /\ queues[BearerOf[o]].cause[o] = "active"
      /\ queues'[BearerOf[o]].remaining[o] = queues[BearerOf[o]].remaining[o]
  BY <1>2, <1>3, <1>4
<1> QED BY <1>3, <1>5 DEF OldestFirst

\* The slots already in service are of other cells, whose queues a slot that
\* starts leaves alone.
LEMMA CommittedOldest ==
    ASSUME NEW own, PipelineInv(own), OldestFirst,
           NEW e \in heap, Pop(e, "scheduling"),
           NEW capacity, MayCarry(own, e, capacity),
           NEW f, Committed(own, e, f), f.work.plan = PlanOf(capacity, e.tick)
    PROVE  OldestFirst'
<1>1. /\ heap' = (heap \ {e}) \cup {f} /\ arrives' = arrives
      /\ \A b \in Bearers : /\ queues'[b].cause = queues[b].cause
                            /\ queues'[b].remaining = queues[b].remaining
      /\ \A p \in Packets : BearerOf[p] \in Bearers
  BY Configuration DEF Committed, Dispatched, Reserved
<1> SUFFICES ASSUME NEW g \in heap', NEW s \in g.work.plan,
                    NEW p \in Packets, NEW o \in Packets,
                    s.reservation.items[p] > 0,
                    UeOf[BearerOf[o]] = UeOf[BearerOf[p]], arrives[o] < arrives[p],
                    queues[BearerOf[o]].cause[o] = "active"
             PROVE  \E r \in g.work.plan :
                       r.reservation.items[o] = queues[BearerOf[o]].remaining[o]
  BY <1>1 DEF OldestFirst
<1>2. CASE g = f
  BY <1>2, OfferedOldestFirst
<1>3. CASE g # f
  BY <1>1, <1>3 DEF OldestFirst
<1> QED BY <1>2, <1>3

\* So does a slot that ends.
LEMMA ServedOldest ==
    ASSUME NEW own, PipelineInv(own), OldestFirst, NEW e, Served(own, e)
    PROVE  OldestFirst'
<1>1. /\ heap' = heap \ {e} /\ arrives' = arrives /\ e \in heap
      /\ e.kind = "service_completion"
      /\ \A p \in Packets : BearerOf[p] \in Bearers
  BY Configuration DEF Served, Dispatched
<1> SUFFICES ASSUME NEW f \in heap', NEW s \in f.work.plan,
                    NEW p \in Packets, NEW o \in Packets,
                    s.reservation.items[p] > 0,
                    UeOf[BearerOf[o]] = UeOf[BearerOf[p]], arrives[o] < arrives[p],
                    queues'[BearerOf[o]].cause[o] = "active"
             PROVE  \E r \in f.work.plan :
                       r.reservation.items[o] = queues'[BearerOf[o]].remaining[o]
  BY <1>1 DEF OldestFirst
<1>2. f \in heap /\ f # e /\ InService(own, f) /\ own[UeOf[BearerOf[p]]] = f.entity
  BY <1>1, PromisedPacket
<1>3. f.entity # e.entity
  BY <1>1, <1>2, PromisedPacket DEF InService
<1>4. queues'[BearerOf[o]] = queues[BearerOf[o]]
  BY <1>1, <1>2, <1>3 DEF Served
<1> QED BY <1>2, <1>4 DEF OldestFirst

\* Capacity that is enough for each packet of a line is enough for them all.
LEMMA EnoughForAll ==
    ASSUME NEW line, NEW before, NEW bits, Line(line, before, bits), NEW c \in Nat,
           \A p \in line : Part(line, before, bits, c, p) = bits[p]
    PROVE  BitsOf(line, bits) <= c
<1> DEFINE all == BitsOf(line, bits)
           T == {all - BitsOf(before[p], bits) : p \in line}
<1>1. /\ line \subseteq Packets /\ \A p \in Packets : bits[p] \in Nat
      /\ \A S : BitsOf(S, bits) \in Nat
      /\ \A S, U : (\A p \in Packets : p \in S => p \in U)
                      => BitsOf(S, bits) <= BitsOf(U, bits)
      /\ \A S : \A p \in Packets :
            p \notin S => BitsOf(S \cup {p}, bits) = BitsOf(S, bits) + bits[p]
  BY BitsFacts DEF Line
<1>2. CASE line = {}
  <2> DEFINE f == [p \in Packets |-> IF p \in line THEN bits[p] ELSE 0]
  <2>1. all = Sum(f, NumPackets) /\ \A i \in 1..NumPackets : f[i] = 0
    BY <1>2, Configuration DEF BitsOf, Total
  <2> HIDE DEF f
  <2>2. all = 0
    BY <2>1, SumZero, Configuration
  <2> QED BY <2>2
<1>3. CASE line # {}
  <2>1. T \subseteq Nat
    <3>1. ASSUME NEW p \in line
          PROVE  all - BitsOf(before[p], bits) \in Nat
      <4>1. BitsOf(before[p], bits) <= all
        BY <1>1 DEF Line
      <4> QED BY <1>1, <4>1
    <3> QED BY <3>1
  <2>2. PICK t \in T : \A k \in T : ~(k < t)
    BY <1>3, <2>1, LeastNumber
  <2>3. PICK p \in line : t = all - BitsOf(before[p], bits)
    BY <2>2
  <2>4. /\ p \in Packets /\ bits[p] \in Nat /\ bits[p] > 0 /\ p \notin before[p]
        /\ before[p] \subseteq line /\ BitsOf(before[p], bits) \in Nat
        /\ BitsOf(before[p] \cup {p}, bits) = BitsOf(before[p], bits) + bits[p]
    BY <1>1 DEF Line
  <2>5. ASSUME NEW o \in line
        PROVE  o \in before[p] \cup {p}
    <3>1. CASE p \in before[o]
      <4>1. before[p] \cup {p} \subseteq before[o]
        BY <3>1 DEF Line
      <4>2. BitsOf(before[p] \cup {p}, bits) <= BitsOf(before[o], bits)
        BY <1>1, <4>1
      <4>3. all - BitsOf(before[o], bits) \in T /\ BitsOf(before[o], bits) \in Nat /\ all \in Nat
        BY <1>1
      <4>4. all - BitsOf(before[o], bits) < t
        BY <2>3, <2>4, <4>2, <4>3
      <4> QED BY <2>2, <4>3, <4>4
    <3> QED BY <3>1 DEF Line
  <2>6. all <= BitsOf(before[p], bits) + bits[p]
    BY <1>1, <2>4, <2>5
  <2>7. Clamp(c - BitsOf(before[p], bits), bits[p]) = bits[p]
    BY DEF Part
  <2> HIDE DEF all
  <2>8. all \in Nat
    BY <1>1 DEF all
  <2> QED BY <2>4, <2>6, <2>7, <2>8 DEF Clamp, all
<1> QED BY <1>2, <1>3

\* Over a line, the parts add up to the capacity, or to all the bits if these
\* are fewer.
LEMMA PartsTotal ==
    ASSUME NEW line, NEW before, NEW bits, Line(line, before, bits), NEW c \in Nat
    PROVE  BitsOf(line, PartsOf(line, before, bits, c)) = Clamp(c, BitsOf(line, bits))
<1> DEFINE part == PartsOf(line, before, bits, c)
           short == {p \in line : part[p] # bits[p]}
           T == {BitsOf(before[p], bits) : p \in short}
<1>1. /\ line \subseteq Packets /\ \A p \in Packets : bits[p] \in Nat
      /\ \A S : BitsOf(S, bits) \in Nat
      /\ \A S, U : (\A p \in Packets : p \in S => p \in U)
                      => BitsOf(S, bits) <= BitsOf(U, bits)
      /\ \A S : \A p \in Packets :
            p \notin S => BitsOf(S \cup {p}, bits) = BitsOf(S, bits) + bits[p]
  BY BitsFacts DEF Line
<1>2. \A p \in Packets : part[p] = Part(line, before, bits, c, p)
  BY DEF PartsOf
<1>3. ASSUME NEW p \in line
      PROVE  /\ part[p] \in Nat /\ part[p] <= bits[p]
             /\ part[p] > 0 => \A o \in before[p] : part[o] = bits[o]
  <2>1. p \in Packets /\ before[p] \subseteq Packets
    BY <1>1 DEF Line
  <2> QED BY <1>2, <2>1, BeforeInFull
<1>4. \A p \in Packets : part[p] \in Nat
  BY <1>2, <1>3 DEF Part
<1>5. CASE short = {}
  <2>1. \A p \in line : Part(line, before, bits, c, p) = bits[p]
    BY <1>1, <1>2, <1>5
  <2>2. BitsOf(line, bits) <= c
    BY <2>1, EnoughForAll
  <2>3. \A p \in Packets : p \in line => part[p] \in Nat /\ part[p] = bits[p]
    BY <1>4, <1>5
  <2> HIDE DEF part
  <2>4. BitsOf(line, part) = BitsOf(line, bits)
    BY <2>3, BitsAgree
  <2> QED BY <1>1, <2>2, <2>4 DEF Clamp, part
<1>6. CASE short # {}
  <2>1. PICK t \in T : \A k \in T : ~(k < t)
    <3>1. T \subseteq Nat
      BY <1>1
    <3>2. T # {}
      BY <1>6
    <3> HIDE DEF T
    <3> QED BY <3>1, <3>2, LeastNumber
  <2>2. PICK p \in short : t = BitsOf(before[p], bits)
    BY <2>1
  <2>3. /\ p \in line /\ p \in Packets /\ bits[p] \in Nat /\ bits[p] > 0 /\ p \notin before[p]
        /\ before[p] \subseteq line /\ t \in Nat
        /\ part[p] # bits[p] /\ part[p] <= bits[p] /\ part[p] \in Nat
        /\ BitsOf(before[p] \cup {p}, bits) = t + bits[p]
        /\ BitsOf(before[p] \cup {p}, bits) <= BitsOf(line, bits)
    BY <1>1, <1>3, <2>2 DEF Line
  <2>4. ASSUME NEW o \in before[p]
        PROVE  part[o] = bits[o]
    <3>1. /\ o \in line /\ o \in Packets /\ o \notin before[o]
          /\ before[o] \cup {o} \subseteq before[p] /\ bits[o] \in Nat /\ bits[o] > 0
      BY <1>1, <2>3 DEF Line
    <3>2. /\ BitsOf(before[o] \cup {o}, bits) <= t
          /\ BitsOf(before[o] \cup {o}, bits) = BitsOf(before[o], bits) + bits[o]
          /\ BitsOf(before[o], bits) \in Nat
      BY <1>1, <2>2, <3>1
    <3>3. BitsOf(before[o], bits) < t
      BY <2>3, <3>1, <3>2
    <3> QED BY <2>1, <3>1, <3>3
  <2>5. ASSUME NEW o \in line, o \notin before[p] \cup {p}
        PROVE  part[o] = 0
    <3>1. p \in before[o]
      BY <2>3, <2>5 DEF Line
    <3> QED BY <1>3, <2>3, <3>1
  <2>6. t <= c
    <3>1. Line(before[p], before, bits)
      BY <1>1, <2>3 DEF Line
    <3>2. \A o \in before[p] : Part(before[p], before, bits, c, o) = bits[o]
      BY <1>1, <1>2, <2>3, <2>4 DEF Part
    <3> QED BY <2>2, <3>1, <3>2, EnoughForAll
  <2>7. part[p] = Clamp(c - t, bits[p])
    BY <1>2, <2>2, <2>3 DEF Part
  <2> HIDE DEF part
  <2>8. BitsOf(line, part) = BitsOf(before[p] \cup {p}, part)
    <3> DEFINE f == [o \in Packets |-> IF o \in line THEN part[o] ELSE 0]
               g == [o \in Packets |-> IF o \in before[p] \cup {p} THEN part[o] ELSE 0]
    <3>1. \A o \in Packets : f[o] = g[o] /\ f[o] \in Int
      BY <1>4, <2>3, <2>5
    <3>2. BitsOf(line, part) = Sum(f, NumPackets)
          /\ BitsOf(before[p] \cup {p}, part) = Sum(g, NumPackets)
      BY DEF BitsOf, Total
    <3> HIDE DEF f, g
    <3> QED BY <3>1, <3>2, SumSame, Configuration
  <2>9. BitsOf(before[p] \cup {p}, part) = t + part[p]
    <3>1. BitsOf(before[p] \cup {p}, part) = BitsOf(before[p], part) + part[p]
      BY <1>4, <2>3, BitsFacts
    <3>2. \A o \in Packets : o \in before[p] => part[o] \in Nat /\ part[o] = bits[o]
      BY <1>4, <2>4
    <3>3. BitsOf(before[p], part) = t
      BY <2>2, <3>2, BitsAgree
    <3> QED BY <3>1, <3>3
  <2>10. BitsOf(line, bits) \in Nat
    BY <1>1
  <2> QED BY <2>3, <2>6, <2>7, <2>8, <2>9, <2>10 DEF Clamp, part
<1> QED BY <1>5, <1>6

\* Bearer by bearer, or all at once.
LEMMA BitsByBearer ==
    ASSUME NEW S, NEW f, \A p \in Packets : f[p] \in Nat,
           NEW g, \A b \in Bearers :
                     g[b] = BitsOf(S \cap {p \in Packets : BearerOf[p] = b}, f)
    PROVE  Sum(g, NumBearers) = BitsOf(S, f)
<1> DEFINE upTo(j) == S \cap {p \in Packets : BearerOf[p] <= j}
           of(j) == S \cap {p \in Packets : BearerOf[p] = j}
           T == {j \in 0..NumBearers : Sum(g, j) # BitsOf(upTo(j), f)}
           in(U) == [p \in Packets |-> IF p \in U THEN f[p] ELSE 0]
<1>1. /\ NumBearers \in Nat /\ Bearers = 1..NumBearers
      /\ NumPackets \in Nat /\ Packets = 1..NumPackets
      /\ \A p \in Packets : BearerOf[p] \in 1..NumBearers
  BY Configuration, PipelineAssumption DEF Bearers
<1>2. \A U : BitsOf(U, f) = Sum(in(U), NumPackets)
  BY DEF BitsOf, Total
<1>3. \A U : \A i \in 1..NumPackets : in(U)[i] = IF i \in U THEN f[i] ELSE 0
  BY <1>1
<1>4. Sum(g, 0) = BitsOf(upTo(0), f)
  <2>1. \A i \in 1..NumPackets : in(upTo(0))[i] = 0
    BY <1>1, <1>3
  <2> HIDE DEF in, upTo
  <2> QED BY <1>1, <1>2, <2>1, SumZero, SumStep
<1>5. ASSUME NEW j \in 1..NumBearers, Sum(g, j - 1) = BitsOf(upTo(j - 1), f)
      PROVE  Sum(g, j) = BitsOf(upTo(j), f)
  <2>1. Sum(g, j) = Sum(g, j - 1) + g[j]
    BY <1>1, SumStep
  <2>2. g[j] = BitsOf(of(j), f)
    BY <1>1
  <2>3. \A i \in 1..NumPackets :
           /\ in(upTo(j - 1))[i] \in Int /\ in(of(j))[i] \in Int
           /\ in(upTo(j))[i] = in(upTo(j - 1))[i] + in(of(j))[i]
    BY <1>1, <1>3
  <2> HIDE DEF in, upTo, of
  <2>4. Sum(in(upTo(j)), NumPackets)
          = Sum(in(upTo(j - 1)), NumPackets) + Sum(in(of(j)), NumPackets)
    BY <1>1, <2>3, SumAdd
  <2> QED BY <1>2, <1>5, <2>1, <2>2, <2>4
<1>6. BitsOf(upTo(NumBearers), f) = BitsOf(S, f)
  <2>1. \A i \in 1..NumPackets :
           in(upTo(NumBearers))[i] \in Int /\ in(upTo(NumBearers))[i] = in(S)[i]
    BY <1>1, <1>3
  <2> HIDE DEF in, upTo
  <2> QED BY <1>1, <1>2, <2>1, SumSame
<1>7. T = {}
  <2> HIDE DEF upTo, in, of
  <2> SUFFICES ASSUME T # {} PROVE FALSE
    OBVIOUS
  <2>1. T \subseteq Nat
    OBVIOUS
  <2>2. PICK j \in T : \A k \in T : ~(k < j)
    BY <2>1, LeastNumber
  <2>3. j \in 1..NumBearers /\ j - 1 \in 0..NumBearers /\ j - 1 < j
    BY <1>1, <1>4, <2>2
  <2>4. Sum(g, j - 1) = BitsOf(upTo(j - 1), f)
    BY <2>2, <2>3
  <2> QED BY <1>5, <2>2, <2>3, <2>4
<1> QED BY <1>1, <1>6, <1>7

\* The packets of a UE are those of its bearers.
LEMMA UeByBearer ==
    ASSUME NEW u, NEW f, \A p \in Packets : f[p] \in Nat,
           NEW g, \A b \in Bearers :
                     g[b] = IF UeOf[b] = u
                            THEN BitsOf(QueuedInUe(u) \cap {p \in Packets : BearerOf[p] = b}, f)
                            ELSE 0
    PROVE  Sum(g, NumBearers) = BitsOf(QueuedInUe(u), f)
<1>1. ASSUME NEW b \in Bearers
      PROVE  g[b] = BitsOf(QueuedInUe(u) \cap {p \in Packets : BearerOf[p] = b}, f)
  <2>1. CASE UeOf[b] = u
    BY <2>1
  <2>2. CASE UeOf[b] # u
    <3> DEFINE none == QueuedInUe(u) \cap {p \in Packets : BearerOf[p] = b}
               k == [p \in Packets |-> IF p \in none THEN f[p] ELSE 0]
    <3>1. none = {}
      BY <2>2 DEF QueuedInUe
    <3>2. \A i \in 1..NumPackets : k[i] = 0
      BY <3>1, Configuration
    <3>3. BitsOf(none, f) = Sum(k, NumPackets)
      BY DEF BitsOf, Total
    <3> HIDE DEF k
    <3>4. BitsOf(none, f) = 0
      BY <3>2, <3>3, SumZero, Configuration
    <3> QED BY <2>2, <3>4
  <2> QED BY <2>1, <2>2
<1> QED BY <1>1, BitsByBearer

\* The backlog a scheduler reads is what the packets of the UE wait for.
LEMMA BacklogIsLeft ==
    ASSUME NEW own, PipelineInv(own), NEW u
    PROVE  QueuedBits(u) = BitsOf(QueuedInUe(u), Unsent)
<1> DEFINE g == [b \in Bearers |-> IF UeOf[b] = u THEN queues[b].queued ELSE 0]
<1>1. ASSUME NEW b \in Bearers, UeOf[b] = u
      PROVE  queues[b].queued
               = BitsOf(QueuedInUe(u) \cap {p \in Packets : BearerOf[p] = b}, Unsent)
  <2> DEFINE h == [p \in Packets |->
                      IF queues[b].cause[p] = "active" THEN queues[b].remaining[p] ELSE 0]
             k == [p \in Packets |->
                      IF p \in QueuedInUe(u) \cap {o \in Packets : BearerOf[o] = b}
                      THEN Unsent[p] ELSE 0]
  <2>1. queues[b].queued = Total(h)
    BY Parts, ValidParts
  <2>2. ASSUME NEW p \in Packets
        PROVE  h[p] = k[p]
    <3>1. CASE BearerOf[p] = b
      BY <1>1, <3>1 DEF QueuedInUe, Unsent
    <3>2. CASE BearerOf[p] # b
      <4>1. queues[b].cause[p] = "absent"
        BY <3>2 DEF PipelineInv, Traffic, PacketPending
      <4> QED BY <3>2, <4>1
    <3> QED BY <3>1, <3>2
  <2>3. h = k
    BY <2>2
  <2>4. BitsOf(QueuedInUe(u) \cap {p \in Packets : BearerOf[p] = b}, Unsent) = Total(k)
    BY DEF BitsOf
  <2> HIDE DEF h, k
  <2> QED BY <2>1, <2>3, <2>4
<1>2. \A p \in Packets : Unsent[p] \in Nat
  BY UeLine DEF Line
<1>3. QueuedBits(u) = Sum(g, NumBearers)
  BY DEF QueuedBits
<1>4. \A b \in Bearers :
         g[b] = IF UeOf[b] = u
                THEN BitsOf(QueuedInUe(u) \cap {p \in Packets : BearerOf[p] = b}, Unsent)
                ELSE 0
  BY <1>1
<1> HIDE DEF g
<1> QED BY <1>2, <1>3, <1>4, UeByBearer

\* A bearer's reservation holds its share to the bit.
LEMMA ReservedIsShare ==
    ASSUME NEW own, PipelineInv(own), NEW capacity, NEW t, NEW b \in Bearers,
           capacity[UeOf[b]] \in Nat
    PROVE  ReservedBits(PlanOf(capacity, t), b) = Share(capacity, b)
<1> DEFINE n == Share(capacity, b)
           q == queues[b]
           u == UeOf[b]
           s == [bearer |-> b, reservation |-> Planned(q, t, t + Slot, n)]
           part == PartsOf(QueuedInUe(u), OlderOf(u), Unsent, capacity[u])
           some == QueuedInUe(u) \cap {o \in Packets : BearerOf[o] = b}
           plan == PlanOf(capacity, t)
<1>1. n \in Nat
  BY ShareParts
<1>2. CASE n = 0
  <2>1. PlanOfBearer(plan, b) = {}
    BY <1>2 DEF PlanOfBearer, PlanOf
  <2>2. ReservedBits(plan, b) = 0
    BY <2>1 DEF ReservedBits
  <2> QED BY <1>2, <2>2
<1>3. CASE n # 0
  <2>1. PlanOfBearer(plan, b) = {s}
    BY <1>1, <1>3 DEF PlanOfBearer, PlanOf
  <2>2. s.reservation.items = FifoPlan(q, n)
    BY DEF Planned
  <2>3. Total(FifoPlan(q, n)) = BitsOf(some, part)
    <3> DEFINE g == [p \in Packets |-> IF p \in some THEN part[p] ELSE 0]
    <3>1. q.active = {p \in Packets : q.cause[p] = "active"}
      BY Parts, ValidParts
    <3>2. ASSUME NEW p \in Packets
          PROVE  FifoPlan(q, n)[p] = g[p]
      <4>1. CASE p \in q.active
        <5>1. BearerOf[p] = b /\ q.cause[p] = "active"
          BY <3>1, <4>1 DEF PipelineInv, Traffic, PacketPending
        <5>2. FifoPlan(q, n)[p] = part[p]
          BY <5>1, PlanAgrees DEF PartsOf
        <5>3. p \in some
          BY <5>1 DEF QueuedInUe
        <5> HIDE DEF part, some, n, q
        <5> QED BY <5>2, <5>3
      <4>2. CASE p \notin q.active
        <5>1. FifoPlan(q, n)[p] = 0
          BY <4>2 DEF FifoPlan
        <5>2. p \notin some
          BY <3>1, <4>2 DEF QueuedInUe
        <5> HIDE DEF part, some, n, q
        <5> QED BY <5>1, <5>2
      <4> QED BY <4>1, <4>2
    <3>3. FifoPlan(q, n) = g
      <4>1. FifoPlan(q, n) = [p \in Packets |-> FifoPlan(q, n)[p]]
        BY DEF FifoPlan
      <4>2. g = [p \in Packets |-> g[p]]
        OBVIOUS
      <4> HIDE DEF g, n, q
      <4> QED BY <3>2, <4>1, <4>2
    <3>4. BitsOf(some, part) = Total(g)
      BY DEF BitsOf
    <3> HIDE DEF g, n, q
    <3> QED BY <3>3, <3>4
  <2>4. n = BitsOf(some, part)
    BY ShareIsParts
  <2> HIDE DEF plan, n, part, some
  <2>5. ReservationOf(plan, b) = s.reservation
    BY <2>1 DEF ReservationOf
  <2> HIDE DEF s
  <2>6. ReservedBits(plan, b) = Total(s.reservation.items)
    BY <2>1, <2>5 DEF ReservedBits
  <2>7. ReservedBits(plan, b) = n
    BY <2>2, <2>3, <2>4, <2>6
  <2> QED BY <2>7 DEF plan, n
<1> QED BY <1>2, <1>3

\* Over its bearers a UE is promised its capacity, or its backlog when that
\* is less.
LEMMA PromisedInFull ==
    ASSUME NEW own, PipelineInv(own), NEW capacity, NEW e, NEW t, NEW u,
           capacity[u] \in Nat, e.work.plan = PlanOf(capacity, t)
    PROVE  Promised(e, u) = Clamp(capacity[u], QueuedBits(u))
<1> DEFINE part == PartsOf(QueuedInUe(u), OlderOf(u), Unsent, capacity[u])
           g == [b \in Bearers |->
                    IF UeOf[b] = u THEN ReservedBits(e.work.plan, b) ELSE 0]
<1>1. Promised(e, u) = Sum(g, NumBearers)
  BY DEF Promised
<1>2. Line(QueuedInUe(u), OlderOf(u), Unsent)
  BY UeLine
<1>3. \A p \in Packets : part[p] \in Nat
  <2>1. ASSUME NEW p \in Packets
        PROVE  Part(QueuedInUe(u), OlderOf(u), Unsent, capacity[u], p) \in Nat
    <3>1. CASE p \in QueuedInUe(u)
      BY <1>2, <3>1, BeforeInFull
    <3>2. CASE p \notin QueuedInUe(u)
      BY <3>2 DEF Part
    <3> QED BY <3>1, <3>2
  <2> QED BY <2>1 DEF PartsOf
<1>4. ASSUME NEW b \in Bearers, UeOf[b] = u
      PROVE  ReservedBits(e.work.plan, b)
               = BitsOf(QueuedInUe(u) \cap {p \in Packets : BearerOf[p] = b}, part)
  <2>1. ReservedBits(PlanOf(capacity, t), b) = Share(capacity, b)
    BY <1>4, ReservedIsShare
  <2>2. Share(capacity, b)
          = BitsOf(QueuedInUe(u) \cap {p \in Packets : BearerOf[p] = b}, part)
    BY <1>4, ShareIsParts
  <2> QED BY <2>1, <2>2
<1>5. \A b \in Bearers :
         g[b] = IF UeOf[b] = u
                THEN BitsOf(QueuedInUe(u) \cap {p \in Packets : BearerOf[p] = b}, part)
                ELSE 0
  BY <1>4
<1>6. BitsOf(QueuedInUe(u), part) = Clamp(capacity[u], BitsOf(QueuedInUe(u), Unsent))
  BY <1>2, PartsTotal
<1>7. QueuedBits(u) = BitsOf(QueuedInUe(u), Unsent)
  BY BacklogIsLeft
<1> HIDE DEF g, part
<1>8. Sum(g, NumBearers) = BitsOf(QueuedInUe(u), part)
  BY <1>3, <1>5, UeByBearer
<1> QED BY <1>1, <1>6, <1>7, <1>8

\* The plan in event f promises each UE its capacity or its backlog.
FullyPlanned(f) ==
    \A u \in Ues : Promised(f, u) = IF f.work.prbs[u] = 0 THEN 0
                                    ELSE Clamp(f.work.capacity[u], QueuedBits(u))

\* And no more than its capacity, nothing without PRBs, of which it commits
\* no more than the cell has.
WithinCapacity(f) ==
    /\ f.work.prbs \in [Ues -> 0..Prbs] /\ Sum(f.work.prbs, NumUes) <= Prbs
    /\ f.work.eligible \subseteq Ues
    /\ \A u \in Ues : /\ f.work.capacity[u] \in Nat /\ Promised(f, u) <= f.work.capacity[u]
                      /\ f.work.prbs[u] = 0 => Promised(f, u) = 0

\* So does the plan of every scheduling handler whose policy gives capacity
\* only with PRBs.
LEMMA CommitPlans ==
    ASSUME NEW own, PipelineInv(own), NEW e \in heap, NEW observed \in SUBSET Ues,
           NEW d \in ValidDecisions(observed), NEW capacity,
           \A u \in Ues : capacity[u] \in Nat /\ (d[u] = 0 => capacity[u] = 0),
           Commit(e, observed, d, capacity), NEW f \in heap' \ heap
    PROVE  FullyPlanned(f) /\ WithinCapacity(f)
<1>1. /\ f.work.prbs = d /\ f.work.capacity = capacity /\ f.work.eligible = observed
      /\ f.work.plan = PlanOf(capacity, e.tick)
  BY DEF Commit, Abort, Done, SlotEnd, EventOf
<1>2. ASSUME NEW u \in Ues
      PROVE  /\ QueuedBits(u) \in Nat
             /\ Promised(f, u) = Clamp(capacity[u], QueuedBits(u))
  <2>1. QueuedBits(u) \in Nat
    <3>1. Line(QueuedInUe(u), OlderOf(u), Unsent)
      BY UeLine
    <3>2. QueuedBits(u) = BitsOf(QueuedInUe(u), Unsent)
      BY BacklogIsLeft
    <3> QED BY <3>1, <3>2, BitsFacts DEF Line
  <2> QED BY <1>1, <2>1, PromisedInFull
<1>3. d \in [Ues -> 0..Prbs] /\ Sum(d, NumUes) <= Prbs
  BY DEF ValidDecisions
<1> QED BY <1>1, <1>2, <1>3 DEF FullyPlanned, WithinCapacity, Clamp

-----------------------------------------------------------------------------
(* What else the two pipelines share.                                      *)

\* The kinds of event that the handlers of every slotted simulation take.
SharedKinds == {"packet_arrival", "packet_deadline", "censor_at_stop",
                "scheduling", "service_completion"}

\* A handler of event e that leaves the queues alone.
Idle(e) ==
    /\ Dispatched(e) /\ heap' = heap \ {e} /\ queues' = queues
    /\ e.kind \notin SharedKinds

\* A step of an event that serves nothing and sends nothing.
LEMMA IdleInv ==
    ASSUME NEW own, PipelineInv(own), NEW e, Idle(e)
    PROVE  PipelineInv(own)'
<1>1. /\ e \in heap /\ e.tick \in Nat /\ now <= e.tick /\ now \in Nat /\ e.tick <= Stop
      /\ arrives' = arrives /\ queues' = queues /\ heap' = heap \ {e}
      /\ now' = e.tick /\ mode' = "running"
  BY Parts DEF Idle, Dispatched
<1>2. /\ \A p : Arrival(p)' = Arrival(p) /\ Expiry(p)' = Expiry(p)
      /\ DeadlineTick' = DeadlineTick /\ \A f : Scheduled(f)' <=> Scheduled(f)
  BY <1>1, SameSchedule
<1>3. /\ \A p : Arrival(p) # e /\ Expiry(p) # e /\ Censoring(p) # e
      /\ \A c, k : SlotStart(c, k) # e
  BY SlotEventParts DEF Idle, SharedKinds
<1>4. Running'
  <2>1. ASSUME NEW b \in Bearers
        PROVE  O!Valid(queues[b])' /\ queues'[b].lastTick <= now'
    <3>1. O!Valid(queues[b]) /\ queues[b].lastTick \in Nat /\ queues[b].lastTick <= now
      BY Parts, ValidParts
    <3> QED BY <1>1, <3>1
  <2>2. ASSUME NEW f \in heap'
        PROVE  Scheduled(f)' /\ now' <= f.tick
    <3>1. f \in heap /\ Precedes(e, f) /\ Scheduled(f) /\ f.tick \in Nat
      BY <1>1, <2>2, Parts DEF Idle, Dispatched
    <3> QED BY <1>1, <1>2, <3>1 DEF Precedes
  <2>3. (arrives \in ArrivalPatterns)'
    BY <1>1 DEF PipelineInv, Running, ArrivalPatterns
  <2> QED BY <1>1, <2>1, <2>2, <2>3, Parts DEF Running, PipelineInv
<1>5. Traffic' /\ Censored'
  <2>1. ASSUME NEW p \in Packets
        PROVE  PacketPending(p)'
    <3>1. PacketPending(p) /\ arrives[p] \in Nat
      BY Parts DEF PipelineInv, Traffic
    <3> QED BY <1>1, <1>2, <1>3, <3>1 DEF PacketPending
  <2>2. Censored' /\ \A p, o \in Packets : InOrder(p, o)'
    BY <1>1, <1>3 DEF PipelineInv, Traffic, InOrder, Censored
  <2> QED BY <2>1, <2>2 DEF Traffic
<1>6. Services(own)'
  <2>1. ASSUME NEW f \in heap', f.kind = "service_completion"
        PROVE  InService(own, f)'
    <3>1. f \in heap /\ InService(own, f) /\ f.seq \in Nat /\ At(f.seq) \in Nat
      BY <1>1, <2>1, Parts, ServiceParts DEF PipelineInv, Services
    <3> QED BY <1>1, <3>1 DEF InService, Promise
  <2> QED BY <2>1 DEF Services
<1>7. /\ \A b \in Bearers : Unreserved(own, b)'
      /\ \A p \in Packets : EndedInTime(p)'
  BY <1>1, <1>2 DEF PipelineInv, Unreserved, EndedInTime
<1> QED BY <1>4, <1>5, <1>6, <1>7 DEF PipelineInv

\* A schedule laid out before the run, of the traffic and the slots' starts
\* and of events that serve nothing, satisfies the invariant.
LEMMA StartInv ==
    ASSUME NEW own, arrives \in ArrivalPatterns, queues = [b \in Bearers |-> EmptyQueue],
           now = 0, mode = "running", TrafficEvents(Bearers) \subseteq heap,
           \A e \in heap : \/ e \in TrafficEvents(Bearers)
                           \/ \E c \in Cells, k \in Slots : e = SlotStart(c, k)
                           \/ e.tick \in Nat /\ e.kind \notin SharedKinds /\ e.work = NoWork
    PROVE  PipelineInv(own)
<1>1. arrives \in [Packets -> Nat]
  <2>1. arrives \in [1..NumPackets -> ArrivalTicks]
    BY DEF ArrivalPatterns
  <2>2. \A t \in ArrivalTicks : t \in Nat
    BY Configuration
  <2> QED BY <2>1, <2>2, Configuration
<1>2. O!QueueAssumption /\ \A p \in Packets : DeadlineTick[p] # NoTick => DeadlineTick[p] \in Nat
  <2>1. arrives \in [Packets -> Nat \cup {NoTick}]
    BY <1>1
  <2> QED BY <2>1, QueuesConfigured
<1>3. O!Valid(EmptyQueue)
  BY <1>2, EmptyCall
<1>4. /\ EmptyQueue.lastTick = 0 /\ EmptyQueue.known = {} /\ EmptyQueue.done = {}
      /\ \A p \in Packets : EmptyQueue.cause[p] = "absent"
  BY DEF EmptyQueue
<1> HIDE DEF EmptyQueue
<1>5. /\ \A p \in Packets : Arrival(p) \in heap
      /\ \A p \in Packets : DeadlineTick[p] # NoTick => Expiry(p) \in heap
      /\ \A b \in Bearers : Censoring(b) \in heap
  BY <1>1, Configuration DEF TrafficEvents, NoTick
<1>6. ASSUME NEW e \in heap
      PROVE  Scheduled(e) /\ e.tick >= 0 /\ e.kind # "service_completion"
  <2>1. CASE \E p \in Packets : e = Arrival(p)
    BY <1>1, <2>1, SlotEventParts DEF Scheduled
  <2>2. CASE \E p \in Packets : DeadlineTick[p] # NoTick /\ e = Expiry(p)
    BY <1>2, <2>2, SlotEventParts DEF Scheduled
  <2>3. CASE \E b \in Bearers : e = Censoring(b)
    BY <2>3, SlotEventParts, Configuration DEF Scheduled
  <2>4. CASE \E c \in Cells, k \in Slots : e = SlotStart(c, k)
    BY <2>4, SlotEventParts, SlotTimes DEF Scheduled
  <2>5. CASE e.tick \in Nat /\ e.kind \notin SharedKinds /\ e.work = NoWork
    BY <2>5, SlotEventParts DEF Scheduled, SharedKinds
  <2> QED BY <1>6, <2>1, <2>2, <2>3, <2>4, <2>5 DEF TrafficEvents
<1>7. Running
  BY <1>1, <1>3, <1>4, <1>6, Configuration DEF Running
<1>8. Traffic /\ Censored
  BY <1>1, <1>4, <1>5, Configuration DEF Traffic, PacketPending, InOrder, Censored
<1>9. Services(own) /\ \A b \in Bearers : Unreserved(own, b)
  BY <1>1, <1>4, <1>6 DEF Services, Unreserved
<1>10. \A p \in Packets : EndedInTime(p)
  BY <1>1, <1>4, Configuration DEF EndedInTime
<1> QED BY <1>7, <1>8, <1>9, <1>10 DEF PipelineInv

\* What the properties of the runs say, in a state of the invariant: a packet
\* in two pending plans would be reserved twice from its own bearer, and a
\* bearer belongs to one cell, which serves one slot at a time.
LEMMA InvGives ==
    ASSUME NEW own, PipelineInv(own)
    PROVE  NeverFails /\ DeadlinesKept /\ PlannedOnce
<1>1. NeverFails
  BY DEF PipelineInv, Running, NeverFails
<1>2. \A e \in heap : \A s \in e.work.plan :
         /\ e.kind = "service_completion" /\ InService(own, e) /\ Promise(own, e, s)
  BY Parts DEF PipelineInv, Services, Scheduled, InService
<1>3. ASSUME NEW e \in heap, NEW s \in e.work.plan, NEW p \in Packets,
             s.reservation.items[p] > 0
      PROVE  s.bearer = BearerOf[p]
  <2>1. /\ s.bearer \in Bearers /\ s.reservation \in queues[s.bearer].known
        /\ O!QueueAssumption /\ O!Valid(queues[s.bearer])
    BY <1>2, Parts DEF Promise
  <2> DEFINE q == queues[s.bearer]
             r == s.reservation
  <2>2. q.cause[p] # "absent"
    <3>1. r \in q.known /\ r.items[p] > 0 /\ O!Valid(q)
      BY <1>3, <2>1
    <3> HIDE DEF q, r
    <3> QED BY <2>1, <3>1, ValidParts
  <2>3. PacketPending(p)
    BY DEF PipelineInv, Traffic
  <2> QED BY <2>1, <2>2, <2>3 DEF PacketPending
<1>4. PlannedOnce
  <2> SUFFICES ASSUME NEW e \in heap, NEW s \in e.work.plan,
                      NEW f \in heap, NEW r \in f.work.plan, NEW p \in Packets,
                      s.reservation.items[p] > 0, r.reservation.items[p] > 0
               PROVE  s = r
    BY DEF PlannedOnce, PendingServices
  <2>1. s.bearer = r.bearer
    BY <1>3
  <2>2. e.entity = f.entity
    BY <1>2, <2>1 DEF Promise
  <2>3. e = f
    BY <1>2, <2>2 DEF InService
  <2> QED BY <1>2, <2>1, <2>3 DEF InService
<1>5. DeadlinesKept
  <2> SUFFICES ASSUME NEW b \in Bearers, NEW p \in Packets, DeadlineTick[p] # NoTick
               PROVE  /\ queues[b].cause[p] = "completed"
                            => queues[b].terminal[p] <= DeadlineTick[p]
                      /\ queues[b].cause[p] = "deadline_expired"
                            => /\ queues[b].terminal[p] = DeadlineTick[p]
                               /\ \A e \in heap : \A s \in e.work.plan :
                                     s.reservation.items[p] > 0
                                     => s.reservation.completion > DeadlineTick[p]
    BY DEF DeadlinesKept, PendingServices
  <2>1. EndedInTime(p) /\ PacketPending(p)
    BY DEF PipelineInv, Traffic
  <2>2. CASE b # BearerOf[p]
    BY <2>1, <2>2 DEF PacketPending
  <2>3. CASE b = BearerOf[p]
    BY <1>2, <2>1, <2>3 DEF EndedInTime, Promise
  <2> QED BY <2>2, <2>3
<1> QED BY <1>1, <1>4, <1>5
=============================================================================
