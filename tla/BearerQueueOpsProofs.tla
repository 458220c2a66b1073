------------------------- MODULE BearerQueueOpsProofs -------------------------
(***************************************************************************)
(* What the queue commands preserve, as facts about one queue value: for   *)
(* any packets, limits and arguments, and for every machine that runs the  *)
(* commands.  BearerQueueProofs applies them to the actions of one bearer, *)
(* PipelineProofs to the handlers of a simulation.                         *)
(*                                                                         *)
(* Every command is built from five effects on the queue: stamping its     *)
(* clock, marking first services, consuming bits, terminating packets and  *)
(* recording a packet.  Each effect is shown to preserve a property; a     *)
(* command preserves it because the bits it consumes, or the packets it    *)
(* terminates, are ones the effect may be applied to.                      *)
(*                                                                         *)
(* Three properties are preserved.  Sound: the queue's counters are the    *)
(* sums they stand for.  FifoReservations: a plan promises every packet    *)
(* ahead of one it names all that packet has left, and nothing that        *)
(* happens before its completion undoes this, for packets only lose bits   *)
(* or leave, and new ones join behind.  Orderly: ticks, limits and what a  *)
(* reservation may name.                                                   *)
(***************************************************************************)
EXTENDS BearerQueueOps, SumsProofs, FiniteSetTheorems

-----------------------------------------------------------------------------
(* The inductive invariant.                                                *)

\* Queued are exactly the packets with no terminal cause.
ActiveMatches(q) == q.active = {p \in Packets : q.cause[p] = "active"}

\* What the packets have left.
RemainingBounded(q) ==
    \A p \in Packets :
        /\ q.remaining[p] \in 0..Payload[p]
        /\ q.cause[p] = "active" => q.remaining[p] # 0
        /\ q.cause[p] = "completed" => q.remaining[p] = 0

\* Ranks order the packets as they were offered.
RanksDistinct(q) ==
    \A p \in Known(q) :
        /\ q.rank[p] < q.offered
        /\ \A o \in Known(q) : q.rank[o] = q.rank[p] => o = p

OfferedCounted(q) == q.offered = Cardinality(Known(q))

Sound(q) ==
    /\ q \in QueueState
    /\ ActiveMatches(q)
    /\ RemainingBounded(q)
    /\ RanksDistinct(q)
    /\ OfferedCounted(q)
    /\ CachedOccupancy(q)
    /\ ServiceAccounted(q)

\* Bits that may be taken from the packets.
Drawable(q, bits) ==
    /\ bits \in [Packets -> Nat]
    /\ \A p \in Packets : bits[p] # 0 => p \in q.active /\ bits[p] <= q.remaining[p]

-----------------------------------------------------------------------------
(* Totals over the packets.                                                *)

\* The assumptions on the constants, with what is used of them.
LEMMA PacketsFinite ==
    /\ NumPackets \in Nat
    /\ Packets = 1..NumPackets
    /\ \A p \in Packets : Payload[p] \in Nat /\ Payload[p] # 0
    /\ IsFiniteSet(Packets)
<1>1. NumPackets \in Nat /\ \A p \in Packets : Payload[p] \in Nat /\ Payload[p] # 0
  BY QueueAssumption
<1>2. IsFiniteSet(1..NumPackets)
  BY <1>1, FS_Interval
<1> QED BY <1>1, <1>2 DEF Packets

\* Totals of naturals are naturals, and add up term by term.
LEMMA TotalNat ==
    ASSUME NEW f, \A p \in Packets : f[p] \in Nat
    PROVE  Total(f) \in Nat
BY PacketsFinite, SumNat DEF Total

\* Term by term, a total of sums is the sum of the totals.
LEMMA TotalAdd ==
    ASSUME NEW f, NEW g, NEW h,
           \A p \in Packets : f[p] \in Int /\ g[p] \in Int /\ h[p] = f[p] + g[p]
    PROVE  /\ Total(h) = Total(f) + Total(g)
           /\ Total(f) \in Int /\ Total(g) \in Int
BY PacketsFinite, SumAdd, SumInt DEF Total

-----------------------------------------------------------------------------
(* The effects preserve Sound.                                             *)

\* Sound does not depend on the clock, the first services and the
\* reservations.
LEMMA SameLedgerSound ==
    ASSUME NEW q, Sound(q), NEW s \in QueueState,
           s.active = q.active, s.cause = q.cause, s.remaining = q.remaining,
           s.rank = q.rank, s.offered = q.offered, s.queued = q.queued,
           s.served = q.served
    PROVE  Sound(s)
BY DEF Sound, ActiveMatches, RemainingBounded, RanksDistinct, OfferedCounted,
       CachedOccupancy, ServiceAccounted, Known

\* Moving the clock preserves Sound.
LEMMA StampSound ==
    ASSUME NEW q, Sound(q), NEW t \in Ticks
    PROVE  Sound(Stamp(q, t))
<1> DEFINE s == Stamp(q, t)
<1>1. /\ s \in QueueState
      /\ s.active = q.active /\ s.cause = q.cause /\ s.remaining = q.remaining
      /\ s.rank = q.rank /\ s.offered = q.offered
      /\ s.queued = q.queued /\ s.served = q.served
  BY DEF Stamp, Sound, QueueState
<1> HIDE DEF s
<1> QED BY <1>1, SameLedgerSound DEF s

\* Marking first services preserves Sound.
LEMMA MarkFirstSound ==
    ASSUME NEW q, Sound(q), NEW t \in Ticks, NEW bits
    PROVE  Sound(MarkFirst(q, t, bits))
<1> DEFINE s == MarkFirst(q, t, bits)
<1>1. /\ s \in QueueState
      /\ s.active = q.active /\ s.cause = q.cause /\ s.remaining = q.remaining
      /\ s.rank = q.rank /\ s.offered = q.offered
      /\ s.queued = q.queued /\ s.served = q.served
  BY DEF MarkFirst, Sound, QueueState
<1> HIDE DEF s
<1> QED BY <1>1, SameLedgerSound DEF s

\* Consuming drawable bits keeps the cached occupancy and the service total
\* equal to the sums they stand for, and completes the packets they exhaust.
LEMMA ConsumeSound ==
    ASSUME NEW q, Sound(q), NEW t \in Ticks, NEW bits, Drawable(q, bits)
    PROVE  Sound(Consume(q, t, bits))
<1> DEFINE s == Consume(q, t, bits)
           done == Finished(q, bits)
<1>1. /\ s.active = q.active \ done
      /\ s.remaining = [p \in Packets |-> q.remaining[p] - bits[p]]
      /\ s.cause = [p \in Packets |-> IF p \in done THEN "completed" ELSE q.cause[p]]
      /\ s.queued = q.queued - Total(bits)
      /\ s.served = q.served + Total(bits)
      /\ s.terminal = [p \in Packets |-> IF p \in done THEN t ELSE q.terminal[p]]
      /\ s.rank = q.rank /\ s.offered = q.offered
  BY DEF Consume, Sound, QueueState
<1>2. \A p \in Packets : /\ q.remaining[p] \in 0..Payload[p]
                         /\ p \in q.active <=> q.cause[p] = "active"
                         /\ bits[p] \in Nat /\ bits[p] <= q.remaining[p]
                         /\ bits[p] # 0 => p \in q.active
                         /\ p \in done <=> bits[p] # 0 /\ bits[p] = q.remaining[p]
                         /\ p \in q.active => q.remaining[p] # 0
  BY PacketsFinite DEF Sound, ActiveMatches, RemainingBounded, Drawable, Finished
<1>3. CachedOccupancy(s) /\ s.queued \in Nat
  <2> DEFINE old == [p \in Packets |-> IF p \in q.active THEN q.remaining[p] ELSE 0]
             new == [p \in Packets |-> IF p \in s.active THEN s.remaining[p] ELSE 0]
  <2> HIDE DEF s
  <2>1. \A p \in Packets : new[p] \in Nat /\ bits[p] \in Nat /\ old[p] = new[p] + bits[p]
    BY <1>1, <1>2, PacketsFinite
  <2>2. Total(old) = Total(new) + Total(bits) /\ Total(new) \in Nat /\ Total(bits) \in Nat
    <3> HIDE DEF new, old
    <3> QED BY <2>1, TotalAdd, TotalNat
  <2>3. q.queued = Total(old)
    BY DEF Sound, CachedOccupancy, BitsOf
  <2>4. s.queued = Total(new)
    <3> HIDE DEF new, old
    <3> QED BY <1>1, <2>2, <2>3
  <2> QED BY <2>2, <2>4 DEF CachedOccupancy, BitsOf
<1>4. ServiceAccounted(s) /\ s.served \in Nat
  <2> DEFINE old == [p \in Packets |-> IF p \in Known(q) THEN Payload[p] - q.remaining[p] ELSE 0]
             new == [p \in Packets |-> IF p \in Known(s) THEN Payload[p] - s.remaining[p] ELSE 0]
  <2> HIDE DEF s
  <2>1. \A p \in Packets : p \in Known(s) <=> p \in Known(q)
    BY <1>1, <1>2 DEF Known
  <2>2. \A p \in Packets : old[p] \in Nat /\ bits[p] \in Nat /\ new[p] = old[p] + bits[p]
    BY <1>1, <1>2, <2>1, PacketsFinite DEF Known
  <2>3. Total(new) = Total(old) + Total(bits) /\ Total(old) \in Nat /\ Total(bits) \in Nat
    <3> HIDE DEF new, old
    <3> QED BY <2>2, TotalAdd, TotalNat
  <2>4. q.served = Total(old)
    <3> DEFINE lost == [p \in Packets |-> Payload[p] - q.remaining[p]]
    <3>1. old = [p \in Packets |-> IF p \in Known(q) THEN lost[p] ELSE 0]
      OBVIOUS
    <3> HIDE DEF lost, old
    <3> QED BY <3>1 DEF Sound, ServiceAccounted, BitsOf, lost
  <2>5. new = [p \in Packets |-> IF p \in Known(s)
                 THEN [o \in Packets |-> Payload[o] - s.remaining[o]][p] ELSE 0]
    OBVIOUS
  <2> HIDE DEF new, old
  <2> QED BY <1>1, <2>3, <2>4, <2>5 DEF ServiceAccounted, BitsOf
<1>5. ActiveMatches(s) /\ RemainingBounded(s)
  <2> HIDE DEF s
  <2> QED BY <1>1, <1>2, PacketsFinite DEF ActiveMatches, RemainingBounded, Sound
<1>6. Known(s) = Known(q)
  <2> HIDE DEF s
  <2> QED BY <1>1, <1>2 DEF Known
<1>7. s \in QueueState
  <2>1. /\ s.active \in SUBSET Packets
        /\ s.remaining \in [Packets -> Nat]
        /\ s.cause \in [Packets -> Causes]
        /\ s.terminal \in [Packets -> Ticks \cup {NoTick}]
    <3> HIDE DEF s, done
    <3>1. s.active \in SUBSET Packets
      BY <1>1 DEF Sound, QueueState
    <3>2. s.remaining \in [Packets -> Nat]
      BY <1>1, <1>2, PacketsFinite
    <3>3. s.cause \in [Packets -> Causes]
      BY <1>1 DEF Sound, QueueState, Causes, Terminal
    <3>4. s.terminal \in [Packets -> Ticks \cup {NoTick}]
      BY <1>1 DEF Sound, QueueState
    <3> QED BY <3>1, <3>2, <3>3, <3>4
  <2> QED BY <1>3, <1>4, <2>1 DEF Consume, Sound, QueueState
<1> HIDE DEF s
<1> QED BY <1>1, <1>3, <1>4, <1>5, <1>6, <1>7
        DEF Sound, RanksDistinct, OfferedCounted, s

\* Terminating queued packets takes from the cached occupancy what they had
\* left, whatever part of them had been served.
LEMMA TerminateSound ==
    ASSUME NEW q, Sound(q), NEW t \in Ticks, NEW gone \in SUBSET q.active,
           NEW why \in Terminal \ {"completed"}
    PROVE  Sound(Terminate(q, t, gone, why))
<1> DEFINE s == Terminate(q, t, gone, why)
           bits == [p \in Packets |-> IF p \in gone THEN q.remaining[p] ELSE 0]
<1>1. /\ s.active = q.active \ gone
      /\ s.remaining = q.remaining
      /\ s.cause = [p \in Packets |-> IF p \in gone THEN why ELSE q.cause[p]]
      /\ s.queued = q.queued - Total(bits)
      /\ s.served = q.served
      /\ s.terminal = [p \in Packets |-> IF p \in gone THEN t ELSE q.terminal[p]]
      /\ s.rank = q.rank /\ s.offered = q.offered
  BY DEF Terminate, Sound, QueueState
<1>2. \A p \in Packets : /\ q.remaining[p] \in 0..Payload[p]
                         /\ p \in q.active <=> q.cause[p] = "active"
                         /\ p \in gone => p \in q.active
  BY PacketsFinite DEF Sound, ActiveMatches, RemainingBounded
<1>3. CachedOccupancy(s) /\ s.queued \in Nat
  <2> DEFINE old == [p \in Packets |-> IF p \in q.active THEN q.remaining[p] ELSE 0]
             new == [p \in Packets |-> IF p \in s.active THEN s.remaining[p] ELSE 0]
  <2> HIDE DEF s
  <2>1. \A p \in Packets : new[p] \in Nat /\ bits[p] \in Nat /\ old[p] = new[p] + bits[p]
    <3> TAKE p \in Packets
    <3>1. q.remaining[p] \in Nat
      BY <1>2, PacketsFinite
    <3>2. /\ bits[p] = IF p \in gone THEN q.remaining[p] ELSE 0
          /\ old[p] = IF p \in q.active THEN q.remaining[p] ELSE 0
          /\ new[p] = IF p \in q.active \ gone THEN q.remaining[p] ELSE 0
      BY <1>1
    <3>3. p \in gone => p \in q.active
      OBVIOUS
    <3> HIDE DEF new, old, bits
    <3> QED BY <3>1, <3>2, <3>3
  <2>2. Total(old) = Total(new) + Total(bits) /\ Total(new) \in Nat /\ Total(bits) \in Nat
    <3> HIDE DEF new, old, bits
    <3> QED BY <2>1, TotalAdd, TotalNat
  <2>3. q.queued = Total(old)
    BY DEF Sound, CachedOccupancy, BitsOf
  <2>4. s.queued = Total(new)
    <3> HIDE DEF new, old, bits
    <3> QED BY <1>1, <2>2, <2>3
  <2> HIDE DEF bits
  <2> QED BY <2>2, <2>4 DEF CachedOccupancy, BitsOf
<1>4. Known(s) = Known(q)
  <2> HIDE DEF s
  <2> QED BY <1>1, <1>2 DEF Known, Terminal
<1>5. ActiveMatches(s) /\ RemainingBounded(s)
  <2> HIDE DEF s
  <2> QED BY <1>1, <1>2, PacketsFinite DEF ActiveMatches, RemainingBounded, Sound, Terminal
<1>6. s \in QueueState
  <2>1. /\ s.active \in SUBSET Packets
        /\ s.cause \in [Packets -> Causes]
        /\ s.terminal \in [Packets -> Ticks \cup {NoTick}]
    <3> HIDE DEF s
    <3> QED BY <1>1, <1>2 DEF Sound, QueueState, Causes, Terminal
  <2> HIDE DEF bits
  <2> QED BY <1>3, <2>1 DEF Terminate, Sound, QueueState, bits
<1> HIDE DEF s, bits
<1> QED BY <1>1, <1>3, <1>4, <1>5, <1>6
        DEF Sound, RanksDistinct, OfferedCounted, ServiceAccounted, s

\* Whether a packet is queued or dropped on arrival, it is recorded once,
\* behind every other.
LEMMA EnqueueSound ==
    ASSUME NEW q, Sound(q), NEW t \in Ticks, NEW p \in Packets, NEW belongs
    PROVE  Sound(Enqueue(q, t, p, belongs))
<1>1. CASE StaleTick(q, t)
  BY <1>1 DEF Enqueue
<1>2. CASE ~StaleTick(q, t) /\ EnqueueRaises(q, t, p, belongs)
  BY <1>2, StampSound DEF Enqueue
<1>3. CASE ~StaleTick(q, t) /\ ~EnqueueRaises(q, t, p, belongs)
  <2> DEFINE s == Enqueue(q, t, p, belongs)
  <2>1. /\ q.cause[p] = "absent"
        /\ s = IF Overflows(q, p)
               THEN [Recorded(Stamp(q, t), t, p) EXCEPT
                        !.cause[p] = "overflow_drop", !.terminal[p] = t]
               ELSE [Recorded(Stamp(q, t), t, p) EXCEPT
                        !.cause[p] = "active",
                        !.active = q.active \cup {p},
                        !.queued = q.queued + Payload[p]]
    BY <1>3, Zenon DEF Enqueue, EnqueueRaises
  <2>2. /\ s.rank = [q.rank EXCEPT ![p] = q.offered]
        /\ s.offered = q.offered + 1
        /\ s.remaining = [q.remaining EXCEPT ![p] = Payload[p]]
        /\ s.served = q.served
        /\ \/ /\ s.cause = [q.cause EXCEPT ![p] = "overflow_drop"]
              /\ s.active = q.active /\ s.queued = q.queued
           \/ /\ s.cause = [q.cause EXCEPT ![p] = "active"]
              /\ s.active = q.active \cup {p} /\ s.queued = q.queued + Payload[p]
    <3> HIDE DEF s
    <3> QED BY <2>1 DEF Recorded, Stamp, Sound, QueueState
  <2>3. /\ q.rank \in [Packets -> Nat] /\ q.offered \in Nat
        /\ q.cause \in [Packets -> Causes] /\ q.remaining \in [Packets -> Nat]
        /\ q.queued \in Nat /\ q.served \in Nat /\ q.active \in SUBSET Packets
        /\ q.arrival \in [Packets -> Ticks]
        /\ q.terminal \in [Packets -> Ticks \cup {NoTick}]
    BY DEF Sound, QueueState
  <2>4. /\ p \notin Known(q) /\ p \notin q.active
        /\ \A o \in Packets :
              /\ s.remaining[o] = IF o = p THEN Payload[p] ELSE q.remaining[o]
              /\ s.rank[o] = IF o = p THEN q.offered ELSE q.rank[o]
              /\ o # p => s.cause[o] = q.cause[o]
              /\ o # p => (o \in s.active <=> o \in q.active)
              /\ s.cause[p] \in {"active", "overflow_drop"}
              /\ p \in s.active <=> s.cause[p] = "active"
    <3> HIDE DEF s
    <3> QED BY <2>1, <2>2, <2>3 DEF Known, ActiveMatches, Sound
  <2>12. s \in QueueState
    <3>1. /\ s.rank \in [Packets -> Nat] /\ s.offered \in Nat
          /\ s.remaining \in [Packets -> Nat] /\ s.cause \in [Packets -> Causes]
          /\ s.active \in SUBSET Packets /\ s.queued \in Nat
      <4> HIDE DEF s
      <4>1. s.rank \in [Packets -> Nat] /\ s.offered \in Nat
        BY <2>2, <2>3
      <4>2. s.remaining \in [Packets -> Nat]
        BY <2>2, <2>3, PacketsFinite
      <4>3. s.cause \in [Packets -> Causes]
        BY <2>2, <2>3 DEF Causes, Terminal
      <4>4. s.active \in SUBSET Packets
        BY <2>2, <2>3
      <4>5. s.queued \in Nat
        BY <2>2, <2>3, PacketsFinite
      <4> QED BY <4>1, <4>2, <4>3, <4>4, <4>5
    <3>2. /\ s.arrival = [q.arrival EXCEPT ![p] = t]
          /\ s.terminal = q.terminal \/ s.terminal = [q.terminal EXCEPT ![p] = t]
          /\ s.first = q.first /\ s.lastTick = t
          /\ s.known = q.known /\ s.done = q.done
      <4> HIDE DEF s
      <4> QED BY <2>1 DEF Recorded, Stamp, Sound, QueueState
    <3>3. s.arrival \in [Packets -> Ticks] /\ s.terminal \in [Packets -> Ticks \cup {NoTick}]
      <4> HIDE DEF s
      <4> QED BY <2>3, <3>2
    <3>4. s = [active |-> s.active, rank |-> s.rank, arrival |-> s.arrival,
               cause |-> s.cause, remaining |-> s.remaining, first |-> s.first,
               terminal |-> s.terminal, offered |-> s.offered, lastTick |-> s.lastTick,
               queued |-> s.queued, served |-> s.served, known |-> s.known,
               done |-> s.done]
      <4> HIDE DEF s
      <4> QED BY <2>1 DEF Recorded, Stamp, Sound, QueueState
    <3> HIDE DEF s
    <3> QED BY <2>2, <3>1, <3>2, <3>3, <3>4 DEF Sound, QueueState
  <2> HIDE DEF s
  <2>5. Known(s) = Known(q) \cup {p}
    BY <2>4 DEF Known
  <2>6. ActiveMatches(s)
    BY <2>4, <2>12 DEF ActiveMatches, Sound, QueueState
  <2>7. RemainingBounded(s)
    <3>1. RemainingBounded(q) /\ Payload[p] \in Nat \ {0}
      BY PacketsFinite DEF Sound
    <3>2. ASSUME NEW o \in Packets, o # p
          PROVE  /\ s.remaining[o] \in 0..Payload[o]
                 /\ s.cause[o] = "active" => s.remaining[o] # 0
                 /\ s.cause[o] = "completed" => s.remaining[o] = 0
      BY <2>4, <3>1, <3>2 DEF RemainingBounded
    <3>3. /\ s.remaining[p] \in 0..Payload[p] /\ s.remaining[p] # 0
          /\ s.cause[p] # "completed"
      BY <2>4, <3>1
    <3> QED BY <3>2, <3>3 DEF RemainingBounded
  <2>8. RanksDistinct(s)
    BY <2>2, <2>3, <2>4, <2>5 DEF RanksDistinct, Sound, Known
  <2>9. OfferedCounted(s)
    <3>1. IsFiniteSet(Known(q))
      BY PacketsFinite, FS_Subset DEF Known
    <3>2. Cardinality(Known(q) \cup {p}) = Cardinality(Known(q)) + 1
      BY <2>4, <3>1, FS_AddElement
    <3> QED BY <2>2, <2>5, <3>2 DEF OfferedCounted, Sound
  <2>10. CachedOccupancy(s)
    <3> DEFINE old == [o \in Packets |-> IF o \in q.active THEN q.remaining[o] ELSE 0]
               new == [o \in Packets |-> IF o \in s.active THEN s.remaining[o] ELSE 0]
               bits == [o \in Packets |-> IF o = p /\ p \in s.active THEN Payload[p] ELSE 0]
    <3>1. \A o \in Packets : old[o] \in Nat /\ bits[o] \in Nat /\ new[o] = old[o] + bits[o]
      <4>1. Payload[p] \in Nat
        BY PacketsFinite
      <4>2. ASSUME NEW o \in Packets, o # p
            PROVE  old[o] \in Nat /\ bits[o] = 0 /\ new[o] = old[o]
        BY <2>3, <2>4, <4>2
      <4>3. old[p] = 0 /\ bits[p] \in Nat /\ new[p] = bits[p]
        BY <2>4, <4>1
      <4> HIDE DEF new, old, bits
      <4> QED BY <4>2, <4>3
    <3>2. Total(new) = Total(old) + Total(bits)
      <4> HIDE DEF new, old, bits
      <4> QED BY <3>1, TotalAdd
    <3>3. Total(bits) = bits[p]
      <4>1. \A o \in Packets : o # p => bits[o] = 0
        OBVIOUS
      <4> HIDE DEF bits
      <4> QED BY <3>1, <4>1, PacketsFinite, SumSingle DEF Total
    <3>4. q.queued = Total(old)
      BY DEF Sound, CachedOccupancy, BitsOf
    <3>5. s.queued = q.queued + bits[p]
      BY <2>2, <2>3, <2>4
    <3> HIDE DEF old, bits
    <3> QED BY <3>2, <3>3, <3>4, <3>5 DEF CachedOccupancy, BitsOf
  <2>11. ServiceAccounted(s)
    <3> DEFINE before == [o \in Packets |-> Payload[o] - q.remaining[o]]
               after  == [o \in Packets |-> Payload[o] - s.remaining[o]]
               old == [o \in Packets |-> IF o \in Known(q) THEN before[o] ELSE 0]
               new == [o \in Packets |-> IF o \in Known(s) THEN after[o] ELSE 0]
    <3>1. \A o \in Packets : new[o] \in Int /\ new[o] = old[o]
      <4>1. \A o \in Packets : Payload[o] \in Nat /\ q.remaining[o] \in Nat
        BY <2>3, PacketsFinite
      <4>2. old[p] = 0 /\ new[p] = 0
        BY <2>4, <2>5, <4>1
      <4>3. ASSUME NEW o \in Packets, o # p
            PROVE  old[o] = new[o] /\ old[o] \in Int
        BY <2>4, <2>5, <4>1, <4>3
      <4> HIDE DEF old, new
      <4> QED BY <4>2, <4>3
    <3>2. Total(new) = Total(old)
      <4> HIDE DEF new, old
      <4> QED BY <3>1, SumSame, PacketsFinite DEF Total
    <3> HIDE DEF before, after
    <3> QED BY <2>2, <3>2 DEF ServiceAccounted, BitsOf, Sound, before, after
  <2> QED BY <2>6, <2>7, <2>8, <2>9, <2>10, <2>11, <2>12 DEF Sound, s
<1> QED BY <1>1, <1>2, <1>3

-----------------------------------------------------------------------------
(* What the service plans take can be taken.                               *)

\* The first-in first-out plan gives each packet at most what it has left.
LEMMA FifoPlanDrawable ==
    ASSUME NEW q, Sound(q), NEW capacity \in Int
    PROVE  Drawable(q, FifoPlan(q, capacity))
<1>1. \A p \in Packets : q.remaining[p] \in Nat
  BY DEF Sound, QueueState
<1>2. \A p \in Packets : BitsAhead(q, p) \in Nat
  <2> TAKE p \in Packets
  <2> DEFINE bits == [o \in Packets |-> IF o \in Ahead(q, p) THEN q.remaining[o] ELSE 0]
  <2>1. \A o \in Packets : bits[o] \in Nat
    BY <1>1
  <2> HIDE DEF bits
  <2>2. Total(bits) \in Nat
    BY <2>1, TotalNat
  <2> QED BY <2>2 DEF BitsAhead, bits
<1>3. \A p \in Packets : p \in q.active =>
          /\ Clamp(capacity - BitsAhead(q, p), q.remaining[p]) \in Nat
          /\ Clamp(capacity - BitsAhead(q, p), q.remaining[p]) <= q.remaining[p]
  BY <1>1, <1>2 DEF Clamp
<1> HIDE DEF FifoPlan
<1> QED BY <1>3 DEF Drawable, FifoPlan

\* A loop that stops early has taken no more than the whole plan.
LEMMA UpToDrawable ==
    ASSUME NEW q, NEW plan, Drawable(q, plan), NEW bad
    PROVE  Drawable(q, UpTo(q, plan, bad))
BY DEF Drawable, UpTo

\* The items of a reservation of which complete_reserved_service did not
\* find anything wrong can still be taken.
LEMMA DrawnDrawable ==
    ASSUME NEW q, Sound(q), NEW r \in Reservation
    PROVE  Drawable(q, Drawn(q, r))
<1>1. r.items \in [Packets -> Nat]
  BY DEF Reservation
<1>2. ASSUME NEW p \in Packets, Drawn(q, r)[p] # 0
      PROVE  p \in q.active /\ Drawn(q, r)[p] = r.items[p] /\ r.items[p] <= q.remaining[p]
  <2>1. /\ q.cause[p] \notin Terminal
        /\ Drawn(q, r)[p] = r.items[p]
        /\ ~\E b \in Disturbed(q, r) : q.rank[b] <= q.rank[p]
    BY <1>2 DEF Drawn, UpTo
  <2>2. p \notin Disturbed(q, r)
    BY <2>1 DEF Sound, QueueState
  <2>3. r.items[p] > 0
    BY <1>1, <1>2, <2>1
  <2>4. q.remaining[p] \in Nat
    BY DEF Sound, QueueState
  <2> QED BY <1>1, <2>1, <2>2, <2>3, <2>4 DEF Disturbed
<1>3. \A p \in Packets : Drawn(q, r)[p] \in Nat
  BY <1>1 DEF Drawn, UpTo
<1>4. DOMAIN Drawn(q, r) = Packets /\ Drawn(q, r) = [p \in Packets |-> Drawn(q, r)[p]]
  BY DEF Drawn, UpTo
<1> HIDE DEF Drawn
<1> QED BY <1>2, <1>3, <1>4 DEF Drawable

-----------------------------------------------------------------------------
(* The commands preserve Sound.                                            *)

\* Moving the clock changes nothing that the plans read.
LEMMA StampKeeps ==
    ASSUME NEW q, Sound(q), NEW t \in Ticks
    PROVE  /\ Sound(Stamp(q, t))
           /\ Stamp(q, t).active = q.active
           /\ Stamp(q, t).remaining = q.remaining
           /\ Stamp(q, t).cause = q.cause
           /\ Stamp(q, t).rank = q.rank
           /\ Stamp(q, t).known = q.known
           /\ Stamp(q, t).done = q.done
<1>1. Sound(Stamp(q, t))
  BY StampSound
<1> QED BY <1>1 DEF Stamp, Sound, QueueState

\* Immediate service (_service) preserves Sound, also when it raises at an
\* overdue packet half way down the queue.
LEMMA ServeSound ==
    ASSUME NEW q, Sound(q), NEW t \in Ticks, NEW capacity \in Int
    PROVE  Sound(Serve(q, t, capacity))
<1> DEFINE bits == UpTo(q, FifoPlan(q, capacity), OverdueInReach(q, t, capacity))
           m == MarkFirst(Stamp(q, t), t, bits)
<1>1. Drawable(q, bits)
  BY FifoPlanDrawable, UpToDrawable
<1>2. Sound(Stamp(q, t))
  BY StampSound
<1>3. Sound(m) /\ m.active = q.active /\ m.remaining = q.remaining
  <2> HIDE DEF bits
  <2>1. Sound(m)
    BY <1>2, MarkFirstSound
  <2> QED BY <2>1 DEF MarkFirst, Stamp, Sound, QueueState
<1>4. Sound(Consume(m, t, bits))
  <2> HIDE DEF bits, m
  <2>1. Drawable(m, bits)
    BY <1>1, <1>3 DEF Drawable
  <2> QED BY <1>3, <2>1, ConsumeSound
<1> QED BY <1>2, <1>4 DEF Serve

\* Deadline expiry (_terminate_packet with require_deadline) preserves Sound.
LEMMA ExpireSound ==
    ASSUME NEW q, Sound(q), NEW t \in Ticks, NEW p \in Packets
    PROVE  Sound(Expire(q, t, p))
<1>1. Sound(Stamp(q, t)) /\ Stamp(q, t).active = q.active
  BY StampKeeps
<1>2. q.cause[p] = "active" => {p} \in SUBSET Stamp(q, t).active
  BY <1>1 DEF Sound, ActiveMatches
<1>3. "deadline_expired" \in Terminal \ {"completed"}
  BY DEF Terminal
<1>4. q.cause[p] = "active" => Sound(Terminate(Stamp(q, t), t, {p}, "deadline_expired"))
  BY <1>1, <1>2, <1>3, TerminateSound
<1> QED BY <1>1, <1>4 DEF Expire

\* PHY failure (_terminate_packet) preserves Sound.
LEMMA FailSound ==
    ASSUME NEW q, Sound(q), NEW t \in Ticks, NEW p \in Packets
    PROVE  Sound(Fail(q, t, p))
<1>1. Sound(Stamp(q, t)) /\ Stamp(q, t).active = q.active
  BY StampKeeps
<1>2. q.cause[p] = "active" => {p} \in SUBSET Stamp(q, t).active
  BY <1>1 DEF Sound, ActiveMatches
<1>3. "phy_failure" \in Terminal \ {"completed"}
  BY DEF Terminal
<1>4. q.cause[p] = "active" => Sound(Terminate(Stamp(q, t), t, {p}, "phy_failure"))
  BY <1>1, <1>2, <1>3, TerminateSound
<1> QED BY <1>1, <1>4 DEF Fail

\* Censoring every queued packet (_censor) preserves Sound.
LEMMA CensorSound ==
    ASSUME NEW q, Sound(q), NEW t \in Ticks
    PROVE  Sound(Censor(q, t))
<1>1. Sound(Stamp(q, t)) /\ Stamp(q, t).active = q.active
  BY StampKeeps
<1>2. "censored_at_stop" \in Terminal \ {"completed"}
  BY DEF Terminal
<1>3. Sound(Terminate(Stamp(q, t), t, q.active, "censored_at_stop"))
  BY <1>1, <1>2, TerminateSound
<1> QED BY <1>3 DEF Censor

\* What reserve_service plans is a reservation.
LEMMA PlannedReservation ==
    ASSUME NEW q, Sound(q), NEW start \in Ticks, NEW completion \in Ticks,
           NEW capacity \in Nat
    PROVE  Planned(q, start, completion, capacity) \in Reservation
<1>1. FifoPlan(q, capacity) \in [Packets -> Nat]
  BY FifoPlanDrawable DEF Drawable
<1> HIDE DEF FifoPlan
<1> QED BY <1>1 DEF Planned, Reservation

\* reserve_service preserves Sound and adds one reservation at most.
LEMMA ReserveSound ==
    ASSUME NEW q, Sound(q), NEW start \in Ticks, NEW completion \in Ticks,
           NEW capacity \in Int
    PROVE  /\ Sound(Reserve(q, start, completion, capacity))
           /\ Reserve(q, start, completion, capacity).known
                 \in {q.known, q.known \cup {Planned(q, start, completion, capacity)}}
<1> DEFINE s == Reserve(q, start, completion, capacity)
           r == Planned(q, start, completion, capacity)
           m == MarkFirst(Stamp(q, start), start, r.items)
<1>1. Sound(Stamp(q, start)) /\ Stamp(q, start).known = q.known
  BY StampKeeps
<1>2. CASE StaleTick(q, start) \/ ReserveRejected(start, completion, capacity)
  BY <1>1, <1>2 DEF Reserve
<1>3. CASE ~(StaleTick(q, start) \/ ReserveRejected(start, completion, capacity))
  <2>1. r \in Reservation
    BY <1>3, PlannedReservation DEF ReserveRejected
  <2>2. Sound(m)
    BY <1>1, MarkFirstSound
  <2>3. s = [m EXCEPT !.known = q.known \cup {r}]
    BY <1>3 DEF Reserve
  <2> HIDE DEF s, r, m
  <2>4. /\ s \in QueueState
        /\ s.active = m.active /\ s.cause = m.cause /\ s.remaining = m.remaining
        /\ s.rank = m.rank /\ s.offered = m.offered
        /\ s.queued = m.queued /\ s.served = m.served
        /\ s.known = q.known \cup {r}
    BY <2>1, <2>2, <2>3 DEF Sound, QueueState
  <2> QED BY <2>2, <2>4, SameLedgerSound DEF s, r
<1> QED BY <1>2, <1>3

\* complete_reserved_service preserves Sound, for a plan of any age and also
\* when it raises half way: what it draws is always drawable.
LEMMA CompleteSound ==
    ASSUME NEW q, Sound(q), NEW r \in q.known
    PROVE  Sound(Complete(q, r)) /\ Complete(q, r).known = q.known
<1> DEFINE t == r.completion
           bits == Drawn(q, r)
           c == Consume(Stamp(q, t), t, bits)
           s == [c EXCEPT !.done = IF Disturbed(q, r) = {} THEN @ \cup {r} ELSE @]
<1>1. r \in Reservation /\ t \in Ticks
  BY DEF Sound, QueueState, Reservation
<1>2. /\ Sound(Stamp(q, t)) /\ Stamp(q, t).active = q.active
      /\ Stamp(q, t).remaining = q.remaining /\ Stamp(q, t).known = q.known
  BY <1>1, StampKeeps
<1>3. Sound(c)
  <2>1. Drawable(q, bits)
    BY <1>1, DrawnDrawable
  <2> HIDE DEF bits
  <2>2. Drawable(Stamp(q, t), bits)
    BY <1>2, <2>1 DEF Drawable
  <2> QED BY <1>1, <1>2, <2>2, ConsumeSound
<1>4. Sound(s) /\ s.known = q.known
  <2>1. c.known = q.known
    <3> HIDE DEF bits, t
    <3> QED BY <1>2 DEF Consume, Sound, QueueState
  <2> HIDE DEF c
  <2>2. /\ s \in QueueState
        /\ s.active = c.active /\ s.cause = c.cause /\ s.remaining = c.remaining
        /\ s.rank = c.rank /\ s.offered = c.offered
        /\ s.queued = c.queued /\ s.served = c.served /\ s.known = c.known
    BY <1>1, <1>3 DEF Sound, QueueState
  <2> HIDE DEF s
  <2> QED BY <1>3, <2>1, <2>2, SameLedgerSound
<1> QED BY <1>2, <1>4 DEF Complete

-----------------------------------------------------------------------------
(* A sound queue reconciles with its ledger.                              *)

\* Disjoint finite sets are counted separately.
LEMMA CardinalityDisjoint ==
    ASSUME NEW S, IsFiniteSet(S), NEW T, IsFiniteSet(T), S \cap T = {}
    PROVE  Cardinality(S \cup T) = Cardinality(S) + Cardinality(T)
<1>1. Cardinality(S \cup T) = Cardinality(S) + Cardinality(T) - Cardinality(S \cap T)
  BY FS_Union
<1>2. Cardinality(S \cap T) = 0
  BY FS_EmptySet
<1>3. Cardinality(S) \in Nat /\ Cardinality(T) \in Nat
  BY FS_CardinalityType
<1> QED BY <1>1, <1>2, <1>3

\* A sound queue reconciles: the ledger's columns partition the packets that
\* were ever offered, and with them their bits.
LEMMA SoundReconciles ==
    ASSUME NEW q, Sound(q)
    PROVE  LedgerReconciles(q)
<1> DEFINE completed == {p \in Known(q) : q.cause[p] = "completed"}
           lost == {p \in Known(q) : q.cause[p] \in Terminal \ {"completed"}}
           unsent == [p \in Packets |-> Payload[p] - q.remaining[p]]
           offered == [p \in Packets |-> IF p \in Known(q) THEN Payload[p] ELSE 0]
           queued == [p \in Packets |-> IF p \in q.active THEN q.remaining[p] ELSE 0]
           partly == [p \in Packets |-> IF p \in q.active THEN unsent[p] ELSE 0]
           ended == [p \in Packets |-> IF p \in completed THEN Payload[p] ELSE 0]
           dropped == [p \in Packets |-> IF p \in lost THEN Payload[p] ELSE 0]
<1>1. /\ q.active \subseteq Known(q) /\ Known(q) = q.active \cup completed \cup lost
      /\ q.active \cap completed = {} /\ (q.active \cup completed) \cap lost = {}
  BY DEF Sound, QueueState, ActiveMatches, Known, Causes, Terminal
<1>2. \A p \in Packets : Payload[p] \in Nat /\ q.remaining[p] \in Nat
  BY PacketsFinite DEF Sound, QueueState
<1>3. Total(offered) = Total(queued) + Total(partly) + Total(ended) + Total(dropped)
  <2> DEFINE two == [p \in Packets |-> queued[p] + partly[p]]
             three == [p \in Packets |-> two[p] + ended[p]]
  <2>1. \A p \in Packets : /\ queued[p] \in Int /\ partly[p] \in Int
                           /\ ended[p] \in Int /\ dropped[p] \in Int
    BY <1>2
  <2>2. \A p \in Packets : offered[p] = queued[p] + partly[p] + ended[p] + dropped[p]
    <3> HIDE DEF completed, lost
    <3> QED BY <1>1, <1>2 DEF Known
  <2> HIDE DEF queued, partly, ended, dropped, offered
  <2>3. Total(two) = Total(queued) + Total(partly)
    <3>1. \A p \in Packets : two[p] = queued[p] + partly[p]
      OBVIOUS
    <3> HIDE DEF two
    <3> QED BY <2>1, <3>1, TotalAdd
  <2>4. Total(three) = Total(two) + Total(ended)
    <3>1. \A p \in Packets : two[p] \in Int /\ three[p] = two[p] + ended[p]
      BY <2>1
    <3> HIDE DEF two, three
    <3> QED BY <2>1, <3>1, TotalAdd
  <2>5. Total(offered) = Total(three) + Total(dropped)
    <3>1. \A p \in Packets : three[p] \in Int /\ offered[p] = three[p] + dropped[p]
      BY <2>1, <2>2
    <3> HIDE DEF two, three
    <3> QED BY <2>1, <3>1, TotalAdd
  <2> QED BY <2>3, <2>4, <2>5
<1>4. q.offered = Cardinality(q.active) + Cardinality(completed) + Cardinality(lost)
  <2> HIDE DEF completed, lost
  <2>1. IsFiniteSet(Known(q)) /\ IsFiniteSet(q.active)
        /\ IsFiniteSet(completed) /\ IsFiniteSet(lost)
    BY <1>1, PacketsFinite, FS_Subset DEF Known
  <2>2. IsFiniteSet(q.active \cup completed)
    BY <2>1, FS_Union
  <2>3. Cardinality(q.active \cup completed) = Cardinality(q.active) + Cardinality(completed)
    BY <1>1, <2>1, CardinalityDisjoint
  <2>4. Cardinality(Known(q)) = Cardinality(q.active \cup completed) + Cardinality(lost)
    BY <1>1, <2>1, <2>2, CardinalityDisjoint
  <2> QED BY <2>3, <2>4 DEF Sound, OfferedCounted
<1>5. /\ BitsOf(Known(q), Payload) = Total(offered)
      /\ BitsOf(q.active, q.remaining) = Total(queued)
      /\ BitsOf(q.active, unsent) = Total(partly)
      /\ BitsOf(completed, Payload) = Total(ended)
      /\ BitsOf(lost, Payload) = Total(dropped)
  <2> HIDE DEF completed, lost, unsent
  <2> QED BY Zenon DEF BitsOf
<1> HIDE DEF offered, queued, partly, ended, dropped
<1> QED BY <1>3, <1>4, <1>5 DEF LedgerReconciles

-----------------------------------------------------------------------------
(* Service in the order of the queue.                                      *)

\* Every reservation promises those ahead of the packets it names at least
\* what they have left.
FifoReservations(q) ==
    \A r \in q.known : \A p \in Packets :
        r.items[p] # 0 =>
            /\ p \in Known(q)
            /\ \A o \in Ahead(q, p) : q.remaining[o] <= r.items[o]

\* The steps of PacketLine between two queue values.
Transmits(q, s) ==
    /\ \A p \in Packets : s.remaining[p] # q.remaining[p] =>
          /\ p \in q.active
          /\ s.remaining[p] \in 0..q.remaining[p]
          /\ \A o \in Ahead(q, p) : s.remaining[o] = 0
    /\ \A p \in Packets :
          s.cause[p] = IF p \in q.active /\ s.remaining[p] = 0 THEN "completed" ELSE q.cause[p]
    /\ s.rank = q.rank

Removes(q, s) ==
    /\ \A p \in Packets : s.cause[p] # q.cause[p] =>
          p \in q.active /\ s.cause[p] \in Terminal \ {"completed"}
    /\ s.remaining = q.remaining /\ s.rank = q.rank

Joins(q, s, p) ==
    /\ q.cause[p] = "absent"
    /\ s.remaining = [q.remaining EXCEPT ![p] = Payload[p]]
    /\ s.rank = [q.rank EXCEPT ![p] = q.offered]
    /\ \/ s.cause = [q.cause EXCEPT ![p] = "active"]
       \/ s.cause = [q.cause EXCEPT ![p] = "overflow_drop"]

Unmoved(q, s) ==
    /\ s.active = q.active /\ s.cause = q.cause
    /\ s.remaining = q.remaining /\ s.rank = q.rank

-----------------------------------------------------------------------------
(* Plans give the packets ahead all they have left.                        *)

\* Down the queue, the bits ahead grow by at least what each packet has.
LEMMA BitsAheadGrows ==
    ASSUME NEW q, Sound(q), NEW p \in Packets, NEW o \in Ahead(q, p)
    PROVE  /\ BitsAhead(q, o) + q.remaining[o] <= BitsAhead(q, p)
           /\ BitsAhead(q, o) \in Int /\ BitsAhead(q, p) \in Int
<1> DEFINE short == [x \in Packets |-> IF x \in Ahead(q, o) THEN q.remaining[x] ELSE 0]
           one   == [x \in Packets |-> IF x = o THEN q.remaining[o] ELSE 0]
           both  == [x \in Packets |-> short[x] + one[x]]
           long  == [x \in Packets |-> IF x \in Ahead(q, p) THEN q.remaining[x] ELSE 0]
<1>1. /\ o \in Packets /\ \A x \in Packets : q.remaining[x] \in Nat /\ q.rank[x] \in Nat
      /\ q.active \subseteq Packets
  BY DEF Sound, QueueState, Ahead
<1>2. \A x \in Packets : /\ short[x] \in Int /\ one[x] \in Int /\ long[x] \in Int
                         /\ both[x] = short[x] + one[x]
                         /\ both[x] \in Int /\ both[x] <= long[x]
  BY <1>1 DEF Ahead
<1>3. Total(one) = q.remaining[o]
  <2>1. one[o] = q.remaining[o] /\ \A x \in Packets : x # o => one[x] = 0
    BY <1>1
  <2> HIDE DEF one
  <2>2. /\ NumPackets \in Nat /\ o \in 1..NumPackets /\ one[o] \in Int
        /\ \A x \in 1..NumPackets : x # o => one[x] = 0
    BY <1>1, <1>2, <2>1, PacketsFinite
  <2>3. Sum(one, NumPackets) = one[o]
    BY <2>2, SumSingle
  <2> QED BY <2>1, <2>3 DEF Total
<1> HIDE DEF short, one, both, long
<1>4. Total(both) = Total(short) + Total(one) /\ Total(short) \in Int
  BY <1>2, TotalAdd
<1>5. Total(both) <= Total(long) /\ Total(long) \in Int
  BY <1>2, PacketsFinite, SumMonotone, SumInt DEF Total
<1>6. Total(short) = BitsAhead(q, o) /\ Total(long) = BitsAhead(q, p)
  BY DEF BitsAhead, short, long
<1> QED BY <1>3, <1>4, <1>5, <1>6

\* A FIFO plan that reaches a packet takes all of those ahead of it.
LEMMA FifoPlanFull ==
    ASSUME NEW q, Sound(q), NEW capacity \in Int, NEW p \in Packets,
           FifoPlan(q, capacity)[p] # 0, NEW o \in Ahead(q, p)
    PROVE  FifoPlan(q, capacity)[o] = q.remaining[o]
<1>1. /\ o \in q.active /\ o \in Packets
      /\ q.remaining[o] \in Nat /\ q.remaining[o] # 0 /\ q.remaining[p] \in Nat
  BY PacketsFinite DEF Sound, QueueState, Ahead, ActiveMatches, RemainingBounded
<1>2. /\ BitsAhead(q, o) + q.remaining[o] <= BitsAhead(q, p)
      /\ BitsAhead(q, o) \in Int /\ BitsAhead(q, p) \in Int
  BY BitsAheadGrows
<1>3. capacity - BitsAhead(q, p) > 0
  BY <1>1, <1>2 DEF FifoPlan, Clamp
<1>4. Clamp(capacity - BitsAhead(q, o), q.remaining[o]) = q.remaining[o]
  BY <1>1, <1>2, <1>3 DEF Clamp
<1> QED BY <1>1, <1>4 DEF FifoPlan

\* Bits that may be consumed first-in first-out.
FifoBits(q, bits) ==
    \A p \in Packets : bits[p] # 0 => \A o \in Ahead(q, p) : bits[o] = q.remaining[o]

\* Immediate service that reaches a packet exhausts those ahead of it, also
\* when the loop raises before the end of its plan.
LEMMA ServeFifo ==
    ASSUME NEW q, Sound(q), NEW capacity \in Int, NEW bad \in SUBSET Packets
    PROVE  FifoBits(q, UpTo(q, FifoPlan(q, capacity), bad))
<1> SUFFICES ASSUME NEW p \in Packets, UpTo(q, FifoPlan(q, capacity), bad)[p] # 0,
                    NEW o \in Ahead(q, p)
             PROVE  UpTo(q, FifoPlan(q, capacity), bad)[o] = q.remaining[o]
  BY DEF FifoBits
<1>1. /\ FifoPlan(q, capacity)[p] # 0
      /\ ~\E b \in bad : q.rank[b] <= q.rank[p]
  BY DEF UpTo
<1>2. o \in Packets /\ q.rank[o] < q.rank[p] /\ \A b \in Packets : q.rank[b] \in Nat
  BY DEF Ahead, Sound, QueueState
<1>3. ~\E b \in bad : q.rank[b] <= q.rank[o]
  BY <1>1, <1>2
<1>4. FifoPlan(q, capacity)[o] = q.remaining[o]
  BY <1>1, FifoPlanFull
<1> QED BY <1>2, <1>3, <1>4 DEF UpTo

\* A reservation realised late still exhausts, of the packets that are left,
\* those ahead of each packet it draws from.
LEMMA CompleteFifo ==
    ASSUME NEW q, Sound(q), FifoReservations(q), NEW r \in q.known
    PROVE  FifoBits(q, Drawn(q, r))
<1> SUFFICES ASSUME NEW p \in Packets, Drawn(q, r)[p] # 0, NEW o \in Ahead(q, p)
             PROVE  Drawn(q, r)[o] = q.remaining[o]
  BY DEF FifoBits
<1>1. r \in Reservation /\ r.items \in [Packets -> Nat]
  BY DEF Sound, QueueState, Reservation
<1>2. /\ r.items[p] # 0
      /\ ~\E b \in Disturbed(q, r) : q.rank[b] <= q.rank[p]
  BY DEF Drawn, UpTo
<1>3. /\ o \in Packets /\ o \in q.active /\ q.rank[o] < q.rank[p]
      /\ \A b \in Packets : q.rank[b] \in Nat
      /\ q.remaining[o] \in Nat /\ q.remaining[o] # 0
      /\ q.cause[o] = "active"
  BY PacketsFinite DEF Ahead, Sound, QueueState, ActiveMatches, RemainingBounded
<1>4. q.cause[o] \notin Terminal
  BY <1>3 DEF Terminal
<1>5. ~\E b \in Disturbed(q, r) : q.rank[b] <= q.rank[o]
  BY <1>2, <1>3 DEF Disturbed
<1>6. q.remaining[o] <= r.items[o]
  BY <1>2 DEF FifoReservations
<1>7. o \notin Disturbed(q, r)
  BY <1>3, <1>5
<1>8. r.items[o] <= q.remaining[o]
  BY <1>1, <1>3, <1>4, <1>6, <1>7 DEF Disturbed
<1>9. Drawn(q, r)[o] = r.items[o]
  BY <1>3, <1>4, <1>5 DEF Drawn, UpTo
<1> QED BY <1>1, <1>3, <1>6, <1>8, <1>9

-----------------------------------------------------------------------------
(* The effects, as steps of the line.                                      *)

\* The promises of reservations outlive packets that shrink or leave.
LEMMA FifoReservationsKept ==
    ASSUME NEW q, Sound(q), FifoReservations(q), NEW s, Sound(s),
           s.known = q.known, s.rank = q.rank, s.active \subseteq q.active,
           Known(q) \subseteq Known(s),
           \A p \in Packets : s.remaining[p] <= q.remaining[p]
    PROVE  FifoReservations(s)
<1>1. /\ \A r \in q.known : r.items \in [Packets -> Nat]
      /\ \A p \in Packets : q.remaining[p] \in Nat /\ s.remaining[p] \in Nat
      /\ q.active \subseteq Packets
  BY DEF Sound, QueueState, Reservation
<1>2. \A p \in Packets : Ahead(s, p) \subseteq Ahead(q, p) /\ Ahead(s, p) \subseteq Packets
  BY <1>1 DEF Ahead
<1> QED BY <1>1, <1>2 DEF FifoReservations

\* Consuming bits first-in first-out is a transmission of the line.
LEMMA ConsumeTransmits ==
    ASSUME NEW q, Sound(q), FifoReservations(q), NEW t \in Ticks,
           NEW bits, Drawable(q, bits), FifoBits(q, bits)
    PROVE  /\ Transmits(q, Consume(q, t, bits))
           /\ FifoReservations(Consume(q, t, bits))
           /\ Consume(q, t, bits).known = q.known
<1> DEFINE s == Consume(q, t, bits)
           done == Finished(q, bits)
<1>1. /\ s.active = q.active \ done
      /\ s.remaining = [p \in Packets |-> q.remaining[p] - bits[p]]
      /\ s.cause = [p \in Packets |-> IF p \in done THEN "completed" ELSE q.cause[p]]
      /\ s.rank = q.rank /\ s.known = q.known
  BY DEF Consume, Sound, QueueState
<1>2. Sound(s)
  BY ConsumeSound
<1>3. \A p \in Packets : /\ q.remaining[p] \in Nat
                         /\ bits[p] \in Nat /\ bits[p] <= q.remaining[p]
                         /\ bits[p] # 0 => p \in q.active
                         /\ p \in done <=> bits[p] # 0 /\ bits[p] = q.remaining[p]
                         /\ p \in q.active => q.remaining[p] # 0
                         /\ Ahead(q, p) \subseteq Packets
  BY PacketsFinite DEF Sound, QueueState, ActiveMatches, RemainingBounded, Drawable,
                       Finished, Ahead
<1> HIDE DEF s, done
<1>4. Transmits(q, s)
  BY <1>1, <1>3 DEF Transmits, FifoBits
<1>5. Known(q) \subseteq Known(s)
  BY <1>1 DEF Known
<1>6. FifoReservations(s)
  BY <1>1, <1>2, <1>3, <1>5, FifoReservationsKept
<1> QED BY <1>1, <1>4, <1>6 DEF s

\* Terminating packets of the queue is a removal from the line.
LEMMA TerminateRemoves ==
    ASSUME NEW q, Sound(q), FifoReservations(q), NEW t \in Ticks,
           NEW gone \in SUBSET q.active, NEW why \in Terminal \ {"completed"}
    PROVE  /\ Removes(q, Terminate(q, t, gone, why))
           /\ FifoReservations(Terminate(q, t, gone, why))
<1> DEFINE s == Terminate(q, t, gone, why)
<1>1. /\ s.active = q.active \ gone
      /\ s.remaining = q.remaining
      /\ s.cause = [p \in Packets |-> IF p \in gone THEN why ELSE q.cause[p]]
      /\ s.rank = q.rank /\ s.known = q.known
  BY DEF Terminate, Sound, QueueState
<1>2. Sound(s)
  BY TerminateSound
<1> HIDE DEF s
<1>3. Removes(q, s)
  BY <1>1 DEF Removes, Sound, QueueState
<1>4. Known(q) \subseteq Known(s) /\ \A p \in Packets : q.remaining[p] \in Nat
  BY <1>1 DEF Known, Terminal, Sound, QueueState
<1>5. FifoReservations(s)
  BY <1>1, <1>2, <1>4, FifoReservationsKept
<1> QED BY <1>3, <1>5 DEF s

\* Moving the clock leaves the line as it is.
LEMMA StampUnmoved ==
    ASSUME NEW q, Sound(q), FifoReservations(q), NEW t \in Ticks
    PROVE  /\ Unmoved(q, Stamp(q, t)) /\ FifoReservations(Stamp(q, t))
           /\ Known(Stamp(q, t)) = Known(q)
           /\ Sound(Stamp(q, t)) /\ Stamp(q, t).known = q.known
<1>1. /\ Sound(Stamp(q, t)) /\ Unmoved(q, Stamp(q, t)) /\ Stamp(q, t).known = q.known
  BY StampKeeps DEF Unmoved
<1>2. Known(Stamp(q, t)) = Known(q) /\ \A p \in Packets : q.remaining[p] \in Nat
  BY <1>1 DEF Known, Unmoved, Sound, QueueState
<1>3. FifoReservations(Stamp(q, t))
  BY <1>1, <1>2, FifoReservationsKept DEF Unmoved
<1> QED BY <1>1, <1>2, <1>3

\* Steps after an effect that moves no packet are steps from before it.
LEMMA UnmovedSteps ==
    ASSUME NEW q, NEW m, NEW s, Unmoved(q, m)
    PROVE  /\ Transmits(m, s) => Transmits(q, s)
           /\ Removes(m, s) => Removes(q, s)
           /\ \A p \in Packets : Ahead(m, p) = Ahead(q, p)
BY DEF Unmoved, Transmits, Removes, Ahead

-----------------------------------------------------------------------------
(* The commands, as steps of the line.                                     *)

\* An enqueue admits the packet, refuses it, or leaves the line as it is.
LEMMA EnqueueJoins ==
    ASSUME NEW q, Sound(q), FifoReservations(q), NEW t \in Ticks,
           NEW p \in Packets, NEW belongs
    PROVE  /\ Unmoved(q, Enqueue(q, t, p, belongs)) \/ Joins(q, Enqueue(q, t, p, belongs), p)
           /\ FifoReservations(Enqueue(q, t, p, belongs))
<1> DEFINE s == Enqueue(q, t, p, belongs)
<1>1. CASE StaleTick(q, t)
  BY <1>1 DEF Enqueue, Unmoved
<1>2. CASE ~StaleTick(q, t) /\ EnqueueRaises(q, t, p, belongs)
  BY <1>2, StampUnmoved DEF Enqueue
<1>3. CASE ~StaleTick(q, t) /\ ~EnqueueRaises(q, t, p, belongs)
  <2>1. /\ q.cause[p] = "absent"
        /\ s = IF Overflows(q, p)
               THEN [Recorded(Stamp(q, t), t, p) EXCEPT
                        !.cause[p] = "overflow_drop", !.terminal[p] = t]
               ELSE [Recorded(Stamp(q, t), t, p) EXCEPT
                        !.cause[p] = "active",
                        !.active = q.active \cup {p},
                        !.queued = q.queued + Payload[p]]
    BY <1>3, Zenon DEF Enqueue, EnqueueRaises
  <2> HIDE DEF s
  <2>2. /\ s.rank = [q.rank EXCEPT ![p] = q.offered]
        /\ s.remaining = [q.remaining EXCEPT ![p] = Payload[p]]
        /\ s.known = q.known
        /\ \/ s.cause = [q.cause EXCEPT ![p] = "overflow_drop"] /\ s.active = q.active
           \/ s.cause = [q.cause EXCEPT ![p] = "active"] /\ s.active = q.active \cup {p}
    BY <2>1 DEF Recorded, Stamp, Sound, QueueState
  <2>3. Joins(q, s, p)
    BY <2>1, <2>2 DEF Joins
  <2>4. /\ q.rank \in [Packets -> Nat] /\ q.cause \in [Packets -> Causes]
        /\ q.remaining \in [Packets -> Nat] /\ q.active \in SUBSET Packets
        /\ q.offered \in Nat
        /\ \A o \in Known(q) : q.rank[o] < q.offered
        /\ p \notin Known(q)
        /\ \A o \in q.active : o \in Known(q)
    BY <2>1 DEF Sound, QueueState, RanksDistinct, Known, ActiveMatches
  <2>5. ASSUME NEW r \in s.known, NEW x \in Packets, r.items[x] # 0
        PROVE  /\ x \in Known(s)
               /\ \A o \in Ahead(s, x) : s.remaining[o] <= r.items[o]
    <3>1. /\ x \in Known(q)
          /\ \A o \in Ahead(q, x) : q.remaining[o] <= r.items[o]
      BY <2>2, <2>5 DEF FifoReservations
    <3>2. x # p /\ s.rank[x] = q.rank[x] /\ q.rank[x] < q.offered /\ s.cause[x] = q.cause[x]
      BY <2>2, <2>4, <3>1 DEF Known
    <3>3. x \in Known(s)
      BY <3>1, <3>2 DEF Known
    <3>4. ASSUME NEW o \in Ahead(s, x)
          PROVE  s.remaining[o] <= r.items[o]
      <4>1. o \in s.active /\ s.rank[o] < s.rank[x]
        BY DEF Ahead
      <4>2. o # p
        BY <2>2, <2>4, <3>2, <4>1
      <4>3. o \in Ahead(q, x) /\ s.remaining[o] = q.remaining[o]
        BY <2>2, <2>4, <3>2, <4>1, <4>2 DEF Ahead
      <4> QED BY <3>1, <4>3
    <3> QED BY <3>3, <3>4
  <2>6. FifoReservations(s)
    BY <2>5 DEF FifoReservations
  <2> QED BY <2>3, <2>6 DEF s
<1> QED BY <1>1, <1>2, <1>3

\* Immediate service is a transmission of the line or leaves it as it is.
LEMMA ServeTransmits ==
    ASSUME NEW q, Sound(q), FifoReservations(q), NEW t \in Ticks, NEW capacity \in Int
    PROVE  /\ Unmoved(q, Serve(q, t, capacity)) \/ Transmits(q, Serve(q, t, capacity))
           /\ FifoReservations(Serve(q, t, capacity))
<1> DEFINE bits == UpTo(q, FifoPlan(q, capacity), OverdueInReach(q, t, capacity))
           m == MarkFirst(Stamp(q, t), t, bits)
<1>1. Drawable(q, bits)
  BY FifoPlanDrawable, UpToDrawable
<1>2. FifoBits(q, bits)
  <2>1. OverdueInReach(q, t, capacity) \in SUBSET Packets
    BY DEF OverdueInReach, Sound, QueueState
  <2> QED BY <2>1, ServeFifo
<1>3. /\ Sound(Stamp(q, t)) /\ Unmoved(q, Stamp(q, t)) /\ FifoReservations(Stamp(q, t))
      /\ Stamp(q, t).known = q.known /\ Known(Stamp(q, t)) = Known(q)
  BY StampUnmoved
<1>4. /\ Sound(m) /\ Unmoved(q, m) /\ m.known = q.known
  <2> HIDE DEF bits
  <2>1. Sound(m)
    BY <1>3, MarkFirstSound
  <2>2. /\ m.active = Stamp(q, t).active /\ m.cause = Stamp(q, t).cause
        /\ m.remaining = Stamp(q, t).remaining /\ m.rank = Stamp(q, t).rank
        /\ m.known = Stamp(q, t).known
    BY <1>3 DEF MarkFirst, Sound, QueueState
  <2> QED BY <1>3, <2>1, <2>2 DEF Unmoved
<1> HIDE DEF bits, m
<1>5. FifoReservations(m)
  <2>1. Known(q) \subseteq Known(m) /\ \A p \in Packets : q.remaining[p] \in Nat
    BY <1>4 DEF Known, Unmoved, Sound, QueueState
  <2> QED BY <1>4, <2>1, FifoReservationsKept DEF Unmoved
<1>6. Drawable(m, bits) /\ FifoBits(m, bits)
  BY <1>1, <1>2, <1>4, UnmovedSteps DEF Drawable, FifoBits, Unmoved
<1>7. /\ Transmits(q, Consume(m, t, bits))
      /\ FifoReservations(Consume(m, t, bits))
  BY <1>4, <1>5, <1>6, ConsumeTransmits, UnmovedSteps
<1>8. CASE StaleTick(q, t)
  BY <1>8 DEF Serve, Unmoved
<1>9. CASE ~StaleTick(q, t) /\ capacity < 0
  BY <1>3, <1>9 DEF Serve
<1>10. CASE ~StaleTick(q, t) /\ ~(capacity < 0)
  BY <1>7, <1>10 DEF Serve, bits, m
<1> QED BY <1>8, <1>9, <1>10

\* What Expire, Fail and Censor do when they do anything.
LEMMA TerminateAfterStamp ==
    ASSUME NEW q, Sound(q), FifoReservations(q), NEW t \in Ticks,
           NEW gone \in SUBSET q.active, NEW why \in Terminal \ {"completed"}
    PROVE  /\ Removes(q, Terminate(Stamp(q, t), t, gone, why))
           /\ FifoReservations(Terminate(Stamp(q, t), t, gone, why))
<1> DEFINE m == Stamp(q, t)
<1>1. Sound(m) /\ Unmoved(q, m) /\ FifoReservations(m)
  BY StampUnmoved
<1> HIDE DEF m
<1>2. gone \in SUBSET m.active
  BY <1>1 DEF Unmoved
<1>3. /\ Removes(m, Terminate(m, t, gone, why))
      /\ FifoReservations(Terminate(m, t, gone, why))
  BY <1>1, <1>2, TerminateRemoves
<1>4. Removes(q, Terminate(m, t, gone, why))
  BY <1>1, <1>3, UnmovedSteps
<1> QED BY <1>3, <1>4 DEF m

\* Deadline expiry is a removal from the line or leaves it as it is.
LEMMA ExpireRemoves ==
    ASSUME NEW q, Sound(q), FifoReservations(q), NEW t \in Ticks, NEW p \in Packets
    PROVE  /\ Unmoved(q, Expire(q, t, p)) \/ Removes(q, Expire(q, t, p))
           /\ FifoReservations(Expire(q, t, p))
<1>1. /\ Unmoved(q, Stamp(q, t)) /\ FifoReservations(Stamp(q, t)) /\ Unmoved(q, q)
  BY StampUnmoved DEF Unmoved
<1>2. q.cause[p] = "active" =>
          /\ Removes(q, Terminate(Stamp(q, t), t, {p}, "deadline_expired"))
          /\ FifoReservations(Terminate(Stamp(q, t), t, {p}, "deadline_expired"))
  BY TerminateAfterStamp DEF Sound, ActiveMatches, Terminal
<1> QED BY <1>1, <1>2 DEF Expire

\* PHY failure is a removal from the line or leaves it as it is.
LEMMA FailRemoves ==
    ASSUME NEW q, Sound(q), FifoReservations(q), NEW t \in Ticks, NEW p \in Packets
    PROVE  /\ Unmoved(q, Fail(q, t, p)) \/ Removes(q, Fail(q, t, p))
           /\ FifoReservations(Fail(q, t, p))
<1>1. /\ Unmoved(q, Stamp(q, t)) /\ FifoReservations(Stamp(q, t)) /\ Unmoved(q, q)
  BY StampUnmoved DEF Unmoved
<1>2. q.cause[p] = "active" =>
          /\ Removes(q, Terminate(Stamp(q, t), t, {p}, "phy_failure"))
          /\ FifoReservations(Terminate(Stamp(q, t), t, {p}, "phy_failure"))
  BY TerminateAfterStamp DEF Sound, ActiveMatches, Terminal
<1> QED BY <1>1, <1>2 DEF Fail

\* Censoring is a removal from the line or leaves it as it is.
LEMMA CensorRemoves ==
    ASSUME NEW q, Sound(q), FifoReservations(q), NEW t \in Ticks
    PROVE  /\ Unmoved(q, Censor(q, t)) \/ Removes(q, Censor(q, t))
           /\ FifoReservations(Censor(q, t))
<1>1. Unmoved(q, q)
  BY DEF Unmoved
<1>2. /\ Removes(q, Terminate(Stamp(q, t), t, q.active, "censored_at_stop"))
      /\ FifoReservations(Terminate(Stamp(q, t), t, q.active, "censored_at_stop"))
  BY TerminateAfterStamp DEF Terminal
<1> QED BY <1>1, <1>2 DEF Censor

\* A reservation leaves the line as it is.
LEMMA ReserveUnmoved ==
    ASSUME NEW q, Sound(q), FifoReservations(q), NEW start \in Ticks,
           NEW completion \in Ticks, NEW capacity \in Int
    PROVE  /\ Unmoved(q, Reserve(q, start, completion, capacity))
           /\ FifoReservations(Reserve(q, start, completion, capacity))
<1> DEFINE s == Reserve(q, start, completion, capacity)
           r == Planned(q, start, completion, capacity)
           m == MarkFirst(Stamp(q, start), start, r.items)
<1>1. CASE StaleTick(q, start) \/ ReserveRejected(start, completion, capacity)
  BY <1>1, StampUnmoved DEF Reserve, Unmoved
<1>2. CASE ~(StaleTick(q, start) \/ ReserveRejected(start, completion, capacity))
  <2>1. /\ Unmoved(q, Stamp(q, start)) /\ Sound(Stamp(q, start))
        /\ r \in Reservation /\ r.items = FifoPlan(q, capacity)
    BY <1>2, StampUnmoved, PlannedReservation DEF ReserveRejected, Planned
  <2>2. s = [m EXCEPT !.known = q.known \cup {r}]
    BY <1>2 DEF Reserve
  <2>3. Sound(s)
    BY ReserveSound
  <2> HIDE DEF r
  <2>4. Unmoved(q, s) /\ s.known = q.known \cup {r}
    <3> HIDE DEF s
    <3> QED BY <2>1, <2>2 DEF MarkFirst, Unmoved, Sound, QueueState
  <2> HIDE DEF s, m
  <2>5. ASSUME NEW p \in Packets, r.items[p] # 0
        PROVE  /\ p \in Known(q)
               /\ \A o \in Ahead(q, p) : q.remaining[o] <= r.items[o]
    <3>1. p \in Known(q)
      BY <2>1, <2>5 DEF FifoPlan, Sound, ActiveMatches, Known
    <3>2. ASSUME NEW o \in Ahead(q, p)
          PROVE  q.remaining[o] <= r.items[o]
      <4>1. r.items[o] = q.remaining[o]
        BY <2>1, <2>5, FifoPlanFull
      <4>2. q.remaining[o] \in Nat
        BY DEF Ahead, Sound, QueueState
      <4> QED BY <4>1, <4>2
    <3> QED BY <3>1, <3>2
  <2>6. Known(s) = Known(q) /\ s.remaining = q.remaining
        /\ \A p \in Packets : Ahead(s, p) = Ahead(q, p)
    BY <2>4 DEF Known, Unmoved, Ahead
  <2>7. FifoReservations(s)
    BY <2>4, <2>5, <2>6 DEF FifoReservations
  <2> QED BY <2>4, <2>7 DEF s
<1> QED BY <1>1, <1>2

\* Completing a reservation is a transmission of the line or leaves it as
\* it is.
LEMMA CompleteTransmits ==
    ASSUME NEW q, Sound(q), FifoReservations(q), NEW r \in q.known
    PROVE  /\ Unmoved(q, Complete(q, r)) \/ Transmits(q, Complete(q, r))
           /\ FifoReservations(Complete(q, r))
<1> DEFINE t == r.completion
           bits == Drawn(q, r)
           c == Consume(Stamp(q, t), t, bits)
           s == [c EXCEPT !.done = IF Disturbed(q, r) = {} THEN @ \cup {r} ELSE @]
<1>1. r \in Reservation /\ t \in Ticks
  BY DEF Sound, QueueState, Reservation
<1>2. /\ Sound(Stamp(q, t)) /\ Unmoved(q, Stamp(q, t)) /\ FifoReservations(Stamp(q, t))
  BY <1>1, StampUnmoved
<1>3. Drawable(Stamp(q, t), bits) /\ FifoBits(Stamp(q, t), bits)
  <2>1. Drawable(q, bits) /\ FifoBits(q, bits)
    BY <1>1, DrawnDrawable, CompleteFifo
  <2> HIDE DEF bits
  <2> QED BY <1>2, <2>1, UnmovedSteps DEF Drawable, FifoBits, Unmoved
<1>4. Transmits(q, c) /\ FifoReservations(c) /\ Sound(c)
  <2> HIDE DEF bits
  <2> QED BY <1>1, <1>2, <1>3, ConsumeTransmits, ConsumeSound, UnmovedSteps
<1>5. Transmits(q, s) /\ FifoReservations(s)
  <2> HIDE DEF c
  <2>1. /\ s.active = c.active /\ s.cause = c.cause /\ s.remaining = c.remaining
        /\ s.rank = c.rank /\ s.known = c.known
    BY <1>4 DEF Sound, QueueState
  <2> HIDE DEF s
  <2> QED BY <1>4, <2>1 DEF Transmits, FifoReservations, Known, Ahead
<1>6. CASE StaleTick(q, t)
  BY <1>6 DEF Complete, Unmoved
<1>7. CASE ~StaleTick(q, t) /\ CompleteRejected(q, r)
  BY <1>2, <1>7 DEF Complete
<1>8. CASE ~StaleTick(q, t) /\ ~CompleteRejected(q, r)
  BY <1>5, <1>8 DEF Complete
<1> QED BY <1>6, <1>7, <1>8

-----------------------------------------------------------------------------
(* Ticks, limits and what a reservation may name.                          *)

\* The ticks of one packet, none of them after the queue's clock.
PacketTimely(q, p) ==
    /\ q.cause[p] = "absent" => q.first[p] = NoTick /\ q.terminal[p] = NoTick
    /\ q.cause[p] # "absent" =>
         /\ q.arrival[p] <= q.lastTick
         /\ q.first[p] # NoTick => q.arrival[p] <= q.first[p] /\ q.first[p] <= q.lastTick
         /\ q.terminal[p] # NoTick => q.first[p] <= q.terminal[p]
         /\ q.remaining[p] < Payload[p] => q.first[p] # NoTick
         /\ q.cause[p] \in Terminal <=> q.terminal[p] # NoTick

Timely(q) == \A p \in Packets : PacketTimely(q, p)

\* A packet that a reservation names was queued, and in service, when the
\* slot began.
Visible(q) ==
    \A r \in q.known : \A p \in Packets :
        r.items[p] # 0 =>
            /\ q.cause[p] # "absent"
            /\ q.arrival[p] <= r.start
            /\ q.first[p] # NoTick /\ q.first[p] <= r.start

Limited(q) ==
    /\ MaxQueuedPackets # NoLimit => Cardinality(q.active) <= MaxQueuedPackets
    /\ MaxQueuedBits # NoLimit => q.queued <= MaxQueuedBits

Orderly(q) == Timely(q) /\ Visible(q) /\ Limited(q)

\* What Sound says of the parts that Orderly relates.
LEMMA Parts ==
    ASSUME NEW q, Sound(q)
    PROVE  /\ q.active \in SUBSET Packets /\ IsFiniteSet(q.active)
           /\ Cardinality(q.active) \in Nat
           /\ q.lastTick \in Nat /\ q.queued \in Nat
           /\ MaxQueuedPackets \in Nat /\ MaxQueuedBits \in Nat
           /\ \A p \in Packets :
                 /\ q.arrival[p] \in Nat /\ q.remaining[p] \in Nat
                 /\ q.first[p] \in Nat \cup {NoTick} /\ q.terminal[p] \in Nat \cup {NoTick}
                 /\ Payload[p] \in Nat
                 /\ q.cause[p] \in Causes
                 /\ p \in q.active <=> q.cause[p] = "active"
                 /\ p \in q.active => q.remaining[p] # 0
           /\ \A r \in q.known : r \in Reservation /\ r.items \in [Packets -> Nat]
                                 /\ r.start \in Nat /\ r.completion \in Nat
<1>1. q.active \in SUBSET Packets /\ IsFiniteSet(q.active)
  BY PacketsFinite, FS_Subset DEF Sound, QueueState
<1>2. Cardinality(q.active) \in Nat
  BY <1>1, FS_CardinalityType
<1>3. MaxQueuedPackets \in Nat /\ MaxQueuedBits \in Nat
  BY QueueAssumption
<1>4. ASSUME NEW p \in Packets
      PROVE  /\ q.arrival[p] \in Nat /\ q.remaining[p] \in Nat
             /\ q.first[p] \in Nat \cup {NoTick} /\ q.terminal[p] \in Nat \cup {NoTick}
             /\ Payload[p] \in Nat
             /\ q.cause[p] \in Causes
             /\ p \in q.active <=> q.cause[p] = "active"
             /\ p \in q.active => q.remaining[p] # 0
  BY PacketsFinite DEF Sound, QueueState, Ticks, ActiveMatches, RemainingBounded
<1>5. \A r \in q.known : r \in Reservation /\ r.items \in [Packets -> Nat]
                         /\ r.start \in Nat /\ r.completion \in Nat
  BY DEF Sound, QueueState, Reservation, Ticks
<1>6. q.lastTick \in Nat /\ q.queued \in Nat
  BY DEF Sound, QueueState, Ticks
<1> QED BY <1>1, <1>2, <1>3, <1>4, <1>5, <1>6

-----------------------------------------------------------------------------
(* The effects keep the order.                                             *)

\* Moving the clock forward.
LEMMA StampOrderly ==
    ASSUME NEW q, Sound(q), Orderly(q), NEW t \in Ticks, ~StaleTick(q, t)
    PROVE  /\ Orderly(Stamp(q, t))
           /\ Stamp(q, t).lastTick = t /\ Stamp(q, t).first = q.first
           /\ Stamp(q, t).arrival = q.arrival /\ Stamp(q, t).queued = q.queued
<1> DEFINE s == Stamp(q, t)
<1>1. /\ s.active = q.active /\ s.cause = q.cause /\ s.remaining = q.remaining
      /\ s.arrival = q.arrival /\ s.first = q.first /\ s.terminal = q.terminal
      /\ s.known = q.known /\ s.queued = q.queued /\ s.lastTick = t
  BY DEF Stamp, Sound, QueueState
<1>2. t \in Nat /\ q.lastTick \in Nat /\ q.lastTick <= t
  BY Parts DEF StaleTick, Ticks
<1> HIDE DEF s
<1>3. Visible(s) /\ Limited(s)
  BY <1>1 DEF Orderly, Visible, Limited
<1>4. ASSUME NEW p \in Packets
      PROVE  PacketTimely(s, p)
  <2>1. PacketTimely(q, p)
    BY DEF Orderly, Timely
  <2> QED BY <1>1, <1>2, <2>1, Parts DEF PacketTimely, NoTick
<1> QED BY <1>1, <1>3, <1>4 DEF Orderly, Timely, s

\* Marking first services at the clock.
LEMMA MarkFirstOrderly ==
    ASSUME NEW q, Sound(q), Orderly(q), NEW bits, Drawable(q, bits)
    PROVE  LET s == MarkFirst(q, q.lastTick, bits) IN
           /\ Orderly(s)
           /\ s.lastTick = q.lastTick
           /\ s.active = q.active /\ s.cause = q.cause /\ s.remaining = q.remaining
           /\ s.arrival = q.arrival /\ s.queued = q.queued /\ s.known = q.known
           /\ \A p \in Packets : bits[p] # 0 =>
                 /\ s.cause[p] # "absent" /\ s.arrival[p] <= q.lastTick
                 /\ s.first[p] # NoTick /\ s.first[p] <= q.lastTick
<1> DEFINE s == MarkFirst(q, q.lastTick, bits)
<1>1. /\ s.active = q.active /\ s.cause = q.cause /\ s.remaining = q.remaining
      /\ s.arrival = q.arrival /\ s.terminal = q.terminal
      /\ s.known = q.known /\ s.queued = q.queued /\ s.lastTick = q.lastTick
      /\ s.first = [p \in Packets |-> IF bits[p] > 0 /\ q.first[p] = NoTick
                                      THEN q.lastTick ELSE q.first[p]]
  BY DEF MarkFirst, Sound, QueueState
<1> HIDE DEF s
<1>2. ASSUME NEW p \in Packets
      PROVE  /\ PacketTimely(s, p)
             /\ q.first[p] # NoTick => s.first[p] = q.first[p]
             /\ bits[p] # 0 => /\ s.cause[p] # "absent" /\ s.arrival[p] <= q.lastTick
                               /\ s.first[p] # NoTick /\ s.first[p] <= q.lastTick
  <2>1. PacketTimely(q, p)
    BY DEF Orderly, Timely
  <2>2. s.first[p] = IF bits[p] > 0 /\ q.first[p] = NoTick THEN q.lastTick ELSE q.first[p]
    BY <1>1
  <2>3. bits[p] \in Nat /\ (bits[p] # 0 => q.cause[p] = "active")
    BY Parts DEF Drawable
  <2>4. "active" # "absent" /\ "active" \notin Terminal
    BY DEF Terminal
  <2>5. CASE bits[p] # 0
    <3>1. q.cause[p] = "active" /\ q.terminal[p] = NoTick /\ q.arrival[p] <= q.lastTick
      BY <2>1, <2>3, <2>4, <2>5 DEF PacketTimely
    <3>2. s.first[p] \in Nat /\ s.first[p] <= q.lastTick /\ q.arrival[p] <= s.first[p]
          /\ (q.first[p] # NoTick => s.first[p] = q.first[p])
      BY <2>1, <2>2, <2>3, <2>4, <2>5, <3>1, Parts DEF PacketTimely, NoTick
    <3> QED BY <1>1, <2>4, <3>1, <3>2, <2>1, Parts DEF PacketTimely, NoTick
  <2>6. CASE bits[p] = 0
    <3>1. s.first[p] = q.first[p]
      BY <2>2, <2>6
    <3> QED BY <1>1, <2>1, <2>6, <3>1 DEF PacketTimely
  <2> QED BY <2>3, <2>5, <2>6
<1>3. Visible(s)
  BY <1>1, <1>2 DEF Orderly, Visible
<1>4. Limited(s)
  BY <1>1 DEF Orderly, Limited
<1> QED BY <1>1, <1>2, <1>3, <1>4 DEF Orderly, Timely, s

\* Consuming, at the clock, bits of packets in service.
LEMMA ConsumeOrderly ==
    ASSUME NEW q, Sound(q), Orderly(q), NEW bits, Drawable(q, bits),
           \A p \in Packets : bits[p] # 0 => q.first[p] # NoTick
    PROVE  Orderly(Consume(q, q.lastTick, bits))
<1> DEFINE s == Consume(q, q.lastTick, bits)
           done == Finished(q, bits)
<1>1. /\ s.active = q.active \ done
      /\ s.remaining = [p \in Packets |-> q.remaining[p] - bits[p]]
      /\ s.cause = [p \in Packets |-> IF p \in done THEN "completed" ELSE q.cause[p]]
      /\ s.queued = q.queued - Total(bits)
      /\ s.terminal = [p \in Packets |-> IF p \in done THEN q.lastTick ELSE q.terminal[p]]
      /\ s.arrival = q.arrival /\ s.first = q.first
      /\ s.known = q.known /\ s.lastTick = q.lastTick
  BY DEF Consume, Sound, QueueState
<1>2. \A p \in Packets : bits[p] \in Nat /\ (p \in done <=> bits[p] # 0 /\ bits[p] = q.remaining[p])
                         /\ (bits[p] # 0 => q.cause[p] = "active")
  BY Parts DEF Finished, Drawable
<1>3. Total(bits) \in Nat
  BY <1>2, TotalNat
<1> HIDE DEF s, done
<1>4. ASSUME NEW p \in Packets
      PROVE  PacketTimely(s, p)
  <2>1. PacketTimely(q, p)
    BY DEF Orderly, Timely
  <2>2. /\ s.remaining[p] = q.remaining[p] - bits[p]
        /\ s.cause[p] = IF p \in done THEN "completed" ELSE q.cause[p]
        /\ s.terminal[p] = IF p \in done THEN q.lastTick ELSE q.terminal[p]
    BY <1>1
  <2>3. "active" # "absent" /\ "active" \notin Terminal
        /\ "completed" # "absent" /\ "completed" \in Terminal
    BY DEF Terminal
  <2>4. CASE bits[p] # 0
    <3>1. /\ q.cause[p] = "active" /\ q.terminal[p] = NoTick /\ q.arrival[p] <= q.lastTick
          /\ q.first[p] # NoTick /\ q.arrival[p] <= q.first[p] /\ q.first[p] <= q.lastTick
      BY <1>2, <2>1, <2>3, <2>4 DEF PacketTimely
    <3>2. CASE p \in done
      BY <1>1, <2>2, <2>3, <3>1, <3>2, Parts DEF PacketTimely, NoTick
    <3>3. CASE p \notin done
      BY <1>1, <2>2, <2>3, <3>1, <3>3, Parts DEF PacketTimely, NoTick
    <3> QED BY <3>2, <3>3
  <2>5. CASE bits[p] = 0
    <3>1. /\ s.remaining[p] = q.remaining[p] /\ s.cause[p] = q.cause[p]
          /\ s.terminal[p] = q.terminal[p]
      BY <1>2, <2>2, <2>5, Parts
    <3> QED BY <1>1, <2>1, <3>1 DEF PacketTimely
  <2> QED BY <2>4, <2>5
<1>5. Visible(s)
  <2>1. \A p \in Packets : q.cause[p] # "absent" => s.cause[p] # "absent"
    BY <1>1
  <2> QED BY <1>1, <2>1 DEF Orderly, Visible
<1>6. Limited(s)
  <2>1. Cardinality(s.active) \in Nat /\ Cardinality(s.active) <= Cardinality(q.active)
    BY <1>1, Parts, FS_Subset, FS_CardinalityType
  <2>2. s.queued \in Int /\ s.queued <= q.queued
    BY <1>1, <1>3, Parts
  <2>3. Limited(q)
    BY DEF Orderly
  <2> QED BY <2>1, <2>2, <2>3, Parts DEF Limited
<1> QED BY <1>4, <1>5, <1>6 DEF Orderly, Timely, s

\* Ending queued packets at the clock.
LEMMA TerminateOrderly ==
    ASSUME NEW q, Sound(q), Orderly(q), NEW gone \in SUBSET q.active,
           NEW why \in Terminal \ {"completed"}
    PROVE  Orderly(Terminate(q, q.lastTick, gone, why))
<1> DEFINE s == Terminate(q, q.lastTick, gone, why)
           bits == [p \in Packets |-> IF p \in gone THEN q.remaining[p] ELSE 0]
<1>1. /\ s.active = q.active \ gone
      /\ s.remaining = q.remaining
      /\ s.cause = [p \in Packets |-> IF p \in gone THEN why ELSE q.cause[p]]
      /\ s.queued = q.queued - Total(bits)
      /\ s.terminal = [p \in Packets |-> IF p \in gone THEN q.lastTick ELSE q.terminal[p]]
      /\ s.arrival = q.arrival /\ s.first = q.first
      /\ s.known = q.known /\ s.lastTick = q.lastTick
  BY DEF Terminate, Sound, QueueState
<1>2. \A p \in Packets : bits[p] \in Nat
  BY Parts
<1>3. Total(bits) \in Nat
  <2> HIDE DEF bits
  <2> QED BY <1>2, TotalNat
<1> HIDE DEF s, bits
<1>4. ASSUME NEW p \in Packets
      PROVE  PacketTimely(s, p)
  <2>1. PacketTimely(q, p)
    BY DEF Orderly, Timely
  <2>2. /\ s.cause[p] = IF p \in gone THEN why ELSE q.cause[p]
        /\ s.terminal[p] = IF p \in gone THEN q.lastTick ELSE q.terminal[p]
    BY <1>1
  <2>3. "active" # "absent" /\ "active" \notin Terminal /\ why # "absent" /\ why \in Terminal
    BY DEF Terminal
  <2>4. CASE p \in gone
    <3>1. q.cause[p] = "active" /\ q.terminal[p] = NoTick /\ q.arrival[p] <= q.lastTick
      BY <2>1, <2>3, <2>4, Parts DEF PacketTimely
    <3> QED BY <1>1, <2>1, <2>2, <2>3, <2>4, <3>1, Parts DEF PacketTimely, NoTick
  <2>5. CASE p \notin gone
    BY <1>1, <2>1, <2>2, <2>5 DEF PacketTimely
  <2> QED BY <2>4, <2>5
<1>5. Visible(s)
  <2>1. \A p \in Packets : q.cause[p] # "absent" => s.cause[p] # "absent"
    BY <1>1 DEF Terminal
  <2> QED BY <1>1, <2>1 DEF Orderly, Visible
<1>6. Limited(s)
  <2>1. Cardinality(s.active) \in Nat /\ Cardinality(s.active) <= Cardinality(q.active)
    BY <1>1, Parts, FS_Subset, FS_CardinalityType
  <2>2. s.queued \in Int /\ s.queued <= q.queued
    BY <1>1, <1>3, Parts
  <2>3. Limited(q)
    BY DEF Orderly
  <2> QED BY <2>1, <2>2, <2>3, Parts DEF Limited
<1> QED BY <1>4, <1>5, <1>6 DEF Orderly, Timely, s

-----------------------------------------------------------------------------
(* The commands keep the order.                                            *)

\* A packet that is queued on arrival fits, and one that is dropped ends.
LEMMA EnqueueOrderly ==
    ASSUME NEW q, Sound(q), Orderly(q), NEW t \in Ticks, NEW p \in Packets, NEW belongs
    PROVE  Orderly(Enqueue(q, t, p, belongs))
<1> DEFINE s == Enqueue(q, t, p, belongs)
<1>1. CASE StaleTick(q, t)
  BY <1>1 DEF Enqueue
<1>2. CASE ~StaleTick(q, t) /\ EnqueueRaises(q, t, p, belongs)
  BY <1>2, StampOrderly DEF Enqueue
<1>3. CASE ~StaleTick(q, t) /\ ~EnqueueRaises(q, t, p, belongs)
  <2>1. /\ q.cause[p] = "absent"
        /\ s = IF Overflows(q, p)
               THEN [Recorded(Stamp(q, t), t, p) EXCEPT
                        !.cause[p] = "overflow_drop", !.terminal[p] = t]
               ELSE [Recorded(Stamp(q, t), t, p) EXCEPT
                        !.cause[p] = "active",
                        !.active = q.active \cup {p},
                        !.queued = q.queued + Payload[p]]
    BY <1>3, Zenon DEF Enqueue, EnqueueRaises
  <2> HIDE DEF s
  <2>2. /\ s.remaining = [q.remaining EXCEPT ![p] = Payload[p]]
        /\ s.arrival = [q.arrival EXCEPT ![p] = t]
        /\ s.first = q.first /\ s.lastTick = t /\ s.known = q.known
        /\ \/ /\ Overflows(q, p)
              /\ s.cause = [q.cause EXCEPT ![p] = "overflow_drop"]
              /\ s.terminal = [q.terminal EXCEPT ![p] = t]
              /\ s.active = q.active /\ s.queued = q.queued
           \/ /\ ~Overflows(q, p)
              /\ s.cause = [q.cause EXCEPT ![p] = "active"]
              /\ s.terminal = q.terminal
              /\ s.active = q.active \cup {p} /\ s.queued = q.queued + Payload[p]
    BY <2>1 DEF Recorded, Stamp, Sound, QueueState
  <2>3. /\ q.cause \in [Packets -> Causes] /\ q.remaining \in [Packets -> Nat]
        /\ q.arrival \in [Packets -> Nat] /\ q.terminal \in [Packets -> Nat \cup {NoTick}]
        /\ t \in Nat /\ q.lastTick \in Nat /\ q.lastTick <= t
    BY <1>3, Parts DEF Sound, QueueState, StaleTick, Ticks
  <2>4. "active" # "absent" /\ "active" \notin Terminal
        /\ "overflow_drop" # "absent" /\ "overflow_drop" \in Terminal
    BY DEF Terminal
  <2>5. ASSUME NEW o \in Packets
        PROVE  PacketTimely(s, o) /\ (q.cause[o] # "absent" => s.cause[o] # "absent")
    <3>1. PacketTimely(q, o)
      BY DEF Orderly, Timely
    <3>2. CASE o = p
      <4>1. q.first[p] = NoTick /\ q.terminal[p] = NoTick
        BY <2>1, <3>1, <3>2 DEF PacketTimely
      <4>2. /\ s.remaining[p] = Payload[p] /\ s.arrival[p] = t /\ s.first[p] = NoTick
            /\ \/ s.cause[p] = "overflow_drop" /\ s.terminal[p] = t
               \/ s.cause[p] = "active" /\ s.terminal[p] = NoTick
        BY <2>2, <2>3, <4>1
      <4> QED BY <2>2, <2>3, <2>4, <3>2, <4>2, Parts DEF PacketTimely, NoTick
    <3>3. CASE o # p
      <4>1. /\ s.remaining[o] = q.remaining[o] /\ s.arrival[o] = q.arrival[o]
            /\ s.first[o] = q.first[o] /\ s.cause[o] = q.cause[o]
            /\ s.terminal[o] = q.terminal[o]
        BY <2>2, <2>3, <3>3
      <4> QED BY <2>2, <2>3, <3>1, <4>1, Parts DEF PacketTimely, NoTick
    <3> QED BY <3>2, <3>3
  <2>6. Visible(s)
    <3>1. ASSUME NEW r \in q.known, NEW o \in Packets, r.items[o] # 0
          PROVE  /\ s.cause[o] # "absent" /\ s.arrival[o] <= r.start
                 /\ s.first[o] # NoTick /\ s.first[o] <= r.start
      <4>1. /\ q.cause[o] # "absent" /\ q.arrival[o] <= r.start
            /\ q.first[o] # NoTick /\ q.first[o] <= r.start
        BY <3>1 DEF Orderly, Visible
      <4>2. o # p
        BY <2>1, <4>1
      <4> QED BY <2>2, <2>3, <2>5, <4>1, <4>2
    <3> QED BY <2>2, <3>1 DEF Visible
  <2>7. Limited(s)
    <3>1. Limited(q)
      BY DEF Orderly
    <3>2. p \notin q.active /\ Cardinality(q.active \cup {p}) = Cardinality(q.active) + 1
      BY <2>1, <2>4, Parts, FS_AddElement
    <3>3. CASE Overflows(q, p)
      BY <2>2, <3>1, <3>3 DEF Limited
    <3>4. CASE ~Overflows(q, p)
      <4>1. s.active = q.active \cup {p} /\ s.queued = q.queued + Payload[p]
        BY <2>2, <3>4
      <4>2. /\ Cardinality(q.active) \in Nat /\ q.queued \in Nat /\ Payload[p] \in Nat
            /\ MaxQueuedPackets \in Nat /\ MaxQueuedBits \in Nat
        BY Parts
      <4>3. MaxQueuedPackets # NoLimit => Cardinality(q.active) + 1 <= MaxQueuedPackets
        BY <3>4, <4>2 DEF Overflows
      <4>4. MaxQueuedBits # NoLimit => q.queued + Payload[p] <= MaxQueuedBits
        BY <3>4, <4>2 DEF Overflows
      <4> QED BY <3>2, <4>1, <4>3, <4>4 DEF Limited
    <3> QED BY <3>3, <3>4
  <2> QED BY <2>5, <2>6, <2>7 DEF Orderly, Timely, s
<1> QED BY <1>1, <1>2, <1>3

\* Immediate service marks what it takes from.
LEMMA ServeOrderly ==
    ASSUME NEW q, Sound(q), Orderly(q), NEW t \in Ticks, NEW capacity \in Int
    PROVE  Orderly(Serve(q, t, capacity))
<1> DEFINE bits == UpTo(q, FifoPlan(q, capacity), OverdueInReach(q, t, capacity))
           n == Stamp(q, t)
           m == MarkFirst(n, t, bits)
<1>1. CASE StaleTick(q, t)
  BY <1>1 DEF Serve
<1>2. CASE ~StaleTick(q, t) /\ capacity < 0
  BY <1>2, StampOrderly DEF Serve
<1>3. CASE ~StaleTick(q, t) /\ ~(capacity < 0)
  <2>1. Drawable(q, bits)
    BY FifoPlanDrawable, UpToDrawable
  <2>2. Sound(n) /\ Orderly(n) /\ n.lastTick = t /\ n.active = q.active /\ n.remaining = q.remaining
    BY <1>3, StampOrderly, StampKeeps
  <2> HIDE DEF bits, n
  <2>3. Drawable(n, bits)
    BY <2>1, <2>2 DEF Drawable
  <2>4. Sound(m)
    BY <2>2, MarkFirstSound
  <2>5. /\ Orderly(m) /\ m.lastTick = t
        /\ m.active = n.active /\ m.remaining = n.remaining
        /\ \A p \in Packets : bits[p] # 0 => m.first[p] # NoTick
    BY <2>2, <2>3, MarkFirstOrderly
  <2> HIDE DEF m
  <2>6. Drawable(m, bits)
    BY <2>3, <2>5 DEF Drawable
  <2>7. Orderly(Consume(m, t, bits))
    BY <2>4, <2>5, <2>6, ConsumeOrderly
  <2> QED BY <1>3, <2>7 DEF Serve, m, n, bits
<1> QED BY <1>1, <1>2, <1>3

\* What Expire, Fail and Censor do when they do anything.
LEMMA TerminateStamped ==
    ASSUME NEW q, Sound(q), Orderly(q), NEW t \in Ticks, ~StaleTick(q, t),
           NEW gone \in SUBSET q.active, NEW why \in Terminal \ {"completed"}
    PROVE  Orderly(Terminate(Stamp(q, t), t, gone, why))
<1> DEFINE n == Stamp(q, t)
<1>1. Sound(n) /\ Orderly(n) /\ n.lastTick = t /\ n.active = q.active
  BY StampOrderly, StampKeeps
<1> HIDE DEF n
<1> QED BY <1>1, TerminateOrderly DEF n

\* Deadline expiry and PHY failure.
LEMMA RemovalOrderly ==
    ASSUME NEW q, Sound(q), Orderly(q), NEW t \in Ticks, NEW p \in Packets
    PROVE  Orderly(Expire(q, t, p)) /\ Orderly(Fail(q, t, p))
<1>1. CASE StaleTick(q, t)
  BY <1>1 DEF Expire, Fail
<1>2. CASE ~StaleTick(q, t)
  <2>1. Orderly(Stamp(q, t))
    BY <1>2, StampOrderly
  <2>2. q.cause[p] = "active" => {p} \in SUBSET q.active
    BY Parts
  <2>3. Orderly(Expire(q, t, p))
    <3>1. "deadline_expired" \in Terminal \ {"completed"}
      BY DEF Terminal
    <3>2. q.cause[p] = "active" => Orderly(Terminate(Stamp(q, t), t, {p}, "deadline_expired"))
      BY <1>2, <2>2, <3>1, TerminateStamped
    <3> QED BY <1>2, <2>1, <3>2 DEF Expire
  <2>4. Orderly(Fail(q, t, p))
    <3>1. "phy_failure" \in Terminal \ {"completed"}
      BY DEF Terminal
    <3>2. q.cause[p] = "active" => Orderly(Terminate(Stamp(q, t), t, {p}, "phy_failure"))
      BY <1>2, <2>2, <3>1, TerminateStamped
    <3> QED BY <1>2, <2>1, <3>2 DEF Fail
  <2> QED BY <2>3, <2>4
<1> QED BY <1>1, <1>2

\* A plan names packets that are queued when the slot begins, and marks them.
LEMMA ReserveOrderly ==
    ASSUME NEW q, Sound(q), Orderly(q), NEW start \in Ticks, NEW completion \in Ticks,
           NEW capacity \in Int
    PROVE  Orderly(Reserve(q, start, completion, capacity))
<1> DEFINE s == Reserve(q, start, completion, capacity)
           r == Planned(q, start, completion, capacity)
           n == Stamp(q, start)
           m == MarkFirst(n, start, r.items)
<1>1. CASE StaleTick(q, start)
  BY <1>1 DEF Reserve
<1>2. CASE ~StaleTick(q, start) /\ ReserveRejected(start, completion, capacity)
  BY <1>2, StampOrderly DEF Reserve
<1>3. CASE ~StaleTick(q, start) /\ ~ReserveRejected(start, completion, capacity)
  <2>1. r \in Reservation /\ r.items = FifoPlan(q, capacity) /\ r.start = start
    BY <1>3, PlannedReservation DEF ReserveRejected, Planned
  <2>2. Drawable(q, r.items)
    BY <2>1, FifoPlanDrawable
  <2>3. /\ Sound(n) /\ Orderly(n) /\ n.lastTick = start /\ n.active = q.active
        /\ n.remaining = q.remaining /\ n.known = q.known
    BY <1>3, StampOrderly, StampKeeps
  <2>4. s = [m EXCEPT !.known = q.known \cup {r}]
    BY <1>3 DEF Reserve
  <2> HIDE DEF r, n
  <2>5. Drawable(n, r.items)
    BY <2>2, <2>3 DEF Drawable
  <2>6. Sound(m)
    BY <2>3, MarkFirstSound
  <2>7. /\ Orderly(m) /\ m.known = q.known
        /\ \A p \in Packets : r.items[p] # 0 =>
              /\ m.cause[p] # "absent" /\ m.arrival[p] <= start
              /\ m.first[p] # NoTick /\ m.first[p] <= start
    BY <2>3, <2>5, MarkFirstOrderly
  <2> HIDE DEF m, s
  <2>8. /\ s.active = m.active /\ s.cause = m.cause /\ s.remaining = m.remaining
        /\ s.arrival = m.arrival /\ s.first = m.first /\ s.terminal = m.terminal
        /\ s.queued = m.queued /\ s.lastTick = m.lastTick
        /\ s.known = q.known \cup {r}
    BY <2>4, <2>6 DEF Sound, QueueState
  <2>9. Timely(s) /\ Limited(s)
    BY <2>7, <2>8 DEF Orderly, Timely, PacketTimely, Limited
  <2>10. Visible(s)
    BY <2>1, <2>7, <2>8 DEF Orderly, Visible
  <2> QED BY <2>9, <2>10 DEF Orderly, s
<1> QED BY <1>1, <1>2, <1>3

\* A plan realised, however late, takes from packets in service.
LEMMA CompleteOrderly ==
    ASSUME NEW q, Sound(q), Orderly(q), NEW r \in q.known
    PROVE  Orderly(Complete(q, r))
<1> DEFINE t == r.completion
           bits == Drawn(q, r)
           n == Stamp(q, t)
           c == Consume(n, t, bits)
           s == [c EXCEPT !.done = IF Disturbed(q, r) = {} THEN @ \cup {r} ELSE @]
<1>0. r \in Reservation /\ t \in Ticks
  BY Parts DEF Ticks
<1>1. CASE StaleTick(q, t)
  BY <1>1 DEF Complete
<1>2. CASE ~StaleTick(q, t) /\ CompleteRejected(q, r)
  BY <1>0, <1>2, StampOrderly DEF Complete
<1>3. CASE ~StaleTick(q, t) /\ ~CompleteRejected(q, r)
  <2>1. Drawable(q, bits)
    BY <1>0, DrawnDrawable
  <2>2. \A p \in Packets : bits[p] # 0 => r.items[p] # 0
    BY DEF Drawn, UpTo
  <2>3. /\ Sound(n) /\ Orderly(n) /\ n.lastTick = t /\ n.active = q.active
        /\ n.remaining = q.remaining /\ n.first = q.first
    BY <1>0, <1>3, StampOrderly, StampKeeps
  <2> HIDE DEF bits, n
  <2>4. Drawable(n, bits) /\ \A p \in Packets : bits[p] # 0 => n.first[p] # NoTick
    BY <2>1, <2>2, <2>3 DEF Drawable, Orderly, Visible
  <2>5. Orderly(c) /\ Sound(c)
    BY <1>0, <2>3, <2>4, ConsumeOrderly, ConsumeSound
  <2> HIDE DEF c
  <2>6. /\ s.active = c.active /\ s.cause = c.cause /\ s.remaining = c.remaining
        /\ s.arrival = c.arrival /\ s.first = c.first /\ s.terminal = c.terminal
        /\ s.queued = c.queued /\ s.lastTick = c.lastTick /\ s.known = c.known
    BY <2>5 DEF Sound, QueueState
  <2> HIDE DEF s
  <2>7. Orderly(s)
    BY <2>5, <2>6 DEF Orderly, Timely, PacketTimely, Visible, Limited
  <2> QED BY <1>3, <2>7 DEF Complete, s, c, n, bits
<1> QED BY <1>1, <1>2, <1>3

\* A packet that is exhausted stays so.
LEMMA ExhaustedStays ==
    ASSUME NEW q, Sound(q), NEW s, Sound(s),
           \/ Unmoved(q, s) \/ Transmits(q, s) \/ Removes(q, s)
           \/ \E p \in Packets : Joins(q, s, p),
           NEW p \in Packets, q.cause[p] # "absent", q.remaining[p] = 0
    PROVE  s.remaining[p] = 0
<1>1. q.remaining \in [Packets -> Nat]
  BY DEF Sound, QueueState
<1>2. CASE Transmits(q, s)
  BY <1>1, <1>2 DEF Transmits
<1>3. CASE \E o \in Packets : Joins(q, s, o)
  BY <1>1, <1>3 DEF Joins
<1> QED BY <1>2, <1>3 DEF Unmoved, Removes

-----------------------------------------------------------------------------
(* What a machine that runs the commands relies on: the whole invariant of *)
(* its queues, and the fields that a command that does not raise changes.  *)

Valid(q) == Sound(q) /\ FifoReservations(q) /\ Orderly(q)

\* A new queue is valid.
LEMMA EmptyValid == Valid(EmptyQueue)
<1> DEFINE q == EmptyQueue
<1>1. /\ q.active = {} /\ q.known = {} /\ q.queued = 0 /\ q.served = 0 /\ q.offered = 0
      /\ \A p \in Packets : /\ q.cause[p] = "absent" /\ q.remaining[p] = 0
                            /\ q.first[p] = NoTick /\ q.terminal[p] = NoTick
  BY DEF EmptyQueue
<1>2. q \in QueueState
  BY DEF EmptyQueue, QueueState, Causes, Ticks
<1> HIDE DEF q
<1>3. Known(q) = {}
  BY <1>1 DEF Known
<1>4. ASSUME NEW f
      PROVE  BitsOf({}, f) = 0
  <2> DEFINE none == [p \in Packets |-> IF p \in {} THEN f[p] ELSE 0]
  <2>1. \A p \in 1..NumPackets : none[p] = 0
    BY PacketsFinite
  <2> HIDE DEF none
  <2>2. Sum(none, NumPackets) = 0
    BY <2>1, SumZero, PacketsFinite
  <2> QED BY <2>2 DEF BitsOf, Total, none
<1>5. OfferedCounted(q) /\ CachedOccupancy(q) /\ ServiceAccounted(q)
  BY <1>1, <1>3, <1>4, FS_EmptySet DEF OfferedCounted, CachedOccupancy, ServiceAccounted
<1>6. ActiveMatches(q) /\ RemainingBounded(q) /\ RanksDistinct(q)
  BY <1>1, <1>3, PacketsFinite DEF ActiveMatches, RemainingBounded, RanksDistinct
<1>7. Limited(q)
  BY <1>1, FS_EmptySet, QueueAssumption DEF Limited
<1>8. FifoReservations(q) /\ Timely(q) /\ Visible(q)
  BY <1>1 DEF FifoReservations, Timely, PacketTimely, Visible
<1> QED BY <1>2, <1>5, <1>6, <1>7, <1>8 DEF Valid, Sound, Orderly, q

\* A queue s is queue q with packet p recorded at t, behind all the others.
EnqueuedAs(q, s, t, p) ==
    /\ s.lastTick = t /\ s.known = q.known /\ s.done = q.done
    /\ s.served = q.served
    /\ s.remaining = [q.remaining EXCEPT ![p] = Payload[p]]
    /\ s.arrival = [q.arrival EXCEPT ![p] = t]
    /\ s.rank = [q.rank EXCEPT ![p] = q.offered]
    /\ s.first = q.first
    /\ \/ /\ s.cause = [q.cause EXCEPT ![p] = "overflow_drop"]
          /\ s.terminal = [q.terminal EXCEPT ![p] = t]
       \/ /\ s.cause = [q.cause EXCEPT ![p] = "active"]
          /\ s.terminal = q.terminal

\* What enqueuing a new packet does.
LEMMA EnqueueEffect ==
    ASSUME NEW q, Valid(q), NEW t \in Ticks, NEW p \in Packets,
           NEW belongs, ~EnqueueRaises(q, t, p, belongs)
    PROVE  /\ Valid(Enqueue(q, t, p, belongs))
           /\ EnqueuedAs(q, Enqueue(q, t, p, belongs), t, p)
<1> DEFINE s == Enqueue(q, t, p, belongs)
<1>1. Valid(s)
  BY EnqueueSound, EnqueueJoins, EnqueueOrderly DEF Valid
<1>2. s = IF Overflows(q, p)
          THEN [Recorded(Stamp(q, t), t, p) EXCEPT
                   !.cause[p] = "overflow_drop", !.terminal[p] = t]
          ELSE [Recorded(Stamp(q, t), t, p) EXCEPT
                   !.cause[p] = "active",
                   !.active = q.active \cup {p},
                   !.queued = q.queued + Payload[p]]
  BY Zenon DEF Enqueue, EnqueueRaises
<1> HIDE DEF s
<1>3. EnqueuedAs(q, s, t, p)
  BY <1>2 DEF EnqueuedAs, Recorded, Stamp, Valid, Sound, QueueState
<1> QED BY <1>1, <1>3 DEF s

\* Queue q has become s at tick t, when packets gone ended of cause why.
EndedAs(q, s, t, gone, why) ==
    /\ s.lastTick = t /\ s.known = q.known /\ s.done = q.done
    /\ s.served = q.served /\ s.remaining = q.remaining
    /\ s.rank = q.rank /\ s.arrival = q.arrival /\ s.first = q.first
    /\ \A o \in Packets :
          /\ o \in gone => s.cause[o] = why /\ s.terminal[o] = t
          /\ o \notin gone => s.cause[o] = q.cause[o] /\ s.terminal[o] = q.terminal[o]

\* Ending packets changes their cause and their end, and nothing else.
LEMMA TerminateEffect ==
    ASSUME NEW q, Valid(q), NEW t \in Ticks, ~StaleTick(q, t),
           NEW gone \in SUBSET q.active, NEW why \in Terminal \ {"completed"}
    PROVE  EndedAs(q, Terminate(Stamp(q, t), t, gone, why), t, gone, why)
BY DEF EndedAs, Terminate, Stamp, Valid, Sound, QueueState

\* Expiry ends its packet, if that still is queued, and no other.
LEMMA ExpireEffect ==
    ASSUME NEW q, Valid(q), NEW t \in Ticks, NEW p \in Packets, ~ExpireRaises(q, t, p)
    PROVE  LET s == Expire(q, t, p) IN
           /\ Valid(s)
           /\ s.lastTick = t /\ s.known = q.known /\ s.done = q.done
           /\ s.served = q.served /\ s.remaining = q.remaining
           /\ s.rank = q.rank /\ s.arrival = q.arrival /\ s.first = q.first
           /\ \A o \in Packets :
                 IF o = p /\ q.cause[p] = "active"
                 THEN s.cause[o] = "deadline_expired" /\ s.terminal[o] = t
                 ELSE s.cause[o] = q.cause[o] /\ s.terminal[o] = q.terminal[o]
<1>1. ~StaleTick(q, t)
  BY DEF ExpireRaises
<1>2. Valid(Expire(q, t, p))
  BY ExpireSound, ExpireRemoves, RemovalOrderly DEF Valid
<1>3. CASE q.cause[p] # "active"
  <2>1. Expire(q, t, p) = Stamp(q, t)
    BY <1>1, <1>3 DEF Expire
  <2> QED BY <1>2, <1>3, <2>1 DEF Stamp, Valid, Sound, QueueState
<1>4. CASE q.cause[p] = "active"
  <2>1. Expire(q, t, p) = Terminate(Stamp(q, t), t, {p}, "deadline_expired")
    BY <1>1, <1>4 DEF Expire
  <2>2. {p} \in SUBSET q.active /\ "deadline_expired" \in Terminal \ {"completed"}
    BY <1>4 DEF Valid, Sound, ActiveMatches, Terminal
  <2>3. EndedAs(q, Terminate(Stamp(q, t), t, {p}, "deadline_expired"), t, {p}, "deadline_expired")
    BY <1>1, <2>2, TerminateEffect, Zenon
  <2>4. EndedAs(q, Expire(q, t, p), t, {p}, "deadline_expired")
    BY <2>1, <2>3
  <2> QED BY <1>2, <1>4, <2>4 DEF EndedAs
<1> QED BY <1>3, <1>4

\* Censoring ends every packet that still is queued.
LEMMA CensorEffect ==
    ASSUME NEW q, Valid(q), NEW t \in Ticks, ~StaleTick(q, t)
    PROVE  LET s == Censor(q, t) IN
           /\ Valid(s)
           /\ s.lastTick = t /\ s.known = q.known /\ s.done = q.done
           /\ s.served = q.served /\ s.remaining = q.remaining
           /\ s.rank = q.rank /\ s.arrival = q.arrival /\ s.first = q.first
           /\ \A o \in Packets :
                 IF q.cause[o] = "active"
                 THEN s.cause[o] = "censored_at_stop" /\ s.terminal[o] = t
                 ELSE s.cause[o] = q.cause[o] /\ s.terminal[o] = q.terminal[o]
<1>1. "censored_at_stop" \in Terminal \ {"completed"}
  BY DEF Terminal
<1>2. Censor(q, t) = Terminate(Stamp(q, t), t, q.active, "censored_at_stop")
  BY DEF Censor
<1>3. Valid(Censor(q, t))
  BY <1>1, <1>2, CensorSound, CensorRemoves, TerminateStamped DEF Valid
<1>4. \A o \in Packets : o \in q.active <=> q.cause[o] = "active"
  BY DEF Valid, Sound, ActiveMatches
<1>5. EndedAs(q, Censor(q, t), t, q.active, "censored_at_stop")
  BY <1>1, <1>2, TerminateEffect
<1> QED BY <1>3, <1>4, <1>5 DEF EndedAs

\* Reserving changes no packet but its first service, and remembers the plan.
LEMMA ReserveEffect ==
    ASSUME NEW q, Valid(q), NEW start \in Ticks, NEW completion \in Ticks,
           NEW capacity \in Int, ~ReserveRaises(q, start, completion, capacity)
    PROVE  LET s == Reserve(q, start, completion, capacity) IN
           /\ Valid(s)
           /\ s.lastTick = start /\ s.done = q.done
           /\ s.known = q.known \cup {Planned(q, start, completion, capacity)}
           /\ s.served = q.served /\ s.queued = q.queued
           /\ s.cause = q.cause /\ s.remaining = q.remaining /\ s.terminal = q.terminal
           /\ s.rank = q.rank /\ s.arrival = q.arrival
           /\ \A p \in Packets : s.first[p] # q.first[p] => q.first[p] = NoTick /\ s.first[p] = start
<1> DEFINE r == Planned(q, start, completion, capacity)
           s == Reserve(q, start, completion, capacity)
<1>1. Valid(s)
  BY ReserveSound, ReserveUnmoved, ReserveOrderly DEF Valid
<1>2. s = [MarkFirst(Stamp(q, start), start, r.items) EXCEPT !.known = q.known \cup {r}]
  BY Zenon DEF Reserve, ReserveRaises
<1> HIDE DEF s, r
<1>3. s.first = [p \in Packets |->
                    IF r.items[p] > 0 /\ q.first[p] = NoTick THEN start ELSE q.first[p]]
  BY <1>2 DEF MarkFirst, Stamp, Valid, Sound, QueueState
<1>4. \A p \in Packets : s.first[p] # q.first[p] => q.first[p] = NoTick /\ s.first[p] = start
  BY <1>3
<1>5. /\ s.lastTick = start /\ s.done = q.done /\ s.known = q.known \cup {r}
      /\ s.served = q.served /\ s.queued = q.queued
      /\ s.cause = q.cause /\ s.remaining = q.remaining /\ s.terminal = q.terminal
      /\ s.rank = q.rank /\ s.arrival = q.arrival
  BY <1>2 DEF MarkFirst, Stamp, Valid, Sound, QueueState
<1> QED BY <1>1, <1>4, <1>5 DEF s, r

\* A completion takes what its reservation names from the packets that have
\* not ended, and completes those it exhausts.
LEMMA CompleteEffect ==
    ASSUME NEW q, Valid(q), NEW r \in q.known, ~CompleteRaises(q, r)
    PROVE  LET s == Complete(q, r)
               bits == Drawn(q, r)
           IN
           /\ Valid(s)
           /\ s.lastTick = r.completion /\ s.known = q.known /\ s.done = q.done \cup {r}
           /\ s.served = q.served + Total(bits)
           /\ s.rank = q.rank /\ s.arrival = q.arrival /\ s.first = q.first
           /\ \A o \in Packets :
                 /\ bits[o] = IF q.cause[o] = "active" THEN r.items[o] ELSE 0
                 /\ bits[o] <= q.remaining[o]
                 /\ s.remaining[o] = q.remaining[o] - bits[o]
                 /\ IF bits[o] > 0 /\ bits[o] = q.remaining[o]
                    THEN s.cause[o] = "completed" /\ s.terminal[o] = r.completion
                    ELSE s.cause[o] = q.cause[o] /\ s.terminal[o] = q.terminal[o]
<1> DEFINE t == r.completion
           m == Stamp(q, t)
           bits == Drawn(q, r)
           s == Complete(q, r)
<1>1. /\ Sound(q) /\ r \in Reservation /\ t \in Ticks /\ r.items \in [Packets -> Nat]
      /\ ~StaleTick(q, t) /\ ~CompleteRejected(q, r) /\ Disturbed(q, r) = {}
  BY DEF Valid, Sound, QueueState, Reservation, CompleteRaises
<1>2. Valid(s)
  BY CompleteSound, CompleteTransmits, CompleteOrderly DEF Valid
<1>3. s = [Consume(m, t, bits) EXCEPT !.done = q.done \cup {r}]
  <2>1. s = [Consume(m, t, bits) EXCEPT !.done = @ \cup {r}]
    BY <1>1, Zenon DEF Complete
  <2>2. Consume(m, t, bits).done = q.done
    BY <1>1 DEF Consume, Stamp, Sound, QueueState
  <2> HIDE DEF m, t, bits, s
  <2> QED BY <2>1, <2>2
<1>4. Drawable(q, bits)
  BY <1>1, DrawnDrawable
<1>5. \A o \in Packets : bits[o] = IF q.cause[o] \in Terminal THEN 0 ELSE r.items[o]
  BY <1>1 DEF Drawn, UpTo
<1>6. ASSUME NEW o \in Packets
      PROVE  bits[o] = (IF q.cause[o] = "active" THEN r.items[o] ELSE 0)
             /\ bits[o] <= q.remaining[o]
  <2>1. q.cause[o] \in Causes /\ q.remaining[o] \in Nat /\ r.items[o] \in Nat
        /\ (o \in q.active <=> q.cause[o] = "active")
    BY <1>1, Parts
  <2>2. "active" \notin Terminal /\ "absent" \notin Terminal
    BY DEF Terminal
  <2> HIDE DEF bits
  <2> QED BY <1>4, <1>5, <2>1, <2>2 DEF Drawable, Causes
<1> HIDE DEF bits, t, s
<1>7. /\ s.lastTick = t /\ s.known = q.known /\ s.done = q.done \cup {r}
      /\ s.served = q.served + Total(bits)
      /\ s.rank = q.rank /\ s.arrival = q.arrival /\ s.first = q.first
      /\ s.remaining = [p \in Packets |-> q.remaining[p] - bits[p]]
      /\ s.terminal = [p \in Packets |-> IF p \in Finished(m, bits) THEN t ELSE q.terminal[p]]
      /\ s.cause = [p \in Packets |->
                       IF p \in Finished(m, bits) THEN "completed" ELSE q.cause[p]]
      /\ m.remaining = q.remaining
  BY <1>1, <1>3 DEF Consume, Stamp, Sound, QueueState
<1> HIDE DEF m
<1> QED BY <1>2, <1>6, <1>7 DEF Finished, bits, t, s

\* A service plan that does not exhaust a packet has used the whole capacity:
\* the first such packet in the queue had all that those ahead of it left.
LEMMA CapacityUsed ==
    ASSUME NEW q, Sound(q), NEW capacity \in Nat, NEW p \in q.active,
           FifoPlan(q, capacity)[p] # q.remaining[p]
    PROVE  Total(FifoPlan(q, capacity)) >= capacity
<1> DEFINE bits == FifoPlan(q, capacity)
           short == {o \in q.active : bits[o] # q.remaining[o]}
<1>1. /\ Drawable(q, bits) /\ bits \in [Packets -> Nat]
      /\ \A o \in Packets : q.remaining[o] \in Nat /\ q.rank[o] \in Nat
      /\ q.active \subseteq Packets
      /\ \A o \in q.active : q.remaining[o] # 0
      /\ \A o \in Packets \ q.active : bits[o] = 0
  <2>1. Drawable(q, bits)
    BY FifoPlanDrawable
  <2>2. \A o \in Packets : q.remaining[o] \in Nat /\ q.rank[o] \in Nat
    BY DEF Sound, QueueState
  <2> HIDE DEF bits
  <2>3. bits \in [Packets -> Nat] /\ \A o \in Packets \ q.active : bits[o] = 0
    BY <2>1 DEF Drawable
  <2> QED BY <2>1, <2>2, <2>3, Parts
<1>2. PICK m \in short : \A o \in short : ~(q.rank[o] < q.rank[m])
  <2> DEFINE T == {q.rank[o] : o \in short}
  <2>1. T \subseteq Nat /\ T # {}
    <3>1. p \in short
      OBVIOUS
    <3> HIDE DEF bits
    <3> QED BY <1>1, <3>1
  <2>2. PICK r \in T : \A k \in T : ~(k < r)
    BY <2>1, LeastNumber
  <2> QED BY <2>2
<1> DEFINE ahead == [o \in Packets |-> IF o \in Ahead(q, m) THEN q.remaining[o] ELSE 0]
           own   == [o \in Packets |-> IF o = m THEN bits[m] ELSE 0]
           both  == [o \in Packets |-> ahead[o] + own[o]]
<1>3. m \in q.active /\ m \in Packets /\ bits[m] # q.remaining[m] /\ bits[m] \in Nat
  <2> HIDE DEF bits
  <2> QED BY <1>1, <1>2
<1>4. \A o \in Ahead(q, m) : o \in Packets /\ o # m /\ bits[o] = q.remaining[o]
  <2> HIDE DEF bits
  <2> QED BY <1>1, <1>2, <1>3 DEF Ahead
<1>5. /\ bits[m] = Clamp(capacity - BitsAhead(q, m), q.remaining[m])
      /\ BitsAhead(q, m) = Total(ahead)
  BY <1>3 DEF FifoPlan, BitsAhead
<1> HIDE DEF bits
<1>6. /\ \A o \in Packets : ahead[o] \in Nat /\ own[o] \in Nat /\ both[o] \in Int
      /\ \A o \in Packets : both[o] = ahead[o] + own[o] /\ both[o] <= bits[o]
      /\ \A o \in Packets : o # m => own[o] = 0
      /\ own[m] = bits[m]
  BY <1>1, <1>3, <1>4
<1> HIDE DEF ahead, own, both
<1>7. Total(both) = Total(ahead) + Total(own) /\ Total(ahead) \in Nat
  BY <1>6, TotalAdd, TotalNat
<1>8. Total(own) = bits[m]
  <2>1. Sum(own, NumPackets) = own[m]
    BY <1>3, <1>6, SumSingle, PacketsFinite
  <2> QED BY <1>6, <2>1 DEF Total
<1>9. Total(both) <= Total(bits) /\ Total(bits) \in Nat
  <2>1. Sum(both, NumPackets) <= Sum(bits, NumPackets)
    BY <1>1, <1>6, SumMonotone, PacketsFinite
  <2> QED BY <1>1, <2>1, TotalNat DEF Total
<1>10. bits[m] >= capacity - Total(ahead)
  BY <1>1, <1>3, <1>5, <1>7 DEF Clamp
<1> QED BY <1>3, <1>7, <1>8, <1>9, <1>10 DEF bits

\* Queue q has become s by immediate service at tick t: packets are completed
\* or stay as they were, no served bit is forgotten, and no bit of the
\* capacity is left over while a packet is queued.
ServedAs(q, s, t, capacity) ==
    /\ s.lastTick = t /\ s.known = q.known /\ s.done = q.done
    /\ s.rank = q.rank /\ s.arrival = q.arrival
    /\ s.served \in Nat /\ s.served >= q.served
    /\ \A o \in Packets :
          \/ s.cause[o] = q.cause[o] /\ s.terminal[o] = q.terminal[o]
          \/ q.cause[o] = "active" /\ s.cause[o] = "completed" /\ s.terminal[o] = t
    /\ (\E o \in Packets : s.cause[o] = "active") => s.served >= q.served + capacity

\* Immediate service, where it does not raise.
LEMMA ServeEffect ==
    ASSUME NEW q, Valid(q), NEW t \in Ticks, NEW capacity \in Int,
           ~ServeRaises(q, t, capacity)
    PROVE  /\ Valid(Serve(q, t, capacity))
           /\ ServedAs(q, Serve(q, t, capacity), t, capacity)
<1> DEFINE bits == FifoPlan(q, capacity)
           m == MarkFirst(Stamp(q, t), t, bits)
           s == Serve(q, t, capacity)
<1>1. Sound(q) /\ capacity \in Nat /\ ~StaleTick(q, t) /\ OverdueInReach(q, t, capacity) = {}
  BY DEF Valid, ServeRaises
<1>2. Valid(s)
  BY ServeSound, ServeTransmits, ServeOrderly DEF Valid
<1>3. Drawable(q, bits)
  BY <1>1, FifoPlanDrawable
<1>4. UpTo(q, bits, {}) = bits
  <2> HIDE DEF bits
  <2> QED BY <1>3 DEF UpTo, Drawable
<1>5. s = Consume(m, t, bits)
  BY <1>1, <1>4 DEF Serve
<1>6. q.served \in Nat /\ Total(bits) \in Nat
  <2> HIDE DEF bits
  <2> QED BY <1>1, <1>3, TotalNat DEF Drawable, Sound, QueueState
<1>7. (\E p \in q.active : bits[p] # q.remaining[p]) => Total(bits) >= capacity
  BY <1>1, CapacityUsed
<1> HIDE DEF bits, s
<1>8. /\ s.lastTick = t /\ s.known = q.known /\ s.done = q.done
      /\ s.served = q.served + Total(bits)
      /\ s.rank = q.rank /\ s.arrival = q.arrival
      /\ s.terminal = [p \in Packets |-> IF p \in Finished(m, bits) THEN t ELSE q.terminal[p]]
      /\ s.cause = [p \in Packets |->
                       IF p \in Finished(m, bits) THEN "completed" ELSE q.cause[p]]
      /\ m.remaining = q.remaining
  BY <1>1, <1>5 DEF Consume, MarkFirst, Stamp, Sound, QueueState
<1> HIDE DEF m
<1>9. \A p \in Packets : /\ p \in q.active <=> q.cause[p] = "active"
                         /\ q.remaining[p] # 0 \/ p \notin q.active
                         /\ bits[p] \in Nat
                         /\ bits[p] # 0 => p \in q.active
  BY <1>1, <1>3, Parts DEF Drawable
<1>10. \A p \in Packets : p \in Finished(m, bits) <=> bits[p] > 0 /\ bits[p] = q.remaining[p]
  BY <1>8 DEF Finished
<1>11. ASSUME NEW p \in Packets, s.cause[p] = "active"
       PROVE  p \in q.active /\ bits[p] # q.remaining[p]
  BY <1>8, <1>9, <1>10, <1>11
<1>12. s.served \in Nat /\ s.served >= q.served
  BY <1>6, <1>8
<1>13. (\E o \in Packets : s.cause[o] = "active") => s.served >= q.served + capacity
  BY <1>1, <1>6, <1>7, <1>8, <1>11
<1>14. \A o \in Packets :
          \/ s.cause[o] = q.cause[o] /\ s.terminal[o] = q.terminal[o]
          \/ q.cause[o] = "active" /\ s.cause[o] = "completed" /\ s.terminal[o] = t
  BY <1>8, <1>9, <1>10
<1>15. ServedAs(q, s, t, capacity)
  BY <1>8, <1>12, <1>13, <1>14 DEF ServedAs
<1> QED BY <1>2, <1>15 DEF s
=============================================================================
