--------------------------- MODULE ComponentProofs ---------------------------
(***************************************************************************)
(* Proofs about the two components that every simulation is made of, the   *)
(* event kernel and the bearer queue.                                      *)
(*                                                                         *)
(* Kernel, for any set of events and any handlers: its invariant adds to   *)
(* the properties checked that the last event dispatched is the latest of  *)
(* the trace.  Everything pending comes after it (PendingAhead), so the    *)
(* next event popped comes after all the trace.                            *)
(*                                                                         *)
(* BearerQueue, for any packets, bounds and commands: its invariant, the   *)
(* refinement of PacketLine, and what becomes of its reservations.  Each   *)
(* command does what BearerQueueOpsProofs says of it.                      *)
(*                                                                         *)
(* The heart of the refinement is first-in first-out service by            *)
(* reservations that are older than the queue they meet: when the          *)
(* completion reaches a packet, those ahead of it have been completed, or  *)
(* the loop has raised.                                                    *)
(*                                                                         *)
(* The difficult one is that a completion tried again after an exception   *)
(* takes nothing twice.  Nothing in the queue records which items a failed *)
(* completion has realised; what saves it is the order of the line.  The   *)
(* loop raised at a packet that still was queued, the plan promised all    *)
(* those ahead of it whatever they had left (FifoReservations), so each    *)
(* item realised before was the whole of its packet.                       *)
(***************************************************************************)
EXTENDS Kernel, BearerQueue, BearerQueueOpsProofs

-----------------------------------------------------------------------------
(* The kernel: its invariant.                                              *)

\* No event of the trace comes after the last one dispatched.
LastIsLatest ==
    \A i \in DOMAIN trace :
        last # <<>> /\ (trace[i] = last[1] \/ Before(trace[i], last[1]))

KernelInv == TypeOK /\ TraceOrdered /\ PendingAhead /\ ExactlyOnce /\ LastIsLatest

-----------------------------------------------------------------------------
(* The order of events.                                                    *)

\* Events have the fields of ScheduledEvent, in their domains.
LEMMA EventFields ==
    ASSUME NEW a \in Events
    PROVE  a.tick \in Nat /\ a.phase \in Nat /\ a.entity \in Nat /\ a.seq \in Nat
BY KernelAssumption DEF Event

\* The order of order_key is strict and transitive, and agrees with ticks.
LEMMA BeforeIrreflexive ==
    ASSUME NEW a \in Events
    PROVE  ~Before(a, a)
BY EventFields DEF Before

\* See BeforeIrreflexive.
LEMMA BeforeTransitive ==
    ASSUME NEW a \in Events, NEW b \in Events, NEW c \in Events,
           Before(a, b), Before(b, c)
    PROVE  Before(a, c)
BY EventFields DEF Before

\* An event is not before one of an earlier tick.
LEMMA BeforeTick ==
    ASSUME NEW a \in Events, NEW b \in Events, Before(a, b)
    PROVE  a.tick <= b.tick
BY EventFields DEF Before

-----------------------------------------------------------------------------
(* What the run loop schedules of a handler's follow-ups.                  *)

\* The follow-ups scheduled are new, not in the past, and come after the
\* event that returned them.
LEMMA FollowupsAccepted ==
    ASSUME NEW e \in Events, NEW followups \in Followups
    PROVE  LET n == AcceptedPrefix(e, followups)
           IN  /\ n \in 0..Len(followups)
               /\ \A i \in 1..n : /\ followups[i] \in Events
                                  /\ followups[i].tick >= e.tick
                                  /\ Before(e, followups[i])
                                  /\ followups[i] \notin known
<1> DEFINE len == Len(followups)
           Ok(i) == AcceptedAfter(e, followups, i)
           Prefix(n) == /\ \A i \in 1..n : Ok(i)
                        /\ n < len => ~Ok(n + 1)
<1>1. /\ len \in Nat
      /\ \A i \in 1..len : followups[i] \in Events
  <2>1. PICK m \in 0..MaxFollowups : followups \in [1..m -> Events]
    BY DEF Followups
  <2> QED BY <2>1, KernelAssumption
<1>2. \E n \in 0..len : Prefix(n)
  <2>1. CASE \A i \in 1..len : Ok(i)
    BY <1>1, <2>1
  <2>2. CASE \E i \in 1..len : ~Ok(i)
    <3> DEFINE S == {i \in 1..len : ~Ok(i)}
    <3> HIDE DEF Ok
    <3>1. S # {} /\ S \subseteq Nat
      BY <1>1, <2>2
    <3>2. PICK k \in S : \A i \in S : ~(i < k)
      <4> HIDE DEF S
      <4> QED BY <3>1, LeastNumber
    <3>3. k \in 1..len /\ ~Ok(k) /\ \A i \in 1..(k - 1) : Ok(i)
      BY <1>1, <3>2
    <3>4. k - 1 \in 0..len /\ (k - 1) + 1 = k
      BY <1>1, <3>3
    <3> QED BY <3>3, <3>4
  <2> QED BY <2>1, <2>2
<1>3. AcceptedPrefix(e, followups) = CHOOSE n \in 0..len : Prefix(n)
  BY DEF AcceptedPrefix
<1>4. /\ AcceptedPrefix(e, followups) \in 0..len
      /\ Prefix(AcceptedPrefix(e, followups))
  <2> HIDE DEF Prefix
  <2> QED BY <1>2, <1>3
<1>5. \A i \in 1..len : Ok(i) => /\ followups[i].tick >= e.tick
                                 /\ Before(e, followups[i])
                                 /\ followups[i] \notin known
  <2> SUFFICES ASSUME NEW i \in 1..len, Ok(i)
               PROVE  /\ followups[i].tick >= e.tick
                      /\ Before(e, followups[i])
                      /\ followups[i] \notin known
    OBVIOUS
  <2>1. <<e>> # <<>> /\ <<e>>[1] = e
    OBVIOUS
  <2> QED BY <2>1 DEF AcceptedAfter, Acceptable
<1> QED BY <1>1, <1>4, <1>5
-----------------------------------------------------------------------------
(* The steps preserve the invariant.                                       *)

\* What a dispatch needs to know of the event popped: it comes after all of
\* the trace, and before all that stays pending.
LEMMA PoppedAfterTrace ==
    ASSUME KernelInv, NEW e \in heap, IsNext(e)
    PROVE  /\ e \in Events
           /\ \A i \in DOMAIN trace : Before(trace[i], e)
           /\ \A h \in heap \ {e} : Before(e, h) /\ h.tick >= e.tick
           /\ e \in known /\ e \notin Processed /\ e \notin lost
           /\ e.tick \in Nat
<1>1. e \in Events /\ heap \subseteq Events /\ trace \in Seq(Events)
  BY DEF KernelInv, TypeOK
<1>2. \A i \in DOMAIN trace : Before(trace[i], e)
  <2> SUFFICES ASSUME NEW i \in DOMAIN trace
               PROVE  Before(trace[i], e)
    OBVIOUS
  <2>1. /\ last # <<>> /\ Before(last[1], e)
        /\ trace[i] = last[1] \/ Before(trace[i], last[1])
    BY DEF KernelInv, LastIsLatest, PendingAhead
  <2>2. last[1] \in Events /\ trace[i] \in Events
    BY <1>1, <2>1 DEF KernelInv, TypeOK
  <2> QED BY <1>1, <2>1, <2>2, BeforeTransitive
<1>3. \A h \in heap \ {e} : Before(e, h) /\ h.tick >= e.tick
  BY <1>1, BeforeTick, EventFields DEF IsNext
<1>4. e \in known /\ e \notin Processed /\ e \notin lost
  BY DEF KernelInv, ExactlyOnce
<1> QED BY <1>1, <1>2, <1>3, <1>4, EventFields

\* schedule(), called between runs.
LEMMA ScheduleKeeps ==
    ASSUME KernelInv, NEW e \in Events, Schedule(e)
    PROVE  KernelInv'
<1>1. /\ heap' = heap \cup {e} /\ known' = known \cup {e} /\ e \notin known
      /\ e.tick >= now /\ (last # <<>> => Before(last[1], e))
      /\ UNCHANGED <<handlers, trace, last, now, until, lost>>
  BY DEF Schedule, Acceptable
<1>2. TypeOK'
  BY <1>1 DEF KernelInv, TypeOK
<1>3. TraceOrdered' /\ LastIsLatest'
  BY <1>1 DEF KernelInv, TraceOrdered, LastIsLatest
<1>4. PendingAhead'
  BY <1>1 DEF KernelInv, PendingAhead
<1>5. ExactlyOnce'
  BY <1>1 DEF KernelInv, ExactlyOnce, Processed
<1> QED BY <1>2, <1>3, <1>4, <1>5 DEF KernelInv

\* An event without a handler is popped and lost; the order is not disturbed.
LEMMA DispatchUnhandledKeeps ==
    ASSUME KernelInv, NEW e \in heap, DispatchUnhandled(e)
    PROVE  KernelInv'
<1>1. /\ heap' = heap \ {e} /\ lost' = lost \cup {e} /\ until' = -1
      /\ UNCHANGED <<known, handlers, trace, last, now>>
      /\ e \in Events /\ e \in known /\ e \notin Processed
  BY PoppedAfterTrace DEF DispatchUnhandled
<1>2. TypeOK'
  BY <1>1 DEF KernelInv, TypeOK
<1>3. TraceOrdered' /\ LastIsLatest'
  BY <1>1 DEF KernelInv, TraceOrdered, LastIsLatest
<1>4. PendingAhead'
  BY <1>1 DEF KernelInv, PendingAhead
<1>5. ExactlyOnce'
  BY <1>1 DEF KernelInv, ExactlyOnce, Processed
<1> QED BY <1>2, <1>3, <1>4, <1>5 DEF KernelInv

\* A handler that raises: the event counts as the last dispatched.
LEMMA HandlerRaisesKeeps ==
    ASSUME KernelInv, NEW e \in heap, HandlerRaises(e)
    PROVE  KernelInv'
<1>1. /\ heap' = heap \ {e} /\ lost' = lost \cup {e} /\ until' = -1
      /\ now' = e.tick /\ last' = <<e>>
      /\ UNCHANGED <<known, handlers, trace>>
  BY DEF HandlerRaises
<1>2. /\ e \in Events /\ e.tick \in Nat /\ e \in known /\ e \notin Processed
      /\ \A i \in DOMAIN trace : Before(trace[i], e)
      /\ \A h \in heap \ {e} : Before(e, h) /\ h.tick >= e.tick
  BY PoppedAfterTrace DEF HandlerRaises
<1>3. last' # <<>> /\ last'[1] = e /\ last' \in [1..1 -> Events]
  BY <1>1, <1>2
<1>4. TypeOK'
  BY <1>1, <1>2, <1>3 DEF KernelInv, TypeOK
<1>5. TraceOrdered' /\ LastIsLatest'
  BY <1>1, <1>2, <1>3 DEF KernelInv, TraceOrdered, LastIsLatest
<1>6. PendingAhead'
  BY <1>1, <1>2, <1>3 DEF PendingAhead
<1>7. ExactlyOnce'
  BY <1>1, <1>2 DEF KernelInv, ExactlyOnce, Processed
<1> QED BY <1>4, <1>5, <1>6, <1>7 DEF KernelInv

\* A dispatch appends the event to the trace, which it comes after, and adds
\* follow-ups that are new and come after it.
LEMMA DispatchKeeps ==
    ASSUME KernelInv, NEW e \in heap, NEW followups \in Followups, Dispatch(e, followups)
    PROVE  KernelInv'
<1> DEFINE n   == AcceptedPrefix(e, followups)
           new == {followups[i] : i \in 1..n}
<1>1. /\ heap' = (heap \ {e}) \cup new /\ known' = known \cup new
      /\ until' \in {-1, until}
      /\ now' = e.tick /\ last' = <<e>> /\ trace' = Append(trace, e)
      /\ UNCHANGED <<handlers, lost>>
  BY DEF Dispatch
<1>2. /\ e \in Events /\ e.tick \in Nat
      /\ e \in known /\ e \notin Processed /\ e \notin lost
      /\ \A i \in DOMAIN trace : Before(trace[i], e)
      /\ \A h \in heap \ {e} : Before(e, h) /\ h.tick >= e.tick
  BY PoppedAfterTrace DEF Dispatch
<1>3. \A h \in new : h \in Events /\ h.tick >= e.tick /\ Before(e, h) /\ h \notin known
  BY <1>2, FollowupsAccepted
<1> HIDE DEF new
<1>4. /\ last' # <<>> /\ last'[1] = e /\ last' \in [1..1 -> Events]
      /\ trace \in Seq(Events) /\ trace' \in Seq(Events)
      /\ Len(trace') = Len(trace) + 1 /\ Len(trace) \in Nat
      /\ DOMAIN trace = 1..Len(trace) /\ DOMAIN trace' = 1..(Len(trace) + 1)
      /\ \A i \in DOMAIN trace : trace'[i] = trace[i]
      /\ trace'[Len(trace) + 1] = e
  BY <1>1, <1>2 DEF KernelInv, TypeOK
<1>5. TypeOK'
  BY <1>1, <1>2, <1>3, <1>4 DEF KernelInv, TypeOK
<1>6. TraceOrdered'
  <2> SUFFICES ASSUME NEW i \in DOMAIN trace', NEW j \in DOMAIN trace', i < j
               PROVE  Before(trace'[i], trace'[j])
    BY DEF TraceOrdered
  <2>1. i \in DOMAIN trace
    BY <1>4
  <2>2. CASE j \in DOMAIN trace
    BY <1>4, <2>1, <2>2 DEF KernelInv, TraceOrdered
  <2>3. CASE j = Len(trace) + 1
    BY <1>2, <1>4, <2>1, <2>3
  <2> QED BY <1>4, <2>2, <2>3
<1>7. LastIsLatest'
  <2> SUFFICES ASSUME NEW i \in DOMAIN trace'
               PROVE  trace'[i] = e \/ Before(trace'[i], e)
    BY <1>4 DEF LastIsLatest
  <2>1. i \in DOMAIN trace \/ i = Len(trace) + 1
    BY <1>4
  <2> QED BY <1>2, <1>4, <2>1
<1>8. PendingAhead'
  BY <1>1, <1>2, <1>3, <1>4 DEF PendingAhead
<1>9. ExactlyOnce'
  <2>1. Processed' = Processed \cup {e}
    BY <1>4 DEF Processed
  <2>2. /\ known' = heap' \cup Processed' \cup lost'
        /\ heap' \cap Processed' = {} /\ heap' \cap lost' = {}
        /\ Processed' \cap lost' = {}
    BY <1>1, <1>2, <1>3, <2>1 DEF KernelInv, ExactlyOnce
  <2>3. ASSUME NEW i \in DOMAIN trace', NEW j \in DOMAIN trace', trace'[i] = trace'[j], i # j
        PROVE  FALSE
    <3>1. i < j \/ j < i
      BY <1>4, <2>3
    <3>2. Before(trace'[i], trace'[i])
      BY <1>6, <2>3, <3>1 DEF TraceOrdered
    <3>3. trace'[i] \in Events
      BY <1>4
    <3> QED BY <3>2, <3>3, BeforeIrreflexive
  <2> QED BY <2>2, <2>3 DEF ExactlyOnce
<1> QED BY <1>5, <1>6, <1>7, <1>8, <1>9 DEF KernelInv

\* run() returning moves the clock to its stop tick, short of what is pending.
LEMMA FinishRunKeeps ==
    ASSUME KernelInv, FinishRun
    PROVE  KernelInv'
<1>1. /\ \A h \in heap : h.tick > until
      /\ now' = until /\ until' = -1 /\ until \in Nat
      /\ UNCHANGED <<heap, known, handlers, trace, last, lost>>
  BY DEF FinishRun, Running, KernelInv, TypeOK
<1>2. TypeOK'
  BY <1>1 DEF KernelInv, TypeOK
<1>3. TraceOrdered' /\ LastIsLatest' /\ ExactlyOnce'
  BY <1>1 DEF KernelInv, TraceOrdered, LastIsLatest, ExactlyOnce, Processed
<1>4. PendingAhead'
  <2>1. \A h \in heap : h.tick \in Nat
    BY EventFields DEF KernelInv, TypeOK
  <2> QED BY <1>1, <2>1 DEF KernelInv, PendingAhead
<1> QED BY <1>2, <1>3, <1>4 DEF KernelInv

\* KernelInv is an inductive invariant: every reachable state satisfies it.
THEOREM KernelInvariance == Spec => []KernelInv
<1>1. Init => KernelInv
  BY DEF Init, KernelInv, TypeOK, TraceOrdered, PendingAhead, ExactlyOnce, Processed,
         LastIsLatest
<1>2. KernelInv /\ [Next]_vars => KernelInv'
  <2> SUFFICES ASSUME KernelInv, [Next]_vars PROVE KernelInv'
    OBVIOUS
  <2>1. ASSUME NEW k \in Kinds, RegisterHandler(k) PROVE KernelInv'
    BY <2>1 DEF RegisterHandler, KernelInv, TypeOK, TraceOrdered, PendingAhead,
                ExactlyOnce, Processed, LastIsLatest
  <2>2. ASSUME NEW e \in Events, Schedule(e) PROVE KernelInv'
    BY <2>2, ScheduleKeeps
  <2>3. ASSUME NEW stop \in 0..MaxUntil, StartRun(stop) PROVE KernelInv'
    BY <2>3, KernelAssumption
       DEF StartRun, KernelInv, TypeOK, TraceOrdered, PendingAhead, ExactlyOnce,
           Processed, LastIsLatest
  <2>4. ASSUME NEW e \in heap, DispatchUnhandled(e) PROVE KernelInv'
    BY <2>4, DispatchUnhandledKeeps
  <2>5. ASSUME NEW e \in heap, HandlerRaises(e) PROVE KernelInv'
    BY <2>5, HandlerRaisesKeeps
  <2>6. ASSUME NEW e \in heap, NEW f \in Followups, Dispatch(e, f) PROVE KernelInv'
    BY <2>6, DispatchKeeps
  <2>7. ASSUME FinishRun PROVE KernelInv'
    BY <2>7, FinishRunKeeps
  <2>8. CASE UNCHANGED vars
    BY <2>8 DEF vars, KernelInv, TypeOK, TraceOrdered, PendingAhead, ExactlyOnce,
                Processed, LastIsLatest
  <2> QED BY <2>1, <2>2, <2>3, <2>4, <2>5, <2>6, <2>7, <2>8 DEF Next
<1> QED BY <1>1, <1>2, PTL DEF Spec

\* The state of DeterministicKernel keeps its types.
THEOREM KernelTypes == Spec => []TypeOK
<1>1. KernelInv => TypeOK
  BY DEF KernelInv
<1> QED BY <1>1, KernelInvariance, PTL

\* The trace is strictly increasing in the complete order, for any events,
\* handlers, failures and sequence of runs.
THEOREM TraceIsOrdered == Spec => []TraceOrdered
<1>1. KernelInv => TraceOrdered
  BY DEF KernelInv
<1> QED BY <1>1, KernelInvariance, PTL

\* Nothing pending lies behind the clock or the last event dispatched, so the
\* non-monotonic output error of run() is unreachable.
THEOREM NothingPendingBehind == Spec => []PendingAhead
<1>1. KernelInv => PendingAhead
  BY DEF KernelInv
<1> QED BY <1>1, KernelInvariance, PTL

\* Every accepted event is pending, processed once, or lost with its handler.
THEOREM EventsProcessedOnce == Spec => []ExactlyOnce
<1>1. KernelInv => ExactlyOnce
  BY DEF KernelInv
<1> QED BY <1>1, KernelInvariance, PTL

\* A run that returns has dispatched all that was accepted up to its stop.
THEOREM RunsReachTheirStop == Spec => RunReachesStop
<1> DEFINE Returns == Running /\ ~Running' /\ now' = until /\ trace' = trace
                      /\ lost' = lost
           Dispatched == \A e \in known : e.tick <= until => e \in Processed \cup lost
<1>1. KernelInv /\ [Next]_vars => [Returns => Dispatched]_vars
  <2> SUFFICES ASSUME KernelInv, Next, Returns PROVE Dispatched
    OBVIOUS
  <2>1. ASSUME NEW e \in heap, lost' = lost \cup {e} PROVE FALSE
    BY <2>1 DEF KernelInv, ExactlyOnce
  <2>2. ASSUME NEW e \in heap, trace' = Append(trace, e) PROVE FALSE
    <3>1. trace \in Seq(Events) /\ e \in Events
      BY DEF KernelInv, TypeOK
    <3>2. Len(Append(trace, e)) = Len(trace) + 1 /\ Len(trace) \in Nat
      BY <3>1
    <3> QED BY <2>2, <3>2
  <2>3. CASE FinishRun
    <3>1. \A h \in heap : ~(h.tick <= until)
      <4>1. \A h \in heap : h.tick \in Nat /\ h.tick > until
        BY <2>3, EventFields DEF FinishRun, KernelInv, TypeOK
      <4>2. until \in Nat \cup {-1}
        BY DEF KernelInv, TypeOK
      <4> QED BY <4>1, <4>2
    <3> QED BY <3>1 DEF KernelInv, ExactlyOnce
  <2>4. ASSUME NEW e \in heap, DispatchUnhandled(e) \/ HandlerRaises(e) PROVE FALSE
    BY <2>1, <2>4 DEF DispatchUnhandled, HandlerRaises
  <2>5. ASSUME NEW e \in heap, NEW f \in Followups, Dispatch(e, f) PROVE FALSE
    BY <2>2, <2>5 DEF Dispatch
  <2>6. ASSUME NEW k \in Kinds, RegisterHandler(k) PROVE FALSE
    BY <2>6 DEF RegisterHandler
  <2>7. ASSUME NEW e \in Events, Schedule(e) PROVE FALSE
    BY <2>7 DEF Schedule
  <2>8. ASSUME NEW stop \in 0..MaxUntil, StartRun(stop) PROVE FALSE
    BY <2>8 DEF StartRun
  <2> QED BY <2>3, <2>4, <2>5, <2>6, <2>7, <2>8 DEF Next
<1> QED BY <1>1, KernelInvariance, PTL DEF Spec, RunReachesStop

-----------------------------------------------------------------------------
(* The queue: its invariant.                                              *)

SoundInv ==
    /\ Sound(queue)
    /\ drawn \in [queue.known -> [Packets -> Nat]]

\* The empty queue of the constructor is sound.
LEMMA InitSound == QueueInit => SoundInv
<1> SUFFICES ASSUME QueueInit PROVE SoundInv
  OBVIOUS
<1> USE DEF EmptyQueue
<1>1. queue = EmptyQueue /\ queue \in QueueState
  BY PacketsFinite DEF QueueInit, QueueState, Causes, Ticks
<1>2. Known(queue) = {} /\ queue.active = {}
  BY <1>1 DEF Known
<1>3. ActiveMatches(queue) /\ RemainingBounded(queue) /\ RanksDistinct(queue)
  <2>1. \A p \in Packets : queue.cause[p] = "absent" /\ queue.remaining[p] = 0
    BY <1>1
  <2>2. \A p \in Packets : Payload[p] \in Nat
    BY PacketsFinite
  <2> QED BY <1>2, <2>1, <2>2 DEF ActiveMatches, RemainingBounded, RanksDistinct
<1>4. OfferedCounted(queue)
  BY <1>1, <1>2, FS_EmptySet DEF OfferedCounted
<1>5. CachedOccupancy(queue) /\ ServiceAccounted(queue)
  <2>1. ASSUME NEW f
        PROVE  BitsOf({}, f) = 0
    <3> DEFINE none == [p \in Packets |-> IF p \in {} THEN f[p] ELSE 0]
    <3>1. \A p \in 1..NumPackets : none[p] = 0
      BY PacketsFinite
    <3> HIDE DEF none
    <3>2. Sum(none, NumPackets) = 0
      BY <3>1, SumZero, PacketsFinite
    <3> QED BY <3>2 DEF BitsOf, Total, none
  <2> QED BY <1>1, <1>2, <2>1 DEF CachedOccupancy, ServiceAccounted
<1>6. drawn \in [queue.known -> [Packets -> Nat]]
  BY <1>1 DEF QueueInit
<1> QED BY <1>1, <1>3, <1>4, <1>5, <1>6 DEF Sound, SoundInv

\* Every command preserves the invariant, whether it succeeds or raises.
LEMMA NextSound == SoundInv /\ [QueueNext]_queueVars => SoundInv'
<1> SUFFICES ASSUME SoundInv, [QueueNext]_queueVars PROVE SoundInv'
  OBVIOUS
<1>0. /\ Sound(queue) /\ queue.known \in SUBSET Reservation
      /\ drawn \in [queue.known -> [Packets -> Nat]]
      /\ CommandTicks \subseteq Ticks /\ Capacities \subseteq Int
  BY BoundAssumption DEF SoundInv, Sound, QueueState, CommandTicks, Capacities, Ticks
<1>1. ASSUME NEW t \in CommandTicks, NEW p \in Packets, NEW belongs \in BOOLEAN,
             EnqueuePacket(t, p, belongs)
      PROVE  SoundInv'
  <2>1. Sound(queue') /\ queue'.known = queue.known
    <3>1. Sound(queue')
      BY <1>0, <1>1, EnqueueSound DEF EnqueuePacket
    <3>2. queue'.known = queue.known
      BY <1>0, <1>1 DEF EnqueuePacket, Enqueue, Recorded, Stamp, Sound, QueueState
    <3> QED BY <3>1, <3>2
  <2> QED BY <1>0, <1>1, <2>1 DEF EnqueuePacket, SoundInv
<1>2. ASSUME NEW t \in CommandTicks, NEW c \in Capacities, ApplyService(t, c)
      PROVE  SoundInv'
  <2>1. Sound(queue')
    BY <1>0, <1>2, ServeSound DEF ApplyService
  <2>2. queue'.known = queue.known
    BY <1>0, <1>2 DEF ApplyService, Serve, Stamp, Consume, MarkFirst, Sound, QueueState
  <2> QED BY <1>0, <1>2, <2>1, <2>2 DEF ApplyService, SoundInv
<1>3. ASSUME NEW t \in CommandTicks, NEW p \in Packets, ExpirePacket(t, p)
      PROVE  SoundInv'
  <2>1. Sound(queue')
    BY <1>0, <1>3, ExpireSound DEF ExpirePacket
  <2>2. queue'.known = queue.known
    BY <1>0, <1>3 DEF ExpirePacket, Expire, Terminate, Stamp, Sound, QueueState
  <2> QED BY <1>0, <1>3, <2>1, <2>2 DEF ExpirePacket, SoundInv
<1>4. ASSUME NEW t \in CommandTicks, NEW p \in Packets, FailPacket(t, p)
      PROVE  SoundInv'
  <2>1. Sound(queue')
    BY <1>0, <1>4, FailSound DEF FailPacket
  <2>2. queue'.known = queue.known
    BY <1>0, <1>4 DEF FailPacket, Fail, Terminate, Stamp, Sound, QueueState
  <2> QED BY <1>0, <1>4, <2>1, <2>2 DEF FailPacket, SoundInv
<1>5. ASSUME NEW t \in CommandTicks, CensorQueue(t)
      PROVE  SoundInv'
  <2>1. Sound(queue')
    BY <1>0, <1>5, CensorSound DEF CensorQueue
  <2>2. queue'.known = queue.known
    BY <1>0, <1>5 DEF CensorQueue, Censor, Terminate, Stamp, Sound, QueueState
  <2> QED BY <1>0, <1>5, <2>1, <2>2 DEF CensorQueue, SoundInv
<1>6. ASSUME NEW s \in CommandTicks, NEW e \in CommandTicks, NEW c \in Capacities,
             ReserveService(s, e, c)
      PROVE  SoundInv'
  <2>1. Sound(queue')
    BY <1>0, <1>6, ReserveSound DEF ReserveService
  <2>2. drawn' \in [queue'.known -> [Packets -> Nat]]
    BY <1>0, <1>6 DEF ReserveService
  <2> QED BY <2>1, <2>2 DEF SoundInv
<1>7. ASSUME NEW r \in queue.known, CompleteReservedService(r)
      PROVE  SoundInv'
  <2>1. Sound(queue') /\ queue'.known = queue.known
    BY <1>0, <1>7, CompleteSound DEF CompleteReservedService
  <2>2. Drawn(queue, r) \in [Packets -> Nat]
    BY <1>0, DrawnDrawable DEF Drawable
  <2>3. drawn' \in [queue.known -> [Packets -> Nat]]
    <3> DEFINE more == [p \in Packets |-> drawn[r][p] + Drawn(queue, r)[p]]
    <3>1. more \in [Packets -> Nat]
      BY <1>0, <2>2
    <3>2. drawn' = drawn \/ drawn' = [drawn EXCEPT ![r] = more]
      BY <1>7 DEF CompleteReservedService
    <3> HIDE DEF more
    <3> QED BY <1>0, <3>1, <3>2
  <2> QED BY <2>1, <2>3 DEF SoundInv
<1>8. ASSUME NEW t \in CommandTicks, CompleteForeignReservation(t)
      PROVE  SoundInv'
  <2>1. Sound(queue') /\ queue'.known = queue.known
    BY <1>0, <1>8, StampKeeps DEF CompleteForeignReservation
  <2> QED BY <1>0, <1>8, <2>1 DEF CompleteForeignReservation, SoundInv
<1>9. CASE UNCHANGED queueVars
  BY <1>9 DEF SoundInv, queueVars, Sound, ActiveMatches, RemainingBounded, RanksDistinct,
              OfferedCounted, CachedOccupancy, ServiceAccounted, Known
<1> QED BY <1>1, <1>2, <1>3, <1>4, <1>5, <1>6, <1>7, <1>8, <1>9 DEF QueueNext

\* The inductive invariant holds in every reachable state.
THEOREM QueueInvariance == QueueSpec => []SoundInv
BY InitSound, NextSound, PTL DEF QueueSpec

\* Every field of the queue keeps its type: in particular no count of bits
\* ever goes below zero, in any packet, in the occupancy or in a plan.
THEOREM TypeCorrect == QueueSpec => []QueueTypeOK
<1>1. SoundInv => QueueTypeOK
  BY DEF SoundInv, QueueTypeOK, Sound
<1> QED BY <1>1, QueueInvariance, PTL

\* The ledger reconciles in every state, for any mixture of commands: the
\* cached occupancy, the service total and the columns of QueueLedger are
\* the sums over the packets that they stand for (QOS-001, QOS-002).
THEOREM LedgerHolds == QueueSpec => []Ledger
<1>1. SoundInv => Ledger
  BY SoundReconciles DEF SoundInv, Ledger, Sound
<1> QED BY <1>1, QueueInvariance, PTL

-----------------------------------------------------------------------------
(* The refinement.                                                         *)

\* The packets of the line, seen through the refinement mapping.
LEMMA LineIsActive ==
    ASSUME Sound(queue)
    PROVE  /\ L!Line = queue.active
           /\ queue.remaining \in [Packets -> Nat] /\ queue.cause \in [Packets -> Causes]
           /\ queue.rank \in [Packets -> Nat]
           /\ RanksDistinct(queue)
BY DEF L!Line, Sound, ActiveMatches, QueueState

\* A step of a queue value is a step of the abstract line.
LEMMA StepImplements ==
    ASSUME SoundInv, SoundInv',
           \/ Unmoved(queue, queue') \/ Transmits(queue, queue') \/ Removes(queue, queue')
           \/ \E p \in Packets : Joins(queue, queue', p)
    PROVE  [L!Next]_(L!vars)
<1>1. /\ L!Line = queue.active
      /\ queue.remaining \in [Packets -> Nat] /\ queue.cause \in [Packets -> Causes]
      /\ queue.rank \in [Packets -> Nat]
      /\ RanksDistinct(queue)
  BY LineIsActive DEF SoundInv
<1>2. /\ queue'.remaining \in [Packets -> Nat] /\ queue'.cause \in [Packets -> Causes]
      /\ queue'.rank \in [Packets -> Nat]
  BY DEF SoundInv, Sound, QueueState
<1>3. CASE Unmoved(queue, queue')
  BY <1>3 DEF Unmoved, L!vars
<1>4. CASE Transmits(queue, queue')
  <2>1. queue'.remaining = [p \in Packets |-> queue'.remaining[p]]
    BY <1>2
  <2>2. queue'.cause = [p \in Packets |->
            IF p \in L!Line /\ queue'.remaining[p] = 0 THEN "completed" ELSE queue.cause[p]]
    BY <1>1, <1>2, <1>4 DEF Transmits
  <2>3. \A p \in Packets : queue'.remaining[p] # queue.remaining[p] =>
            /\ p \in L!Line
            /\ queue'.remaining[p] \in 0..queue.remaining[p]
            /\ \A o \in L!Line : queue.rank[o] < queue.rank[p] => queue'.remaining[o] = 0
    BY <1>1, <1>4 DEF Transmits, Ahead
  <2>4. L!Transmit
    BY <1>4, <2>1, <2>2, <2>3 DEF L!Transmit, Transmits
  <2> QED BY <2>4 DEF L!Next
<1>5. CASE Removes(queue, queue')
  <2>1. queue'.cause = [p \in Packets |-> queue'.cause[p]]
    BY <1>2
  <2>2. \A p \in Packets : queue'.cause[p] # queue.cause[p] =>
            p \in L!Line /\ queue'.cause[p] \in L!Lost
    BY <1>1, <1>5 DEF Removes, Terminal, L!Lost
  <2>3. L!Remove
    BY <1>5, <2>1, <2>2 DEF L!Remove, Removes
  <2> QED BY <2>3 DEF L!Next
<1>6. CASE \E p \in Packets : Joins(queue, queue', p)
  <2>1. PICK p \in Packets : Joins(queue, queue', p)
    BY <1>6
  <2>2. queue'.rank = [queue.rank EXCEPT ![p] = queue'.rank[p]]
    BY <1>1, <2>1 DEF Joins
  <2>3. \A o \in L!Line : queue.rank[o] < queue'.rank[p]
    <3>1. \A o \in queue.active : o \in Known(queue) /\ o \in Packets
      BY DEF SoundInv, Sound, ActiveMatches, Known
    <3>2. queue'.rank[p] = queue.offered
      BY <1>1, <2>1 DEF Joins
    <3> QED BY <1>1, <3>1, <3>2 DEF RanksDistinct
  <2>4. L!Admit(p) \/ L!Refuse(p)
    BY <2>1, <2>2, <2>3 DEF L!Admit, L!Refuse, Joins
  <2> QED BY <2>4 DEF L!Next
<1> QED BY <1>3, <1>4, <1>5, <1>6

\* Every command is a step of the line, and keeps the promises of the
\* reservations.
LEMMA NextSteps ==
    ASSUME SoundInv, FifoReservations(queue), [QueueNext]_queueVars
    PROVE  /\ FifoReservations(queue')
           /\ \/ Unmoved(queue, queue') \/ Transmits(queue, queue')
              \/ Removes(queue, queue') \/ \E p \in Packets : Joins(queue, queue', p)
<1>0. /\ Sound(queue)
      /\ CommandTicks \subseteq Ticks /\ Capacities \subseteq Int
  BY BoundAssumption DEF SoundInv, CommandTicks, Capacities, Ticks
<1>1. ASSUME NEW t \in CommandTicks, NEW p \in Packets, NEW belongs \in BOOLEAN,
             EnqueuePacket(t, p, belongs)
      PROVE  FifoReservations(queue') /\ (Unmoved(queue, queue') \/ Joins(queue, queue', p))
  BY <1>0, <1>1, EnqueueJoins DEF EnqueuePacket
<1>2. ASSUME NEW t \in CommandTicks, NEW c \in Capacities, ApplyService(t, c)
      PROVE  FifoReservations(queue') /\ (Unmoved(queue, queue') \/ Transmits(queue, queue'))
  BY <1>0, <1>2, ServeTransmits DEF ApplyService
<1>3. ASSUME NEW t \in CommandTicks, NEW p \in Packets, ExpirePacket(t, p)
      PROVE  FifoReservations(queue') /\ (Unmoved(queue, queue') \/ Removes(queue, queue'))
  BY <1>0, <1>3, ExpireRemoves DEF ExpirePacket
<1>4. ASSUME NEW t \in CommandTicks, NEW p \in Packets, FailPacket(t, p)
      PROVE  FifoReservations(queue') /\ (Unmoved(queue, queue') \/ Removes(queue, queue'))
  BY <1>0, <1>4, FailRemoves DEF FailPacket
<1>5. ASSUME NEW t \in CommandTicks, CensorQueue(t)
      PROVE  FifoReservations(queue') /\ (Unmoved(queue, queue') \/ Removes(queue, queue'))
  BY <1>0, <1>5, CensorRemoves DEF CensorQueue
<1>6. ASSUME NEW s \in CommandTicks, NEW e \in CommandTicks, NEW c \in Capacities,
             ReserveService(s, e, c)
      PROVE  FifoReservations(queue') /\ Unmoved(queue, queue')
  BY <1>0, <1>6, ReserveUnmoved DEF ReserveService
<1>7. ASSUME NEW r \in queue.known, CompleteReservedService(r)
      PROVE  FifoReservations(queue') /\ (Unmoved(queue, queue') \/ Transmits(queue, queue'))
  BY <1>0, <1>7, CompleteTransmits DEF CompleteReservedService
<1>8. ASSUME NEW t \in CommandTicks, CompleteForeignReservation(t)
      PROVE  FifoReservations(queue') /\ Unmoved(queue, queue')
  BY <1>0, <1>8, StampUnmoved DEF CompleteForeignReservation, Unmoved
<1>9. CASE UNCHANGED queueVars
  BY <1>9 DEF queueVars, Unmoved, FifoReservations
<1> QED BY <1>1, <1>2, <1>3, <1>4, <1>5, <1>6, <1>7, <1>8, <1>9 DEF QueueNext

\* A bearer queue behaves as the abstract line of packets, under every order
\* of commands and whatever the reservations it is asked to realise.
THEOREM QueueImplementsLine == QueueSpec => Implements
<1>1. QueueInit => L!Init /\ FifoReservations(queue)
  BY DEF QueueInit, EmptyQueue, L!Init, FifoReservations
<1>2. SoundInv /\ SoundInv' /\ FifoReservations(queue) /\ [QueueNext]_queueVars
         => [L!Next]_(L!vars) /\ FifoReservations(queue)'
  <2> SUFFICES ASSUME SoundInv, SoundInv', FifoReservations(queue), [QueueNext]_queueVars
               PROVE  [L!Next]_(L!vars) /\ FifoReservations(queue)'
    OBVIOUS
  <2>1. FifoReservations(queue')
    BY NextSteps
  <2>2. [L!Next]_(L!vars)
    BY NextSteps, StepImplements
  <2> QED BY <2>1, <2>2
<1> QED BY <1>1, <1>2, QueueInvariance, PTL DEF QueueSpec, Implements, L!Spec

-----------------------------------------------------------------------------
(* Reservations.                                                           *)

\* Of a reservation not yet completed, what has been drawn exhausted its
\* packet.
DrawnOnce ==
    \A r \in queue.known : \A p \in Packets :
        /\ drawn[r][p] <= r.items[p]
        /\ r \notin queue.done => drawn[r][p] = 0 \/ queue.remaining[p] = 0

QInv == SoundInv /\ FifoReservations(queue) /\ Orderly(queue) /\ DrawnOnce

\* Only a completion draws or closes a reservation; a new one has drawn
\* nothing.
LEMMA OthersDrawNothing ==
    ASSUME QInv, SoundInv',
           \/ Unmoved(queue, queue') \/ Transmits(queue, queue') \/ Removes(queue, queue')
           \/ \E p \in Packets : Joins(queue, queue', p),
           queue.known \subseteq queue'.known, queue.done \subseteq queue'.done,
           \A r \in queue'.known : \A p \in Packets :
               drawn'[r][p] = IF r \in queue.known THEN drawn[r][p] ELSE 0
    PROVE  DrawnOnce'
<1> SUFFICES ASSUME NEW r \in queue'.known, NEW p \in Packets
             PROVE  /\ drawn'[r][p] <= r.items[p]
                    /\ r \notin queue'.done => drawn'[r][p] = 0 \/ queue'.remaining[p] = 0
  BY DEF DrawnOnce
<1>1. Sound(queue) /\ Sound(queue')
  BY DEF QInv, SoundInv
<1>2. CASE r \in queue.known
  <2>1. /\ drawn'[r][p] = drawn[r][p] /\ drawn[r][p] <= r.items[p]
        /\ r \notin queue.done => drawn[r][p] = 0 \/ queue.remaining[p] = 0
    BY <1>2 DEF QInv, DrawnOnce
  <2>2. /\ drawn[r][p] \in Nat /\ r.items[p] \in Nat
        /\ r.items[p] # 0 => queue.cause[p] # "absent"
    BY <1>1, <1>2, Parts DEF QInv, SoundInv, Orderly, Visible
  <2>3. ASSUME drawn[r][p] # 0, queue.remaining[p] = 0 PROVE queue'.remaining[p] = 0
    BY <1>1, <2>1, <2>2, <2>3, ExhaustedStays
  <2> QED BY <2>1, <2>2, <2>3
<1>3. CASE r \notin queue.known
  BY <1>1, <1>3, Parts
<1> QED BY <1>2, <1>3

\* A completion, first or retried, takes each item once: one that was
\* realised before it raised has nothing left to take.
LEMMA CompleteDrawsOnce ==
    ASSUME QInv, SoundInv', NEW r \in queue.known, CompleteReservedService(r)
    PROVE  DrawnOnce'
<1> DEFINE bits == Drawn(queue, r)
           t == r.completion
<1>1. /\ Sound(queue) /\ FifoReservations(queue) /\ DrawnOnce
      /\ drawn \in [queue.known -> [Packets -> Nat]]
      /\ r \in Reservation /\ t \in Ticks /\ r.items \in [Packets -> Nat]
  BY Parts DEF QInv, SoundInv, Ticks
<1>2. queue' = Complete(queue, r)
  BY DEF CompleteReservedService
<1>3. queue'.known = queue.known
  BY <1>1, <1>2, CompleteSound
<1>4. Sound(queue') /\ (Unmoved(queue, queue') \/ Transmits(queue, queue'))
  BY <1>1, <1>2, CompleteTransmits DEF SoundInv
<1>5. CASE StaleTick(queue, t) \/ CompleteRejected(queue, r)
  <2>1. drawn' = drawn
    BY <1>5 DEF CompleteReservedService
  <2>2. queue'.done = queue.done
    <3>1. queue' = queue \/ queue' = Stamp(queue, t)
      BY <1>2, <1>5 DEF Complete
    <3> QED BY <1>1, <3>1, StampKeeps
  <2> QED BY <1>3, <1>4, <2>1, <2>2, OthersDrawNothing DEF QInv, SoundInv
<1>6. CASE ~(StaleTick(queue, t) \/ CompleteRejected(queue, r))
  <2>1. r \notin queue.done
    BY <1>6 DEF CompleteRejected
  <2>2. drawn' = [drawn EXCEPT ![r] = [p \in Packets |-> drawn[r][p] + bits[p]]]
    BY <1>6 DEF CompleteReservedService
  <2>3. /\ queue'.done = IF Disturbed(queue, r) = {} THEN queue.done \cup {r} ELSE queue.done
        /\ queue'.remaining = [p \in Packets |-> queue.remaining[p] - bits[p]]
    <3>1. /\ Sound(Stamp(queue, t)) /\ Stamp(queue, t).done = queue.done
          /\ Stamp(queue, t).remaining = queue.remaining
      BY <1>1, StampKeeps
    <3>2. queue' = [Consume(Stamp(queue, t), t, bits)
                       EXCEPT !.done = IF Disturbed(queue, r) = {} THEN @ \cup {r} ELSE @]
      BY <1>2, <1>6 DEF Complete
    <3> HIDE DEF bits, t
    <3> QED BY <3>1, <3>2 DEF Consume, Sound, QueueState
  <2>4. Drawable(queue, bits)
    BY <1>1, DrawnDrawable
  <2>5. \A p \in Packets : /\ bits[p] = 0 \/ bits[p] = r.items[p]
                           /\ bits[p] # 0 => queue.cause[p] = "active"
    BY <1>1, <2>4, Parts DEF Drawn, UpTo, Drawable
  <2>6. ASSUME NEW p \in Packets, bits[p] # 0, Disturbed(queue, r) # {}
        PROVE  queue'.remaining[p] = 0
    <3>1. /\ ~\E b \in Disturbed(queue, r) : queue.rank[b] <= queue.rank[p]
          /\ bits[p] = r.items[p]
      BY <2>5, <2>6 DEF Drawn, UpTo
    <3>2. PICK b \in Packets : b \in Disturbed(queue, r)
      BY <2>6 DEF Disturbed
    <3>3. r.items[b] # 0 /\ queue.cause[b] \notin Terminal
      BY <1>1, <3>2 DEF Disturbed
    <3>4. /\ b \in Known(queue)
          /\ \A o \in Ahead(queue, b) : queue.remaining[o] <= r.items[o]
      BY <1>1, <3>3 DEF FifoReservations
    <3>5. p \in Ahead(queue, b)
      <4>1. p \in queue.active /\ queue.rank[p] \in Nat /\ queue.rank[b] \in Nat
        BY <1>1, <2>4, <2>6 DEF Drawable, Sound, QueueState
      <4> QED BY <3>1, <3>2, <4>1 DEF Ahead
    <3>6. queue.remaining[p] <= bits[p] /\ bits[p] <= queue.remaining[p]
      BY <2>4, <2>6, <3>1, <3>4, <3>5 DEF Drawable
    <3>7. queue.remaining[p] \in Nat /\ bits[p] \in Nat
      BY <1>1, <2>4, Parts DEF Drawable
    <3> HIDE DEF bits
    <3> QED BY <2>3, <3>6, <3>7
  <2> HIDE DEF bits
  <2>7. ASSUME NEW p \in Packets
        PROVE  /\ drawn'[r][p] <= r.items[p]
               /\ r \notin queue'.done => drawn'[r][p] = 0 \/ queue'.remaining[p] = 0
    <3>1. /\ drawn'[r][p] = drawn[r][p] + bits[p]
          /\ drawn[r][p] \in Nat /\ bits[p] \in Nat /\ r.items[p] \in Nat
          /\ drawn[r][p] <= r.items[p]
          /\ drawn[r][p] = 0 \/ queue.remaining[p] = 0
          /\ bits[p] <= queue.remaining[p] \/ bits[p] = 0
      BY <1>1, <2>1, <2>2, <2>4 DEF DrawnOnce, Drawable
    <3>2. CASE bits[p] = 0
      <4>1. queue'.remaining[p] = queue.remaining[p]
        BY <1>1, <2>3, <3>2, Parts
      <4> QED BY <3>1, <3>2, <4>1
    <3>3. CASE bits[p] # 0
      <4>1. drawn[r][p] = 0 /\ drawn'[r][p] = r.items[p]
        BY <1>1, <2>5, <3>1, <3>3, Parts
      <4>2. r \notin queue'.done => queue'.remaining[p] = 0
        BY <2>3, <2>6, <3>3
      <4> QED BY <3>1, <4>1, <4>2
    <3> QED BY <3>2, <3>3
  <2>8. ASSUME NEW x \in queue.known, x # r, NEW p \in Packets
        PROVE  /\ drawn'[x][p] <= x.items[p]
               /\ x \notin queue'.done => drawn'[x][p] = 0 \/ queue'.remaining[p] = 0
    <3>1. /\ drawn'[x] = drawn[x]
          /\ drawn[x][p] <= x.items[p] /\ drawn[x][p] \in Nat /\ x.items[p] \in Nat
          /\ x \notin queue.done => drawn[x][p] = 0 \/ queue.remaining[p] = 0
      BY <1>1, <2>2, <2>8, Parts DEF DrawnOnce
    <3>2. x \notin queue'.done => x \notin queue.done
      BY <2>3
    <3>3. ASSUME queue.remaining[p] = 0 PROVE queue'.remaining[p] = 0
      BY <1>1, <2>3, <2>4, <3>3, Parts DEF Drawable
    <3> QED BY <3>1, <3>2, <3>3
  <2> QED BY <1>3, <2>7, <2>8 DEF DrawnOnce
<1> QED BY <1>5, <1>6

-----------------------------------------------------------------------------
(* The invariant.                                                          *)

\* The empty queue.
LEMMA InitQInv == QueueInit => QInv
<1> SUFFICES ASSUME QueueInit PROVE QInv
  OBVIOUS
<1>1. SoundInv
  BY InitSound
<1>2. /\ queue.known = {} /\ queue.active = {} /\ queue.queued = 0
      /\ \A p \in Packets : /\ queue.cause[p] = "absent"
                            /\ queue.first[p] = NoTick /\ queue.terminal[p] = NoTick
  BY DEF QueueInit, EmptyQueue
<1>3. Cardinality(queue.active) = 0
  BY <1>2, FS_EmptySet
<1>4. Limited(queue)
  BY <1>2, <1>3, QueueAssumption DEF Limited
<1>5. Timely(queue) /\ Visible(queue) /\ DrawnOnce /\ FifoReservations(queue)
  BY <1>2 DEF Timely, PacketTimely, Visible, DrawnOnce, FifoReservations
<1> QED BY <1>1, <1>4, <1>5 DEF QInv, Orderly

\* Commands other than a completion draw nothing and close nothing.
LEMMA OtherCommands ==
    ASSUME QInv, [QueueNext]_queueVars, ~\E r \in queue.known : CompleteReservedService(r)
    PROVE  /\ queue.known \subseteq queue'.known /\ queue'.done = queue.done
           /\ \A r \in queue'.known : \A p \in Packets :
                  drawn'[r][p] = IF r \in queue.known THEN drawn[r][p] ELSE 0
<1>0. /\ Sound(queue) /\ drawn \in [queue.known -> [Packets -> Nat]]
      /\ CommandTicks \subseteq Ticks /\ Capacities \subseteq Int
  BY BoundAssumption DEF QInv, SoundInv, CommandTicks, Capacities, Ticks
<1> DEFINE Same == queue'.known = queue.known /\ queue'.done = queue.done /\ drawn' = drawn
<1>1. ASSUME NEW t \in CommandTicks, NEW p \in Packets, NEW belongs \in BOOLEAN,
             EnqueuePacket(t, p, belongs)
      PROVE  Same
  BY <1>0, <1>1 DEF EnqueuePacket, Enqueue, Recorded, Stamp, Sound, QueueState
<1>2. ASSUME NEW t \in CommandTicks, NEW c \in Capacities, ApplyService(t, c)
      PROVE  Same
  BY <1>0, <1>2 DEF ApplyService, Serve, Stamp, Consume, MarkFirst, Sound, QueueState
<1>3. ASSUME NEW t \in CommandTicks, NEW p \in Packets, ExpirePacket(t, p)
      PROVE  Same
  BY <1>0, <1>3 DEF ExpirePacket, Expire, Terminate, Stamp, Sound, QueueState
<1>4. ASSUME NEW t \in CommandTicks, NEW p \in Packets, FailPacket(t, p)
      PROVE  Same
  BY <1>0, <1>4 DEF FailPacket, Fail, Terminate, Stamp, Sound, QueueState
<1>5. ASSUME NEW t \in CommandTicks, CensorQueue(t)
      PROVE  Same
  BY <1>0, <1>5 DEF CensorQueue, Censor, Terminate, Stamp, Sound, QueueState
<1>6. ASSUME NEW s \in CommandTicks, NEW e \in CommandTicks, NEW c \in Capacities,
             ReserveService(s, e, c)
      PROVE  /\ queue.known \subseteq queue'.known /\ queue'.done = queue.done
             /\ \A r \in queue'.known : \A p \in Packets :
                    drawn'[r][p] = IF r \in queue.known THEN drawn[r][p] ELSE 0
  <2>1. queue.known \subseteq queue'.known
    BY <1>0, <1>6, ReserveSound DEF ReserveService
  <2>2. queue'.done = queue.done
    BY <1>0, <1>6 DEF ReserveService, Reserve, MarkFirst, Stamp, Sound, QueueState
  <2>3. drawn' = [r \in queue'.known |->
                     IF r \in queue.known THEN drawn[r] ELSE [p \in Packets |-> 0]]
    BY <1>6 DEF ReserveService
  <2> QED BY <2>1, <2>2, <2>3
<1>7. ASSUME NEW t \in CommandTicks, CompleteForeignReservation(t)
      PROVE  Same
  BY <1>0, <1>7, StampKeeps DEF CompleteForeignReservation
<1>8. CASE UNCHANGED queueVars
  BY <1>8 DEF queueVars
<1> QED BY <1>1, <1>2, <1>3, <1>4, <1>5, <1>6, <1>7, <1>8 DEF QueueNext

\* Every command keeps the queue in order.
LEMMA NextOrderly ==
    ASSUME QInv, [QueueNext]_queueVars
    PROVE  Orderly(queue')
<1>0. /\ Sound(queue) /\ Orderly(queue)
      /\ CommandTicks \subseteq Ticks /\ Capacities \subseteq Int
  BY BoundAssumption DEF QInv, SoundInv, CommandTicks, Capacities, Ticks
<1>1. ASSUME NEW t \in CommandTicks, NEW p \in Packets, NEW belongs \in BOOLEAN,
             EnqueuePacket(t, p, belongs)
      PROVE  Orderly(queue')
  BY <1>0, <1>1, EnqueueOrderly DEF EnqueuePacket
<1>2. ASSUME NEW t \in CommandTicks, NEW c \in Capacities, ApplyService(t, c)
      PROVE  Orderly(queue')
  BY <1>0, <1>2, ServeOrderly DEF ApplyService
<1>3. ASSUME NEW t \in CommandTicks, NEW p \in Packets, ExpirePacket(t, p) \/ FailPacket(t, p)
      PROVE  Orderly(queue')
  BY <1>0, <1>3, RemovalOrderly DEF ExpirePacket, FailPacket
<1>4. ASSUME NEW t \in CommandTicks, CensorQueue(t)
      PROVE  Orderly(queue')
  <2>1. "censored_at_stop" \in Terminal \ {"completed"}
    BY DEF Terminal
  <2> QED BY <1>0, <1>4, <2>1, TerminateStamped DEF CensorQueue, Censor
<1>5. ASSUME NEW s \in CommandTicks, NEW e \in CommandTicks, NEW c \in Capacities,
             ReserveService(s, e, c)
      PROVE  Orderly(queue')
  BY <1>0, <1>5, ReserveOrderly DEF ReserveService
<1>6. ASSUME NEW r \in queue.known, CompleteReservedService(r)
      PROVE  Orderly(queue')
  BY <1>0, <1>6, CompleteOrderly DEF CompleteReservedService
<1>7. ASSUME NEW t \in CommandTicks, CompleteForeignReservation(t)
      PROVE  Orderly(queue')
  BY <1>0, <1>7, StampOrderly DEF CompleteForeignReservation
<1>8. CASE UNCHANGED queueVars
  BY <1>0, <1>8 DEF queueVars, Orderly, Timely, PacketTimely, Visible, Limited
<1> QED BY <1>1, <1>2, <1>3, <1>4, <1>5, <1>6, <1>7, <1>8 DEF QueueNext

\* The invariant holds in every reachable state.
THEOREM OrderlyInvariance == QueueSpec => []QInv
<1>1. QInv /\ SoundInv' /\ [QueueNext]_queueVars => QInv'
  <2> SUFFICES ASSUME QInv, SoundInv', [QueueNext]_queueVars PROVE QInv'
    OBVIOUS
  <2>1. Orderly(queue')
    BY NextOrderly
  <2>2. /\ FifoReservations(queue')
        /\ \/ Unmoved(queue, queue') \/ Transmits(queue, queue')
           \/ Removes(queue, queue') \/ \E p \in Packets : Joins(queue, queue', p)
    BY NextSteps DEF QInv
  <2>3. DrawnOnce'
    <3>1. CASE \E r \in queue.known : CompleteReservedService(r)
      BY <3>1, CompleteDrawsOnce
    <3>2. CASE ~\E r \in queue.known : CompleteReservedService(r)
      BY <2>2, <3>2, OtherCommands, OthersDrawNothing
    <3> QED BY <3>1, <3>2
  <2> QED BY <2>1, <2>2, <2>3 DEF QInv
<1> QED BY <1>1, InitQInv, QueueInvariance, PTL DEF QueueSpec

\* The configured bounds hold in every state.
THEOREM BoundsHold == QueueSpec => []WithinLimits
<1>1. QInv => WithinLimits
  BY DEF QInv, SoundInv, Sound, CachedOccupancy, Orderly, Limited, WithinLimits
<1> QED BY <1>1, OrderlyInvariance, PTL

\* Arrival, first service and end of a packet are in this order, only served
\* packets have lost bits, and exactly the ended ones have an end.
THEOREM TimelinesOrdered == QueueSpec => []TimelineOrdered
<1>1. QInv => TimelineOrdered
  BY DEF QInv, Orderly, Timely, PacketTimely, TimelineOrdered, Known
<1> QED BY <1>1, OrderlyInvariance, PTL

\* A reservation takes from a packet at most what it reserved there, however
\* often its completion is tried, and only from packets that were queued when
\* its slot began.
THEOREM ReservationsAreKept == QueueSpec => []ReservationsKept
<1>1. QInv => ReservationsKept
  <2> SUFFICES ASSUME QInv PROVE ReservationsKept
    OBVIOUS
  <2>1. DrawsAtMostReserved
    BY DEF QInv, DrawnOnce, DrawsAtMostReserved
  <2>2. ReservedOnlyVisible
    BY Parts DEF QInv, SoundInv, Orderly, Visible, ReservedOnlyVisible
  <2> QED BY <2>1, <2>2 DEF ReservationsKept
<1> QED BY <1>1, OrderlyInvariance, PTL
=============================================================================
