--------------------------- MODULE PipelineProofs ---------------------------
(***************************************************************************)
(* Proofs about the slotted simulations, static and dynamic.               *)
(*                                                                         *)
(* What the two share, the invariant PipelineInv and the steps of their    *)
(* common handlers, is in PacketProofs.  Here come the static pipeline and *)
(* its refinement of the kernel, and the dynamic pipeline, with three more *)
(* invariants: RadioInv, on the frames, the slots in service and the slots *)
(* reported; MotionInv, on where the UEs are on their paths; EstimateInv,  *)
(* on the estimates and what is allocated under them.  The reports of both *)
(* take BooksInv, on the intervals against the queues, and that of the     *)
(* dynamic one TransitionsInv, on the transitions against the frames.      *)
(***************************************************************************)
EXTENDS SlotPipeline, DynamicPipeline, PacketProofs

-----------------------------------------------------------------------------
(* The static pipeline.                                                    *)

\* The schedule laid out before the run satisfies the invariant.
LEMMA InitInv ==
    ASSUME NEW own, Init
    PROVE  PipelineInv(own)
BY StartInv DEF Init, InitialEvents

\* A scheduling handler gives capacity to UEs of its cell only.
LEMMA StaticCarries ==
    ASSUME NEW e, e.kind = "scheduling", NEW d \in ValidDecisions(Candidates(e.entity))
    PROVE  MayCarry(CellOf, e, [u \in Ues |-> Capacity[u][d[u]]])
<1> DEFINE carried == [u \in Ues |-> Capacity[u][d[u]]]
<1>1. ASSUME NEW u \in Ues
      PROVE  carried[u] \in Nat /\ (carried[u] > 0 => CellOf[u] = e.entity)
  <2>1. d[u] \in 0..Prbs /\ (d[u] > 0 => u \in Candidates(e.entity))
    BY DEF ValidDecisions
  <2>2. Capacity[u][d[u]] \in Nat /\ Capacity[u][0] = 0
    BY <2>1, StaticAssumption
  <2>3. d[u] = 0 \/ d[u] > 0
    BY <2>1, SlotAssumption
  <2> QED BY <2>1, <2>2, <2>3 DEF Candidates
<1> QED BY <1>1 DEF MayCarry

\* The steps of the static pipeline, by what they do to the queues.
LEMMA Steps ==
    ASSUME PipelineInv(CellOf), [Next]_vars
    PROVE  \/ \E e, b, s : Handled(e, b, s)
           \/ \E e \in heap : \E capacity, f :
                 /\ Pop(e, "scheduling") /\ MayCarry(CellOf, e, capacity)
                 /\ Committed(CellOf, e, f) /\ f.work.plan = PlanOf(capacity, e.tick)
           \/ \E e : Served(CellOf, e)
           \/ Finish
           \/ UNCHANGED vars
<1>1. CASE \E e \in heap : ArrivalHandler(e)
  BY <1>1, ArrivalKeeps
<1>2. CASE \E e \in heap : DeadlineHandler(e)
  BY <1>2, DeadlineKeeps
<1>3. CASE \E e \in heap : e.kind = "scheduling"
             /\ \E d \in ValidDecisions(Candidates(e.entity)) : SchedulingHandler(e, d)
  <2>1. PICK e \in heap : e.kind = "scheduling"
             /\ \E d \in ValidDecisions(Candidates(e.entity)) : SchedulingHandler(e, d)
    BY <1>3
  <2>2. PICK d \in ValidDecisions(Candidates(e.entity)) : SchedulingHandler(e, d)
    BY <2>1
  <2> DEFINE capacity == [u \in Ues |-> Capacity[u][d[u]]]
  <2>3. MayCarry(CellOf, e, capacity)
    BY <2>1, <2>2, StaticCarries
  <2>4. Pop(e, "scheduling") /\ Commit(e, Candidates(e.entity), d, capacity)
    BY <2>2 DEF SchedulingHandler
  <2> HIDE DEF capacity
  <2>5. \E f : Committed(CellOf, e, f) /\ f.work.plan = PlanOf(capacity, e.tick)
    BY <2>3, <2>4, CommitKeeps
  <2> QED BY <2>3, <2>4, <2>5
<1>4. CASE \E e \in heap : ServiceHandler(e, WithoutCapacity)
  BY <1>4, ServiceKeeps
<1>5. CASE \E e \in heap : CensorHandler(e)
  BY <1>5, CensorKeeps
<1> QED BY <1>1, <1>2, <1>3, <1>4, <1>5 DEF Next

\* Every step of the static pipeline preserves the invariant.
LEMMA NextInv ==
    ASSUME PipelineInv(CellOf), [Next]_vars
    PROVE  PipelineInv(CellOf)'
BY Steps, HandledInv, CommittedInv, ServedInv, FinishKeeps, StutterKeeps DEF vars

\* And so that the oldest packets are served first.
LEMMA NextOldest ==
    ASSUME PipelineInv(CellOf), OldestFirst, [Next]_vars
    PROVE  OldestFirst'
<1>1. CASE Finish \/ UNCHANGED vars
  BY <1>1 DEF Finish, vars, pipeline, OldestFirst
<1> QED BY <1>1, Steps, HandledOldest, CommittedOldest, ServedOldest

\* The invariant holds throughout every run of the static simulation.
THEOREM PipelineInvariant == Spec => []PipelineInv(CellOf)
<1>1. Init => PipelineInv(CellOf)
  BY InitInv
<1>2. PipelineInv(CellOf) /\ [Next]_vars => PipelineInv(CellOf)'
  BY NextInv
<1> QED BY <1>1, <1>2, PTL DEF Spec

\* No handler of the static simulation raises on the queues' account,
\* whatever the traffic, the policy and the capacities (NeverFails).
THEOREM PipelineNeverFails == Spec => []NeverFails
<1>1. PipelineInv(CellOf) => NeverFails
  BY InvGives
<1> QED BY <1>1, PipelineInvariant, PTL

\* Packets complete by their deadline and expire at it (DeadlinesKept):
\* complete_reserved_service never looks at deadlines, and the order of the
\* event phases alone makes it so.
THEOREM PipelineDeadlinesKept == Spec => []DeadlinesKept
<1>1. PipelineInv(CellOf) => DeadlinesKept
  BY InvGives
<1> QED BY <1>1, PipelineInvariant, PTL

\* A packet is in the pending plan of at most one slot (PlannedOnce).
THEOREM PipelinePlannedOnce == Spec => []PlannedOnce
<1>1. PipelineInv(CellOf) => PlannedOnce
  BY InvGives
<1> QED BY <1>1, PipelineInvariant, PTL

\* Capacity goes to the packets of a UE in the order of their arrival,
\* across its bearers (OldestFirst): the walk that splits the UE's capacity
\* and the queues' own first-in first-out plans agree packet by packet.
THEOREM PipelineOldestFirst == Spec => []OldestFirst
<1>1. Init => OldestFirst
  <2>1. ASSUME Init, NEW e \in heap
        PROVE  e.work.plan = {}
    <3>1. PipelineInv(CellOf) /\ e.kind # "service_completion"
      <4>1. PipelineInv(CellOf)
        BY <2>1, InitInv
      <4>2. e.kind # "service_completion"
        BY <2>1, SlotEventParts DEF Init, InitialEvents, TrafficEvents
      <4> QED BY <4>1, <4>2
    <3> QED BY <3>1, Parts DEF Scheduled
  <2> QED BY <2>1 DEF OldestFirst
<1>2. PipelineInv(CellOf) /\ OldestFirst /\ [Next]_vars => OldestFirst'
  BY NextOldest
<1> QED BY <1>1, <1>2, PipelineInvariant, PTL DEF Spec

\* When the run has returned, nothing is left queued: the safety half of
\* Drains.
Drained ==
    mode = "done" => \A p \in Packets : queues[BearerOf[p]].cause[p] \in Terminal

\* A run that returns has ended every packet generated for it: the censoring
\* at the stop tick comes after every other event and is never skipped.
THEOREM PipelineDrained == Spec => []Drained
<1>1. ASSUME PipelineInv(CellOf), mode = "done", NEW p \in Packets
      PROVE  queues[BearerOf[p]].cause[p] \in Terminal
  <2>1. \A e \in heap : e.tick > Stop
    BY <1>1 DEF PipelineInv, Running
  <2>2. Censoring(BearerOf[p]) \notin heap
    BY <2>1, SlotEventParts, Configuration
  <2> QED BY <1>1, <2>2 DEF PipelineInv, Censored
<1>2. PipelineInv(CellOf) => Drained
  BY <1>1 DEF Drained
<1> QED BY <1>2, PipelineInvariant, PTL

\* Nothing but a scheduling handler leaves new events pending.
LEMMA StaticPlans ==
    ASSUME PipelineInv(CellOf), Next, NEW f \in heap' \ heap
    PROVE  FullyPlanned(f) /\ WithinCapacity(f)
<1>1. PICK e \in heap : e.kind = "scheduling"
             /\ \E d \in ValidDecisions(Candidates(e.entity)) : SchedulingHandler(e, d)
  BY DEF Next, ArrivalHandler, DeadlineHandler, CensorHandler, ServiceHandler,
              Finish, Abort, Done
<1>2. PICK d \in ValidDecisions(Candidates(e.entity)) : SchedulingHandler(e, d)
  BY <1>1
<1> DEFINE capacity == [u \in Ues |-> Capacity[u][d[u]]]
<1>3. Commit(e, Candidates(e.entity), d, capacity)
  BY <1>2 DEF SchedulingHandler
<1>4. \A u \in Ues : capacity[u] \in Nat /\ (d[u] = 0 => capacity[u] = 0)
  <2>1. \A u \in Ues : d[u] \in 0..Prbs
    BY DEF ValidDecisions
  <2> QED BY <2>1, StaticAssumption
<1>5. Candidates(e.entity) \in SUBSET Ues
  BY DEF Candidates
<1> HIDE DEF capacity
<1> QED BY <1>3, <1>4, <1>5, CommitPlans

\* The plan of a slot wastes nothing and promises nothing twice
\* (WorkConserving): over its bearers, each UE is promised its capacity, or
\* its backlog when that is less.
THEOREM PipelineWorkConserving == Spec => WorkConserving
<1>1. PipelineInv(CellOf) /\ [Next]_vars =>
         [\A f \in heap' \ heap : FullyPlanned(f)]_<<pipeline, intervals>>
  <2>1. PipelineInv(CellOf) /\ Next => \A f \in heap' \ heap : FullyPlanned(f)
    BY StaticPlans
  <2> QED BY <2>1 DEF vars
<1>2. PipelineInv(CellOf) /\ [Next]_vars =>
         [\A e \in heap' \ heap : \A u \in Ues :
             Promised(e, u) = IF e.work.prbs[u] = 0 THEN 0
                              ELSE Clamp(e.work.capacity[u], QueuedBits(u))]_<<pipeline, intervals>>
  BY <1>1 DEF FullyPlanned
<1> QED BY <1>2, PipelineInvariant, PTL DEF Spec, WorkConserving

-----------------------------------------------------------------------------
(* The static pipeline runs in the kernel.                                 *)

\* What has been processed lies behind the clock, and every pending event
\* has a handler.
Traced ==
    /\ trace \in Seq({trace[i] : i \in DOMAIN trace})
    /\ \A i \in 1..Len(trace) : trace[i].tick \in Nat /\ trace[i].tick <= now
    /\ \A e \in heap : e.kind \in KernelKinds

\* The handler of e has run, and returned the follow-ups.
Ran(e, followups) ==
    /\ e \in heap /\ Pop(e, e.kind) /\ Done(e, followups)
    /\ \/ followups = {}
       \/ /\ e.kind = "scheduling"
          /\ \E work : followups = {SlotEnd(e.entity, e.seq, work)}

\* A step of the pipeline runs a handler, which does not raise, or returns.
LEMMA HandlersRun ==
    ASSUME PipelineInv(CellOf), [Next]_vars
    PROVE  (\E e, followups : Ran(e, followups)) \/ Finish \/ UNCHANGED pipeline
<1>1. mode' # "failed"
  BY NextInv DEF PipelineInv, Running
<1>2. CASE \E e \in heap : ArrivalHandler(e) \/ DeadlineHandler(e) \/ CensorHandler(e)
  BY <1>1, <1>2 DEF ArrivalHandler, DeadlineHandler, CensorHandler, Abort, Ran, Pop
<1>3. CASE \E e \in heap : e.kind = "scheduling"
             /\ \E d \in ValidDecisions(Candidates(e.entity)) : SchedulingHandler(e, d)
  <2>1. PICK e \in heap : e.kind = "scheduling" /\ \E d : SchedulingHandler(e, d)
    BY <1>3
  <2>2. \E work : Done(e, {SlotEnd(e.entity, e.seq, work)})
    BY <1>1, <2>1 DEF SchedulingHandler, Commit, Abort, Done
  <2> QED BY <2>1, <2>2 DEF SchedulingHandler, Ran
<1>4. CASE \E e \in heap : ServiceHandler(e, WithoutCapacity)
  BY <1>1, <1>4 DEF ServiceHandler, Abort, Ran, Pop
<1> QED BY <1>2, <1>3, <1>4 DEF Next, vars

\* The parts of a key, which orders events as the events themselves.
LEMMA Keys ==
    /\ \A e : /\ Key(e).tick = e.tick /\ Key(e).phase = e.phase
              /\ Key(e).entity = e.entity /\ Key(e).seq = e.seq /\ Key(e).kind = e.kind
    /\ \A a, b : K!Before(Key(a), Key(b)) <=> Precedes(a, b)
<1>1. \A e : /\ Key(e).tick = e.tick /\ Key(e).phase = e.phase
             /\ Key(e).entity = e.entity /\ Key(e).seq = e.seq /\ Key(e).kind = e.kind
  BY DEF Key
<1> QED BY <1>1 DEF K!Before, Precedes

\* Only completions have the first phase, and every part of a key is a number.
LEMMA Phases ==
    ASSUME PipelineInv(CellOf), Traced, NEW e \in heap
    PROVE  /\ e.phase \in Nat /\ e.entity \in Nat /\ e.seq \in Nat /\ e.tick \in Nat
           /\ e.kind # "service_completion" => e.phase # 10
<1>1. e.tick \in Nat /\ Scheduled(e) /\ e.kind \in KernelKinds
  BY Parts DEF Traced
<1>2. CASE e.kind = "packet_arrival"
  <2>1. e = Arrival(e.packet) /\ e.packet \in Packets
    BY <1>1, <1>2 DEF Scheduled
  <2>2. /\ Arrival(e.packet).phase = 40 /\ Arrival(e.packet).entity = BearerOf[e.packet]
        /\ Arrival(e.packet).seq = e.packet
    BY SlotEventParts
  <2> QED BY <1>1, <1>2, <2>1, <2>2, Configuration DEF Bearers
<1>3. CASE e.kind = "packet_deadline"
  <2>1. e = Expiry(e.packet) /\ e.packet \in Packets
    BY <1>1, <1>3 DEF Scheduled
  <2>2. /\ Expiry(e.packet).phase = 20 /\ Expiry(e.packet).entity = BearerOf[e.packet]
        /\ Expiry(e.packet).seq = e.packet
    BY SlotEventParts
  <2> QED BY <1>1, <1>3, <2>1, <2>2, Configuration DEF Bearers
<1>4. CASE e.kind = "censor_at_stop"
  <2>1. e = Censoring(e.entity) /\ e.entity \in Bearers
    BY <1>1, <1>4 DEF Scheduled
  <2>2. Censoring(e.entity).phase = 80 /\ Censoring(e.entity).seq = 0
    BY SlotEventParts
  <2> QED BY <1>1, <1>4, <2>1, <2>2 DEF Bearers
<1>5. CASE e.kind = "scheduling"
  <2>1. e = SlotStart(e.entity, e.seq) /\ e.entity \in Cells /\ e.seq \in Slots
    BY <1>1, <1>5 DEF Scheduled
  <2>2. SlotStart(e.entity, e.seq).phase = 60 /\ e.seq \in Nat
    BY <2>1, SlotEventParts, SlotTimes
  <2> QED BY <1>1, <1>5, <2>1, <2>2 DEF Cells
<1>6. CASE e.kind = "service_completion"
  BY <1>1, <1>6, ServiceParts DEF Cells
<1> QED BY <1>1, <1>2, <1>3, <1>4, <1>5, <1>6 DEF KernelKinds

\* A pending event has a key of its own.
LEMMA OneKey ==
    ASSUME PipelineInv(CellOf), Traced, NEW e \in heap, NEW h \in heap, Precedes(e, h)
    PROVE  Key(h) # Key(e)
<1> SUFFICES ASSUME Key(h) = Key(e)
             PROVE  FALSE
  OBVIOUS
<1>1. h.tick = e.tick /\ h.phase = e.phase /\ h.entity = e.entity /\ h.seq = e.seq
      /\ h.kind = e.kind
  BY Keys
<1>2. e.phase \in Nat /\ e.entity \in Nat /\ e.seq \in Nat /\ e.tick \in Nat
  BY Phases
<1> QED BY <1>1, <1>2 DEF Precedes

\* What a handler leaves of the trace and of the pending keys.
LEMMA RanParts ==
    ASSUME PipelineInv(CellOf), Traced, NEW e, NEW followups, Ran(e, followups)
    PROVE  /\ trace' \in Seq({trace'[i] : i \in DOMAIN trace'})
           /\ Len(trace) \in Nat /\ Len(trace') = Len(trace) + 1
           /\ trace' = Append(trace, Key(e)) /\ trace'[Len(trace')] = Key(e) /\ trace' # <<>>
           /\ \A i \in 1..Len(trace) : trace'[i] = trace[i]
           /\ TracedKeys' = TracedKeys \cup {Key(e)}
           /\ {Key(h) : h \in heap'} = ({Key(h) : h \in heap} \ {Key(e)})
                                       \cup {Key(f) : f \in followups}
<1>1. trace' = Append(trace, Key(e)) /\ heap' = (heap \ {e}) \cup followups
  BY DEF Ran, Done
<1>2. /\ Len(trace) \in Nat /\ Len(trace') = Len(trace) + 1 /\ trace'[Len(trace) + 1] = Key(e)
      /\ \A i \in 1..Len(trace) : trace'[i] = trace[i]
      /\ trace' \in Seq({trace'[i] : i \in DOMAIN trace'})
      /\ DOMAIN trace = 1..Len(trace) /\ DOMAIN trace' = 1..Len(trace')
  <2> DEFINE S == {trace[i] : i \in DOMAIN trace}
             k == Key(e)
             T == S \cup {k}
  <2>1. trace \in Seq(S)
    BY DEF Traced
  <2> HIDE DEF S, k
  <2>2. trace \in Seq(T) /\ k \in T
    BY <2>1
  <2>3. /\ Len(trace) \in Nat /\ Len(trace') = Len(trace) + 1 /\ trace'[Len(trace) + 1] = k
        /\ \A i \in 1..Len(trace) : trace'[i] = trace[i]
        /\ trace' \in Seq(T)
        /\ DOMAIN trace = 1..Len(trace) /\ DOMAIN trace' = 1..Len(trace')
    BY <1>1, <2>2 DEF k
  <2> QED BY <2>3 DEF k
<1>3. TracedKeys' = TracedKeys \cup {Key(e)}
  <2> DEFINE k == Key(e)
  <2> HIDE DEF k
  <2>1. /\ Len(trace) \in Nat /\ Len(trace') = Len(trace) + 1 /\ trace'[Len(trace) + 1] = k
        /\ \A i \in 1..Len(trace) : trace'[i] = trace[i]
        /\ DOMAIN trace = 1..Len(trace) /\ DOMAIN trace' = 1..Len(trace')
    BY <1>2 DEF k
  <2>2. ASSUME NEW x
        PROVE  x \in TracedKeys' <=> x \in TracedKeys \/ x = k
    <3>1. x \in TracedKeys' => x \in TracedKeys \/ x = k
      BY <2>1 DEF TracedKeys
    <3>2. x \in TracedKeys => x \in TracedKeys'
      BY <2>1 DEF TracedKeys
    <3>3. k \in TracedKeys'
      BY <2>1 DEF TracedKeys
    <3> QED BY <3>1, <3>2, <3>3
  <2> QED BY <2>2 DEF k
<1>4. {Key(h) : h \in heap'} = ({Key(h) : h \in heap} \ {Key(e)}) \cup {Key(f) : f \in followups}
  <2>1. \A h \in heap \ {e} : Key(h) # Key(e)
    BY OneKey DEF Ran, Pop
  <2> QED BY <1>1, <2>1
<1>5. trace' # <<>>
  BY <1>2
<1> QED BY <1>1, <1>2, <1>3, <1>4, <1>5

\* A completion that a slot's start schedules comes after it and has a key that
\* no event has had: nothing processed is so late, and the slot's completion
\* is not pending while its start is.
LEMMA NewCompletion ==
    ASSUME PipelineInv(CellOf), Traced, NEW e, NEW work,
           e.kind = "scheduling", Ran(e, {SlotEnd(e.entity, e.seq, work)})
    PROVE  LET f == SlotEnd(e.entity, e.seq, work)
           IN  /\ Key(f) \in EventKeys /\ f.tick \in Nat /\ e.tick \in Nat /\ f.tick > e.tick
               /\ K!Before(Key(e), Key(f))
               /\ Key(f) \notin TracedKeys
               /\ \A h \in heap : ~K!SameKey(Key(h), Key(f)) /\ Key(h) # Key(f)
<1> DEFINE f == SlotEnd(e.entity, e.seq, work)
<1>1. /\ e \in heap /\ e.entity \in Cells /\ e.seq \in Slots /\ e.seq \in Nat
      /\ e = SlotStart(e.entity, e.seq) /\ e.tick \in Nat /\ now \in Nat /\ now <= e.tick
      /\ e.tick <= Stop
  BY Parts, SlotTimes DEF Ran, Pop, Scheduled
<1>2. e.tick = At(e.seq) /\ e.phase = 60
  BY <1>1, SlotEventParts
<1>3. /\ f.tick = At(e.seq) + Slot /\ f.phase = 10 /\ f.entity = e.entity /\ f.seq = e.seq
      /\ f.kind = "service_completion"
  BY <1>1, SlotEventParts
<1>4. Key(f) \in EventKeys
  <2>1. Key(f) = Key(SlotEnd(e.entity, e.seq, NoWork))
    BY DEF Key, SlotEnd, EventOf
  <2> HIDE DEF f
  <2> QED BY <1>1, <2>1 DEF EventKeys
<1> HIDE DEF f
<1>5. f.tick \in Nat /\ f.tick > e.tick
  BY <1>1, <1>2, <1>3, Configuration
<1>6. K!Before(Key(e), Key(f))
  BY <1>5, Keys DEF Precedes
<1>7. Key(f) \notin TracedKeys
  <2> SUFFICES ASSUME NEW i \in DOMAIN trace, trace[i] = Key(f)
               PROVE  FALSE
    BY DEF TracedKeys
  <2>1. i \in 1..Len(trace)
    BY DEF Traced
  <2>2. trace[i].tick <= now /\ trace[i].tick \in Nat
    BY <2>1 DEF Traced
  <2> QED BY <1>1, <1>5, <2>2, Keys
<1>8. ASSUME NEW h \in heap
      PROVE  ~K!SameKey(Key(h), Key(f)) /\ Key(h) # Key(f)
  <2> SUFFICES ASSUME K!SameKey(Key(h), Key(f)) \/ Key(h) = Key(f)
               PROVE  FALSE
    OBVIOUS
  <2>1. h.phase = 10 /\ h.entity = e.entity /\ h.seq = e.seq
    <3>1. Key(h).phase = Key(f).phase /\ Key(h).entity = Key(f).entity /\ Key(h).seq = Key(f).seq
      BY DEF K!SameKey, Key
    <3> QED BY <1>3, <3>1, Keys
  <2>2. h.kind = "service_completion"
    BY <2>1, Phases
  <2>3. SlotStart(h.entity, h.seq) \notin heap
    BY <2>2 DEF PipelineInv, Services, InService
  <2> QED BY <1>1, <2>1, <2>3
<1> QED BY <1>4, <1>5, <1>6, <1>7, <1>8, <1>1 DEF f

\* The kernel schedules every follow-up that it accepts.
LEMMA AcceptsAll ==
    ASSUME NEW k, NEW f
    PROVE  /\ K!AcceptedPrefix(k, <<>>) = 0
           /\ K!AcceptedAfter(k, <<f>>, 1) => K!AcceptedPrefix(k, <<f>>) = 1
<1>1. K!AcceptedPrefix(k, <<>>) = 0
  BY DEF K!AcceptedPrefix
<1>2. ASSUME K!AcceptedAfter(k, <<f>>, 1)
      PROVE  K!AcceptedPrefix(k, <<f>>) = 1
  <2> DEFINE P(n) == /\ \A i \in 1..n : K!AcceptedAfter(k, <<f>>, i)
                     /\ n < 1 => ~K!AcceptedAfter(k, <<f>>, n + 1)
  <2>1. K!AcceptedPrefix(k, <<f>>) = CHOOSE n \in 0..1 : P(n)
    BY DEF K!AcceptedPrefix
  <2>2. P(1)
    <3>1. \A i \in 1..1 : i = 1
      OBVIOUS
    <3> QED BY <1>2, <3>1
  <2>3. ~P(0)
    <3>1. 0 + 1 = 1 /\ 0 < 1
      OBVIOUS
    <3> QED BY <1>2, <3>1
  <2>4. \A n \in 0..1 : P(n) => n = 1
    <3>1. \A n \in 0..1 : n = 0 \/ n = 1
      OBVIOUS
    <3> QED BY <2>3, <3>1
  <2> HIDE DEF P
  <2> QED BY <2>1, <2>2, <2>4
<1> QED BY <1>1, <1>2

\* A handler that runs is a dispatch of the kernel.
LEMMA RanIsDispatch ==
    ASSUME PipelineInv(CellOf), Traced, NEW e, NEW followups, Ran(e, followups)
    PROVE  K!Next
<1> DEFINE k == Key(e)
           pending == {Key(h) : h \in heap}
<1>1. /\ e \in heap /\ mode = "running" /\ mode' = "running" /\ e.tick <= Stop
      /\ now' = e.tick /\ \A h \in heap \ {e} : Precedes(e, h)
  BY DEF Ran, Pop, Done
<1>2. Stop \in Nat
  BY Configuration
<1>3. K!IsNext(k)
  <2>1. ASSUME NEW h \in heap, Key(h) # k
        PROVE  K!Before(k, Key(h))
    BY <1>1, <2>1, Keys
  <2>2. k \in pending /\ k.tick = e.tick
    BY <1>1, Keys
  <2> QED BY <1>1, <1>2, <2>1, <2>2 DEF K!IsNext, K!Running
<1>4. k.kind \in KernelKinds /\ k.tick = e.tick
  BY <1>1, Keys DEF Traced
<1>5. /\ trace' = Append(trace, k) /\ trace'[Len(trace')] = k /\ trace' # <<>>
      /\ TracedKeys' = TracedKeys \cup {k}
      /\ {Key(h) : h \in heap'} = (pending \ {k}) \cup {Key(f) : f \in followups}
  BY RanParts
<1>6. k \in pending
  BY <1>1
<1>7. CASE followups = {}
  <2>1. K!AcceptedPrefix(k, <<>>) = 0 /\ Len(<<>>) = 0
    BY AcceptsAll
  <2>2. {Key(h) : h \in heap'} = (pending \ {k}) \cup {<<>>[i] : i \in 1..0}
    BY <1>5, <1>7
  <2>3. {Key(h) : h \in heap'} \cup TracedKeys'
           = pending \cup TracedKeys \cup {<<>>[i] : i \in 1..0}
    <3> DEFINE later == {Key(h) : h \in heap'}
               none == {<<>>[i] : i \in 1..0}
    <3>1. later = pending \ {k} /\ none = {} /\ TracedKeys' = TracedKeys \cup {k}
      BY <1>5, <1>7
    <3> HIDE DEF later, none, pending, k
    <3>2. later \cup TracedKeys' = pending \cup TracedKeys \cup none
      BY <1>6, <3>1
    <3> QED BY <3>2 DEF later, none
  <2>4. K!Dispatch(k, <<>>)
    <3>1. {Key(h) : h \in heap'} = (pending \ {k}) \cup {<<>>[i] : i \in 1..K!AcceptedPrefix(k, <<>>)}
      BY <2>1, <2>2
    <3>2. {Key(h) : h \in heap'} \cup TracedKeys'
             = pending \cup TracedKeys \cup {<<>>[i] : i \in 1..K!AcceptedPrefix(k, <<>>)}
      BY <2>1, <2>3
    <3>3. (IF mode' = "running" THEN Stop ELSE -1)
             = IF K!AcceptedPrefix(k, <<>>) < Len(<<>>) THEN -1
               ELSE IF mode = "running" THEN Stop ELSE -1
      BY <1>1, <2>1
    <3>4. (IF trace' = <<>> THEN <<>> ELSE <<trace'[Len(trace')]>>) = <<k>>
      BY <1>5
    <3>5. now' = k.tick
      BY <1>1, <1>4
    <3> HIDE DEF k
    <3> QED BY <1>3, <1>4, <1>5, <3>1, <3>2, <3>3, <3>4, <3>5 DEF K!Dispatch
  <2>5. <<>> \in K!Followups
    <3>1. <<>> \in [1..0 -> EventKeys]
      OBVIOUS
    <3> QED BY <3>1 DEF K!Followups
  <2> QED BY <1>6, <2>4, <2>5 DEF K!Next
<1>8. CASE e.kind = "scheduling" /\ \E work : followups = {SlotEnd(e.entity, e.seq, work)}
  <2>1. PICK work : followups = {SlotEnd(e.entity, e.seq, work)}
    BY <1>8
  <2> DEFINE f == SlotEnd(e.entity, e.seq, work)
             g == Key(f)
  <2>2. /\ g \in EventKeys /\ f.tick \in Nat /\ e.tick \in Nat /\ f.tick > e.tick
        /\ K!Before(k, g) /\ g \notin TracedKeys
        /\ \A h \in heap : ~K!SameKey(Key(h), g) /\ Key(h) # g
    BY <1>8, <2>1, NewCompletion
  <2>3. g.tick = f.tick /\ {Key(x) : x \in followups} = {g}
    BY <2>1, Keys
  <2> HIDE DEF f, g
  <2>4. K!AcceptedAfter(k, <<g>>, 1)
    <3> DEFINE earlier == {<<g>>[j] : j \in 1..(1 - 1)}
    <3>1. earlier = {} /\ <<g>>[1] = g
      OBVIOUS
    <3> HIDE DEF earlier
    <3>2. K!Acceptable(g, k.tick, <<k>>, (pending \cup TracedKeys) \cup earlier,
                       (pending \ {k}) \cup earlier)
      <4>1. g.tick >= k.tick
        BY <1>4, <2>2, <2>3
      <4>2. <<k>>[1] = k
        OBVIOUS
      <4> QED BY <2>2, <3>1, <4>1, <4>2 DEF K!Acceptable
    <3> QED BY <3>1, <3>2 DEF K!AcceptedAfter, earlier
  <2>5. K!AcceptedPrefix(k, <<g>>) = 1 /\ Len(<<g>>) = 1
    BY <2>4, AcceptsAll
  <2>6. {<<g>>[i] : i \in 1..1} = {g}
    OBVIOUS
  <2>7. {Key(h) : h \in heap'} = (pending \ {k}) \cup {<<g>>[i] : i \in 1..1}
    BY <1>5, <2>3, <2>6
  <2>8. {Key(h) : h \in heap'} \cup TracedKeys'
           = pending \cup TracedKeys \cup {<<g>>[i] : i \in 1..1}
    BY <1>5, <1>6, <2>3, <2>6
  <2>9. K!Dispatch(k, <<g>>)
    <3>1. {Key(h) : h \in heap'} = (pending \ {k}) \cup {<<g>>[i] : i \in 1..K!AcceptedPrefix(k, <<g>>)}
      BY <2>5, <2>7
    <3>2. {Key(h) : h \in heap'} \cup TracedKeys'
             = pending \cup TracedKeys \cup {<<g>>[i] : i \in 1..K!AcceptedPrefix(k, <<g>>)}
      BY <2>5, <2>8
    <3>3. (IF mode' = "running" THEN Stop ELSE -1)
             = IF K!AcceptedPrefix(k, <<g>>) < Len(<<g>>) THEN -1
               ELSE IF mode = "running" THEN Stop ELSE -1
      BY <1>1, <2>5
    <3>4. (IF trace' = <<>> THEN <<>> ELSE <<trace'[Len(trace')]>>) = <<k>>
      BY <1>5
    <3>5. now' = k.tick
      BY <1>1, <1>4
    <3> HIDE DEF k
    <3> QED BY <1>3, <1>4, <1>5, <3>1, <3>2, <3>3, <3>4, <3>5 DEF K!Dispatch
  <2>10. <<g>> \in K!Followups
    <3>1. <<g>> \in [1..1 -> EventKeys] /\ 1 \in 0..1
      BY <2>2
    <3> QED BY <3>1 DEF K!Followups
  <2> QED BY <1>6, <2>9, <2>10 DEF K!Next
<1> QED BY <1>7, <1>8 DEF Ran

\* So every step is one of the kernel's.
LEMMA StepIsKernels ==
    ASSUME PipelineInv(CellOf), Traced, [Next]_vars
    PROVE  [K!Next]_(K!vars)
<1>1. CASE \E e, followups : Ran(e, followups)
  BY <1>1, RanIsDispatch
<1>2. CASE Finish
  <2>1. /\ mode = "running" /\ mode' = "done" /\ now' = Stop /\ heap' = heap /\ trace' = trace
        /\ \A h \in heap : h.tick > Stop
    BY <1>2 DEF Finish
  <2>2. Stop \in Nat
    BY Configuration
  <2>3. \A h \in {Key(e) : e \in heap} : h.tick > Stop
    BY <2>1, Keys
  <2>4. TracedKeys' = TracedKeys
    BY <2>1 DEF TracedKeys
  <2>5. K!FinishRun
    BY <2>1, <2>2, <2>3, <2>4 DEF K!FinishRun, K!Running
  <2> QED BY <2>5 DEF K!Next
<1>3. CASE UNCHANGED pipeline
  BY <1>3 DEF pipeline, K!vars, TracedKeys
<1> QED BY <1>1, <1>2, <1>3, HandlersRun

\* And leaves what was processed behind the clock.
LEMMA TracedNext ==
    ASSUME PipelineInv(CellOf), Traced, [Next]_vars
    PROVE  Traced'
<1>1. ASSUME NEW e, NEW followups, Ran(e, followups)
      PROVE  Traced'
  <2>1. /\ trace' \in Seq({trace'[i] : i \in DOMAIN trace'})
        /\ Len(trace) \in Nat /\ Len(trace') = Len(trace) + 1 /\ trace'[Len(trace')] = Key(e)
        /\ \A i \in 1..Len(trace) : trace'[i] = trace[i]
    BY <1>1, RanParts
  <2>2. e \in heap /\ now' = e.tick /\ now \in Nat /\ e.tick \in Nat /\ now <= e.tick
        /\ heap' = (heap \ {e}) \cup followups
    BY <1>1, Parts DEF Ran, Pop, Done
  <2>3. ASSUME NEW i \in 1..Len(trace')
        PROVE  trace'[i].tick \in Nat /\ trace'[i].tick <= now'
    <3>1. CASE i = Len(trace')
      BY <2>1, <2>2, <3>1, Keys
    <3>2. CASE i # Len(trace')
      <4>1. i \in 1..Len(trace)
        BY <2>1, <3>2
      <4>2. trace[i].tick \in Nat /\ trace[i].tick <= now
        BY <4>1 DEF Traced
      <4>3. trace'[i] = trace[i]
        BY <2>1, <4>1
      <4> QED BY <2>2, <4>2, <4>3
    <3> QED BY <3>1, <3>2
  <2>4. \A h \in heap' : h.kind \in KernelKinds
    BY <1>1, <2>2 DEF Ran, Traced, SlotEnd, EventOf, KernelKinds
  <2> QED BY <2>1, <2>3, <2>4 DEF Traced
<1>2. CASE Finish
  <2>1. trace' = trace /\ heap' = heap /\ now' = Stop /\ now <= Stop /\ now \in Nat /\ Stop \in Nat
    BY <1>2, Configuration DEF Finish, PipelineInv, Running
  <2>2. ASSUME NEW i \in 1..Len(trace)
        PROVE  trace[i].tick \in Nat /\ trace[i].tick <= Stop
    <3>1. trace[i].tick \in Nat /\ trace[i].tick <= now
      BY DEF Traced
    <3> QED BY <2>1, <3>1
  <2> QED BY <2>1, <2>2 DEF Traced
<1>3. CASE UNCHANGED pipeline
  BY <1>3 DEF pipeline, Traced
<1> QED BY <1>1, <1>2, <1>3, HandlersRun

\* Nothing has been processed before the run.
LEMMA TracedInit ==
    ASSUME Init
    PROVE  Traced
<1>1. trace = <<>> /\ Len(trace) = 0 /\ trace \in Seq({trace[i] : i \in DOMAIN trace})
  BY DEF Init
<1>2. \A e \in heap : e.kind \in KernelKinds
  BY SlotEventParts DEF Init, InitialEvents, TrafficEvents, KernelKinds
<1> QED BY <1>1, <1>2 DEF Traced

\* What has been processed lies behind the clock throughout every run.
THEOREM PipelineTraced == Spec => []Traced
<1>1. Init => Traced
  BY TracedInit
<1>2. PipelineInv(CellOf) /\ Traced /\ [Next]_vars => Traced'
  BY TracedNext
<1> QED BY <1>1, <1>2, PipelineInvariant, PTL DEF Spec

\* Each step of the static simulation is a step of the kernel, with its
\* payloads forgotten (KernelSteps): the kernel accepts every follow-up the
\* handlers return, so what KernelProofs shows of the kernel's steps holds of
\* the simulation.
THEOREM PipelineRunsInKernel == Spec => KernelSteps
<1>1. PipelineInv(CellOf) /\ Traced /\ [Next]_vars => [K!Next]_(K!vars)
  BY StepIsKernels
<1> QED BY <1>1, PipelineInvariant, PipelineTraced, PTL DEF Spec, KernelSteps

-----------------------------------------------------------------------------
(* The dynamic pipeline.                                                   *)

\* Slots are ordered as their numbers.
LEMMA SlotOrder ==
    ASSUME NEW j \in Nat, NEW k \in Nat
    PROVE  /\ At(j) \in Nat /\ At(k) \in Nat
           /\ At(j) < At(k) <=> j < k
           /\ At(j) <= At(k) <=> j <= k
           /\ At(j) < At(k) + Slot <=> j <= k
           /\ At(j) = At(k) <=> j = k
<1> DEFINE a == At(j)
           b == At(k)
<1>1. /\ a \in Nat /\ b \in Nat /\ Slot \in Nat /\ Slot > 0
      /\ j < k => a + Slot <= b
      /\ k < j => b + Slot <= a
      /\ j = k => a = b
  BY SlotTimes, Configuration
<1> HIDE DEF a, b
<1>2. /\ a < b <=> j < k
      /\ a <= b <=> j <= k
      /\ a < b + Slot <=> j <= k
      /\ a = b <=> j = k
  BY <1>1
<1> QED BY <1>1, <1>2 DEF a, b

\* The UEs may change their cells while nothing is promised to any.
LEMMA OwnersChange ==
    ASSUME NEW own, NEW new, PipelineInv(own),
           \A e \in heap : e.kind = "service_completion" => e.work.plan = {},
           \A b \in Bearers : Unreserved(new, b)
    PROVE  PipelineInv(new)
BY DEF PipelineInv, Services, InService

\* The cell of each UE.
Serving == [u \in Ues |-> handover[u].serving]

\* The ticks of the radio are those laid out before the run.
RadioTick(e) ==
    /\ e.kind = "topology_control" => e.seq \in Slots /\ e = TopologyTick(e.seq)
    /\ e.kind = "link_association" => e.seq \in Slots /\ e = AssociationTick(e.seq)

\* Until a slot's association nothing is reserved for it.
Fresh ==
    \A k \in Slots : AssociationTick(k) \in heap =>
        \A b \in Bearers : \A r \in queues[b].known : r.start < At(k)

DynamicInv ==
    /\ \E own : own = Serving /\ PipelineInv(own)
    /\ \A e \in heap : RadioTick(e)
    /\ Fresh

\* The parts of the events of the radio.
LEMMA RadioParts ==
    \A k : /\ TopologyTick(k).kind = "topology_control" /\ TopologyTick(k).tick = At(k)
           /\ TopologyTick(k).phase = 30 /\ TopologyTick(k).seq = k
           /\ TopologyTick(k).entity = 0 /\ TopologyTick(k).work = NoWork
           /\ AssociationTick(k).kind = "link_association"
           /\ AssociationTick(k).tick = At(k)
           /\ AssociationTick(k).phase = 50 /\ AssociationTick(k).seq = k
           /\ AssociationTick(k).entity = 0 /\ AssociationTick(k).work = NoWork
BY DEF TopologyTick, AssociationTick, EventOf, At, TopologyPhase, AssociationPhase

\* When the UEs of a slot are associated, the plans of the slots before have
\* been carried out and no later one is made.
LEMMA NothingPromised ==
    ASSUME NEW own, PipelineInv(own), \A e \in heap : RadioTick(e), Fresh,
           NEW e \in heap, Dispatched(e), e.kind = "link_association"
    PROVE  /\ \A f \in heap : f.kind = "service_completion" => f.work.plan = {}
           /\ \A new : \A b \in Bearers : Unreserved(new, b)
<1>1. /\ e.seq \in Slots /\ e.seq \in Nat /\ e = AssociationTick(e.seq)
      /\ e.tick = At(e.seq) /\ e.phase = 50 /\ At(e.seq) \in Nat
      /\ now \in Nat /\ now <= e.tick
  <2>1. e \in heap /\ e.seq \in Slots /\ e = AssociationTick(e.seq)
    BY DEF RadioTick
  <2>2. e.tick = At(e.seq) /\ e.phase = 50
    BY <2>1, RadioParts
  <2>3. e.seq \in Nat /\ At(e.seq) \in Nat
    BY <2>1, SlotTimes
  <2> QED BY <2>1, <2>2, <2>3, Parts
<1>2. \A b \in Bearers : \A r \in queues[b].known : r.start \in Nat /\ r.start < At(e.seq)
  BY <1>1, Parts, ValidParts DEF Fresh
<1>3. ASSUME NEW f \in heap, f.kind = "service_completion", NEW s \in f.work.plan
      PROVE  FALSE
  <2>1. /\ InService(own, f) /\ Promise(own, f, s)
    BY <1>3 DEF PipelineInv, Services, InService
  <2>2. /\ f.seq \in Nat /\ f.phase = 10 /\ f.tick = At(f.seq) + Slot /\ At(f.seq) \in Nat
    BY <1>3, Parts, ServiceParts
  <2>3. At(e.seq) < At(f.seq) + Slot
    <3>1. f # e /\ Precedes(e, f)
      BY <1>1, <1>3, RadioParts DEF Dispatched
    <3> QED BY <1>1, <2>2, <3>1, Configuration DEF Precedes
  <2>4. e.seq <= f.seq
    BY <1>1, <2>2, <2>3, SlotOrder
  <2>5. At(e.seq) <= At(f.seq)
    BY <1>1, <2>2, <2>4, SlotOrder
  <2>6. s.bearer \in Bearers /\ s.reservation \in queues[s.bearer].known
        /\ s.reservation.start = At(f.seq) /\ At(f.seq) <= now
    BY <2>1 DEF Promise, InService
  <2>7. At(f.seq) < At(e.seq)
    BY <1>2, <2>6
  <2> QED BY <1>1, <2>2, <2>5, <2>7
<1>4. ASSUME NEW new, NEW b \in Bearers, NEW k \in Slots, SlotStart(new[UeOf[b]], k) \in heap,
             NEW r \in queues[b].known
      PROVE  r.start # At(k)
  <2> DEFINE f == SlotStart(new[UeOf[b]], k)
  <2>1. f.tick = At(k) /\ f # e
    BY <1>1, RadioParts, SlotEventParts
  <2>2. f.tick \in Nat /\ Precedes(e, f)
    BY <1>4, <2>1, Parts DEF Dispatched
  <2> HIDE DEF f
  <2>3. At(e.seq) <= At(k)
    BY <1>1, <2>1, <2>2 DEF Precedes
  <2> QED BY <1>1, <1>2, <2>1, <2>2, <2>3
<1> QED BY <1>3, <1>4 DEF Unreserved

\* What a cell gives to a UE is a size, and goes to the UEs it serves.
LEMMA DynamicCarries ==
    ASSUME NEW own, own = Serving, NEW e, NEW d \in ValidDecisions(ReachableCandidates(e.entity, e.tick))
    PROVE  MayCarry(own, e, [u \in Ues |-> PlannedBits(u, e.entity, d[u])])
<1>1. ASSUME NEW u \in Ues
      PROVE  /\ PlannedBits(u, e.entity, d[u]) \in Nat
             /\ PlannedBits(u, e.entity, d[u]) > 0 => own[u] = e.entity
  <2>1. d[u] \in Nat /\ (d[u] > 0 => u \in ReachableCandidates(e.entity, e.tick))
    <3>1. d[u] \in 0..Prbs /\ (d[u] > 0 => u \in ReachableCandidates(e.entity, e.tick))
      BY DEF ValidDecisions
    <3> QED BY <3>1, SlotAssumption
  <2>2. d[u] > 0 => own[u] = e.entity
    BY <2>1 DEF ReachableCandidates, Serving
  <2>3. PlannedBits(u, e.entity, d[u]) \in Nat
    BY <2>1, CapacityIsSize DEF PlannedBits
  <2>4. d[u] = 0 => PlannedBits(u, e.entity, d[u]) = 0
    BY DEF PlannedBits
  <2> HIDE DEF PlannedBits
  <2> QED BY <2>1, <2>2, <2>3, <2>4
<1> QED BY <1>1 DEF MayCarry

\* A handler of the radio's events leaves the queues alone.
LEMMA RadioIdle ==
    ASSUME NEW own, PipelineInv(own), NEW e \in heap,
           TopologyHandler(e) \/ AssociationHandler(e)
    PROVE  Idle(e)
<1>1. CASE TopologyHandler(e)
  <2>1. Pop(e, "topology_control") /\ Done(e, {}) /\ queues' = queues
    BY <1>1 DEF TopologyHandler
  <2> QED BY <2>1, Popped DEF Idle, Dispatched, Done, SharedKinds
<1>2. CASE AssociationHandler(e)
  <2>1. Pop(e, "link_association") /\ Done(e, {}) /\ queues' = queues
    BY <1>2 DEF AssociationHandler
  <2> QED BY <2>1, Popped DEF Idle, Dispatched, Done, SharedKinds
<1> QED BY <1>1, <1>2

\* The steps of the dynamic pipeline, by what they do to the queues.
LEMMA DynamicSteps ==
    ASSUME NEW own, own = Serving, PipelineInv(own), [DynamicNext]_dynamicVars
    PROVE  \/ \E e \in heap : AssociationHandler(e) /\ Idle(e) /\ e.kind = "link_association"
           \/ /\ handover' = handover
              /\ \/ \E e : Idle(e)
                 \/ \E e, b, s : Handled(e, b, s)
                 \/ \E e \in heap : \E capacity, f :
                       /\ Pop(e, "scheduling") /\ MayCarry(own, e, capacity)
                       /\ Committed(own, e, f) /\ f.work.plan = PlanOf(capacity, e.tick)
                 \/ \E e : Served(own, e)
                 \/ Finish
                 \/ UNCHANGED pipeline
<1>1. CASE \E e \in heap : TopologyHandler(e)
  <2>1. PICK e \in heap : TopologyHandler(e)
    BY <1>1
  <2>2. Idle(e) /\ handover' = handover
    BY <2>1, RadioIdle DEF TopologyHandler
  <2> QED BY <2>2
<1>2. CASE \E e \in heap : AssociationHandler(e)
  <2>1. PICK e \in heap : AssociationHandler(e)
    BY <1>2
  <2>2. Idle(e) /\ e.kind = "link_association"
    BY <2>1, RadioIdle DEF AssociationHandler, Pop
  <2> QED BY <2>1, <2>2
<1>3. CASE \E e \in heap : ArrivalHandler(e) /\ UNCHANGED <<intervals, radio, previous, current>>
  BY <1>3, ArrivalKeeps DEF radio
<1>4. CASE \E e \in heap : DeadlineHandler(e) /\ UNCHANGED <<intervals, radio, previous, current>>
  BY <1>4, DeadlineKeeps DEF radio
<1>5. CASE \E e \in heap : CensorHandler(e) /\ UNCHANGED <<intervals, radio, previous, current>>
  BY <1>5, CensorKeeps DEF radio
<1>6. CASE \E e \in heap : ServiceHandler(e, WithoutEstimate)
                           /\ UNCHANGED <<radio, previous, current>>
  BY <1>6, ServiceKeeps DEF radio
<1>7. CASE \E e \in heap : e.kind = "scheduling"
             /\ \E d \in ValidDecisions(ReachableCandidates(e.entity, e.tick)) :
                    DynamicScheduling(e, d)
  <2>1. PICK e \in heap : e.kind = "scheduling"
             /\ \E d \in ValidDecisions(ReachableCandidates(e.entity, e.tick)) :
                    DynamicScheduling(e, d)
    BY <1>7
  <2>2. PICK d \in ValidDecisions(ReachableCandidates(e.entity, e.tick)) :
                    DynamicScheduling(e, d)
    BY <2>1
  <2> DEFINE capacity == [u \in Ues |-> PlannedBits(u, e.entity, d[u])]
  <2>3. MayCarry(own, e, capacity)
    BY <2>2, DynamicCarries
  <2>4. /\ Pop(e, "scheduling") /\ handover' = handover
        /\ Commit(e, ReachableCandidates(e.entity, e.tick), d, capacity)
    BY <2>2 DEF DynamicScheduling, radio
  <2> HIDE DEF capacity
  <2>5. \E f : Committed(own, e, f) /\ f.work.plan = PlanOf(capacity, e.tick)
    BY <2>3, <2>4, CommitKeeps
  <2> QED BY <2>3, <2>4, <2>5
<1>8. CASE Finish /\ UNCHANGED <<intervals, radio, previous, current>>
  BY <1>8 DEF radio
<1>9. CASE UNCHANGED dynamicVars
  BY <1>9 DEF dynamicVars, radio
<1> QED BY <1>1, <1>2, <1>3, <1>4, <1>5, <1>6, <1>7, <1>8, <1>9 DEF DynamicNext

\* Reservations are made for their own slot, after its association.
LEMMA FreshKept ==
    ASSUME Fresh, \A e \in heap' : e \in heap \/ e.kind = "service_completion",
           \A b \in Bearers : \A r \in queues'[b].known :
               \/ r \in queues[b].known
               \/ \A k \in Slots : AssociationTick(k) \in heap' => r.start < At(k)
    PROVE  Fresh'
BY RadioParts DEF Fresh

\* What each kind of step leaves of Fresh and of the radio's ticks.
LEMMA TicksKept ==
    ASSUME NEW own, PipelineInv(own), \A e \in heap : RadioTick(e), Fresh,
           \/ \E e : Idle(e)
           \/ \E e, b, s : Handled(e, b, s)
           \/ \E e, f : Committed(own, e, f)
           \/ \E e : Served(own, e)
           \/ Finish
           \/ UNCHANGED pipeline
    PROVE  Fresh' /\ \A e \in heap' : RadioTick(e)
<1>1. CASE \E e : Idle(e)
  <2>1. heap' \subseteq heap /\ queues' = queues
    BY <1>1 DEF Idle
  <2> QED BY <2>1, FreshKept
<1>2. CASE \E e, b, s : Handled(e, b, s)
  <2>1. PICK e, b, s : Handled(e, b, s)
    BY <1>2
  <2>2. heap' \subseteq heap /\ \A a \in Bearers : queues'[a].known = queues[a].known
    BY <2>1 DEF Handled, PipelineInv, Running
  <2> QED BY <2>2, FreshKept
<1>3. CASE \E e, f : Committed(own, e, f)
  <2>1. PICK e, f : Committed(own, e, f)
    BY <1>3
  <2>2. /\ e \in heap /\ heap' = (heap \ {e}) \cup {f} /\ f.kind = "service_completion"
        /\ e.tick \in Nat /\ e.phase = 60 /\ e = SlotStart(e.entity, e.seq)
    BY <2>1, CommittedEvents
  <2>3. ASSUME NEW b \in Bearers, NEW r \in queues'[b].known, r \notin queues[b].known,
               NEW k \in Slots, AssociationTick(k) \in heap'
        PROVE  r.start < At(k)
    <3>1. r.start = e.tick
      BY <2>1, <2>3 DEF Committed, Reserved
    <3>2. AssociationTick(k) \in heap \ {e}
      BY <2>2, <2>3, RadioParts, SlotEventParts
    <3>3. Precedes(e, AssociationTick(k))
      BY <2>1, <3>2 DEF Committed, Dispatched
    <3>4. /\ AssociationTick(k).tick = At(k) /\ AssociationTick(k).phase = 50
          /\ At(k) \in Nat
      BY RadioParts, SlotTimes
    <3> QED BY <2>2, <3>1, <3>3, <3>4 DEF Precedes
  <2>4. Fresh'
    BY <2>2, <2>3, FreshKept
  <2> QED BY <2>2, <2>4 DEF RadioTick
<1>4. CASE \E e : Served(own, e)
  <2>1. heap' \subseteq heap /\ \A a \in Bearers : queues'[a].known = queues[a].known
    BY <1>4 DEF Served, ServedAs
  <2> QED BY <2>1, FreshKept
<1>5. CASE Finish \/ UNCHANGED pipeline
  <2>1. heap' = heap /\ queues' = queues
    BY <1>5 DEF Finish, pipeline
  <2> QED BY <2>1, FreshKept
<1> QED BY <1>1, <1>2, <1>3, <1>4, <1>5

\* Every step of the dynamic pipeline preserves its invariant.
LEMMA DynamicNextInv ==
    ASSUME DynamicInv, [DynamicNext]_dynamicVars
    PROVE  DynamicInv'
<1>1. PICK own : own = Serving /\ PipelineInv(own)
  BY DEF DynamicInv
<1>2. Fresh /\ \A e \in heap : RadioTick(e)
  BY DEF DynamicInv
<1>3. CASE \E e \in heap : AssociationHandler(e) /\ Idle(e) /\ e.kind = "link_association"
  <2>1. PICK e \in heap : Idle(e) /\ e.kind = "link_association"
    BY <1>3
  <2>2. PICK new : new = Serving'
    OBVIOUS
  <2>3. PipelineInv(new)
    BY <1>1, <1>2, <2>1, NothingPromised, OwnersChange DEF Idle
  <2>4. PipelineInv(new)'
    BY <2>1, <2>3, IdleInv
  <2>5. Fresh' /\ \A f \in heap' : RadioTick(f)
    BY <1>1, <1>2, <2>1, TicksKept
  <2> QED BY <2>2, <2>4, <2>5 DEF DynamicInv, RadioTick
<1>4. CASE /\ handover' = handover
           /\ \/ \E e : Idle(e)
              \/ \E e, b, s : Handled(e, b, s)
              \/ \E e, f : Committed(own, e, f)
              \/ \E e : Served(own, e)
              \/ Finish
              \/ UNCHANGED pipeline
  <2>1. PipelineInv(own)'
    BY <1>1, <1>4, IdleInv, HandledInv, CommittedInv, ServedInv, FinishKeeps, StutterKeeps
  <2>2. own = Serving'
    BY <1>1, <1>4 DEF Serving
  <2>3. Fresh' /\ \A f \in heap' : RadioTick(f)
    BY <1>1, <1>2, <1>4, TicksKept
  <2> QED BY <2>1, <2>2, <2>3 DEF DynamicInv, RadioTick
<1>5. \/ \E e \in heap : AssociationHandler(e) /\ Idle(e) /\ e.kind = "link_association"
      \/ /\ handover' = handover
         /\ \/ \E e : Idle(e)
            \/ \E e, b, s : Handled(e, b, s)
            \/ \E e, f : Committed(own, e, f)
            \/ \E e : Served(own, e)
            \/ Finish
            \/ UNCHANGED pipeline
  BY <1>1, DynamicSteps
<1> QED BY <1>3, <1>4, <1>5

\* The schedule of a dynamic run satisfies its invariant.
LEMMA DynamicInitInv ==
    ASSUME DynamicInit
    PROVE  DynamicInv
<1>1. ASSUME NEW e \in heap
      PROVE  /\ \/ e \in TrafficEvents(Bearers)
                \/ \E c \in Cells, k \in Slots : e = SlotStart(c, k)
                \/ e.tick \in Nat /\ e.kind \notin SharedKinds /\ e.work = NoWork
             /\ RadioTick(e)
  <2>1. CASE e \in TrafficEvents(Bearers)
    BY <2>1, SlotEventParts DEF TrafficEvents, RadioTick
  <2>2. CASE \E c \in Cells, k \in Slots : e = SlotStart(c, k)
    BY <2>2, SlotEventParts DEF RadioTick
  <2>3. CASE \E k \in Slots : e = TopologyTick(k) \/ e = AssociationTick(k)
    <3>1. PICK k \in Slots : e = TopologyTick(k) \/ e = AssociationTick(k)
      BY <2>3
    <3>2. At(k) \in Nat
      BY SlotTimes
    <3> QED BY <3>1, <3>2, RadioParts DEF RadioTick, SharedKinds
  <2> QED BY <1>1, <2>1, <2>2, <2>3 DEF DynamicInit, DynamicEvents
<1>2. ASSUME NEW own
      PROVE  PipelineInv(own)
  BY <1>1, StartInv DEF DynamicInit, DynamicEvents
<1>3. Fresh
  <2>1. ASSUME NEW b \in Bearers
        PROVE  queues[b].known = {}
    BY DEF DynamicInit, EmptyQueue
  <2> QED BY <2>1 DEF Fresh
<1> QED BY <1>1, <1>2, <1>3 DEF DynamicInv

\* And so that the oldest packets are served first.
LEMMA DynamicNextOldest ==
    ASSUME DynamicInv, OldestFirst, [DynamicNext]_dynamicVars
    PROVE  OldestFirst'
<1>1. PICK own : own = Serving /\ PipelineInv(own)
  BY DEF DynamicInv
<1>2. CASE \E e : Idle(e)
  <2>1. heap' \subseteq heap /\ queues' = queues /\ arrives' = arrives
    BY <1>2 DEF Idle, Dispatched
  <2> QED BY <2>1 DEF OldestFirst
<1>3. CASE Finish \/ UNCHANGED pipeline
  BY <1>3 DEF Finish, pipeline, OldestFirst
<1> QED BY <1>1, <1>2, <1>3, DynamicSteps, HandledOldest, CommittedOldest, ServedOldest

\* The invariant holds throughout every run of the dynamic simulation.
THEOREM DynamicInvariant == DynamicSpec => []DynamicInv
<1>1. DynamicInit => DynamicInv
  BY DynamicInitInv
<1>2. DynamicInv /\ [DynamicNext]_dynamicVars => DynamicInv'
  BY DynamicNextInv
<1> QED BY <1>1, <1>2, PTL DEF DynamicSpec

\* No handler of the dynamic simulation raises on the queues' account
\* (NeverFails): no plan is disturbed by a handover, an outage or an
\* interruption, for a slot's plan is completed before the next association.
THEOREM DynamicNeverFails == DynamicSpec => []NeverFails
<1>1. DynamicInv => NeverFails
  BY InvGives DEF DynamicInv
<1> QED BY <1>1, DynamicInvariant, PTL

\* Packets complete by their deadline and expire at it (DeadlinesKept), in
\* outages and across handovers.
THEOREM DynamicDeadlinesKept == DynamicSpec => []DeadlinesKept
<1>1. DynamicInv => DeadlinesKept
  BY InvGives DEF DynamicInv
<1> QED BY <1>1, DynamicInvariant, PTL

\* A packet is in the pending plan of at most one slot (PlannedOnce), though
\* a handover puts it before another scheduler.
THEOREM DynamicPlannedOnce == DynamicSpec => []PlannedOnce
<1>1. DynamicInv => PlannedOnce
  BY InvGives DEF DynamicInv
<1> QED BY <1>1, DynamicInvariant, PTL

\* Capacity goes to the packets of a UE in the order of their arrival
\* (OldestFirst), in whichever cell it is served.
THEOREM DynamicOldestFirst == DynamicSpec => []OldestFirst
<1>1. DynamicInit => OldestFirst
  <2>1. ASSUME DynamicInit, NEW e \in heap
        PROVE  e.work.plan = {}
    BY <2>1, SlotEventParts, RadioParts DEF DynamicInit, DynamicEvents, TrafficEvents
  <2> QED BY <2>1 DEF OldestFirst
<1>2. DynamicInv /\ OldestFirst /\ [DynamicNext]_dynamicVars => OldestFirst'
  BY DynamicNextOldest
<1> QED BY <1>1, <1>2, DynamicInvariant, PTL DEF DynamicSpec

\* The same of the dynamic pipeline.
LEMMA DynamicPlans ==
    ASSUME NEW own, PipelineInv(own), DynamicNext, NEW f \in heap' \ heap
    PROVE  FullyPlanned(f) /\ WithinCapacity(f)
<1>1. PICK e \in heap : e.kind = "scheduling"
             /\ \E d \in ValidDecisions(ReachableCandidates(e.entity, e.tick)) :
                    DynamicScheduling(e, d)
  BY DEF DynamicNext, ArrivalHandler, DeadlineHandler, CensorHandler, ServiceHandler,
         TopologyHandler, AssociationHandler, Finish, Abort, Done
<1>2. PICK d \in ValidDecisions(ReachableCandidates(e.entity, e.tick)) :
             DynamicScheduling(e, d)
  BY <1>1
<1> DEFINE capacity == [u \in Ues |-> PlannedBits(u, e.entity, d[u])]
<1>3. Commit(e, ReachableCandidates(e.entity, e.tick), d, capacity)
  BY <1>2 DEF DynamicScheduling
<1>4. ASSUME NEW u \in Ues
      PROVE  capacity[u] \in Nat /\ (d[u] = 0 => capacity[u] = 0)
  <2>1. d[u] \in Nat
    <3>1. d[u] \in 0..Prbs
      BY DEF ValidDecisions
    <3> QED BY <3>1, SlotAssumption
  <2>2. capacity[u] = IF d[u] = 0 THEN 0 ELSE CapacityBits(Sinr(u, e.entity, d[u]), d[u])
    BY DEF PlannedBits
  <2> HIDE DEF capacity
  <2> QED BY <2>1, <2>2, CapacityIsSize
<1>5. ReachableCandidates(e.entity, e.tick) \in SUBSET Ues
  BY DEF ReachableCandidates
<1> HIDE DEF capacity
<1> QED BY <1>3, <1>4, <1>5, CommitPlans

\* The plan of a slot wastes nothing and promises nothing twice
\* (WorkConserving), whatever the links and the interference make of the
\* allocated PRBs.
THEOREM DynamicWorkConserving == DynamicSpec => WorkConserving
<1>1. DynamicInv /\ [DynamicNext]_dynamicVars =>
         [\A e \in heap' \ heap : \A u \in Ues :
             Promised(e, u) = IF e.work.prbs[u] = 0 THEN 0
                              ELSE Clamp(e.work.capacity[u], QueuedBits(u))]_<<pipeline, intervals>>
  <2>1. DynamicInv /\ DynamicNext => \A f \in heap' \ heap : FullyPlanned(f)
    BY DynamicPlans DEF DynamicInv
  <2>2. UNCHANGED dynamicVars => UNCHANGED <<pipeline, intervals>>
    BY DEF dynamicVars
  <2> QED BY <2>1, <2>2 DEF FullyPlanned
<1> QED BY <1>1, DynamicInvariant, PTL DEF DynamicSpec, WorkConserving

-----------------------------------------------------------------------------
(* The radio state of a slot.                                              *)

\* There is a frame for each association that has run, the last of them no
\* later than now.
FramesInOrder ==
    /\ frames \in Seq({frames[i] : i \in DOMAIN frames})
    /\ \A i \in 1..Len(frames) : frames[i].tick = At(i - 1) /\ At(i - 1) <= now
    /\ \A k \in Slots : AssociationTick(k) \in heap <=> k >= Len(frames)

\* The last frame is of the state the handlers see.
LastFrame ==
    \A i \in 1..Len(frames) : i = Len(frames) =>
        \A u \in Ues :
            /\ frames[i].ues[u].serving = handover[u].serving
            /\ frames[i].ues[u].available <=>
                  Reachable(handover[u], availability[u], frames[i].tick)
            /\ frames[i].ues[u].estimate = estimate[u]

\* The topology of a slot comes at its start, before its association.
TopologyInOrder ==
    \A k \in Slots : /\ At(k) > now => TopologyTick(k) \in heap
                     /\ TopologyTick(k) \in heap => k >= Len(frames)

\* Cell c's eligible UEs and allocations of the slot that frame k is of.
FitsFrame(k, c, eligible, prbs) ==
    /\ eligible \subseteq Ues
    /\ \A u \in eligible : frames[k].ues[u].serving = c /\ frames[k].ues[u].available
    /\ \A u \in Ues : prbs[u] > 0 => u \in eligible

\* A slot in service is the one of the last frame, and its allocations are
\* the active PRBs that the next topology takes over.
Underway(f) ==
    /\ f.seq + 1 = Len(frames)
    /\ FitsFrame(f.seq + 1, f.entity, f.work.eligible, f.work.prbs)
    /\ current[f.entity] = Sum(f.work.prbs, NumUes)
    /\ f.seq + 1 \in Slots => TopologyTick(f.seq + 1) \in heap

\* So it stays when the slot is over, until the next association has used it.
InSlot(i, j) ==
    /\ i.start = At(j) /\ i.end = At(j + 1) /\ i.end <= now /\ i.cell \in Cells
    /\ FitsFrame(j + 1, i.cell, i.eligible, i.prbs)
    /\ i.outage = {u \in i.eligible : frames[j + 1].ues[u].estimate = 0}
    /\ TopologyTick(j + 1) \in heap => current[i.cell] = Sum(i.prbs, NumUes)
    /\ TopologyTick(j + 1) \notin heap /\ AssociationTick(j + 1) \in heap
          => previous[i.cell] = Sum(i.prbs, NumUes)

RadioInv ==
    /\ FramesInOrder /\ LastFrame /\ TopologyInOrder
    /\ \A e \in heap : e.kind = "service_completion" => Underway(e)
    /\ \A i \in intervals : \E j \in 0..(Len(frames) - 1) : InSlot(i, j)
    /\ current = [c \in Cells |-> current[c]]
    /\ InterferenceIsPrevious

\* What the proofs below use of the two invariants.
LEMMA RadioEvents ==
    ASSUME NEW own, PipelineInv(own), \A e \in heap : RadioTick(e), RadioInv
    PROVE  /\ Len(frames) \in Nat /\ now \in Nat
           /\ \A e \in heap : e.tick \in Nat /\ now <= e.tick
           /\ \A e \in heap : e.kind = "topology_control" =>
                 e.seq \in Slots /\ e.seq \in Nat /\ e = TopologyTick(e.seq)
                 /\ e.tick = At(e.seq) /\ e.phase = 30 /\ e.seq >= Len(frames)
           /\ \A e \in heap : e.kind = "link_association" =>
                 e.seq \in Slots /\ e.seq \in Nat /\ e = AssociationTick(e.seq)
                 /\ e.tick = At(e.seq) /\ e.phase = 50 /\ e.seq >= Len(frames)
           /\ \A e \in heap : e.kind = "scheduling" =>
                 e.seq \in Slots /\ e.seq \in Nat /\ e.entity \in Cells
                 /\ e.tick = At(e.seq) /\ e.phase = 60
           /\ \A e \in heap : e.kind = "service_completion" =>
                 e.seq \in Slots /\ e.seq \in Nat /\ e.entity \in Cells
                 /\ e.tick = At(e.seq + 1) /\ e.phase = 10 /\ Underway(e)
<1>1. Len(frames) \in Nat /\ now \in Nat
  BY Parts DEF RadioInv, FramesInOrder
<1>2. \A e \in heap : e.tick \in Nat /\ now <= e.tick /\ Scheduled(e) /\ RadioTick(e)
  BY Parts
<1>3. ASSUME NEW e \in heap, e.kind = "topology_control"
      PROVE  e.seq \in Slots /\ e.seq \in Nat /\ e = TopologyTick(e.seq)
             /\ e.tick = At(e.seq) /\ e.phase = 30 /\ e.seq >= Len(frames)
  <2>1. e.seq \in Slots /\ e = TopologyTick(e.seq)
    BY <1>2, <1>3 DEF RadioTick
  <2>2. e.tick = At(e.seq) /\ e.phase = 30
    BY <2>1, RadioParts
  <2> QED BY <2>1, <2>2, SlotTimes DEF RadioInv, TopologyInOrder
<1>4. ASSUME NEW e \in heap, e.kind = "link_association"
      PROVE  e.seq \in Slots /\ e.seq \in Nat /\ e = AssociationTick(e.seq)
             /\ e.tick = At(e.seq) /\ e.phase = 50 /\ e.seq >= Len(frames)
  <2>1. e.seq \in Slots /\ e = AssociationTick(e.seq)
    BY <1>2, <1>4 DEF RadioTick
  <2>2. e.tick = At(e.seq) /\ e.phase = 50
    BY <2>1, RadioParts
  <2> QED BY <2>1, <2>2, SlotTimes DEF RadioInv, FramesInOrder
<1>5. ASSUME NEW e \in heap, e.kind = "scheduling"
      PROVE  e.seq \in Slots /\ e.seq \in Nat /\ e.entity \in Cells
             /\ e.tick = At(e.seq) /\ e.phase = 60
  <2>1. e.seq \in Slots /\ e.entity \in Cells /\ e = SlotStart(e.entity, e.seq)
    BY <1>2, <1>5 DEF Scheduled
  <2>2. e.tick = At(e.seq) /\ e.phase = 60
    BY <2>1, SlotEventParts
  <2> QED BY <2>1, <2>2, SlotTimes
<1>6. ASSUME NEW e \in heap, e.kind = "service_completion"
      PROVE  e.seq \in Slots /\ e.seq \in Nat /\ e.entity \in Cells
             /\ e.tick = At(e.seq + 1) /\ e.phase = 10 /\ Underway(e)
  <2>1. e.seq \in Slots /\ e.seq \in Nat /\ e.entity \in Cells
        /\ e.tick = At(e.seq) + Slot /\ e.phase = 10
    BY <1>2, <1>6, ServiceParts
  <2>2. At(e.seq + 1) = At(e.seq) + Slot
    BY <2>1, SlotTimes
  <2> QED BY <1>6, <2>1, <2>2 DEF RadioInv
<1> QED BY <1>1, <1>2, <1>3, <1>4, <1>5, <1>6

\* The slot of a report is over.
LEMMA Reports ==
    ASSUME NEW own, PipelineInv(own), RadioInv, NEW i \in intervals
    PROVE  \E j \in Nat : j < Len(frames) /\ InSlot(i, j)
                          /\ i.end = At(j + 1) /\ At(j + 1) <= now
<1>1. Len(frames) \in Nat
  BY DEF RadioInv, FramesInOrder
<1>2. PICK j \in 0..(Len(frames) - 1) : InSlot(i, j)
  BY DEF RadioInv
<1>3. j \in Nat /\ j < Len(frames)
  BY <1>1
<1>4. i.end = At(j + 1) /\ At(j + 1) <= now
  BY <1>2 DEF InSlot
<1> QED BY <1>2, <1>3, <1>4

\* A handler that leaves the radio, the slots and the reports alone.
Quiet ==
    /\ heap' \subseteq heap /\ now' \in Nat /\ now <= now'
    /\ \A e \in heap \ heap' : e.kind \notin {"topology_control", "link_association"}
    /\ UNCHANGED <<intervals, radio, previous, current>>

\* Such a handler keeps slots and frames together.
LEMMA QuietRadio ==
    ASSUME NEW own, PipelineInv(own), \A e \in heap : RadioTick(e), RadioInv, Quiet
    PROVE  RadioInv'
<1>1. /\ intervals' = intervals /\ handover' = handover /\ availability' = availability
      /\ estimate' = estimate /\ frames' = frames /\ previous' = previous
      /\ current' = current /\ now \in Nat /\ now' \in Nat /\ now <= now'
      /\ heap' \subseteq heap
  BY Parts DEF Quiet, radio
<1>2. \A k : /\ TopologyTick(k) \in heap' <=> TopologyTick(k) \in heap
             /\ AssociationTick(k) \in heap' <=> AssociationTick(k) \in heap
  BY RadioParts DEF Quiet
<1>3. FramesInOrder'
  <2>1. \A k \in Nat : At(k) \in Nat
    BY SlotTimes
  <2>2. \A i \in 1..Len(frames) : i - 1 \in Nat
    BY DEF RadioInv, FramesInOrder
  <2>3. \A i \in 1..Len(frames) : At(i - 1) \in Nat /\ At(i - 1) <= now
    BY <2>1, <2>2 DEF RadioInv, FramesInOrder
  <2> QED BY <1>1, <1>2, <2>3 DEF RadioInv, FramesInOrder
<1>4. LastFrame'
  BY <1>1 DEF RadioInv, LastFrame
<1>5. TopologyInOrder'
  <2>1. \A k \in Slots : At(k) \in Nat
    BY SlotTimes
  <2> QED BY <1>1, <1>2, <2>1 DEF RadioInv, TopologyInOrder
<1>6. ASSUME NEW f \in heap', f.kind = "service_completion"
      PROVE  Underway(f)'
  BY <1>1, <1>2, <1>6 DEF RadioInv, Underway, FitsFrame
<1>7. ASSUME NEW i \in intervals'
      PROVE  \E j \in 0..(Len(frames') - 1) : InSlot(i, j)'
  <2>1. PICK j \in 0..(Len(frames) - 1) : InSlot(i, j)
    BY <1>1, <1>7 DEF RadioInv
  <2>2. j \in Nat /\ At(j + 1) \in Nat
    BY SlotTimes
  <2>3. InSlot(i, j)'
    BY <1>1, <1>2, <2>1, <2>2 DEF InSlot, FitsFrame
  <2> QED BY <1>1, <2>3
<1>8. (current = [c \in Cells |-> current[c]])'
  BY <1>1 DEF RadioInv
<1>9. InterferenceIsPrevious'
  BY <1>1 DEF RadioInv, InterferenceIsPrevious
<1> QED BY <1>3, <1>4, <1>5, <1>6, <1>7, <1>8, <1>9 DEF RadioInv

\* The handlers that the two simulations share are quiet, but for the two that
\* plan and complete slots.
LEMMA QuietHandlers ==
    ASSUME NEW own, PipelineInv(own), NEW e \in heap,
           ArrivalHandler(e) \/ DeadlineHandler(e) \/ CensorHandler(e),
           UNCHANGED <<intervals, radio, previous, current>>
    PROVE  Quiet
<1>1. e.kind \notin {"topology_control", "link_association"}
  BY DEF ArrivalHandler, DeadlineHandler, CensorHandler, Pop
<1>2. PICK h, b, s : Handled(h, b, s)
  BY ArrivalKeeps, DeadlineKeeps, CensorKeeps
<1>3. heap' = heap \ {e}
  BY <1>2 DEF ArrivalHandler, DeadlineHandler, CensorHandler, Done, Abort
<1>4. now' = e.tick /\ e.tick \in Nat /\ now <= e.tick
  BY Parts DEF ArrivalHandler, DeadlineHandler, CensorHandler, Pop
<1> QED BY <1>1, <1>3, <1>4 DEF Quiet

\* So are the end of the run and a step that changes nothing.
LEMMA QuietEnds ==
    ASSUME NEW own, PipelineInv(own),
           \/ Finish /\ UNCHANGED <<intervals, radio, previous, current>>
           \/ UNCHANGED dynamicVars
    PROVE  Quiet
<1>1. CASE Finish /\ UNCHANGED <<intervals, radio, previous, current>>
  <2>1. heap' = heap /\ now' = Stop
    BY <1>1 DEF Finish
  <2>2. now <= Stop /\ Stop \in Nat
    BY Configuration DEF PipelineInv, Running
  <2> QED BY <1>1, <2>1, <2>2 DEF Quiet
<1>2. CASE UNCHANGED dynamicVars
  <2>1. now' = now /\ heap' = heap /\ now \in Nat
    BY <1>2, Parts DEF dynamicVars, pipeline
  <2> QED BY <1>2, <2>1 DEF Quiet, dynamicVars
<1> QED BY <1>1, <1>2

\* The topology of a slot finds no slot in service, takes over what the slot
\* before allocated, and starts counting anew.
LEMMA TopologyRadio ==
    ASSUME NEW own, PipelineInv(own), \A e \in heap : RadioTick(e), RadioInv,
           NEW e \in heap, TopologyHandler(e), Dispatched(e)
    PROVE  RadioInv'
<1>1. /\ heap' = heap \ {e} /\ now' = e.tick /\ e.kind = "topology_control"
      /\ previous' = Activity(e.tick) /\ current' = [c \in Cells |-> 0]
      /\ intervals' = intervals /\ handover' = handover /\ availability' = availability
      /\ estimate' = estimate /\ frames' = frames
      /\ \A h \in heap : h = e \/ Precedes(e, h)
  BY DEF TopologyHandler, Pop, Done, Dispatched
<1>2. PICK k \in Slots : /\ k \in Nat /\ e = TopologyTick(k) /\ e.seq = k /\ e.tick = At(k)
                         /\ e.phase = 30 /\ k >= Len(frames)
                         /\ At(k) \in Nat /\ now <= At(k) /\ now \in Nat
  <2>1. /\ e.seq \in Slots /\ e.seq \in Nat /\ e = TopologyTick(e.seq)
        /\ e.tick = At(e.seq) /\ e.phase = 30 /\ e.seq >= Len(frames)
        /\ now \in Nat /\ now <= e.tick
    BY <1>1, RadioEvents
  <2> QED BY <2>1, SlotTimes
<1>3. \A j : /\ TopologyTick(j) \in heap' <=> TopologyTick(j) \in heap /\ j # k
             /\ AssociationTick(j) \in heap' <=> AssociationTick(j) \in heap
  BY <1>1, <1>2, RadioParts
<1>4. \A f \in heap : f.kind # "service_completion"
  <2> SUFFICES ASSUME NEW f \in heap, f.kind = "service_completion"
               PROVE  FALSE
    OBVIOUS
  <2> DEFINE n == Len(frames)
  <2>1. n \in Nat /\ f.tick = At(n) /\ f.phase = 10
    BY RadioEvents DEF Underway
  <2>2. Precedes(e, f) /\ At(n) \in Nat
    BY <1>1, <1>2, <2>1, SlotTimes
  <2> HIDE DEF n
  <2>3. At(k) < At(n)
    BY <1>2, <2>1, <2>2 DEF Precedes
  <2>4. k < n
    BY <1>2, <2>1, <2>3, SlotOrder
  <2> QED BY <1>2, <2>1, <2>4 DEF n
<1>5. FramesInOrder'
  <2>1. \A j \in Nat : At(j) \in Nat
    BY SlotTimes
  <2>2. \A i \in 1..Len(frames) : i - 1 \in Nat
    BY DEF RadioInv, FramesInOrder
  <2>3. \A i \in 1..Len(frames) : At(i - 1) \in Nat /\ At(i - 1) <= now
    BY <2>1, <2>2 DEF RadioInv, FramesInOrder
  <2> QED BY <1>1, <1>2, <1>3, <2>3 DEF RadioInv, FramesInOrder
<1>6. LastFrame'
  BY <1>1 DEF RadioInv, LastFrame
<1>7. TopologyInOrder'
  <2>1. \A j \in Slots : At(j) \in Nat
    BY SlotTimes
  <2>2. ASSUME NEW j \in Slots, At(j) > now'
        PROVE  TopologyTick(j) \in heap'
    <3>1. At(j) > now /\ j # k
      BY <1>1, <1>2, <2>1, <2>2
    <3> QED BY <1>3, <3>1 DEF RadioInv, TopologyInOrder
  <2> QED BY <1>1, <1>3, <2>2 DEF RadioInv, TopologyInOrder
<1>8. ASSUME NEW i \in intervals'
      PROVE  \E j \in 0..(Len(frames') - 1) : InSlot(i, j)'
  <2>1. PICK j \in Nat : j < Len(frames) /\ InSlot(i, j)
                         /\ i.end = At(j + 1) /\ At(j + 1) <= now
    BY <1>1, <1>8, Reports
  <2>2. j + 1 \in Nat /\ At(j + 1) \in Nat
    BY <2>1, SlotTimes
  <2>3. j + 1 <= k
    <3>1. At(j + 1) <= At(k)
      BY <1>2, <2>1, <2>2
    <3> QED BY <1>2, <2>2, <3>1, SlotOrder
  <2>4. TopologyTick(j + 1) \in heap => j + 1 = k
    <3> SUFFICES ASSUME TopologyTick(j + 1) \in heap, j + 1 # k
                 PROVE  FALSE
      OBVIOUS
    <3>1. Precedes(e, TopologyTick(j + 1)) /\ TopologyTick(j + 1).tick = At(j + 1)
      BY <1>1, <1>2, RadioParts
    <3>2. At(k) <= At(j + 1)
      BY <1>2, <2>2, <3>1 DEF Precedes
    <3> QED BY <1>2, <2>2, <2>3, <3>2, SlotOrder
  <2>5. AssociationTick(j + 1) \in heap => j + 1 = k
    <3> SUFFICES ASSUME AssociationTick(j + 1) \in heap, j + 1 # k
                 PROVE  FALSE
      OBVIOUS
    <3>1. Precedes(e, AssociationTick(j + 1)) /\ AssociationTick(j + 1).tick = At(j + 1)
      BY <1>1, <1>2, RadioParts
    <3>2. At(k) <= At(j + 1)
      BY <1>2, <2>2, <3>1 DEF Precedes
    <3> QED BY <1>2, <2>2, <2>3, <3>2, SlotOrder
  <2>6. ASSUME j + 1 = k
        PROVE  previous'[i.cell] = Sum(i.prbs, NumUes)
    <3>1. TopologyTick(j + 1) \in heap
      BY <1>2, <2>6
    <3>2. current[i.cell] = Sum(i.prbs, NumUes)
      BY <2>1, <3>1 DEF InSlot
    <3>3. At(k) > 0
      <4>1. At(j) \in Nat /\ At(j + 1) = At(j) + Slot /\ Slot > 0 /\ Slot \in Nat
        BY <2>1, SlotTimes, Configuration
      <4> QED BY <2>6, <4>1
    <3> QED BY <1>1, <1>2, <3>2, <3>3 DEF Activity
  <2>7. i.end <= now'
    BY <1>1, <1>2, <2>1, <2>2
  <2>8. InSlot(i, j)'
    BY <1>1, <1>3, <2>1, <2>4, <2>5, <2>6, <2>7 DEF InSlot, FitsFrame
  <2>9. j \in 0..(Len(frames') - 1)
    BY <1>1, <2>1 DEF RadioInv, FramesInOrder
  <2> QED BY <2>8, <2>9
<1>9. (current = [c \in Cells |-> current[c]])' /\ InterferenceIsPrevious'
  BY <1>1 DEF RadioInv, InterferenceIsPrevious
<1> QED BY <1>1, <1>4, <1>5, <1>6, <1>7, <1>8, <1>9 DEF RadioInv

\* The association of a slot appends its frame: the slots before are over,
\* and the topology of the same tick has run.
LEMMA AssociationRadio ==
    ASSUME NEW own, PipelineInv(own), \A e \in heap : RadioTick(e), RadioInv,
           NEW e \in heap, AssociationHandler(e), Dispatched(e)
    PROVE  RadioInv'
<1> DEFINE n == Len(frames)
           frame == [tick |-> e.tick, previous |-> previous,
                     ues |-> [u \in Ues |-> FrameOf(u, e.tick)]]
<1>1. /\ heap' = heap \ {e} /\ now' = e.tick /\ e.kind = "link_association"
      /\ previous' = previous /\ current' = current /\ intervals' = intervals
      /\ frames' = Append(frames, frame)
      /\ \A h \in heap : h = e \/ Precedes(e, h)
  BY DEF AssociationHandler, Pop, Done, Dispatched
<1>2. PICK k \in Slots : /\ k \in Nat /\ e = AssociationTick(k) /\ e.seq = k /\ e.tick = At(k)
                         /\ e.phase = 50 /\ k >= n
                         /\ At(k) \in Nat /\ now <= At(k) /\ now \in Nat
  <2>1. /\ e.seq \in Slots /\ e.seq \in Nat /\ e = AssociationTick(e.seq)
        /\ e.tick = At(e.seq) /\ e.phase = 50 /\ e.seq >= n
        /\ now \in Nat /\ now <= e.tick
    BY <1>1, RadioEvents
  <2> QED BY <2>1, SlotTimes
<1>3. \A j : /\ AssociationTick(j) \in heap' <=> AssociationTick(j) \in heap /\ j # k
             /\ TopologyTick(j) \in heap' <=> TopologyTick(j) \in heap
  BY <1>1, <1>2, RadioParts
<1>4. n \in Nat /\ At(n) \in Nat
  BY RadioEvents, SlotTimes
<1>5. k = n
  <2> SUFFICES ASSUME k # n
               PROVE  FALSE
    OBVIOUS
  <2>0. k # n
    OBVIOUS
  <2>1. n \in Slots /\ n < k
    <3> DEFINE last == (Stop \div Slot) - 1
    <3>1. last \in Int /\ k \in 0..last
      BY Configuration, <1>2 DEF Slots
    <3> HIDE DEF last, n
    <3>2. n \in 0..last /\ n < k
      BY <1>2, <1>4, <2>0, <3>1
    <3> QED BY <3>2 DEF Slots, last
  <2>2. AssociationTick(n) \in heap
    BY <2>1, <1>4 DEF RadioInv, FramesInOrder
  <2> HIDE DEF n
  <2>3. Precedes(e, AssociationTick(n)) /\ AssociationTick(n).tick = At(n)
    BY <1>1, <1>2, <2>1, <2>2, RadioParts
  <2>4. At(k) <= At(n)
    BY <1>2, <1>4, <2>3 DEF Precedes
  <2> QED BY <1>2, <1>4, <2>1, <2>4, SlotOrder
<1>6. \A f \in heap : f.kind # "service_completion"
  <2> SUFFICES ASSUME NEW f \in heap, f.kind = "service_completion"
               PROVE  FALSE
    OBVIOUS
  <2>1. f.tick = At(n) /\ f.phase = 10
    BY RadioEvents DEF Underway
  <2>2. Precedes(e, f)
    BY <1>1, <1>2
  <2> QED BY <1>2, <1>5, <2>1, <2>2 DEF Precedes
<1>7. /\ Len(frames') = n + 1 /\ frames'[n + 1] = frame
      /\ \A i \in 1..n : frames'[i] = frames[i]
      /\ frames' \in Seq({frames'[i] : i \in DOMAIN frames'})
  <2> DEFINE S == {frames[i] : i \in DOMAIN frames}
             T == S \cup {frame}
  <2>1. frames \in Seq(S)
    BY DEF RadioInv, FramesInOrder
  <2> HIDE DEF S, frame
  <2>2. frames \in Seq(T) /\ frame \in T
    BY <2>1
  <2>3. /\ Len(frames') = n + 1 /\ frames'[n + 1] = frame
        /\ \A i \in 1..n : frames'[i] = frames[i]
        /\ frames' \in Seq(T)
    BY <1>1, <2>2
  <2> QED BY <2>3
<1> HIDE DEF frame, n
<1>8. FramesInOrder'
  <2>1. ASSUME NEW i \in 1..(n + 1)
        PROVE  frames'[i].tick = At(i - 1) /\ At(i - 1) <= now'
    <3>1. CASE i = n + 1
      BY <1>1, <1>2, <1>4, <1>5, <1>7, <3>1 DEF frame
    <3>2. CASE i # n + 1
      <4>1. i \in 1..n /\ i - 1 \in Nat
        BY <1>4, <3>2
      <4>2. frames[i].tick = At(i - 1) /\ At(i - 1) <= now /\ At(i - 1) \in Nat
        BY <4>1, SlotTimes DEF RadioInv, FramesInOrder, n
      <4>3. frames'[i] = frames[i]
        BY <1>7, <4>1
      <4>4. At(i - 1) <= now'
        BY <1>1, <1>2, <4>2
      <4> QED BY <4>2, <4>3, <4>4
    <3> QED BY <3>1, <3>2
  <2>2. ASSUME NEW j \in Slots
        PROVE  AssociationTick(j) \in heap' <=> j >= n + 1
    <3>1. AssociationTick(j) \in heap <=> j >= n
      BY DEF RadioInv, FramesInOrder, n
    <3>2. j \in Nat
      BY SlotTimes
    <3> QED BY <1>3, <1>4, <1>5, <3>1, <3>2
  <2> QED BY <1>7, <2>1, <2>2 DEF FramesInOrder
<1>9. LastFrame'
  <2>1. ASSUME NEW u \in Ues
        PROVE  /\ frame.ues[u].serving = handover'[u].serving
               /\ frame.ues[u].available <=>
                     Reachable(handover'[u], availability'[u], frame.tick)
               /\ frame.ues[u].estimate = estimate'[u]
    BY DEF frame, FrameOf
  <2> QED BY <1>4, <1>7, <2>1 DEF LastFrame
<1>10. TopologyInOrder'
  <2>1. ASSUME NEW j \in Slots, At(j) > now'
        PROVE  TopologyTick(j) \in heap'
    <3>1. At(j) > now
      <4>1. At(j) \in Nat /\ At(j) > e.tick
        BY <1>1, <2>1, SlotTimes
      <4> QED BY <1>2, <4>1
    <3> QED BY <1>3, <3>1 DEF RadioInv, TopologyInOrder
  <2>2. ASSUME NEW j \in Slots, TopologyTick(j) \in heap'
        PROVE  j >= n + 1
    <3>1. j >= n /\ TopologyTick(j) \in heap
      BY <1>3, <2>2 DEF RadioInv, TopologyInOrder, n
    <3>2. Precedes(e, TopologyTick(j)) /\ e # TopologyTick(j)
          /\ TopologyTick(j).tick = At(j) /\ TopologyTick(j).phase = 30
      BY <1>1, <1>2, <3>1, RadioParts
    <3>3. j # n
      BY <1>2, <1>5, <3>2 DEF Precedes
    <3>4. j \in Nat
      BY SlotTimes
    <3> QED BY <1>4, <3>1, <3>3, <3>4
  <2> QED BY <1>7, <2>1, <2>2 DEF TopologyInOrder
<1>11. ASSUME NEW i \in intervals'
       PROVE  /\ \E j \in 0..(Len(frames') - 1) : InSlot(i, j)'
              /\ i.end = At(n) => previous[i.cell] = Sum(i.prbs, NumUes)
  <2>1. PICK j \in Nat : j < Len(frames) /\ InSlot(i, j)
                         /\ i.end = At(j + 1) /\ At(j + 1) <= now
    BY <1>1, <1>11, Reports
  <2>2. j + 1 \in 1..n /\ j + 1 \in Nat
    BY <1>4, <2>1 DEF n
  <2>3. At(j + 1) \in Nat /\ i.end <= now'
    <3>1. At(j + 1) \in Nat
      BY <2>2, SlotTimes
    <3> QED BY <1>1, <1>2, <2>1, <3>1
  <2>4. frames'[j + 1] = frames[j + 1]
    BY <1>7, <2>2
  <2>5. InSlot(i, j)'
    BY <1>1, <1>3, <2>1, <2>3, <2>4 DEF InSlot, FitsFrame
  <2>6. j \in 0..(Len(frames') - 1)
    BY <1>4, <1>7, <2>1 DEF n
  <2>7. ASSUME i.end = At(n)
        PROVE  previous[i.cell] = Sum(i.prbs, NumUes)
    <3>1. j + 1 = n
      BY <1>4, <2>1, <2>2, <2>7, SlotOrder
    <3>2. AssociationTick(n) \in heap
      BY <1>2, <1>5
    <3>3. TopologyTick(n) \notin heap
      <4>1. /\ e # TopologyTick(n) /\ TopologyTick(n).tick = At(n)
            /\ TopologyTick(n).phase = 30
        BY <1>1, RadioParts
      <4> QED BY <1>1, <1>2, <1>5, <4>1 DEF Precedes
    <3> QED BY <2>1, <3>1, <3>2, <3>3 DEF InSlot
  <2> QED BY <2>5, <2>6, <2>7
<1>12. InterferenceIsPrevious'
  <2> SUFFICES ASSUME NEW m \in DOMAIN frames', NEW i \in intervals', i.end = frames'[m].tick
               PROVE  frames'[m].previous[i.cell] = Sum(i.prbs, NumUes)
    BY DEF InterferenceIsPrevious
  <2>1. m \in 1..(n + 1)
    BY <1>7
  <2>2. CASE m = n + 1
    BY <1>2, <1>5, <1>7, <1>11, <2>2 DEF frame
  <2>3. CASE m # n + 1
    <3>1. m \in 1..n /\ m \in DOMAIN frames
      <4>1. m \in 1..n
        BY <1>4, <2>1, <2>3
      <4> QED BY <4>1 DEF n, RadioInv, FramesInOrder
    <3> QED BY <1>1, <1>7, <3>1 DEF RadioInv, InterferenceIsPrevious
  <2> QED BY <2>2, <2>3
<1>13. (current = [c \in Cells |-> current[c]])'
  BY <1>1 DEF RadioInv
<1> QED BY <1>1, <1>6, <1>8, <1>9, <1>10, <1>11, <1>12, <1>13 DEF RadioInv

\* A slot that starts is the one of the last frame; its UEs are taken from
\* that frame, and its allocations are counted for the next topology.
LEMMA SchedulingRadio ==
    ASSUME NEW own, PipelineInv(own), \A e \in heap : RadioTick(e), RadioInv,
           NEW e \in heap, NEW d \in ValidDecisions(ReachableCandidates(e.entity, e.tick)),
           DynamicScheduling(e, d), NEW g, Committed(own, e, g)
    PROVE  RadioInv'
<1> DEFINE n == Len(frames)
           k == e.seq
           c == e.entity
           capacity == [u \in Ues |-> PlannedBits(u, c, d[u])]
<1>o. PICK observed : observed = ReachableCandidates(c, e.tick)
  OBVIOUS
<1>w. PICK work : work = [eligible |-> observed, prbs |-> d, capacity |-> capacity,
                          plan |-> PlanOf(capacity, e.tick)]
  OBVIOUS
<1>f. PICK f : f = SlotEnd(c, k, work)
  OBVIOUS
<1> HIDE DEF capacity
<1>1. /\ now' = e.tick /\ e.kind = "scheduling" /\ mode' = "running"
      /\ previous' = previous /\ intervals' = intervals
      /\ current' = [current EXCEPT ![c] = Sum(d, NumUes)]
      /\ handover' = handover /\ availability' = availability
      /\ estimate' = estimate /\ frames' = frames
      /\ \A h \in heap : h = e \/ Precedes(e, h)
  BY DEF DynamicScheduling, Pop, Commit, Committed, Dispatched, radio
<1>2. heap' = (heap \ {e}) \cup {f}
  BY <1>1, <1>o, <1>w, <1>f DEF DynamicScheduling, Commit, Done, Abort, capacity
<1>3. /\ k \in Slots /\ k \in Nat /\ c \in Cells /\ e.tick = At(k) /\ e.phase = 60
      /\ n \in Nat /\ now \in Nat /\ now <= At(k) /\ At(k) \in Nat
      /\ At(k + 1) = At(k) + Slot /\ k + 1 \in Nat /\ At(k + 1) \in Nat
      /\ Slot \in Nat /\ Slot > 0
  <2>1. /\ k \in Slots /\ k \in Nat /\ c \in Cells /\ e.tick = At(k) /\ e.phase = 60
        /\ n \in Nat /\ now \in Nat /\ now <= At(k)
    BY <1>1, RadioEvents
  <2> HIDE DEF n, k, c
  <2>2. At(k) \in Nat /\ At(k + 1) = At(k) + Slot
    BY <2>1, SlotTimes
  <2>3. Slot \in Nat /\ Slot > 0
    BY Configuration
  <2> QED BY <2>1, <2>2, <2>3
<1>4. /\ f.kind = "service_completion" /\ f.seq = k /\ f.entity = c /\ f.work = work
  <2> HIDE DEF k, c
  <2> QED BY <1>3, <1>f, SlotEventParts
<1>5. \A j : /\ AssociationTick(j) \in heap' <=> AssociationTick(j) \in heap
             /\ TopologyTick(j) \in heap' <=> TopologyTick(j) \in heap
  BY <1>1, <1>2, <1>4, RadioParts
<1>6. n = k + 1
  <2>1. k < n
    <3> SUFFICES ASSUME k >= n
                 PROVE  FALSE
      BY <1>3
    <3>1. AssociationTick(k) \in heap
      BY <1>3 DEF RadioInv, FramesInOrder
    <3>2. /\ AssociationTick(k) # e /\ AssociationTick(k).tick = At(k)
          /\ AssociationTick(k).phase = 50
      BY <1>1, RadioParts
    <3>3. Precedes(e, AssociationTick(k))
      BY <1>1, <3>1, <3>2
    <3> HIDE DEF n, k
    <3> QED BY <1>3, <3>2, <3>3 DEF Precedes
  <2> DEFINE m == n - 1
  <2>2. m \in Nat /\ n \in 1..n
    BY <1>3, <2>1
  <2>3. At(m) <= now /\ At(m) \in Nat
    BY <2>2, SlotTimes DEF RadioInv, FramesInOrder
  <2>4. At(m) <= At(k)
    <3> HIDE DEF m, k
    <3> QED BY <1>3, <2>3
  <2>5. m <= k
    <3> HIDE DEF m, k, n
    <3> QED BY <1>3, <2>2, <2>3, <2>4, SlotOrder
  <2> QED BY <1>3, <2>1, <2>5
<1>7. FramesInOrder'
  <2>1. \A j \in Nat : At(j) \in Nat
    BY SlotTimes
  <2>2. \A i \in 1..Len(frames) : i - 1 \in Nat
    BY DEF RadioInv, FramesInOrder
  <2>3. \A i \in 1..Len(frames) : At(i - 1) \in Nat /\ At(i - 1) <= now
    BY <2>1, <2>2 DEF RadioInv, FramesInOrder
  <2> QED BY <1>1, <1>3, <1>5, <2>3 DEF RadioInv, FramesInOrder
<1>8. LastFrame'
  BY <1>1 DEF RadioInv, LastFrame
<1>9. TopologyInOrder'
  <2>1. \A j \in Slots : At(j) \in Nat
    BY SlotTimes
  <2> QED BY <1>1, <1>3, <1>5, <2>1 DEF RadioInv, TopologyInOrder
<1>10. /\ c \in Cells => current'[c] = Sum(d, NumUes)
       /\ \A b \in Cells \ {c} : current'[b] = current[b]
       /\ current' = [b \in Cells |-> current'[b]]
  BY <1>1, <1>3 DEF RadioInv
<1>11. Underway(f)'
  <2>1. /\ FitsFrame(n, c, observed, d)
    <3>1. n \in 1..n /\ n - 1 = k
      BY <1>3, <1>6
    <3>2. frames[n].tick = e.tick
      BY <1>3, <3>1 DEF RadioInv, FramesInOrder
    <3>3. ASSUME NEW u \in observed
          PROVE  u \in Ues /\ frames[n].ues[u].serving = c /\ frames[n].ues[u].available
      BY <1>o, <3>1, <3>2, <3>3 DEF RadioInv, LastFrame, ReachableCandidates
    <3>4. \A u \in Ues : d[u] > 0 => u \in observed
      BY <1>o DEF ValidDecisions
    <3> QED BY <3>3, <3>4 DEF FitsFrame
  <2>2. k + 1 \in Slots => TopologyTick(k + 1) \in heap
    <3>1. At(k + 1) > now
      BY <1>3
    <3> QED BY <3>1 DEF RadioInv, TopologyInOrder
  <2>3. FitsFrame(n, c, observed, d)'
    BY <1>1, <2>1 DEF FitsFrame
  <2>4. work.eligible = observed /\ work.prbs = d
    BY <1>w
  <2>5. /\ f.seq + 1 = n /\ f.seq + 1 = k + 1 /\ f.entity = c
        /\ f.work.eligible = observed /\ f.work.prbs = d
    BY <1>4, <1>6, <2>4
  <2> QED BY <1>1, <1>3, <1>5, <1>10, <2>2, <2>3, <2>5 DEF Underway, n
<1>12. ASSUME NEW h \in heap', h.kind = "service_completion", h # f
       PROVE  Underway(h)'
  <2>1. h \in heap /\ Underway(h) /\ h.entity \in Cells \ {c}
    BY <1>2, <1>12, OthersInService, RadioEvents
  <2> HIDE DEF c
  <2> QED BY <1>1, <1>5, <1>10, <2>1 DEF Underway, FitsFrame
<1>13. ASSUME NEW i \in intervals'
       PROVE  \E j \in 0..(Len(frames') - 1) : InSlot(i, j)'
  <2>1. PICK j \in Nat : j < Len(frames) /\ InSlot(i, j)
                         /\ i.end = At(j + 1) /\ At(j + 1) <= now
    BY <1>1, <1>13, Reports
  <2>2. j + 1 \in Nat /\ At(j + 1) \in Nat
    BY <2>1, SlotTimes
  <2>3. TopologyTick(j + 1) \notin heap
    <3> SUFFICES ASSUME TopologyTick(j + 1) \in heap
                 PROVE  FALSE
      OBVIOUS
    <3>1. /\ TopologyTick(j + 1) # e /\ TopologyTick(j + 1).tick = At(j + 1)
          /\ TopologyTick(j + 1).phase = 30
      BY <1>1, RadioParts
    <3>2. Precedes(e, TopologyTick(j + 1))
      BY <1>1, <3>1
    <3> QED BY <1>3, <2>1, <2>2, <3>1, <3>2 DEF Precedes
  <2>4. i.end <= now'
    BY <1>1, <1>3, <2>1, <2>2
  <2>5. InSlot(i, j)'
    BY <1>1, <1>5, <2>1, <2>3, <2>4 DEF InSlot, FitsFrame
  <2>6. j \in 0..(Len(frames') - 1)
    BY <1>1, <1>3, <2>1
  <2> QED BY <2>5, <2>6
<1>14. InterferenceIsPrevious'
  BY <1>1 DEF RadioInv, InterferenceIsPrevious
<1> QED BY <1>7, <1>8, <1>9, <1>10, <1>11, <1>12, <1>13, <1>14 DEF RadioInv

\* A slot that ends is the one of the last frame, and is reported with what
\* that frame has.
LEMMA ServiceRadio ==
    ASSUME NEW own, PipelineInv(own), \A e \in heap : RadioTick(e), RadioInv,
           NEW e \in heap, ServiceHandler(e, WithoutEstimate), Served(own, e),
           UNCHANGED <<radio, previous, current>>
    PROVE  RadioInv'
<1> DEFINE n == Len(frames)
           k == e.seq
<1>l. PICK lost : lost = IntervalOf(e, WithoutEstimate)
  OBVIOUS
<1>1. /\ now' = e.tick /\ e.kind = "service_completion" /\ mode' = "running"
      /\ previous' = previous /\ current' = current /\ heap' = heap \ {e}
      /\ handover' = handover /\ availability' = availability
      /\ estimate' = estimate /\ frames' = frames
  BY DEF Served, Dispatched, radio
<1>2. intervals' = intervals \cup {lost}
  BY <1>1, <1>l DEF ServiceHandler, Abort
<1>3. /\ k \in Nat /\ e.entity \in Cells /\ e.tick = At(k + 1) /\ Underway(e)
      /\ now \in Nat /\ now <= e.tick /\ e.tick \in Nat /\ n \in Nat /\ n = k + 1
      /\ k \in 0..(n - 1)
  <2>1. /\ k \in Nat /\ e.entity \in Cells /\ e.tick = At(k + 1) /\ Underway(e)
        /\ now \in Nat /\ now <= e.tick /\ e.tick \in Nat /\ n \in Nat
    BY <1>1, RadioEvents
  <2>2. n = k + 1
    BY <2>1 DEF Underway
  <2> HIDE DEF n, k
  <2> QED BY <2>1, <2>2
<1>4. \A j : /\ AssociationTick(j) \in heap' <=> AssociationTick(j) \in heap
             /\ TopologyTick(j) \in heap' <=> TopologyTick(j) \in heap
  BY <1>1, RadioParts
<1>5. \A i \in 1..n : i - 1 \in Nat /\ At(i - 1) \in Nat /\ frames[i].tick = At(i - 1)
                      /\ At(i - 1) <= now
  <2>1. \A j \in Nat : At(j) \in Nat
    BY SlotTimes
  <2>2. \A i \in 1..n : i - 1 \in Nat
    BY <1>3
  <2> QED BY <2>1, <2>2 DEF RadioInv, FramesInOrder
<1>6. FramesInOrder'
  BY <1>1, <1>3, <1>4, <1>5 DEF RadioInv, FramesInOrder
<1>7. LastFrame'
  BY <1>1 DEF RadioInv, LastFrame
<1>8. TopologyInOrder'
  <2>1. \A j \in Slots : At(j) \in Nat
    BY SlotTimes
  <2> QED BY <1>1, <1>3, <1>4, <2>1 DEF RadioInv, TopologyInOrder
<1>9. ASSUME NEW h \in heap', h.kind = "service_completion"
      PROVE  Underway(h)'
  BY <1>1, <1>4, <1>9 DEF RadioInv, Underway, FitsFrame
<1>10. InSlot(lost, k)'
  <2>1. /\ lost.start = At(k) /\ lost.end = At(k + 1) /\ lost.cell = e.entity
        /\ lost.eligible = e.work.eligible /\ lost.prbs = e.work.prbs
        /\ lost.outage = e.work.eligible \cap WithoutEstimate
    BY <1>3, <1>l DEF IntervalOf, At
  <2> HIDE DEF k, n
  <2>2. /\ FitsFrame(k + 1, lost.cell, lost.eligible, lost.prbs)
        /\ current[lost.cell] = Sum(lost.prbs, NumUes)
        /\ k + 1 \in Slots => TopologyTick(k + 1) \in heap
    BY <1>3, <2>1 DEF Underway, k
  <2>3. lost.outage = {u \in lost.eligible : frames[k + 1].ues[u].estimate = 0}
    <3>1. n \in 1..Len(frames) /\ n = Len(frames)
      BY <1>3 DEF n
    <3>2. \A u \in Ues : frames[k + 1].ues[u].estimate = estimate[u]
      BY <1>3, <3>1 DEF RadioInv, LastFrame
    <3>3. lost.eligible \subseteq Ues
      BY <2>2 DEF FitsFrame
    <3> QED BY <2>1, <3>2, <3>3 DEF WithoutEstimate
  <2>4. AssociationTick(k + 1) \in heap => TopologyTick(k + 1) \in heap
    BY <2>2, RadioParts DEF RadioTick
  <2>5. lost.end <= now'
    BY <1>1, <1>3, <2>1
  <2> QED BY <1>1, <1>3, <1>4, <2>1, <2>2, <2>3, <2>4, <2>5 DEF InSlot, FitsFrame
<1>11. ASSUME NEW i \in intervals
       PROVE  \E j \in 0..(Len(frames') - 1) : InSlot(i, j)'
  <2>1. PICK j \in Nat : j < Len(frames) /\ InSlot(i, j)
                         /\ i.end = At(j + 1) /\ At(j + 1) <= now
    BY <1>11, Reports
  <2>2. j + 1 \in Nat /\ At(j + 1) \in Nat
    BY <2>1, SlotTimes
  <2>3. i.end <= now'
    BY <1>1, <1>3, <2>1, <2>2
  <2>4. InSlot(i, j)'
    BY <1>1, <1>4, <2>1, <2>3 DEF InSlot, FitsFrame
  <2>5. j \in 0..(Len(frames') - 1)
    BY <1>1, <1>3, <2>1
  <2> QED BY <2>4, <2>5
<1>12. InterferenceIsPrevious'
  <2>1. ASSUME NEW m \in DOMAIN frames
        PROVE  frames[m].tick # lost.end
    <3>1. m \in 1..n
      BY DEF RadioInv, FramesInOrder
    <3>2. m - 1 \in Nat /\ frames[m].tick = At(m - 1)
      BY <1>5, <3>1
    <3>3. lost.end = At(k + 1) /\ k + 1 \in Nat
      BY <1>3, <1>l DEF IntervalOf
    <3> HIDE DEF n, k
    <3>4. m - 1 # k + 1
      BY <1>3, <3>1
    <3> QED BY <3>2, <3>3, <3>4, SlotOrder
  <2> QED BY <1>1, <1>2, <2>1 DEF RadioInv, InterferenceIsPrevious
<1>13. (current = [c \in Cells |-> current[c]])'
  BY <1>1 DEF RadioInv
<1>14. ASSUME NEW i \in intervals'
       PROVE  \E j \in 0..(Len(frames') - 1) : InSlot(i, j)'
  BY <1>1, <1>2, <1>3, <1>10, <1>11
<1> QED BY <1>6, <1>7, <1>8, <1>9, <1>12, <1>13, <1>14 DEF RadioInv

\* Every step of the dynamic pipeline keeps slots and frames together.
LEMMA RadioNext ==
    ASSUME DynamicInv, RadioInv, [DynamicNext]_dynamicVars
    PROVE  RadioInv'
<1>1. PICK own : own = Serving /\ PipelineInv(own)
  BY DEF DynamicInv
<1>2. \A e \in heap : RadioTick(e)
  BY DEF DynamicInv
<1>3. ASSUME NEW e \in heap, TopologyHandler(e) \/ AssociationHandler(e)
      PROVE  RadioInv'
  <2>1. Dispatched(e)
    BY <1>1, <1>3, RadioIdle DEF Idle
  <2> QED BY <1>1, <1>2, <1>3, <2>1, TopologyRadio, AssociationRadio
<1>4. ASSUME NEW e \in heap, NEW d \in ValidDecisions(ReachableCandidates(e.entity, e.tick)),
             DynamicScheduling(e, d)
      PROVE  RadioInv'
  <2> DEFINE capacity == [u \in Ues |-> PlannedBits(u, e.entity, d[u])]
  <2>1. MayCarry(own, e, capacity)
    BY <1>1, DynamicCarries
  <2>2. /\ Pop(e, "scheduling")
        /\ Commit(e, ReachableCandidates(e.entity, e.tick), d, capacity)
    BY <1>4 DEF DynamicScheduling
  <2> HIDE DEF capacity
  <2>3. PICK f : Committed(own, e, f)
    BY <1>1, <2>1, <2>2, CommitKeeps
  <2> QED BY <1>1, <1>2, <1>4, <2>3, SchedulingRadio
<1>5. ASSUME NEW e \in heap, ServiceHandler(e, WithoutEstimate),
             UNCHANGED <<radio, previous, current>>
      PROVE  RadioInv'
  <2>1. Served(own, e)
    BY <1>1, <1>5, ServiceKeeps
  <2> QED BY <1>1, <1>2, <1>5, <2>1, ServiceRadio
<1>6. ASSUME NEW e \in heap, ArrivalHandler(e) \/ DeadlineHandler(e) \/ CensorHandler(e),
             UNCHANGED <<intervals, radio, previous, current>>
      PROVE  RadioInv'
  <2>1. Quiet
    BY <1>1, <1>6, QuietHandlers
  <2> QED BY <1>1, <1>2, <2>1, QuietRadio
<1>7. CASE \/ Finish /\ UNCHANGED <<intervals, radio, previous, current>>
           \/ UNCHANGED dynamicVars
  <2>1. Quiet
    BY <1>1, <1>7, QuietEnds
  <2> QED BY <1>1, <1>2, <2>1, QuietRadio
<1> QED BY <1>3, <1>4, <1>5, <1>6, <1>7 DEF DynamicNext

\* So does the schedule laid out before the run, which has neither.
LEMMA RadioInit ==
    ASSUME DynamicInit
    PROVE  RadioInv
<1>1. /\ frames = <<>> /\ now = 0 /\ intervals = {} /\ heap = DynamicEvents
      /\ current = [c \in Cells |-> 0]
  BY DEF DynamicInit
<1>2. Len(frames) = 0 /\ DOMAIN frames = {} /\ frames \in Seq({frames[i] : i \in DOMAIN frames})
  BY <1>1
<1>3. \A k \in Slots : k \in Nat /\ AssociationTick(k) \in heap /\ TopologyTick(k) \in heap
  BY <1>1, SlotTimes DEF DynamicEvents
<1>4. \A e \in heap : e.kind # "service_completion"
  BY <1>1, SlotEventParts, RadioParts DEF DynamicEvents, TrafficEvents
<1>5. FramesInOrder /\ LastFrame /\ TopologyInOrder
  BY <1>2, <1>3 DEF FramesInOrder, LastFrame, TopologyInOrder
<1>6. (current = [c \in Cells |-> current[c]]) /\ InterferenceIsPrevious
  BY <1>1 DEF InterferenceIsPrevious
<1> QED BY <1>1, <1>4, <1>5, <1>6 DEF RadioInv

\* The number of the slot that starts at a tick.
LEMMA DivOfMultiple == \A j \in Nat, n \in Nat \ {0} : (j * n) \div n = j
OBVIOUS

\* Slots and frames are together throughout every run.
THEOREM DynamicRadio == DynamicSpec => []RadioInv
<1>1. DynamicInit => RadioInv
  BY RadioInit
<1>2. DynamicInv /\ RadioInv /\ [DynamicNext]_dynamicVars => RadioInv'
  BY RadioNext
<1> QED BY <1>1, <1>2, DynamicInvariant, PTL DEF DynamicSpec

\* The interference of a slot is what the cells allocated in the slot before
\* (InterferenceIsPrevious), for any number of cells and UEs.
THEOREM DynamicInterference == DynamicSpec => []InterferenceIsPrevious
<1>1. RadioInv => InterferenceIsPrevious
  BY DEF RadioInv
<1> QED BY <1>1, DynamicRadio, PTL

\* A slot is planned and reported on the frame of its start
\* (IntervalsMatchFrames), though it is reported after the next has begun.
THEOREM DynamicIntervals == DynamicSpec => []IntervalsMatchFrames
<1>1. ASSUME RadioInv
      PROVE  IntervalsMatchFrames
  <2> SUFFICES ASSUME NEW i \in intervals
               PROVE  LET f == FrameAt(i.start).ues
                      IN  /\ \A u \in i.eligible : f[u].serving = i.cell /\ f[u].available
                          /\ \A u \in Ues : i.prbs[u] > 0 => u \in i.eligible
                          /\ i.outage = {u \in i.eligible : f[u].estimate = 0}
    BY DEF IntervalsMatchFrames
  <2>1. Len(frames) \in Nat
    BY DEF RadioInv, FramesInOrder
  <2>2. PICK j \in 0..(Len(frames) - 1) : InSlot(i, j)
    BY <1>1 DEF RadioInv
  <2>3. At(j) \div Slot = j
    <3>1. j \in Nat /\ Slot \in Nat /\ Slot > 0
      BY <2>1, <2>2, Configuration
    <3> QED BY <3>1, DivOfMultiple DEF At
  <2>4. FrameAt(i.start) = frames[j + 1]
    BY <2>2, <2>3 DEF InSlot, FrameAt
  <2> QED BY <2>2, <2>4 DEF InSlot, FitsFrame
<1> QED BY <1>1, DynamicRadio, PTL

-----------------------------------------------------------------------------
(* Motion.                                                                 *)

\* Integer products, which the provers need one rule at a time.
LEMMA Distributes ==
    \A a, b, c \in Int : /\ (a + b) * c = a * c + b * c
                         /\ (a - b) * c = a * c - b * c
                         /\ c * (a + b) = c * a + c * b
                         /\ (-a) * b = -(a * b) /\ a * (-b) = -(a * b) /\ a * b \in Int
                         /\ a * b = b * a
OBVIOUS

\* A number from its quotient and its remainder.
LEMMA Divides ==
    ASSUME NEW a \in Int, NEW n \in Nat, n > 0
    PROVE  /\ a \div n \in Int /\ a % n \in 0..(n - 1)
           /\ a = (a \div n) * n + (a % n)
OBVIOUS

\* Which are the only ones it has.
LEMMA Quotient ==
    ASSUME NEW q \in Int, NEW n \in Nat, n > 0, NEW r \in 0..(n - 1)
    PROVE  (q * n + r) \div n = q /\ (q * n + r) % n = r
OBVIOUS

\* Whether a sum or a difference is even.
LEMMA Parity ==
    /\ \A s \in Int : s % 2 = 0 \/ s % 2 = 1
    /\ \A s, q \in Int : (s + q) % 2 = 0 <=> s % 2 = q % 2
    /\ \A s, q \in Int : (s - q) % 2 = 0 <=> s % 2 = q % 2
OBVIOUS

\* The range a UE moves in.
Reach == Upper - Lower

\* What the configuration says of it, and of where the UEs start.
LEMMA Bounds ==
    /\ Lower \in Int /\ Upper \in Int /\ Reach \in Nat /\ Reach > 0
    /\ Upper = Lower + Reach
    /\ UpdateInterval \in Nat /\ UpdateInterval > 0 /\ UpdateInterval % Slot = 0
    /\ \A u \in Ues : Start[u].x \in Int /\ Start[u].v \in Int
                      /\ Start[u].x - Lower \in 0..Reach
BY DynamicAssumption DEF Reach

\* Where a path of the given length from the lower bound leads, once it is
\* folded into the range: in even segments it runs up, in odd ones down.
Fold(m, v, path) ==
    \E s \in Int : \E r \in 0..Reach :
        /\ path = s * Reach + r
        /\ s % 2 = 0 => m.x = Lower + r /\ m.v = v
        /\ s % 2 = 1 => m.x = Upper - r /\ m.v = -v

\* An update carries a UE on along its path.
LEMMA FoldMoves ==
    ASSUME NEW m, NEW v \in Int, NEW path \in Int, Fold(m, v, path), NEW t \in Nat
    PROVE  Fold(Reflected(m, t), v, path + v * t)
<1>1. PICK s \in Int, r \in 0..Reach :
         /\ path = s * Reach + r
         /\ s % 2 = 0 => m.x = Lower + r /\ m.v = v
         /\ s % 2 = 1 => m.x = Upper - r /\ m.v = -v
  BY DEF Fold
<1>2. /\ Reach \in Nat /\ Reach > 0 /\ Lower \in Int /\ Upper = Lower + Reach /\ r \in Int
      /\ 0 <= r /\ r <= Reach /\ s * Reach \in Int
  BY Bounds, Distributes
<1>3. s % 2 = 0 \/ s % 2 = 1
  BY Parity
<1>4. m.x \in Int /\ m.v \in Int /\ m.v * t \in Int /\ v * t \in Int /\ t \in Int
  BY <1>1, <1>2, <1>3, Distributes
<1>5. CASE m.v = 0 \/ t = 0
  <2>1. Reflected(m, t) = m
    BY <1>5 DEF Reflected
  <2>2. v * t = 0
    <3>1. CASE m.v = 0
      <4>1. v = 0
        BY <1>1, <1>3, <3>1
      <4> QED BY <1>4, <4>1
    <3>2. CASE t = 0
      BY <3>2
    <3> QED BY <1>5, <3>1, <3>2
  <2>3. path + v * t = path
    BY <2>2
  <2> QED BY <2>1, <2>3
<1>6. CASE m.v # 0 /\ t # 0
  <2> DEFINE unwrapped == m.x - Lower + m.v * t
             touches == unwrapped % Reach = 0 /\ m.v < 0
             q == IF touches THEN (unwrapped \div Reach) - 1 ELSE unwrapped \div Reach
             rho == IF touches THEN Reach ELSE unwrapped % Reach
             new == Reflected(m, t)
  <2>1. unwrapped \in Int
    BY <1>2, <1>4
  <2>2. q \in Int /\ rho \in 0..Reach /\ unwrapped = q * Reach + rho
    <3> DEFINE a == unwrapped \div Reach
               b == unwrapped % Reach
    <3> HIDE DEF unwrapped
    <3>1. a \in Int /\ b \in 0..(Reach - 1) /\ unwrapped = a * Reach + b
      BY <1>2, <2>1, Divides
    <3>2. q = (IF touches THEN a - 1 ELSE a) /\ rho = (IF touches THEN Reach ELSE b)
          /\ (touches => b = 0)
      OBVIOUS
    <3> HIDE DEF a, b, q, rho, touches
    <3>3. (a - 1) * Reach = a * Reach - Reach /\ a * Reach \in Int
      BY <1>2, <3>1, Distributes
    <3> QED BY <1>2, <3>1, <3>2, <3>3
  <2>3. /\ q % 2 = 0 => new = [x |-> Lower + rho, v |-> m.v]
        /\ q % 2 # 0 => new = [x |-> Upper - rho, v |-> -m.v]
    BY <1>6 DEF Reflected, Reach
  <2> HIDE DEF q, rho, new
  <2>4. q % 2 = 0 \/ q % 2 = 1
    BY <2>2, Parity
  <2>5. CASE s % 2 = 0
    <3>1. path + v * t = s * Reach + (q * Reach + rho)
      <4>1. m.x = Lower + r /\ m.v = v
        BY <1>1, <2>5
      <4>2. unwrapped = r + v * t
        BY <1>2, <1>4, <4>1
      <4> HIDE DEF unwrapped
      <4> QED BY <1>1, <1>2, <1>4, <2>2, <4>2
    <3>2. path + v * t = (s + q) * Reach + rho
      BY <1>2, <2>2, <3>1, Distributes
    <3>3. s + q \in Int /\ ((s + q) % 2 = 0 <=> q % 2 = 0)
          /\ ((s + q) % 2 = 0 \/ (s + q) % 2 = 1)
      BY <2>2, <2>4, <2>5, Parity
    <3>4. m.v = v
      BY <1>1, <2>5
    <3>5. /\ (s + q) % 2 = 0 => new.x = Lower + rho /\ new.v = v
          /\ (s + q) % 2 = 1 => new.x = Upper - rho /\ new.v = -v
      BY <2>3, <3>3, <3>4
    <3> QED BY <2>2, <3>2, <3>3, <3>5 DEF Fold, new
  <2>6. CASE s % 2 = 1
    <3> DEFINE back == Reach - rho
    <3>1. m.x = Upper - r /\ m.v = -v
      BY <1>1, <2>6
    <3>2. m.v * t = -(v * t)
      BY <1>4, <3>1, Distributes
    <3>3. path + v * t = s * Reach - q * Reach + back
      <4>1. unwrapped = Reach - r - v * t
        BY <1>2, <1>4, <3>1, <3>2
      <4>2. q * Reach \in Int
        BY <1>2, <2>2, Distributes
      <4> HIDE DEF unwrapped
      <4> QED BY <1>1, <1>2, <1>4, <2>2, <4>1, <4>2
    <3>4. path + v * t = (s - q) * Reach + back
      BY <1>2, <2>2, <3>3, Distributes
    <3>5. s - q \in Int /\ ((s - q) % 2 = 0 <=> q % 2 = 1)
          /\ ((s - q) % 2 = 0 \/ (s - q) % 2 = 1) /\ back \in 0..Reach
      BY <1>2, <2>2, <2>4, <2>6, Parity
    <3>6. /\ (s - q) % 2 = 0 => new.x = Lower + back /\ new.v = v
          /\ (s - q) % 2 = 1 => new.x = Upper - back /\ new.v = -v
      <4>1. Lower + back = Upper - rho /\ Upper - back = Lower + rho /\ -m.v = v
            /\ m.v = -v
        BY <1>2, <2>2, <3>1
      <4> HIDE DEF back
      <4> QED BY <2>3, <2>4, <3>5, <4>1
    <3> HIDE DEF back
    <3> QED BY <2>2, <3>4, <3>5, <3>6 DEF Fold, new
  <2> QED BY <1>3, <2>5, <2>6
<1> QED BY <1>4, <1>5, <1>6

\* Where a UE is on its path says how far it is folded.
LEMMA FoldIsFolded ==
    ASSUME NEW m, NEW x \in Int, NEW v \in Int, NEW t \in Int,
           Fold(m, v, x - Lower + v * t)
    PROVE  m.x = Folded(x, v, t)
<1> DEFINE path == x - Lower + v * t
           phase == path % (2 * Reach)
<1>1. PICK s \in Int, r \in 0..Reach :
         /\ path = s * Reach + r
         /\ s % 2 = 0 => m.x = Lower + r /\ m.v = v
         /\ s % 2 = 1 => m.x = Upper - r /\ m.v = -v
  BY DEF Fold
<1>2. Folded(x, v, t) = IF phase <= Reach THEN Lower + phase ELSE Upper - (phase - Reach)
  BY DEF Folded, Reach
<1>3. /\ Reach \in Nat /\ Reach > 0 /\ Lower \in Int /\ Upper = Lower + Reach
      /\ 2 * Reach \in Nat /\ 2 * Reach > 0
  BY Bounds
<1> HIDE DEF path
<1>4. CASE s % 2 = 0
  <2>1. PICK p \in Int : s = 2 * p
    BY <1>4
  <2>2. s * Reach = p * (2 * Reach)
    BY <1>3, <2>1
  <2>3. phase = r
    <3>1. r \in 0..(2 * Reach - 1)
      BY <1>3
    <3> HIDE DEF Reach
    <3> QED BY <1>1, <1>3, <2>2, <3>1, Quotient
  <2> QED BY <1>1, <1>2, <1>3, <1>4, <2>3
<1>5. CASE s % 2 = 1
  <2>1. PICK p \in Int : s = 2 * p + 1
    BY <1>5
  <2>2. s * Reach = p * (2 * Reach) + Reach
    BY <1>3, <2>1
  <2>3. CASE r < Reach
    <3>1. Reach + r \in 0..(2 * Reach - 1) /\ path = p * (2 * Reach) + (Reach + r)
      <4>1. p * (2 * Reach) \in Int
        BY <1>3, Distributes
      <4> QED BY <1>1, <1>3, <2>2, <2>3, <4>1
    <3>2. phase = Reach + r
      BY <1>3, <3>1, Quotient
    <3> QED BY <1>1, <1>2, <1>3, <1>5, <3>2
  <2>4. CASE r = Reach
    <3>1. path = (p + 1) * (2 * Reach) + 0
      <4>1. (p + 1) * (2 * Reach) = p * (2 * Reach) + 2 * Reach
        BY <1>3, Distributes
      <4>2. p * (2 * Reach) \in Int
        BY <1>3, Distributes
      <4> QED BY <1>1, <1>3, <2>2, <2>4, <4>1, <4>2
    <3>2. phase = 0
      <4>1. p + 1 \in Int /\ 0 \in 0..(2 * Reach - 1)
        BY <1>3
      <4> QED BY <1>3, <3>1, <4>1, Quotient
    <3> QED BY <1>1, <1>2, <1>3, <1>5, <2>4, <3>2
  <2> QED BY <1>3, <2>3, <2>4
<1> QED BY <1>4, <1>5, Parity

\* The slots of the run.
NumSlots == Stop \div Slot

\* When the last channel update was, once m slots have had their topology.
LastUpdate(m) == IF m = 0 THEN 0 ELSE (At(m - 1) \div UpdateInterval) * UpdateInterval

\* Topologies run in the order of the slots, and each UE is on its path where
\* it was at the last update.
MotionInv ==
    /\ Len(frames) <= NumSlots
    /\ \E m \in 0..NumSlots :
          /\ \A k \in Slots : TopologyTick(k) \in heap <=> k >= m
          /\ \A u \in Ues : Fold(motion[u], Start[u].v,
                                 Start[u].x - Lower + Start[u].v * LastUpdate(m))

\* Slots and updates keep step.
LEMMA UpdateTimes ==
    ASSUME NEW m \in Nat
    PROVE  /\ LastUpdate(m) \in Nat
           /\ At(m) % UpdateInterval = 0 =>
                 LastUpdate(m + 1) = LastUpdate(m) + (IF At(m) = 0 THEN 0 ELSE UpdateInterval)
           /\ At(m) % UpdateInterval # 0 => LastUpdate(m + 1) = LastUpdate(m)
<1> DEFINE w == UpdateInterval \div Slot
           a == m \div w
           b == m % w
<1>1. /\ Slot \in Nat /\ Slot > 0 /\ UpdateInterval \in Nat /\ UpdateInterval > 0
      /\ UpdateInterval % Slot = 0
  BY Configuration, Bounds
<1>2. w \in Nat /\ w > 0 /\ UpdateInterval = w * Slot
  <2>1. w \in Int /\ UpdateInterval = w * Slot
    BY <1>1, Divides
  <2> HIDE DEF w
  <2>2. w > 0
    <3> SUFFICES ASSUME w <= 0
                 PROVE  FALSE
      BY <2>1
    <3>1. w * Slot <= 0
      BY <1>1, <2>1
    <3> QED BY <1>1, <2>1, <3>1
  <2> QED BY <2>1, <2>2
<1> HIDE DEF w
<1>3. a \in Nat /\ b \in 0..(w - 1) /\ m = a * w + b
  <2>1. a \in Int /\ b \in 0..(w - 1) /\ m = a * w + b
    BY <1>2, Divides
  <2>2. a \in Nat
    BY <1>2
  <2> QED BY <2>1, <2>2
<1> HIDE DEF a, b
<1> DEFINE bs == b * Slot
<1>4. /\ bs \in 0..(UpdateInterval - Slot) /\ (bs = 0 <=> b = 0) /\ (b > 0 => bs >= Slot)
      /\ At(m) = a * UpdateInterval + bs /\ a * UpdateInterval \in Nat
      /\ (a = 0 => a * UpdateInterval = 0) /\ (a > 0 => a * UpdateInterval > 0)
  <2>1. At(m) = (a * w) * Slot + b * Slot /\ (a * w) * Slot = a * (w * Slot)
    BY <1>1, <1>2, <1>3 DEF At
  <2>2. b * Slot \in Nat /\ (b > 0 => b * Slot >= Slot) /\ (b = 0 => b * Slot = 0)
    BY <1>1, <1>2, <1>3
  <2>3. b * Slot <= (w - 1) * Slot /\ (w - 1) * Slot = w * Slot - Slot
    BY <1>1, <1>2, <1>3
  <2>4. a * UpdateInterval \in Nat /\ (a = 0 => a * UpdateInterval = 0)
        /\ (a > 0 => a * UpdateInterval > 0)
    BY <1>1, <1>3
  <2> QED BY <1>1, <1>2, <1>3, <2>1, <2>2, <2>3, <2>4
<1> HIDE DEF bs
<1>5. At(m) \div UpdateInterval = a /\ At(m) % UpdateInterval = bs
  <2>1. bs \in 0..(UpdateInterval - 1) /\ a \in Int
    BY <1>1, <1>3, <1>4
  <2> QED BY <1>1, <1>4, <2>1, Quotient
<1>6. LastUpdate(m + 1) = a * UpdateInterval
  BY <1>5 DEF LastUpdate
<1>7. CASE m = 0
  <2>1. At(m) = 0 /\ LastUpdate(m) = 0
    BY <1>1, <1>7 DEF At, LastUpdate
  <2> QED BY <1>4, <1>5, <1>6, <2>1
<1>8. CASE m > 0
  <2>1. At(m - 1) = At(m) - Slot /\ LastUpdate(m) = (At(m - 1) \div UpdateInterval) * UpdateInterval
    <3>1. m - 1 \in Nat /\ (m - 1) + 1 = m
      BY <1>8
    <3>2. At((m - 1) + 1) = At(m - 1) + Slot /\ At(m - 1) \in Nat
      BY <3>1, SlotTimes
    <3> QED BY <1>1, <1>8, <3>1, <3>2 DEF LastUpdate
  <2>2. CASE b > 0
    <3>1. bs - Slot \in 0..(UpdateInterval - 1) /\ a \in Int
          /\ At(m - 1) = a * UpdateInterval + (bs - Slot)
      BY <1>1, <1>3, <1>4, <2>1, <2>2
    <3>2. At(m - 1) \div UpdateInterval = a
      BY <1>1, <3>1, Quotient
    <3> QED BY <1>3, <1>4, <1>5, <1>6, <2>1, <2>2, <3>2
  <2>3. CASE b = 0
    <3>1. a > 0
      BY <1>2, <1>3, <1>8, <2>3
    <3>2. /\ UpdateInterval - Slot \in 0..(UpdateInterval - 1) /\ a - 1 \in Int
          /\ (a - 1) * UpdateInterval = a * UpdateInterval - UpdateInterval
          /\ (a - 1) * UpdateInterval \in Nat
      <4>1. UpdateInterval >= Slot
        BY <1>1, <1>4
      <4>2. (a - 1) * UpdateInterval = a * UpdateInterval - UpdateInterval
        BY <1>1, <1>3, Distributes
      <4>3. (a - 1) * UpdateInterval \in Nat
        BY <1>1, <1>3, <3>1
      <4> QED BY <1>1, <1>3, <4>1, <4>2, <4>3
    <3>3. At(m - 1) = (a - 1) * UpdateInterval + (UpdateInterval - Slot)
      BY <1>1, <1>4, <2>1, <2>3, <3>2
    <3>4. At(m - 1) \div UpdateInterval = a - 1
      BY <1>1, <3>2, <3>3, Quotient
    <3> QED BY <1>1, <1>3, <1>4, <1>5, <1>6, <2>1, <2>3, <3>1, <3>2, <3>4
  <2> QED BY <1>3, <2>2, <2>3
<1> QED BY <1>7, <1>8

\* The topology of the next slot is the next to run, and an update carries
\* the UEs on.
LEMMA TopologyMotion ==
    ASSUME NEW own, PipelineInv(own), \A e \in heap : RadioTick(e), RadioInv, MotionInv,
           NEW e \in heap, TopologyHandler(e), Dispatched(e)
    PROVE  MotionInv'
<1>1. /\ heap' = heap \ {e} /\ e.kind = "topology_control" /\ frames' = frames
      /\ \A h \in heap : h = e \/ Precedes(e, h)
  BY DEF TopologyHandler, Pop, Done, Dispatched
<1>2. PICK m \in 0..NumSlots :
         /\ \A k \in Slots : TopologyTick(k) \in heap <=> k >= m
         /\ \A u \in Ues : Fold(motion[u], Start[u].v,
                                Start[u].x - Lower + Start[u].v * LastUpdate(m))
  BY DEF MotionInv
<1>3. NumSlots \in Nat /\ Slots = 0..(NumSlots - 1) /\ m \in Nat
  BY Configuration DEF NumSlots, Slots
<1>4. PICK k \in Slots : k \in Nat /\ e = TopologyTick(k) /\ e.tick = At(k) /\ e.phase = 30
  BY <1>1, RadioEvents
<1>5. k = m
  <2>1. k >= m
    BY <1>2, <1>4
  <2> SUFFICES ASSUME m < k
               PROVE  FALSE
    BY <1>3, <1>4, <2>1
  <2>2. m \in Slots
    BY <1>3, <1>4
  <2>3. TopologyTick(m) \in heap /\ TopologyTick(m).tick = At(m) /\ TopologyTick(m) # e
    BY <1>2, <1>3, <1>4, <2>2, RadioParts
  <2>4. Precedes(e, TopologyTick(m))
    BY <1>1, <2>3
  <2>5. At(m) < At(k) /\ At(m) \in Nat /\ At(k) \in Nat
    BY <1>3, <1>4, SlotOrder
  <2> QED BY <1>4, <2>3, <2>4, <2>5 DEF Precedes
<1>6. m + 1 \in 0..NumSlots /\ m + 1 \in Nat
  BY <1>3, <1>4, <1>5
<1>7. ASSUME NEW j \in Slots
      PROVE  TopologyTick(j) \in heap' <=> j >= m + 1
  <2>1. j \in Nat /\ (TopologyTick(j) = e => j = m)
    <3>1. TopologyTick(j) = TopologyTick(m) => j = m
      BY RadioParts
    <3> QED BY <1>4, <1>5, <3>1, SlotTimes
  <2> QED BY <1>1, <1>2, <1>3, <1>4, <1>5, <2>1
<1>8. ASSUME NEW u \in Ues
      PROVE  Fold(motion'[u], Start[u].v,
                  Start[u].x - Lower + Start[u].v * LastUpdate(m + 1))
  <2> DEFINE x == Start[u].x - Lower
             v == Start[u].v
             t == LastUpdate(m)
             d == IF At(m) = 0 THEN 0 ELSE UpdateInterval
  <2>1. /\ x \in Int /\ v \in Int /\ t \in Nat /\ d \in Nat /\ v * t \in Int /\ v * d \in Int
    <3>1. x \in Int /\ v \in Int /\ t \in Nat /\ d \in Nat
      BY <1>3, Bounds, UpdateTimes
    <3> HIDE DEF x, v, t, d
    <3> QED BY <3>1, Distributes
  <2>2. Fold(motion[u], v, x + v * t)
    BY <1>2
  <2> HIDE DEF x, v, t, d
  <2>3. CASE At(m) % UpdateInterval = 0
    <3>1. motion'[u] = Reflected(motion[u], d)
      BY <1>4, <1>5, <2>3 DEF TopologyHandler, d
    <3>2. LastUpdate(m + 1) = t + d
      BY <1>3, <2>3, UpdateTimes DEF t, d
    <3>3. Fold(motion'[u], v, (x + v * t) + v * d)
      <4>1. x + v * t \in Int
        BY <2>1
      <4> QED BY <2>1, <2>2, <3>1, <4>1, FoldMoves
    <3>4. (x + v * t) + v * d = x + v * (t + d)
      <4>1. v * (t + d) = v * t + v * d
        BY <2>1, Distributes
      <4> QED BY <2>1, <4>1
    <3> QED BY <3>2, <3>3, <3>4 DEF x, v
  <2>4. CASE At(m) % UpdateInterval # 0
    <3>1. motion' = motion
      BY <1>4, <1>5, <2>4 DEF TopologyHandler
    <3>2. LastUpdate(m + 1) = t
      BY <1>3, <2>4, UpdateTimes DEF t
    <3> QED BY <2>2, <3>1, <3>2 DEF x, v
  <2> QED BY <2>3, <2>4
<1> QED BY <1>1, <1>6, <1>7, <1>8 DEF MotionInv

\* Every other step leaves the UEs where they are.
LEMMA MotionNext ==
    ASSUME DynamicInv, RadioInv, MotionInv, [DynamicNext]_dynamicVars
    PROVE  MotionInv'
<1>1. PICK own : own = Serving /\ PipelineInv(own)
  BY DEF DynamicInv
<1>2. \A e \in heap : RadioTick(e)
  BY DEF DynamicInv
<1>3. ASSUME NEW e \in heap, TopologyHandler(e)
      PROVE  MotionInv'
  <2>1. Dispatched(e)
    BY <1>1, <1>3, RadioIdle DEF Idle
  <2> QED BY <1>1, <1>2, <1>3, <2>1, TopologyMotion
<1>4. ASSUME motion' = motion, Len(frames') <= NumSlots,
             \A k : TopologyTick(k) \in heap' <=> TopologyTick(k) \in heap
      PROVE  MotionInv'
  BY <1>4 DEF MotionInv
<1>5. ASSUME NEW e \in heap, AssociationHandler(e)
      PROVE  MotionInv'
  <2>1. motion' = motion /\ heap' = heap \ {e} /\ e.kind = "link_association"
    BY <1>5 DEF AssociationHandler, Pop, Done
  <2>2. \A k : TopologyTick(k) \in heap' <=> TopologyTick(k) \in heap
    BY <2>1, RadioParts
  <2>3. /\ \A k \in Slots : AssociationTick(k) \in heap' <=> k >= Len(frames')
        /\ Len(frames') \in Nat
    <3>1. Dispatched(e)
      BY <1>1, <1>5, RadioIdle DEF Idle
    <3>2. RadioInv'
      BY <1>1, <1>2, <1>5, <3>1, AssociationRadio
    <3> QED BY <3>2 DEF RadioInv, FramesInOrder
  <2>4. Len(frames') <= NumSlots
    <3>1. e.seq \in Slots /\ e = AssociationTick(e.seq) /\ e.seq \in Nat
      BY <1>1, <1>2, <2>1, RadioEvents
    <3>2. e.seq >= Len(frames) /\ Len(frames) \in Nat
      BY <1>1, <1>2, <2>1, RadioEvents
    <3>3. Len(frames') = Len(frames) + 1
      <4> DEFINE S == {frames[i] : i \in DOMAIN frames}
                 new == [tick |-> e.tick, previous |-> previous,
                         ues |-> [u \in Ues |-> FrameOf(u, e.tick)]]
      <4>1. frames \in Seq(S) /\ frames' = Append(frames, new)
        BY <1>5 DEF AssociationHandler, RadioInv, FramesInOrder
      <4> HIDE DEF S, new
      <4> QED BY <4>1, Appended, Zenon
    <3>4. NumSlots \in Int /\ Slots = 0..(NumSlots - 1)
      BY Configuration DEF NumSlots, Slots
    <3> QED BY <3>1, <3>2, <3>3, <3>4
  <2> QED BY <1>4, <2>1, <2>2, <2>4
<1>6. CASE \/ \E e \in heap : /\ ArrivalHandler(e) \/ DeadlineHandler(e) \/ CensorHandler(e)
                                 \/ ServiceHandler(e, WithoutEstimate)
                              /\ UNCHANGED radio
           \/ UNCHANGED heap /\ UNCHANGED radio
  <2>1. motion' = motion /\ Len(frames') <= NumSlots
    BY <1>6 DEF radio, MotionInv
  <2>2. \A k : TopologyTick(k) \in heap' <=> TopologyTick(k) \in heap
    <3>1. \/ heap' = heap
          \/ \E e \in heap : heap' = heap \ {e} /\ e.kind # "topology_control"
      BY <1>6 DEF ArrivalHandler, DeadlineHandler, CensorHandler,
                  ServiceHandler, Pop, Done, Abort
    <3> QED BY <3>1, RadioParts
  <2> QED BY <1>4, <2>1, <2>2
<1>7. ASSUME NEW e \in heap, NEW d \in ValidDecisions(ReachableCandidates(e.entity, e.tick)),
             DynamicScheduling(e, d)
      PROVE  MotionInv'
  <2>1. motion' = motion /\ Len(frames') <= NumSlots
    BY <1>7 DEF DynamicScheduling, radio, MotionInv
  <2>2. \A k : TopologyTick(k) \in heap' <=> TopologyTick(k) \in heap
    BY <1>7, RadioParts DEF DynamicScheduling, Commit, Pop, Done, Abort, SlotEnd, EventOf
  <2> QED BY <1>4, <2>1, <2>2
<1> QED BY <1>3, <1>5, <1>6, <1>7 DEF DynamicNext, Finish, dynamicVars, pipeline, radio

\* Before the first update the UEs are where they start.
LEMMA MotionInit ==
    ASSUME DynamicInit
    PROVE  MotionInv
<1>1. /\ frames = <<>> /\ heap = DynamicEvents /\ motion = Start
  BY DEF DynamicInit
<1>2. NumSlots \in Nat /\ 0 \in 0..NumSlots /\ Len(frames) <= NumSlots
  <2>1. Stop \in Nat /\ Slot \in Nat /\ Slot > 0
    BY Configuration
  <2>2. NumSlots \in Nat
    BY <2>1 DEF NumSlots
  <2>3. Len(frames) = 0
    BY <1>1
  <2> QED BY <2>2, <2>3
<1>3. \A k \in Slots : TopologyTick(k) \in heap <=> k >= 0
  BY <1>1, SlotTimes DEF DynamicEvents
<1>4. ASSUME NEW u \in Ues
      PROVE  Fold(motion[u], Start[u].v, Start[u].x - Lower + Start[u].v * LastUpdate(0))
  <2> DEFINE x == Start[u].x
             v == Start[u].v
             r == x - Lower
  <2>1. /\ x \in Int /\ v \in Int /\ r \in 0..Reach /\ Reach \in Nat /\ Lower \in Int
        /\ motion[u].x = x /\ motion[u].v = v /\ LastUpdate(0) = 0
    BY <1>1, Bounds DEF LastUpdate
  <2>2. x = Lower + r
    <3> HIDE DEF x
    <3> QED BY <2>1
  <2> HIDE DEF x, v, r
  <2>3. x - Lower + v * LastUpdate(0) = 0 * Reach + r
    BY <2>1, <2>2
  <2>4. Fold(motion[u], v, x - Lower + v * LastUpdate(0))
    <3> DEFINE path == x - Lower + v * LastUpdate(0)
               s == 0
    <3>1. s \in Int /\ s % 2 = 0 /\ ~(s % 2 = 1)
      OBVIOUS
    <3>2. path = s * Reach + r
      BY <2>3
    <3> HIDE DEF path, s
    <3>3. Fold(motion[u], v, path)
      BY <2>1, <2>2, <3>1, <3>2 DEF Fold
    <3> QED BY <3>3 DEF path
  <2> QED BY <2>4 DEF x, v
<1> QED BY <1>2, <1>3, <1>4 DEF MotionInv

\* The motion of the UEs is on their paths throughout every run.
THEOREM DynamicMotion == DynamicSpec => []MotionInv
<1>1. DynamicInit => MotionInv
  BY MotionInit
<1>2. DynamicInv /\ RadioInv /\ MotionInv /\ [DynamicNext]_dynamicVars => MotionInv'
  BY MotionNext
<1> QED BY <1>1, <1>2, DynamicInvariant, DynamicRadio, PTL DEF DynamicSpec

\* After any number of updates a UE is where a straight line, folded at the
\* bounds, has it at the latest one (MotionFollowsClock).
THEOREM DynamicMotionFollowsClock == DynamicSpec => []MotionFollowsClock
<1>1. ASSUME DynamicInv, RadioInv, MotionInv
      PROVE  MotionFollowsClock
  <2> SUFFICES ASSUME NEW i \in DOMAIN frames, i = Len(frames), now = frames[i].tick,
                      NEW u \in Ues
               PROVE  motion[u].x = Folded(Start[u].x, Start[u].v,
                                           (now \div UpdateInterval) * UpdateInterval)
    BY DEF MotionFollowsClock
  <2>1. PICK m \in 0..NumSlots :
           /\ \A k \in Slots : TopologyTick(k) \in heap <=> k >= m
           /\ Fold(motion[u], Start[u].v,
                   Start[u].x - Lower + Start[u].v * LastUpdate(m))
    BY <1>1 DEF MotionInv
  <2> DEFINE n == Len(frames)
  <2>2. n \in Nat /\ n > 0 /\ n - 1 \in Nat /\ now = At(n - 1) /\ n <= NumSlots
        /\ NumSlots \in Nat /\ Slots = 0..(NumSlots - 1) /\ m \in Nat
    <3>1. n \in Nat /\ i \in 1..n
      BY <1>1 DEF RadioInv, FramesInOrder
    <3>2. now = At(n - 1)
      BY <1>1, <3>1 DEF RadioInv, FramesInOrder
    <3>3. NumSlots \in Nat /\ Slots = 0..(NumSlots - 1) /\ n <= NumSlots
      BY <1>1, Configuration DEF NumSlots, Slots, MotionInv
    <3> HIDE DEF n
    <3> QED BY <3>1, <3>2, <3>3
  <2>3. m >= n
    <3> SUFFICES ASSUME m < n
                 PROVE  FALSE
      BY <2>2
    <3> DEFINE k == n - 1
    <3>1. k \in Slots /\ k >= m /\ ~(k >= n)
      <4> HIDE DEF n
      <4> QED BY <2>2
    <3> HIDE DEF k
    <3>2. TopologyTick(k) \in heap
      BY <2>1, <3>1
    <3> QED BY <1>1, <3>1, <3>2 DEF RadioInv, TopologyInOrder
  <2>4. m <= n
    <3> SUFFICES ASSUME n < m
                 PROVE  FALSE
      BY <2>2
    <3>1. n \in Slots
      <4> HIDE DEF n
      <4> QED BY <2>2
    <3>2. At(n) > now
      <4> DEFINE k == n - 1
      <4>1. k \in Nat /\ n = k + 1
        BY <2>2
      <4>2. At(k + 1) = At(k) + Slot /\ At(k) \in Nat /\ Slot > 0 /\ Slot \in Nat
        BY <4>1, SlotTimes, Configuration
      <4> HIDE DEF n
      <4> QED BY <2>2, <4>1, <4>2
    <3>3. TopologyTick(n) \in heap
      BY <1>1, <3>1, <3>2 DEF RadioInv, TopologyInOrder
    <3> HIDE DEF n
    <3> QED BY <2>1, <2>2, <3>1, <3>3
  <2>5. LastUpdate(m) = (now \div UpdateInterval) * UpdateInterval
    <3> HIDE DEF n
    <3> QED BY <2>2, <2>3, <2>4 DEF LastUpdate
  <2>6. /\ Start[u].x \in Int /\ Start[u].v \in Int /\ LastUpdate(m) \in Int
    <3>1. LastUpdate(m) \in Nat
      BY <2>2, UpdateTimes
    <3> QED BY <3>1, Bounds
  <2> HIDE DEF n
  <2> QED BY <2>1, <2>5, <2>6, FoldIsFolded
<1> QED BY <1>1, DynamicInvariant, DynamicRadio, DynamicMotion, PTL

-----------------------------------------------------------------------------
(* The estimate of a slot and what its allocations are promised.           *)

\* A neighbour's PRBs within an allocation.
LEMMA OverlapParts ==
    ASSUME NEW x \in Nat, NEW a \in Nat
    PROVE  Overlap(x, a) = IF x <= a THEN x ELSE a
<1>1. Overlap(x, a) \in {x, a} /\ Overlap(x, a) <= x /\ Overlap(x, a) <= a
  <2>1. \E m \in {x, a} : \A s \in {x, a} : m <= s
    OBVIOUS
  <2> QED BY <2>1 DEF Overlap, Sets!Min
<1> QED BY <1>1

\* A wider allocation shares no greater part of its PRBs with a neighbour.
LEMMA OverlapShrinks ==
    ASSUME NEW x \in Nat, NEW y \in Nat, x <= y, NEW a \in Nat, NEW w \in Nat
    PROVE  /\ Overlap(x, a) * w \in Nat /\ Overlap(y, a) * w \in Nat
           /\ x * (Overlap(y, a) * w) <= y * (Overlap(x, a) * w)
<1>1. Overlap(x, a) \in Nat /\ Overlap(y, a) \in Nat
  BY OverlapParts
<1>2. x * Overlap(y, a) <= y * Overlap(x, a)
  <2>1. CASE x <= a
    <3>1. Overlap(x, a) = x /\ Overlap(y, a) <= y
      BY <2>1, OverlapParts
    <3>2. x * Overlap(y, a) <= x * y /\ x * y = y * x
      BY <1>1, <3>1
    <3> QED BY <3>1, <3>2
  <2>2. CASE ~(x <= a)
    <3>1. Overlap(x, a) = a /\ Overlap(y, a) = a
      BY <2>2, OverlapParts
    <3>2. x * a <= y * a
      OBVIOUS
    <3> QED BY <3>1, <3>2
  <2> QED BY <2>1, <2>2
<1>3. /\ (x * Overlap(y, a)) * w <= (y * Overlap(x, a)) * w
      /\ (x * Overlap(y, a)) * w = x * (Overlap(y, a) * w)
      /\ (y * Overlap(x, a)) * w = y * (Overlap(x, a) * w)
      /\ Overlap(x, a) * w \in Nat /\ Overlap(y, a) * w \in Nat
  <2> DEFINE p == Overlap(x, a)
             q == Overlap(y, a)
  <2>1. p \in Nat /\ q \in Nat /\ x * q <= y * p /\ x * q \in Nat /\ y * p \in Nat
    BY <1>1, <1>2
  <2> HIDE DEF p, q
  <2>2. (x * q) * w <= (y * p) * w
    BY <2>1
  <2>3. (x * q) * w = x * (q * w) /\ (y * p) * w = y * (p * w) /\ p * w \in Nat /\ q * w \in Nat
    BY <2>1
  <2> QED BY <2>2, <2>3 DEF p, q
<1> QED BY <1>3

\* The interference that an allocation of cell c to UE u suffers.
Interference(u, c, prbs) ==
    Sum([d \in Cells |-> IF d = c THEN 0 ELSE Overlap(prbs, previous[d]) * 2^links[u][d]],
        NumCells)

\* The second of two SINRs is as good as the first.
NoWorse(one, two) ==
    \E s1, n1, s2, n2 \in Nat :
        one = <<s1, n1>> /\ two = <<s2, n2>> /\ n1 > 0 /\ s1 * n2 <= s2 * n1

\* No narrower allocation has a better SINR: the wider one has the same signal
\* and noise in each PRB, and less interference.
LEMMA SinrShrinks ==
    ASSUME NEW u \in Ues, NEW c \in Cells, NEW x \in Nat, NEW y \in Nat, x <= y, x > 0,
           \A d \in Cells : previous[d] \in Nat /\ links[u][d] \in Nat
    PROVE  NoWorse(Sinr(u, c, x), Sinr(u, c, y))
<1> DEFINE P == 2^links[u][c]
           I == Interference(u, c, x)
           J == Interference(u, c, y)
<1>1. P \in Nat /\ Noise \in Nat /\ Noise > 0
  BY PowersOfTwo, DynamicAssumption
<1>2. I \in Nat /\ J \in Nat /\ x * J <= y * I
  <2> DEFINE f == [d \in Cells |-> IF d = c THEN 0 ELSE Overlap(y, previous[d]) * 2^links[u][d]]
             g == [d \in Cells |-> IF d = c THEN 0 ELSE Overlap(x, previous[d]) * 2^links[u][d]]
  <2>1. NumCells \in Nat /\ Cells = 1..NumCells
    BY PipelineAssumption DEF Cells
  <2>2. ASSUME NEW d \in Cells
        PROVE  f[d] \in Nat /\ g[d] \in Nat /\ x * f[d] <= y * g[d]
    <3>1. CASE d = c
      BY <3>1
    <3>2. CASE d # c
      <4>1. 2^links[u][d] \in Nat /\ previous[d] \in Nat
        BY PowersOfTwo
      <4>2. f[d] = Overlap(y, previous[d]) * 2^links[u][d]
            /\ g[d] = Overlap(x, previous[d]) * 2^links[u][d]
        BY <3>2
      <4> HIDE DEF f, g
      <4> QED BY <4>1, <4>2, OverlapShrinks
    <3> QED BY <3>1, <3>2
  <2>3. I = Sum(g, NumCells) /\ J = Sum(f, NumCells)
    BY DEF Interference
  <2> HIDE DEF f, g
  <2> QED BY <2>1, <2>2, <2>3, SumNat, SumsInRatio
<1>3. Sinr(u, c, x) = <<x * P, x * Noise + I>> /\ Sinr(u, c, y) = <<y * P, y * Noise + J>>
  BY DEF Sinr, Interference
<1> HIDE DEF P, I, J
<1>4. /\ x * P \in Nat /\ y * P \in Nat /\ x * Noise \in Nat /\ x * Noise > 0
      /\ y * Noise \in Nat
  BY <1>1
<1>5. x * Noise + I \in Nat /\ x * Noise + I > 0 /\ y * Noise + J \in Nat
  BY <1>2, <1>4
<1>6. (x * P) * (y * Noise + J) <= (y * P) * (x * Noise + I)
  <2>1. x * J \in Nat /\ y * I \in Nat /\ (x * y) * Noise \in Nat
    BY <1>1, <1>2
  <2>2. P * (x * J) <= P * (y * I)
    BY <1>1, <1>2, <2>1
  <2>3. /\ (x * P) * (y * Noise + J) = (x * P) * (y * Noise) + (x * P) * J
        /\ (y * P) * (x * Noise + I) = (y * P) * (x * Noise) + (y * P) * I
    BY <1>1, <1>2, <1>4
  <2>4. (x * P) * (y * Noise) = (y * P) * (x * Noise) /\ (x * P) * (y * Noise) \in Nat
    BY <1>1
  <2>5. (x * P) * J = P * (x * J) /\ (y * P) * I = P * (y * I)
        /\ P * (x * J) \in Nat /\ P * (y * I) \in Nat
    BY <1>1, <1>2
  <2> QED BY <2>2, <2>3, <2>4, <2>5
<1> QED BY <1>3, <1>4, <1>5, <1>6 DEF NoWorse

\* So what an allocation carries is within what all PRBs would.
LEMMA PlannedWithin ==
    ASSUME NEW u \in Ues, NEW c \in Cells, NEW x \in 0..Prbs,
           \A d \in Cells : previous[d] \in Nat /\ links[u][d] \in Nat
    PROVE  PlannedBits(u, c, x) <= CapacityBits(FullSinr(u, c), Prbs)
<1>1. x \in Nat /\ Prbs \in Nat /\ x <= Prbs
  BY SlotAssumption
<1>2. CASE x = 0
  <2>1. CapacityBits(FullSinr(u, c), Prbs) \in Nat
    BY <1>1, CapacityIsSize
  <2> QED BY <1>2, <2>1 DEF PlannedBits
<1>3. CASE x > 0
  <2>1. NoWorse(Sinr(u, c, x), Sinr(u, c, Prbs))
    BY <1>1, <1>3, SinrShrinks
  <2> PICK s1, n1, s2, n2 \in Nat :
         /\ Sinr(u, c, x) = <<s1, n1>> /\ Sinr(u, c, Prbs) = <<s2, n2>>
         /\ n1 > 0 /\ s1 * n2 <= s2 * n1
    BY <2>1, Zenon DEF NoWorse
  <2>2. CapacityBits(<<s1, n1>>, x) <= CapacityBits(<<s2, n2>>, Prbs)
    BY <1>1, CapacityGrows
  <2> QED BY <1>3, <2>2 DEF PlannedBits, FullSinr
<1> QED BY <1>1, <1>2, <1>3

\* The next topology has not run yet: the links and the interference are those
\* the last association has seen.
InForce == Len(frames) \in Slots => TopologyTick(Len(frames)) \in heap

\* While they are, the estimates are what all PRBs carry; what is allocated is
\* within them, and stays so in the reports.
EstimateInv ==
    /\ \A c \in Cells : previous[c] \in Nat /\ current[c] \in Nat
    /\ \A u \in Ues : \A c \in Cells : links[u][c] \in Nat /\ shadow[u][c] \in Int
    /\ Len(frames) > 0 /\ InForce => \A u \in Ues :
          estimate[u] = CapacityBits(FullSinr(u, handover[u].serving), Prbs)
    /\ \A e \in heap : e.kind = "service_completion" =>
          \A u \in Ues : e.work.capacity[u] <= estimate[u]
    /\ WithinEstimate

\* The frame of a reported slot is there.
LEMMA ReportFrame ==
    ASSUME RadioInv, NEW i \in intervals
    PROVE  \E j \in 1..Len(frames) : i.start \div Slot + 1 = j
<1>1. Len(frames) \in Nat
  BY DEF RadioInv, FramesInOrder
<1>2. PICK j \in 0..(Len(frames) - 1) : InSlot(i, j)
  BY DEF RadioInv
<1>3. j + 1 \in 1..Len(frames) /\ j \in Nat /\ Slot \in Nat /\ Slot > 0
  BY <1>1, Configuration
<1>4. i.start \div Slot = j
  BY <1>2, <1>3, DivOfMultiple DEF InSlot, At
<1> QED BY <1>3, <1>4

\* Such a frame stays when one is appended.
LEMMA FramesStay ==
    ASSUME RadioInv, NEW f, frames' = Append(frames, f)
    PROVE  \A j \in 1..Len(frames) : frames'[j] = frames[j]
<1> DEFINE S == {frames[i] : i \in DOMAIN frames}
<1>1. frames \in Seq(S)
  BY DEF RadioInv, FramesInOrder
<1> HIDE DEF S
<1>2. frames \in Seq(S \cup {f}) /\ f \in S \cup {f}
  BY <1>1
<1> QED BY <1>2

\* A level on the scale is a natural.
LEMMA LevelIsNat ==
    ASSUME NEW u, NEW c \in Cells, NEW x \in Lower..Upper, NEW fade \in Int, NEW t
    PROVE  LevelOf(u, c, x, fade, t) \in Nat
<1>1. BestGain(c, x) \in Int
  <2> DEFINE S == BeamGain[c][x]
  <2>1. S \subseteq Int /\ S # {} /\ IsFiniteSet(S)
    BY DynamicAssumption
  <2>2. BestGain(c, x) = Sets!Max(S)
    BY DEF BestGain, Sets!Max
  <2> HIDE DEF S
  <2>3. PICK n \in Nat : \A s \in S : [r \in S |-> r][s] <= n
    BY <2>1, FiniteBound
  <2>4. n \in Int /\ \A s \in S : s <= n
    BY <2>3
  <2>5. Sets!Max(S) \in S
    BY <2>1, <2>4, MaxOf
  <2> QED BY <2>1, <2>2, <2>5
<1>2. Blocked(u, c, t) \in Int
  <2> DEFINE active == {b \in Blockages :
                          b.ue = u /\ b.cell = c /\ b.start <= t /\ t < b.end}
             losses == {0} \cup {b.loss : b \in active}
             loss   == [b \in Blockages |-> b.loss]
  <2>1. IsFiniteSet(Blockages) /\ \A b \in Blockages : b.loss \in Nat /\ loss[b] = b.loss
    BY DynamicAssumption
  <2>2. Blocked(u, c, t) = Sets!Max(losses)
    BY DEF Blocked, Sets!Max
  <2>3. losses \subseteq Int /\ losses # {}
    BY <2>1
  <2>4. PICK n \in Nat : \A b \in Blockages : loss[b] <= n
    <3> HIDE DEF loss
    <3> QED BY <2>1, FiniteBound
  <2>5. n \in Int /\ \A s \in losses : s <= n
    BY <2>1, <2>4
  <2> HIDE DEF losses
  <2>6. Sets!Max(losses) \in losses
    BY <2>3, <2>5, MaxOf
  <2> QED BY <2>2, <2>3, <2>6
<1>3. PathLevel[c][x] \in Int
  BY DynamicAssumption
<1> DEFINE l == PathLevel[c][x] + BestGain(c, x) + fade - Blocked(u, c, t)
<1>4. l \in Int
  BY <1>1, <1>2, <1>3
<1>5. LevelOf(u, c, x, fade, t) = Sets!Max({0, l})
  BY DEF LevelOf, Sets!Max
<1> HIDE DEF l
<1> QED BY <1>4, <1>5, MaxOfTwo

\* The topology of the next slot measures the links anew, and ends the force
\* of the estimates.
LEMMA TopologyEstimate ==
    ASSUME NEW own, PipelineInv(own), \A e \in heap : RadioTick(e), RadioInv, EstimateInv,
           NEW e \in heap, TopologyHandler(e), Dispatched(e), MotionInv'
    PROVE  EstimateInv'
<1>1. /\ heap' = heap \ {e} /\ e.kind = "topology_control" /\ frames' = frames
      /\ intervals' = intervals /\ estimate' = estimate
      /\ previous' = Activity(e.tick) /\ current' = [c \in Cells |-> 0]
      /\ \A h \in heap : h = e \/ Precedes(e, h)
  BY DEF TopologyHandler, Pop, Done, Dispatched
<1>2. \A c \in Cells : previous'[c] \in Nat /\ current'[c] \in Nat
  BY <1>1 DEF Activity, EstimateInv
<1>3. \A u \in Ues : \A c \in Cells : shadow'[u][c] \in Int
  <2>1. CASE e.tick % UpdateInterval = 0
    <3>1. shadow' \in FadesAt(e.tick)
      BY <2>1 DEF TopologyHandler
    <3>2. \A u \in Ues : shadow'[u] \in Fades[u]
      BY <3>1 DEF FadesAt
    <3>3. \A u \in Ues : Fades[u] \subseteq [Cells -> Int]
      BY DynamicAssumption
    <3>4. \A u \in Ues : shadow'[u] \in [Cells -> Int]
      BY <3>2, <3>3
    <3> QED BY <3>4
  <2>2. CASE e.tick % UpdateInterval # 0
    BY <2>2 DEF TopologyHandler, EstimateInv
  <2> QED BY <2>1, <2>2
<1>4. ASSUME NEW u \in Ues
      PROVE  motion'[u].x \in Lower..Upper
  <2>1. \E path : Fold(motion'[u], Start[u].v, path)
    BY DEF MotionInv
  <2>2. PICK s \in Int, r \in 0..Reach :
           /\ s % 2 = 0 => motion'[u].x = Lower + r
           /\ s % 2 = 1 => motion'[u].x = Upper - r
    BY <2>1 DEF Fold
  <2>3. Lower \in Int /\ Reach \in Nat /\ Upper = Lower + Reach /\ (s % 2 = 0 \/ s % 2 = 1)
    BY Bounds, Parity
  <2>4. Lower + r \in Lower..Upper /\ Upper - r \in Lower..Upper
    BY <2>3
  <2> QED BY <2>2, <2>3, <2>4
<1>5. ASSUME NEW u \in Ues, NEW c \in Cells
      PROVE  links'[u][c] \in Nat
  <2>1. links'[u][c] = LevelOf(u, c, motion'[u].x, shadow'[u][c], e.tick)
    BY DEF TopologyHandler
  <2> QED BY <1>3, <1>4, <2>1, LevelIsNat
<1>6. ~(InForce')
  <2> DEFINE n == Len(frames)
             k == e.seq
  <2>1. /\ k \in Slots /\ k \in Nat /\ e = TopologyTick(k) /\ e.tick = At(k) /\ k >= n
        /\ n \in Nat
    BY <1>1, RadioEvents
  <2>2. k = n
    <3> SUFFICES ASSUME n < k
                 PROVE  FALSE
      BY <2>1
    <3>1. n \in Slots
      <4> DEFINE last == (Stop \div Slot) - 1
      <4>1. last \in Int /\ k \in 0..last
        BY Configuration, <2>1 DEF Slots
      <4> HIDE DEF last, n, k
      <4>2. n \in 0..last
        BY <2>1, <4>1
      <4> QED BY <4>2 DEF Slots, last
    <3>2. AssociationTick(n) \in heap
      BY <2>1, <3>1 DEF RadioInv, FramesInOrder
    <3>3. AssociationTick(n) # e /\ AssociationTick(n).tick = At(n)
      BY <1>1, RadioParts
    <3>4. Precedes(e, AssociationTick(n))
      BY <1>1, <3>2, <3>3
    <3>5. At(n) < At(k) /\ At(n) \in Nat /\ At(k) \in Nat
      <4> HIDE DEF n, k
      <4> QED BY <2>1, SlotOrder
    <3> HIDE DEF n, k
    <3> QED BY <2>1, <3>3, <3>4, <3>5 DEF Precedes
  <2>3. Len(frames') = k /\ TopologyTick(k) \notin heap'
    BY <1>1, <2>1, <2>2
  <2> QED BY <2>1, <2>3 DEF InForce
<1>7. \A h \in heap' : h.kind = "service_completion" =>
         \A u \in Ues : h.work.capacity[u] <= estimate'[u]
  BY <1>1 DEF EstimateInv
<1>8. WithinEstimate'
  BY <1>1 DEF EstimateInv, WithinEstimate, FrameAt
<1> QED BY <1>2, <1>3, <1>5, <1>6, <1>7, <1>8 DEF EstimateInv

\* An association estimates on the links and the interference in force.
LEMMA AssociationEstimate ==
    ASSUME NEW own, PipelineInv(own), \A e \in heap : RadioTick(e), RadioInv, EstimateInv,
           NEW e \in heap, AssociationHandler(e), RadioInv'
    PROVE  EstimateInv'
<1>1. PICK frame : frames' = Append(frames, frame)
  BY DEF AssociationHandler
<1>2. /\ heap' = heap \ {e} /\ intervals' = intervals /\ shadow' = shadow /\ links' = links
      /\ previous' = previous /\ current' = current
      /\ \A u \in Ues : estimate'[u] = CapacityBits(FullSinr(u, handover'[u].serving), Prbs)
  BY DEF AssociationHandler, Pop, Done
<1>3. \A u \in Ues : estimate'[u] = CapacityBits(FullSinr(u, handover[u].serving), Prbs)'
  BY <1>2 DEF FullSinr, Sinr
<1>4. Len(frames') = Len(frames) + 1 /\ Len(frames) \in Nat
  BY <1>1, Appended DEF RadioInv, FramesInOrder
<1>5. ASSUME NEW h \in heap', h.kind = "service_completion"
      PROVE  FALSE
  <2>1. h \in heap /\ Underway(h) /\ Underway(h)'
    BY <1>2, <1>5 DEF RadioInv
  <2>2. h.seq + 1 = Len(frames) /\ h.seq + 1 = Len(frames')
    BY <2>1 DEF Underway
  <2> QED BY <1>4, <2>2
<1>6. ASSUME NEW i \in intervals, NEW u \in Ues
      PROVE  i.capacity[u] <= frames'[i.start \div Slot + 1].ues[u].estimate
  <2>1. PICK j \in 1..Len(frames) : i.start \div Slot + 1 = j
    BY ReportFrame
  <2>2. frames'[j] = frames[j]
    BY <1>1, FramesStay
  <2> QED BY <2>1, <2>2 DEF EstimateInv, WithinEstimate, FrameAt
<1>7. WithinEstimate'
  BY <1>2, <1>6 DEF WithinEstimate, FrameAt
<1> QED BY <1>2, <1>3, <1>5, <1>7 DEF EstimateInv

\* What a slot allocates is within the estimates in force when it starts.
LEMMA SchedulingEstimate ==
    ASSUME NEW own, PipelineInv(own), \A e \in heap : RadioTick(e), RadioInv, EstimateInv,
           NEW e \in heap, NEW d \in ValidDecisions(ReachableCandidates(e.entity, e.tick)),
           DynamicScheduling(e, d), NEW g, Committed(own, e, g), RadioInv'
    PROVE  EstimateInv'
<1> DEFINE c == e.entity
           capacity == [u \in Ues |-> PlannedBits(u, c, d[u])]
<1>w. PICK work : work = [eligible |-> ReachableCandidates(c, e.tick), prbs |-> d,
                          capacity |-> capacity, plan |-> PlanOf(capacity, e.tick)]
  OBVIOUS
<1>f. PICK f : f = SlotEnd(c, e.seq, work)
  OBVIOUS
<1> HIDE DEF capacity
<1>1. /\ e.kind = "scheduling" /\ mode' = "running"
      /\ previous' = previous /\ intervals' = intervals /\ links' = links /\ shadow' = shadow
      /\ current' = [current EXCEPT ![c] = Sum(d, NumUes)]
      /\ handover' = handover /\ estimate' = estimate /\ frames' = frames
  BY DEF DynamicScheduling, Pop, Commit, Committed, Dispatched, radio
<1>2. heap' = (heap \ {e}) \cup {f}
  BY <1>1, <1>w, <1>f DEF DynamicScheduling, Commit, Done, Abort, capacity
<1>3. f.kind = "service_completion" /\ f.seq = e.seq /\ f.work.capacity = capacity
  <2>1. e.seq \in Nat /\ f.kind = "service_completion" /\ f.seq = e.seq /\ f.work = work
    <3>1. e.seq \in Nat
      BY <1>1, RadioEvents
    <3> HIDE DEF c
    <3> QED BY <3>1, <1>f, SlotEventParts
  <2> QED BY <1>w, <2>1
<1>4. c \in Cells
  BY <1>1, RadioEvents
<1>5. \A j : TopologyTick(j) \in heap' <=> TopologyTick(j) \in heap
  BY <1>1, <1>2, <1>3, RadioParts
<1>6. InForce' <=> InForce
  BY <1>1, <1>5 DEF InForce
<1>7. Len(frames) > 0 /\ InForce
  <2>1. Underway(f)'
    BY <1>2, <1>3 DEF RadioInv
  <2>2. f.seq + 1 = Len(frames') /\ (f.seq + 1 \in Slots => TopologyTick(f.seq + 1) \in heap')
    BY <2>1 DEF Underway
  <2>3. f.seq \in Nat
    BY <1>1, <1>3, RadioEvents
  <2> QED BY <1>1, <1>6, <2>2, <2>3 DEF InForce
<1>8. ASSUME NEW u \in Ues
      PROVE  capacity[u] <= estimate[u]
  <2>1. d[u] \in 0..Prbs /\ (d[u] > 0 => handover[u].serving = c)
    BY DEF ValidDecisions, ReachableCandidates
  <2>2. estimate[u] = CapacityBits(FullSinr(u, handover[u].serving), Prbs)
    BY <1>7 DEF EstimateInv
  <2>3. capacity[u] = PlannedBits(u, c, d[u])
    BY DEF capacity
  <2>4. CASE d[u] > 0
    <3>1. \A b \in Cells : previous[b] \in Nat /\ links[u][b] \in Nat
      BY DEF EstimateInv
    <3> HIDE DEF c
    <3>2. PlannedBits(u, c, d[u]) <= CapacityBits(FullSinr(u, c), Prbs)
      BY <1>4, <2>1, <3>1, PlannedWithin
    <3> QED BY <2>1, <2>2, <2>3, <2>4, <3>2
  <2>5. CASE ~(d[u] > 0)
    <3>1. d[u] = 0
      BY <2>1, <2>5, SlotAssumption
    <3>2. PlannedBits(u, c, d[u]) = 0
      BY <3>1 DEF PlannedBits
    <3>3. estimate[u] \in Nat
      BY <2>2, CapacityIsSize, SlotAssumption
    <3> QED BY <2>3, <3>2, <3>3
  <2> QED BY <2>4, <2>5
<1>9. \A h \in heap' : h.kind = "service_completion" =>
         \A u \in Ues : h.work.capacity[u] <= estimate'[u]
  BY <1>1, <1>2, <1>3, <1>8 DEF EstimateInv
<1>10. \A b \in Cells : previous'[b] \in Nat /\ current'[b] \in Nat
  <2>1. Sum(d, NumUes) \in Nat
    <3>1. NumUes \in Nat /\ Ues = 1..NumUes
      BY PipelineAssumption DEF Ues
    <3>2. \A u \in Ues : d[u] \in Nat
      BY SlotAssumption DEF ValidDecisions
    <3> QED BY <3>1, <3>2, SumNat
  <2>2. current = [b \in Cells |-> current[b]]
    BY DEF RadioInv
  <2> QED BY <1>1, <2>1, <2>2 DEF EstimateInv
<1>11. WithinEstimate'
  BY <1>1 DEF EstimateInv, WithinEstimate, FrameAt
<1>12. Len(frames') > 0 /\ InForce' => \A u \in Ues :
          estimate'[u] = CapacityBits(FullSinr(u, handover[u].serving), Prbs)'
  BY <1>1, <1>6 DEF EstimateInv, FullSinr, Sinr
<1> QED BY <1>1, <1>9, <1>10, <1>11, <1>12 DEF EstimateInv

\* A slot that ends is reported with the frame it was planned on.
LEMMA ServiceEstimate ==
    ASSUME NEW own, PipelineInv(own), \A e \in heap : RadioTick(e), RadioInv, EstimateInv,
           NEW e \in heap, ServiceHandler(e, WithoutEstimate), Served(own, e),
           UNCHANGED <<radio, previous, current>>
    PROVE  EstimateInv'
<1>l. PICK lost : lost = IntervalOf(e, WithoutEstimate)
  OBVIOUS
<1>1. /\ e.kind = "service_completion" /\ mode' = "running" /\ heap' = heap \ {e}
      /\ previous' = previous /\ current' = current /\ links' = links /\ shadow' = shadow
      /\ handover' = handover /\ estimate' = estimate /\ frames' = frames
  BY DEF Served, Dispatched, radio
<1>2. intervals' = intervals \cup {lost}
  BY <1>1, <1>l DEF ServiceHandler, Abort
<1>3. \A j : TopologyTick(j) \in heap' <=> TopologyTick(j) \in heap
  BY <1>1, RadioParts
<1>4. ASSUME NEW u \in Ues
      PROVE  lost.capacity[u] <= frames[lost.start \div Slot + 1].ues[u].estimate
  <2>1. e.seq \in Nat /\ e.seq + 1 = Len(frames) /\ Len(frames) \in Nat
    BY <1>1, RadioEvents DEF Underway
  <2>2. lost.start \div Slot = e.seq /\ lost.capacity = e.work.capacity
    <3>1. lost.start = e.seq * Slot /\ lost.capacity = e.work.capacity
      BY <1>l DEF IntervalOf
    <3>2. Slot \in Nat \ {0}
      BY Configuration
    <3> QED BY <2>1, <3>1, <3>2, DivOfMultiple
  <2>3. frames[e.seq + 1].ues[u].estimate = estimate[u]
    <3>1. e.seq + 1 \in 1..Len(frames)
      BY <2>1
    <3> QED BY <2>1, <3>1 DEF RadioInv, LastFrame
  <2>4. e.work.capacity[u] <= estimate[u]
    BY <1>1 DEF EstimateInv
  <2> QED BY <2>2, <2>3, <2>4
<1>5. WithinEstimate'
  BY <1>1, <1>2, <1>4 DEF EstimateInv, WithinEstimate, FrameAt
<1>6. Len(frames') > 0 /\ InForce' => \A u \in Ues :
         estimate'[u] = CapacityBits(FullSinr(u, handover[u].serving), Prbs)'
  BY <1>1, <1>3 DEF EstimateInv, InForce, FullSinr, Sinr
<1>7. \A h \in heap' : h.kind = "service_completion" =>
         \A u \in Ues : h.work.capacity[u] <= estimate'[u]
  BY <1>1 DEF EstimateInv
<1> QED BY <1>1, <1>5, <1>6, <1>7 DEF EstimateInv

\* The other handlers, and a step that changes nothing, keep the estimates.
LEMMA QuietEstimate ==
    ASSUME EstimateInv, Quiet
    PROVE  EstimateInv'
<1>1. /\ intervals' = intervals /\ previous' = previous /\ current' = current
      /\ links' = links /\ shadow' = shadow /\ handover' = handover
      /\ estimate' = estimate /\ frames' = frames /\ heap' \subseteq heap
  BY DEF Quiet, radio
<1>2. \A k : TopologyTick(k) \in heap' <=> TopologyTick(k) \in heap
  BY RadioParts DEF Quiet
<1>3. Len(frames') > 0 /\ InForce' => \A u \in Ues :
         estimate'[u] = CapacityBits(FullSinr(u, handover[u].serving), Prbs)'
  BY <1>1, <1>2 DEF EstimateInv, InForce, FullSinr, Sinr
<1>4. WithinEstimate'
  BY <1>1 DEF EstimateInv, WithinEstimate, FrameAt
<1> QED BY <1>1, <1>3, <1>4 DEF EstimateInv

\* Every step of the dynamic pipeline keeps the estimates.
LEMMA EstimateNext ==
    ASSUME DynamicInv, RadioInv, RadioInv', MotionInv', EstimateInv, [DynamicNext]_dynamicVars
    PROVE  EstimateInv'
<1>1. PICK own : own = Serving /\ PipelineInv(own)
  BY DEF DynamicInv
<1>2. \A e \in heap : RadioTick(e)
  BY DEF DynamicInv
<1>3. ASSUME NEW e \in heap, TopologyHandler(e)
      PROVE  EstimateInv'
  <2>1. Dispatched(e)
    BY <1>1, <1>3, RadioIdle DEF Idle
  <2> QED BY <1>1, <1>2, <1>3, <2>1, TopologyEstimate
<1>4. ASSUME NEW e \in heap, AssociationHandler(e)
      PROVE  EstimateInv'
  BY <1>1, <1>2, <1>4, AssociationEstimate
<1>5. ASSUME NEW e \in heap, NEW d \in ValidDecisions(ReachableCandidates(e.entity, e.tick)),
             DynamicScheduling(e, d)
      PROVE  EstimateInv'
  <2> DEFINE capacity == [u \in Ues |-> PlannedBits(u, e.entity, d[u])]
  <2>1. MayCarry(own, e, capacity)
    BY <1>1, DynamicCarries
  <2>2. /\ Pop(e, "scheduling")
        /\ Commit(e, ReachableCandidates(e.entity, e.tick), d, capacity)
    BY <1>5 DEF DynamicScheduling
  <2> HIDE DEF capacity
  <2>3. PICK f : Committed(own, e, f)
    BY <1>1, <2>1, <2>2, CommitKeeps
  <2> QED BY <1>1, <1>2, <1>5, <2>3, SchedulingEstimate
<1>6. ASSUME NEW e \in heap, ServiceHandler(e, WithoutEstimate),
             UNCHANGED <<radio, previous, current>>
      PROVE  EstimateInv'
  <2>1. Served(own, e)
    BY <1>1, <1>6, ServiceKeeps
  <2> QED BY <1>1, <1>2, <1>6, <2>1, ServiceEstimate
<1>7. ASSUME NEW e \in heap, ArrivalHandler(e) \/ DeadlineHandler(e) \/ CensorHandler(e),
             UNCHANGED <<intervals, radio, previous, current>>
      PROVE  EstimateInv'
  <2>1. Quiet
    BY <1>1, <1>7, QuietHandlers
  <2> QED BY <2>1, QuietEstimate
<1>8. CASE \/ Finish /\ UNCHANGED <<intervals, radio, previous, current>>
           \/ UNCHANGED dynamicVars
  <2>1. Quiet
    BY <1>1, <1>8, QuietEnds
  <2> QED BY <2>1, QuietEstimate
<1> QED BY <1>3, <1>4, <1>5, <1>6, <1>7, <1>8 DEF DynamicNext

\* Before the first slot there are no estimates to keep.
LEMMA EstimateInit ==
    ASSUME DynamicInit
    PROVE  EstimateInv
<1>1. /\ frames = <<>> /\ intervals = {} /\ heap = DynamicEvents
      /\ previous = [c \in Cells |-> InitialActive] /\ current = [c \in Cells |-> 0]
      /\ links = [u \in Ues |-> [c \in Cells |-> 0]]
      /\ shadow = [u \in Ues |-> [c \in Cells |-> 0]]
  BY DEF DynamicInit
<1>2. InitialActive \in Nat
  BY DynamicAssumption, SlotAssumption
<1>3. \A e \in heap : e.kind # "service_completion"
  BY <1>1, SlotEventParts, RadioParts DEF DynamicEvents, TrafficEvents
<1>4. Len(frames) = 0
  BY <1>1
<1> QED BY <1>1, <1>2, <1>3, <1>4 DEF EstimateInv, WithinEstimate

\* The estimates hold what the slots allocate, throughout every run.
THEOREM DynamicEstimates == DynamicSpec => []EstimateInv
<1>1. DynamicInit => EstimateInv
  BY EstimateInit
<1>2. DynamicInv /\ RadioInv /\ RadioInv' /\ MotionInv' /\ EstimateInv
      /\ [DynamicNext]_dynamicVars => EstimateInv'
  BY EstimateNext
<1> QED BY <1>1, <1>2, DynamicInvariant, DynamicRadio, DynamicMotion, PTL DEF DynamicSpec

\* No allocation carries more than the policy was shown for all PRBs
\* (WithinEstimate), whatever the links, the activity of the other cells and
\* the width of the band.
THEOREM DynamicWithinEstimate == DynamicSpec => []WithinEstimate
<1>1. EstimateInv => WithinEstimate
  BY DEF EstimateInv
<1> QED BY <1>1, DynamicEstimates, PTL
-----------------------------------------------------------------------------
(* What the report says of packets and of service.                         *)

\* A packet is first served at the start of a slot and completes at the end
\* of one that started no earlier; none fails but by its deadline, the limits
\* of its queue or the end of the run.
InSlots(p) ==
    LET q == queues[BearerOf[p]] IN
    /\ q.first[p] # NoTick => \E k \in Nat : q.first[p] = At(k)
    /\ q.cause[p] = "completed" =>
          /\ q.first[p] # NoTick
          /\ \E k \in Nat : q.terminal[p] = At(k) + Slot /\ q.first[p] <= At(k)
    /\ q.cause[p] # "phy_failure"
    /\ q.cause[p] = "deadline_expired" => DeadlineTick[p] # NoTick

PacketsInSlots == \A p \in Packets : InSlots(p)

\* Arrivals, expiries and censorings neither serve a packet nor complete it.
LEMMA HandledInSlots ==
    ASSUME NEW own, PipelineInv(own), PacketsInSlots, NEW e, NEW b, NEW s, Handled(e, b, s)
    PROVE  PacketsInSlots'
<1> SUFFICES ASSUME NEW p \in Packets
             PROVE  InSlots(p)'
  BY DEF PacketsInSlots
<1> DEFINE q == queues[BearerOf[p]]
           t == queues'[BearerOf[p]]
<1>1. /\ e \in heap /\ arrives' = arrives /\ BearerOf[p] \in Bearers
      /\ queues = [a \in Bearers |-> queues[a]] /\ queues' = [queues EXCEPT ![b] = s]
  BY Configuration DEF Handled, Dispatched, PipelineInv, Running
<1>2. DeadlineTick' = DeadlineTick /\ InSlots(p)
  BY <1>1, SameSchedule DEF PacketsInSlots
<1>3. t = q \/ (t = s /\ q = queues[b] /\ Unserved(e, q, s))
  BY <1>1 DEF Handled
<1>4. e = Expiry(p) => DeadlineTick[p] # NoTick
  <2>1. Scheduled(e)
    BY <1>1, Parts
  <2> QED BY <2>1, SlotEventParts DEF Scheduled
<1>5. CASE t = q
  BY <1>2, <1>5 DEF InSlots
<1>6. CASE Unserved(e, q, t)
  <2>1. /\ t.first[p] = q.first[p]
        /\ \/ t.cause[p] = q.cause[p] /\ (q.cause[p] # "absent" => t.terminal[p] = q.terminal[p])
           \/ t.cause[p] = "deadline_expired" /\ e = Expiry(p)
           \/ t.cause[p] \in {"active", "overflow_drop", "censored_at_stop"}
    BY <1>6 DEF Unserved
  <2> QED BY <1>2, <1>4, <2>1 DEF InSlots
<1> QED BY <1>3, <1>5, <1>6

\* A scheduling handler marks first services at the start of its slot.
LEMMA CommittedInSlots ==
    ASSUME NEW own, PipelineInv(own), PacketsInSlots, NEW e, NEW f, Committed(own, e, f)
    PROVE  PacketsInSlots'
<1> SUFFICES ASSUME NEW p \in Packets
             PROVE  InSlots(p)'
  BY DEF PacketsInSlots
<1> DEFINE q == queues[BearerOf[p]]
           t == queues'[BearerOf[p]]
<1>1. e \in heap /\ e.kind = "scheduling" /\ arrives' = arrives /\ BearerOf[p] \in Bearers
  BY Configuration DEF Committed, Dispatched
<1>2. DeadlineTick' = DeadlineTick /\ InSlots(p)
  BY <1>1, SameSchedule DEF PacketsInSlots
<1>3. e.seq \in Nat /\ e.tick = At(e.seq)
  <2>1. e.seq \in Slots /\ e = SlotStart(e.entity, e.seq)
    BY <1>1, Parts DEF Scheduled
  <2>2. SlotStart(e.entity, e.seq).tick = At(e.seq)
    BY SlotEventParts
  <2> QED BY <2>1, <2>2, SlotTimes
<1>4. /\ t.cause[p] = q.cause[p] /\ t.terminal[p] = q.terminal[p]
      /\ t.first[p] = q.first[p] \/ (q.first[p] = NoTick /\ t.first[p] = e.tick)
  BY <1>1 DEF Committed, Reserved
<1>5. CASE t.first[p] = q.first[p]
  BY <1>2, <1>4, <1>5 DEF InSlots
<1>6. CASE q.first[p] = NoTick /\ t.first[p] = e.tick
  BY <1>2, <1>3, <1>4, <1>6 DEF InSlots
<1> QED BY <1>4, <1>5, <1>6

\* A slot that ends completes packets at its end.
LEMMA ServedInSlots ==
    ASSUME NEW own, PipelineInv(own), PacketsInSlots, NEW e, Served(own, e)
    PROVE  PacketsInSlots'
<1> SUFFICES ASSUME NEW p \in Packets
             PROVE  InSlots(p)'
  BY DEF PacketsInSlots
<1> DEFINE q == queues[BearerOf[p]]
           t == queues'[BearerOf[p]]
<1>1. /\ e \in heap /\ e.kind = "service_completion" /\ arrives' = arrives
      /\ BearerOf[p] \in Bearers
  BY Configuration DEF Served, Dispatched
<1>2. DeadlineTick' = DeadlineTick /\ InSlots(p)
  BY <1>1, SameSchedule DEF PacketsInSlots
<1>3. e.seq \in Nat /\ e.tick = At(e.seq) + Slot
  BY <1>1, Parts, ServiceParts
<1>4. \/ t = q
      \/ /\ t.first = q.first
         /\ \/ t.cause[p] = q.cause[p] /\ t.terminal[p] = q.terminal[p]
            \/ /\ t.cause[p] = "completed" /\ t.terminal[p] = e.tick
               /\ q.first[p] # NoTick /\ q.first[p] <= At(e.seq)
  BY <1>1 DEF Served, ServedAs
<1> QED BY <1>2, <1>3, <1>4 DEF InSlots

\* Steps that leave the queues and the arrivals alone.
LEMMA SameInSlots ==
    ASSUME PacketsInSlots, queues' = queues, arrives' = arrives
    PROVE  PacketsInSlots'
BY SameSchedule DEF PacketsInSlots, InSlots

\* Before the run no packet has been seen.
LEMMA StartInSlots ==
    ASSUME queues = [b \in Bearers |-> EmptyQueue]
    PROVE  PacketsInSlots
BY Configuration DEF PacketsInSlots, InSlots, EmptyQueue

\* From the start of a slot to the end of one no earlier it is whole slots.
LEMMA WholeSlots ==
    ASSUME NEW j \in Nat, NEW k \in Nat, At(j) <= At(k)
    PROVE  /\ (At(k) + Slot) - At(j) >= Slot
           /\ ((At(k) + Slot) - At(j)) % Slot = 0
<1>1. At(j) \in Nat /\ At(k) \in Nat /\ Slot \in Nat /\ Slot > 0 /\ j <= k
  BY SlotOrder, Configuration
<1>2. (At(k) + Slot) - At(j) = ((k + 1) - j) * Slot
  <2>1. At(k + 1) = At(k) + Slot
    BY SlotTimes
  <2>2. k + 1 \in Int /\ j \in Int /\ Slot \in Int
    BY <1>1
  <2>3. ((k + 1) - j) * Slot = (k + 1) * Slot - j * Slot
    BY <2>2, Distributes
  <2> QED BY <2>1, <2>3 DEF At
<1>3. ((k + 1) - j) * Slot = ((k + 1) - j) * Slot + 0
  <2>1. ((k + 1) - j) \in Int /\ Slot \in Int
    BY <1>1
  <2>2. ((k + 1) - j) * Slot \in Int
    BY <2>1, Distributes
  <2> QED BY <2>2
<1>4. (((k + 1) - j) * Slot) % Slot = 0
  <2>1. (k + 1) - j \in Int /\ 0 \in 0..(Slot - 1)
    BY <1>1
  <2>2. (((k + 1) - j) * Slot + 0) % Slot = 0
    BY <1>1, <2>1, Quotient
  <2> QED BY <1>3, <2>2
<1> QED BY <1>1, <1>2, <1>4

\* Two parts of a finite set that have nothing in common.
LEMMA PartsCounted ==
    ASSUME NEW S, IsFiniteSet(S), NEW A \in SUBSET S, NEW B \in SUBSET S, A \cap B = {}
    PROVE  Cardinality(A \cup B) = Cardinality(A) + Cardinality(B)
<1>1. IsFiniteSet(A) /\ IsFiniteSet(B)
  BY FS_Subset
<1>2. /\ Cardinality(A \cup B) = Cardinality(A) + Cardinality(B) - Cardinality(A \cap B)
      /\ Cardinality(A) \in Nat /\ Cardinality(B) \in Nat
  BY <1>1, FS_Union, FS_CardinalityType
<1>3. Cardinality(A \cap B) = 0
  BY FS_EmptySet, Zenon
<1> QED BY <1>2, <1>3

\* Once every packet has ended, each of a cohort counts in one outcome.
LEMMA OutcomesInv ==
    ASSUME NEW own, PipelineInv(own), PacketsInSlots, mode = "done",
           NEW bs \in SUBSET Bearers
    PROVE  OutcomesAccounted(bs)
<1> DEFINE S == CohortOf(bs)
           C == Ended(bs, "completed")
           D == Ended(bs, "overflow_drop")
           X == Ended(bs, "deadline_expired")
           Z == Ended(bs, "censored_at_stop")
           W == DeadlineBearing(bs)
<1>1. IsFiniteSet(S) /\ S \subseteq Packets
  <2>1. IsFiniteSet(Packets)
    <3>1. NumPackets \in Int /\ 1 \in Int
      BY Configuration
    <3> QED BY <3>1, FS_Interval DEF Packets
  <2> QED BY <2>1, FS_Subset DEF CohortOf
<1>2. /\ C \in SUBSET S /\ D \in SUBSET S /\ X \in SUBSET S /\ Z \in SUBSET S
      /\ C \cap X = {} /\ D \cap Z = {} /\ (C \cup D) \cap (X \cup Z) = {}
      /\ C \cap D = {} /\ X \cap Z = {}
  BY DEF Ended
<1>3. \A p \in Packets : StateOf(p).cause \in Terminal \ {"phy_failure"}
  <2>1. ASSUME NEW p \in Packets
        PROVE  queues[BearerOf[p]].cause[p] \in Terminal \ {"phy_failure"}
    <3>1. \A e \in heap : e.tick \in Nat /\ e.tick > Stop
      BY Parts DEF PipelineInv, Running
    <3>2. Censoring(BearerOf[p]) \notin heap
      BY <3>1, SlotEventParts, Configuration
    <3> QED BY <3>2 DEF PipelineInv, Censored, PacketsInSlots, InSlots
  <2> QED BY <2>1 DEF StateOf
<1>4. S = (C \cup D) \cup (X \cup Z)
  BY <1>1, <1>3 DEF Ended, Terminal
<1>5. X \cap W = X
  <2>1. \A p \in Packets : StateOf(p).cause = "deadline_expired" => DeadlineTick[p] # NoTick
    BY DEF StateOf, PacketsInSlots, InSlots
  <2> QED BY <1>1, <2>1 DEF Ended, DeadlineBearing
<1>6. DeadlineSuccesses(bs) = C \cap W
  <2>1. \A p \in Packets : DeadlineTick[p] # NoTick /\ StateOf(p).cause = "completed"
                           => StateOf(p).terminal <= DeadlineTick[p]
    BY DEF StateOf, PipelineInv, EndedInTime
  <2> QED BY <1>1, <2>1 DEF DeadlineSuccesses, Ended, DeadlineBearing
<1>7. /\ Cardinality(C) \in Nat /\ Cardinality(D) \in Nat
      /\ Cardinality(X) \in Nat /\ Cardinality(Z) \in Nat
      /\ Cardinality(S) = (Cardinality(C) + Cardinality(D)) + (Cardinality(X) + Cardinality(Z))
  <2> HIDE DEF S, C, D, X, Z
  <2>1. /\ Cardinality(C \cup D) = Cardinality(C) + Cardinality(D)
        /\ Cardinality(X \cup Z) = Cardinality(X) + Cardinality(Z)
    BY <1>1, <1>2, PartsCounted
  <2>2. Cardinality((C \cup D) \cup (X \cup Z)) = Cardinality(C \cup D) + Cardinality(X \cup Z)
    <3>1. C \cup D \in SUBSET S /\ X \cup Z \in SUBSET S
      BY <1>2
    <3> QED BY <1>1, <1>2, <3>1, PartsCounted
  <2>3. /\ IsFiniteSet(C) /\ IsFiniteSet(D) /\ IsFiniteSet(X) /\ IsFiniteSet(Z)
    BY <1>1, <1>2, FS_Subset
  <2> QED BY <1>4, <2>1, <2>2, <2>3, FS_CardinalityType
<1>8. /\ Outcomes(bs).delivery[1] = Cardinality(C) /\ Outcomes(bs).delivery[2] = Cardinality(S)
      /\ Outcomes(bs).overflow[1] = Cardinality(D)
      /\ Outcomes(bs).expired[1] = Cardinality(X \cap W)
      /\ Outcomes(bs).censored[1] = Cardinality(Z)
      /\ Outcomes(bs).success[1] = Cardinality(DeadlineSuccesses(bs))
  BY DEF Outcomes
<1> HIDE DEF S, C, D, X, Z, W
<1>9. /\ Outcomes(bs).delivery[1] + Outcomes(bs).overflow[1]
           + Outcomes(bs).expired[1] + Outcomes(bs).censored[1] = Outcomes(bs).delivery[2]
      /\ Outcomes(bs).success[1] = Cardinality(C \cap W)
  <2>1. Cardinality(X \cap W) = Cardinality(X)
    BY <1>5, Zenon
  <2>2. Cardinality(DeadlineSuccesses(bs)) = Cardinality(C \cap W)
    BY <1>6, Zenon
  <2> QED BY <1>7, <1>8, <2>1, <2>2
<1> QED BY <1>9 DEF OutcomesAccounted, C, W

\* Its delays are those of slots.
LEMMA DelaysInv ==
    ASSUME NEW own, PipelineInv(own), PacketsInSlots, NEW bs \in SUBSET Bearers
    PROVE  DelaysInSlots(bs)
<1> SUFFICES ASSUME NEW p \in Ended(bs, "completed")
             PROVE  /\ QueueingDelay(p) >= 0
                    /\ ServiceSpan(p) >= Slot /\ ServiceSpan(p) % Slot = 0
  BY DEF DelaysInSlots
<1> DEFINE q == queues[BearerOf[p]]
<1>1. p \in Packets /\ q.cause[p] = "completed" /\ BearerOf[p] \in Bearers
  BY Configuration DEF Ended, CohortOf, StateOf
<1>2. /\ QueueingDelay(p) = q.first[p] - arrives[p]
      /\ ServiceSpan(p) = q.terminal[p] - q.first[p]
  BY DEF QueueingDelay, ServiceSpan, StateOf
<1>3. O!QueueAssumption /\ O!Valid(q) /\ arrives[p] \in Nat
  BY <1>1, Parts
<1>4. q.arrival[p] = arrives[p]
  BY <1>1 DEF PipelineInv, Traffic, PacketPending
<1>5. PICK j \in Nat, k \in Nat :
         /\ q.first[p] = At(j) /\ q.first[p] # NoTick
         /\ q.terminal[p] = At(k) + Slot /\ q.first[p] <= At(k)
  BY <1>1 DEF PacketsInSlots, InSlots
<1>6. arrives[p] <= q.first[p] /\ q.first[p] \in Nat
  <2>1. q.arrival[p] <= q.first[p]
    BY <1>1, <1>3, <1>5, FirstServices
  <2> QED BY <1>4, <1>5, <2>1, SlotTimes
<1> HIDE DEF q
<1>7. QueueingDelay(p) >= 0
  BY <1>2, <1>3, <1>6
<1>8. ServiceSpan(p) >= Slot /\ ServiceSpan(p) % Slot = 0
  BY <1>2, <1>5, WholeSlots
<1> QED BY <1>7, <1>8

\* What is taken of a reservation is no more than was reserved.
LEMMA ServedOfReserved ==
    ASSUME NEW own, PipelineInv(own), NEW e \in heap, e.kind = "service_completion",
           NEW b \in Bearers
    PROVE  /\ ServedBits(e.work.plan, b) \in Nat /\ ReservedBits(e.work.plan, b) \in Nat
           /\ ServedBits(e.work.plan, b) <= ReservedBits(e.work.plan, b)
<1> DEFINE plan == e.work.plan
           m == CHOOSE s \in PlanOfBearer(plan, b) : TRUE
           q == queues[b]
           r == m.reservation
<1>1. CASE PlanOfBearer(plan, b) = {}
  BY <1>1 DEF ServedBits, ReservedBits
<1>2. CASE PlanOfBearer(plan, b) # {}
  <2>1. m \in plan /\ m.bearer = b
    <3>1. m \in PlanOfBearer(plan, b)
      BY <1>2
    <3> QED BY <3>1 DEF PlanOfBearer
  <2>2. /\ ServedBits(plan, b) = Total(Drawn(q, r))
        /\ ReservedBits(plan, b) = Total(r.items)
    BY <1>2 DEF ServedBits, ReservedBits, ReservationOf
  <2> HIDE DEF m
  <2>3. r \in q.known
    BY <2>1 DEF PipelineInv, Services, InService, Promise
  <2>4. r.items \in [Packets -> Nat]
    BY <2>3, Parts, ValidParts
  <2> HIDE DEF q, r
  <2>5. \A i \in 1..NumPackets :
           /\ Drawn(q, r)[i] \in Nat /\ r.items[i] \in Nat /\ Drawn(q, r)[i] <= r.items[i]
    <3>1. ASSUME NEW p \in Packets
          PROVE  Drawn(q, r)[p] = 0 \/ Drawn(q, r)[p] = r.items[p]
      BY DEF Drawn, UpTo
    <3> QED BY <2>4, <3>1, Configuration
  <2>6. /\ Sum(Drawn(q, r), NumPackets) \in Nat /\ Sum(r.items, NumPackets) \in Nat
        /\ Sum(Drawn(q, r), NumPackets) <= Sum(r.items, NumPackets)
    <3>1. NumPackets \in Nat
      BY Configuration
    <3>2. \A i \in 1..NumPackets : Drawn(q, r)[i] \in Int /\ r.items[i] \in Int
      BY <2>5
    <3> QED BY <2>5, <3>1, <3>2, SumNat, SumMonotone
  <2> QED BY <2>2, <2>6 DEF Total
<1> QED BY <1>1, <1>2

\* The pending slots promise no more than they may carry.
PlansWithin == \A e \in heap : e.kind = "service_completion" => WithinCapacity(e)

\* So they serve no more.
LEMMA ServiceCapped ==
    ASSUME NEW own, PipelineInv(own), PlansWithin, ServiceWithinCapacity,
           NEW e \in heap, NEW lost, ServiceHandler(e, lost)
    PROVE  ServiceWithinCapacity'
<1>i. PICK i : i = IntervalOf(e, lost)
  OBVIOUS
<1>1. e.kind = "service_completion" /\ (intervals' = intervals \/ intervals' = intervals \cup {i})
  BY <1>i DEF ServiceHandler, Pop
<1>2. ASSUME NEW u \in Ues
      PROVE  /\ ServedTo(i, u) \in Nat /\ Promised(e, u) \in Nat
             /\ ServedTo(i, u) <= Promised(e, u)
  <2> DEFINE f == [b \in Bearers |-> IF UeOf[b] = u THEN i.served[b] ELSE 0]
             g == [b \in Bearers |->
                      IF UeOf[b] = u THEN ReservedBits(e.work.plan, b) ELSE 0]
  <2>1. \A b \in Bearers : i.served[b] = ServedBits(e.work.plan, b)
    BY <1>i DEF IntervalOf
  <2>2. \A b \in 1..NumBearers : f[b] \in Nat /\ g[b] \in Nat /\ f[b] <= g[b]
    BY <1>1, <2>1, ServedOfReserved DEF Bearers
  <2>3. NumBearers \in Nat
    BY PipelineAssumption
  <2>4. ServedTo(i, u) = Sum(f, NumBearers) /\ Promised(e, u) = Sum(g, NumBearers)
    BY DEF ServedTo, Promised
  <2> HIDE DEF f, g
  <2>5. \A b \in 1..NumBearers : f[b] \in Int /\ g[b] \in Int
    BY <2>2
  <2>6. /\ Sum(f, NumBearers) \in Nat /\ Sum(g, NumBearers) \in Nat
        /\ Sum(f, NumBearers) <= Sum(g, NumBearers)
    BY <2>2, <2>3, <2>5, SumNat, SumMonotone
  <2> QED BY <2>4, <2>6
<1>3. ASSUME NEW u \in Ues
      PROVE  /\ ServedTo(i, u) <= i.capacity[u]
             /\ i.prbs[u] = 0 => ServedTo(i, u) = 0
  <2>1. i.capacity = e.work.capacity /\ i.prbs = e.work.prbs
    BY <1>i DEF IntervalOf
  <2>2. /\ e.work.capacity[u] \in Nat /\ Promised(e, u) <= e.work.capacity[u]
        /\ e.work.prbs[u] = 0 => Promised(e, u) = 0
    BY <1>1 DEF PlansWithin, WithinCapacity
  <2> QED BY <1>2, <2>1, <2>2
<1> QED BY <1>1, <1>3 DEF ServiceWithinCapacity

\* Only new slots and slots that end need a second look.
LEMMA PlansKept ==
    ASSUME PlansWithin, \A f \in heap' \ heap : WithinCapacity(f)
    PROVE  PlansWithin'
BY DEF PlansWithin

\* Before the run no slot is pending.
LEMMA PlansStart ==
    ASSUME intervals = {}, heap \subseteq InitialEvents \cup DynamicEvents
    PROVE  PlansWithin /\ ServiceWithinCapacity
<1>1. \A e \in heap : e.kind # "service_completion"
  BY SlotEventParts, RadioParts DEF InitialEvents, DynamicEvents, TrafficEvents
<1> QED BY <1>1 DEF PlansWithin, ServiceWithinCapacity

\* Every step of the static pipeline keeps service within capacity.
LEMMA StaticCapped ==
    ASSUME PipelineInv(CellOf), PlansWithin, ServiceWithinCapacity, [Next]_vars
    PROVE  PlansWithin' /\ ServiceWithinCapacity'
<1>1. CASE UNCHANGED vars
  BY <1>1, PlansKept DEF vars, pipeline, ServiceWithinCapacity
<1>2. CASE Next
  <2>1. PlansWithin'
    <3>1. \A f \in heap' \ heap : WithinCapacity(f)
      BY <1>2, StaticPlans
    <3> QED BY <3>1, PlansKept
  <2>2. CASE \E e \in heap : ServiceHandler(e, WithoutCapacity)
    <3>1. PICK e \in heap : ServiceHandler(e, WithoutCapacity)
      BY <2>2
    <3> DEFINE lost == WithoutCapacity
    <3>2. ServiceHandler(e, lost)
      BY <3>1
    <3> HIDE DEF lost
    <3> QED BY <2>1, <3>2, ServiceCapped
  <2>3. CASE intervals' = intervals
    BY <2>1, <2>3 DEF ServiceWithinCapacity
  <2> QED BY <1>2, <2>1, <2>2, <2>3 DEF Next, SchedulingHandler, Commit
<1> QED BY <1>1, <1>2

\* And every step of the dynamic one.
LEMMA DynamicCapped ==
    ASSUME NEW own, PipelineInv(own), PlansWithin, ServiceWithinCapacity,
           [DynamicNext]_dynamicVars
    PROVE  PlansWithin' /\ ServiceWithinCapacity'
<1>1. CASE UNCHANGED dynamicVars
  BY <1>1, PlansKept DEF dynamicVars, pipeline, ServiceWithinCapacity
<1>2. CASE DynamicNext
  <2>1. PlansWithin'
    <3>1. \A f \in heap' \ heap : WithinCapacity(f)
      BY <1>2, DynamicPlans
    <3> QED BY <3>1, PlansKept
  <2>2. CASE \E e \in heap : ServiceHandler(e, WithoutEstimate)
    <3>1. PICK e \in heap : ServiceHandler(e, WithoutEstimate)
      BY <2>2
    <3> DEFINE lost == WithoutEstimate
    <3>2. ServiceHandler(e, lost)
      BY <3>1
    <3> HIDE DEF lost
    <3> QED BY <2>1, <3>2, ServiceCapped
  <2>3. CASE intervals' = intervals
    BY <2>1, <2>3 DEF ServiceWithinCapacity
  <2> QED BY <1>2, <2>1, <2>2, <2>3
          DEF DynamicNext, TopologyHandler, AssociationHandler, DynamicScheduling, Commit
<1> QED BY <1>1, <1>2

\* The steps of the static pipeline keep packets in slots.
LEMMA StaticInSlots ==
    ASSUME PipelineInv(CellOf), PacketsInSlots, [Next]_vars
    PROVE  PacketsInSlots'
<1>1. CASE Finish \/ UNCHANGED vars
  BY <1>1, SameInSlots DEF Finish, vars, pipeline
<1> QED BY <1>1, Steps, HandledInSlots, CommittedInSlots, ServedInSlots

\* So do those of the dynamic one.
LEMMA DynamicStepsInSlots ==
    ASSUME DynamicInv, PacketsInSlots, [DynamicNext]_dynamicVars
    PROVE  PacketsInSlots'
<1>1. PICK own : own = Serving /\ PipelineInv(own)
  BY DEF DynamicInv
<1>2. CASE \/ \E e : Idle(e)
           \/ Finish
           \/ UNCHANGED pipeline
  BY <1>2, SameInSlots DEF Idle, Dispatched, Finish, pipeline
<1> QED BY <1>1, <1>2, DynamicSteps, HandledInSlots, CommittedInSlots, ServedInSlots

\* No slot serves a UE more than the capacity committed to it, and none
\* without PRBs (ServiceWithinCapacity), though what is served is drawn from
\* the queues after expiries have taken from them.
THEOREM PipelineServiceWithin == Spec => []ServiceWithinCapacity
<1>1. Init => PlansWithin /\ ServiceWithinCapacity
  BY PlansStart DEF Init
<1>2. PipelineInv(CellOf) /\ PlansWithin /\ ServiceWithinCapacity /\ [Next]_vars
         => PlansWithin' /\ ServiceWithinCapacity'
  BY StaticCapped
<1> QED BY <1>1, <1>2, PipelineInvariant, PTL DEF Spec

\* Nor does a slot serve a UE more than its link carries in the PRBs that
\* it was allocated (ServiceWithinCapacity).
THEOREM DynamicServiceWithin == DynamicSpec => []ServiceWithinCapacity
<1>1. DynamicInit => PlansWithin /\ ServiceWithinCapacity
  BY PlansStart DEF DynamicInit
<1>2. DynamicInv /\ PlansWithin /\ ServiceWithinCapacity /\ [DynamicNext]_dynamicVars
         => PlansWithin' /\ ServiceWithinCapacity'
  BY DynamicCapped DEF DynamicInv
<1> QED BY <1>1, <1>2, DynamicInvariant, PTL DEF DynamicSpec

-----------------------------------------------------------------------------
(* Values in order, and their percentiles.                                 *)

\* In the order of their values, each member of a set of numbers has a place.
LEMMA SortedFrom ==
    ASSUME NEW ps, ps \subseteq Int, IsFiniteSet(ps), NEW value, \A p \in ps : value[p] \in Int
    PROVE  /\ Cardinality(ps) \in Nat /\ DOMAIN InOrderOf(value, ps) = 1..Cardinality(ps)
           /\ \A i \in 1..Cardinality(ps) : InOrderOf(value, ps)[i] \in ps
           /\ \A i, j \in 1..Cardinality(ps) :
                 i <= j => value[InOrderOf(value, ps)[i]] <= value[InOrderOf(value, ps)[j]]
           /\ ps # {} => /\ InOrderOf(value, ps)[1] \in ps
                         /\ Preceding(InOrderOf(value, ps)[1], value, ps) = {}
<1> DEFINE n == Cardinality(ps)
           rank == [p \in ps |-> Cardinality(Preceding(p, value, ps))]
           s == InOrderOf(value, ps)
<1>1. n \in Nat
  BY FS_CardinalityType
<1>2. ASSUME NEW p \in ps
      PROVE  /\ Preceding(p, value, ps) \subseteq ps \ {p} /\ IsFiniteSet(Preceding(p, value, ps))
             /\ rank[p] \in 0..(n - 1)
  <2>1. Preceding(p, value, ps) \subseteq ps \ {p}
    BY DEF Preceding
  <2>2. IsFiniteSet(ps \ {p}) /\ Cardinality(ps \ {p}) = n - 1
    BY FS_RemoveElement
  <2>3. /\ IsFiniteSet(Preceding(p, value, ps))
        /\ Cardinality(Preceding(p, value, ps)) <= n - 1
        /\ Cardinality(Preceding(p, value, ps)) \in Nat
    BY <2>1, <2>2, FS_Subset, FS_CardinalityType
  <2>4. rank[p] = Cardinality(Preceding(p, value, ps))
    OBVIOUS
  <2> HIDE DEF rank
  <2> QED BY <1>1, <2>1, <2>3, <2>4
<1>3. ASSUME NEW p \in ps, NEW o \in ps, o \in Preceding(p, value, ps)
      PROVE  rank[o] < rank[p]
  <2> DEFINE P == Preceding(p, value, ps)
             Q == Preceding(o, value, ps)
  <2>1. Q \cup {o} \in SUBSET P /\ o \notin Q
    <3>1. p \in Int /\ o \in Int /\ value[p] \in Int /\ value[o] \in Int
          /\ (value[o] < value[p] \/ (value[o] = value[p] /\ o < p))
      BY <1>3 DEF Preceding
    <3>2. ASSUME NEW x \in Q
          PROVE  x \in P
      <4>1. x \in ps /\ x \in Int /\ value[x] \in Int
            /\ (value[x] < value[o] \/ (value[x] = value[o] /\ x < o))
        BY DEF Preceding
      <4>2. value[x] < value[p] \/ (value[x] = value[p] /\ x < p)
        BY <3>1, <4>1
      <4> QED BY <4>1, <4>2 DEF Preceding
    <3>3. o \notin Q
      BY <3>1 DEF Preceding
    <3> QED BY <1>3, <3>2, <3>3
  <2>2. IsFiniteSet(Q) /\ IsFiniteSet(P)
    BY <1>2
  <2>3. rank[p] = Cardinality(P) /\ rank[o] = Cardinality(Q)
    OBVIOUS
  <2> HIDE DEF P, Q, rank
  <2>4. Cardinality(Q \cup {o}) = Cardinality(Q) + 1 /\ Cardinality(Q \cup {o}) <= Cardinality(P)
        /\ Cardinality(Q) \in Nat /\ Cardinality(P) \in Nat
    BY <2>1, <2>2, FS_AddElement, FS_Subset, FS_CardinalityType
  <2> QED BY <2>3, <2>4
<1>4. \A p, o \in ps : p # o => o \in Preceding(p, value, ps) \/ p \in Preceding(o, value, ps)
  BY DEF Preceding
<1>5. \A i \in 1..n : \E p \in ps : rank[p] = i - 1
  <2> DEFINE T == 0..(n - 1)
  <2>1. IsFiniteSet(T) /\ Cardinality(T) = n
    <3>1. 0 \in Int /\ n - 1 \in Int
      BY <1>1
    <3>2. IsFiniteSet(T) /\ Cardinality(T) = IF 0 > n - 1 THEN 0 ELSE (n - 1) - 0 + 1
      BY <3>1, FS_Interval
    <3> QED BY <1>1, <3>2
  <2> HIDE DEF T, rank
  <2>2. rank \in Injection(ps, T)
    <3>1. rank \in [ps -> T]
      <4>1. rank = [p \in ps |-> rank[p]]
        BY DEF rank
      <4>2. \A p \in ps : rank[p] \in T
        BY <1>2 DEF T
      <4> QED BY <4>1, <4>2
    <3>2. \A p, o \in ps : rank[p] = rank[o] => p = o
      <4>1. \A p \in ps : rank[p] \in Int
        BY <1>2
      <4> QED BY <1>3, <1>4, <4>1
    <3> QED BY <3>1, <3>2 DEF Injection, IsInjective
  <2>3. rank \in Surjection(ps, T)
    BY <2>1, <2>2, FS_Injection
  <2>4. \A i \in 1..n : i - 1 \in T
    BY <1>1 DEF T
  <2> QED BY <2>3, <2>4 DEF Surjection
<1>6. ASSUME NEW i \in 1..n
      PROVE  s[i] \in ps /\ rank[s[i]] = i - 1
  <2>1. \E p \in ps : Cardinality(Preceding(p, value, ps)) = i - 1
    BY <1>5
  <2>2. s[i] = CHOOSE p \in ps : Cardinality(Preceding(p, value, ps)) = i - 1
    BY DEF InOrderOf
  <2>3. s[i] \in ps /\ Cardinality(Preceding(s[i], value, ps)) = i - 1
    BY <2>1, <2>2
  <2> QED BY <2>3
<1>7. DOMAIN s = 1..n
  BY DEF InOrderOf
<1> HIDE DEF rank, s
<1>8. ASSUME NEW i \in 1..n, NEW j \in 1..n, i <= j
      PROVE  value[s[i]] <= value[s[j]]
  <2>1. s[i] \in ps /\ rank[s[i]] = i - 1 /\ s[j] \in ps /\ rank[s[j]] = j - 1
        /\ value[s[i]] \in Int /\ value[s[j]] \in Int
    BY <1>6
  <2>2. s[j] \notin Preceding(s[i], value, ps)
    <3>1. s[j] \in Preceding(s[i], value, ps) => j - 1 < i - 1
      BY <1>3, <2>1
    <3> QED BY <1>1, <1>8, <3>1
  <2>3. ~(value[s[j]] < value[s[i]])
    BY <2>1, <2>2 DEF Preceding
  <2> QED BY <2>1, <2>3
<1>9. ASSUME ps # {}
      PROVE  s[1] \in ps /\ Preceding(s[1], value, ps) = {}
  <2>1. 1 \in 1..n
    <3>1. n # 0
      BY <1>9, FS_EmptySet
    <3> QED BY <1>1, <3>1
  <2>2. s[1] \in ps /\ rank[s[1]] = 0
    BY <1>6, <2>1
  <2>3. Cardinality(Preceding(s[1], value, ps)) = 0
    BY <2>2 DEF rank
  <2> QED BY <1>2, <2>2, <2>3, FS_EmptySet
<1> QED BY <1>1, <1>6, <1>7, <1>8, <1>9 DEF s

\* So they are in order.
LEMMA Sorted ==
    ASSUME NEW ps, ps \subseteq Int, IsFiniteSet(ps), NEW value, \A p \in ps : value[p] \in Int
    PROVE  /\ Cardinality(ps) \in Nat /\ DOMAIN InOrderOf(value, ps) = 1..Cardinality(ps)
           /\ \A i \in 1..Cardinality(ps) : InOrderOf(value, ps)[i] \in ps
           /\ \A i, j \in 1..Cardinality(ps) :
                 i <= j => value[InOrderOf(value, ps)[i]] <= value[InOrderOf(value, ps)[j]]
BY SortedFrom

\* A sorted sequence of numbers, n long.
Ascending(values, n) ==
    /\ Len(values) = n
    /\ \A i \in 1..n : values[i] \in Int
    /\ \A i, j \in 1..n : i <= j => values[i] <= values[j]

\* More of what is not negative is no less.
LEMMA MoreOf ==
    \A a, b, d \in Int : /\ a * d \in Int /\ a * d + (b - a) * d = b * d
                         /\ a <= b /\ 0 <= d => a * d <= b * d
OBVIOUS

\* Between two samples.
LEMMA Between ==
    ASSUME NEW f \in 0..99, NEW x \in Int, NEW y \in Int, x <= y
    PROVE  /\ f * (y - x) \in Int /\ 0 <= f * (y - x) /\ f * (y - x) <= 100 * (y - x)
           /\ 100 * x + 100 * (y - x) = 100 * y
<1>1. f \in Int /\ 0 \in Int /\ 100 \in Int /\ y - x \in Int /\ 0 <= y - x /\ 0 <= f /\ f <= 100
  OBVIOUS
<1>2. 0 * (y - x) <= f * (y - x) /\ f * (y - x) <= 100 * (y - x) /\ f * (y - x) \in Int
  BY <1>1, MoreOf
<1> QED BY <1>1, <1>2

\* A percentile is one of the samples, or lies between two that follow each
\* other, where its position says.
Lies(values, n, percent, lower, fraction) ==
    /\ (n - 1) * percent = 100 * (lower - 1) + fraction
    /\ fraction # 0 => lower + 1 \in 1..n
    /\ Percentile(values, percent)
          = IF fraction = 0 THEN 100 * values[lower]
            ELSE 100 * values[lower] + fraction * (values[lower + 1] - values[lower])

\* Where that is.
LEMMA PercentileParts ==
    ASSUME NEW values, NEW n \in Nat, n > 0, Ascending(values, n), NEW percent \in 0..100
    PROVE  \E lower \in 1..n, fraction \in 0..99 : Lies(values, n, percent, lower, fraction)
<1>p. PICK position, lower, fraction :
         /\ position = (n - 1) * percent /\ lower = position \div 100 + 1
         /\ fraction = position % 100
  OBVIOUS
<1>1. position \in Nat /\ position <= 100 * (n - 1)
  <2>1. n - 1 \in Int /\ percent \in Int /\ 0 \in Int /\ 100 \in Int /\ 0 <= n - 1
        /\ 0 <= percent /\ percent <= 100
    OBVIOUS
  <2>2. 0 * (n - 1) <= percent * (n - 1) /\ percent * (n - 1) <= 100 * (n - 1)
        /\ percent * (n - 1) \in Int
    BY <2>1, MoreOf
  <2>3. (n - 1) * percent = percent * (n - 1)
    BY <2>1
  <2> QED BY <1>p, <2>2, <2>3
<1>2. /\ fraction \in 0..99 /\ position \div 100 \in Nat
      /\ position = 100 * (position \div 100) + fraction
  BY <1>p, <1>1
<1>3. /\ lower \in 1..n /\ (fraction # 0 => lower + 1 \in 1..n)
      /\ position = 100 * (lower - 1) + fraction
  BY <1>p, <1>1, <1>2
<1>4. Percentile(values, percent)
         = IF fraction = 0 THEN 100 * values[lower]
           ELSE 100 * values[lower] + fraction * (values[lower + 1] - values[lower])
  <2>1. Len(values) = n
    BY DEF Ascending
  <2>2. Percentile(values, percent)
           = IF position % 100 = 0 THEN 100 * values[position \div 100 + 1]
             ELSE 100 * values[position \div 100 + 1]
                  + (position % 100) * (values[(position \div 100 + 1) + 1]
                                        - values[position \div 100 + 1])
    BY <1>p, <2>1, Zenon DEF Percentile
  <2> QED BY <1>p, <2>2, Zenon
<1>5. /\ lower \in 1..n /\ fraction \in 0..99
      /\ (n - 1) * percent = 100 * (lower - 1) + fraction
      /\ fraction # 0 => lower + 1 \in 1..n
  BY <1>p, <1>2, <1>3
<1>6. Lies(values, n, percent, lower, fraction)
  BY <1>4, <1>5, Zenon DEF Lies
<1> QED BY <1>5, <1>6

\* So it is no less than a sample at its place or before, and no more than
\* one beyond.
LEMMA PercentileBounds ==
    ASSUME NEW values, NEW n \in Nat, n > 0, Ascending(values, n), NEW percent \in 0..100,
           NEW i \in 1..n
    PROVE  /\ Percentile(values, percent) \in Int
           /\ 100 * (i - 1) <= (n - 1) * percent => 100 * values[i] <= Percentile(values, percent)
           /\ (n - 1) * percent <= 100 * (i - 1) => Percentile(values, percent) <= 100 * values[i]
<1>1. PICK position : position = (n - 1) * percent
  OBVIOUS
<1>l. PICK lower \in 1..n, fraction \in 0..99 : Lies(values, n, percent, lower, fraction)
  BY PercentileParts
<1>2. /\ lower \in 1..n /\ fraction \in 0..99
      /\ (n - 1) * percent = 100 * (lower - 1) + fraction
      /\ fraction # 0 => lower + 1 \in 1..n
      /\ Percentile(values, percent)
            = IF fraction = 0 THEN 100 * values[lower]
              ELSE 100 * values[lower] + fraction * (values[lower + 1] - values[lower])
  BY <1>l, Zenon DEF Lies
<1>0. position = 100 * (lower - 1) + fraction
  BY <1>1, <1>2
<1>3. /\ \A k \in 1..n : values[k] \in Int
      /\ \A k, j \in 1..n : k <= j => values[k] <= values[j]
  BY DEF Ascending
<1>4. CASE fraction = 0
  <2>1. Percentile(values, percent) = 100 * values[lower]
    BY <1>2, <1>4
  <2>2. /\ 100 * (i - 1) <= position => values[i] <= values[lower]
        /\ position <= 100 * (i - 1) => values[lower] <= values[i]
    BY <1>0, <1>3, <1>4
  <2> QED BY <1>1, <1>2, <1>3, <2>1, <2>2
<1>5. CASE fraction # 0
  <2> DEFINE x == values[lower]
             y == values[lower + 1]
  <2>1. /\ Percentile(values, percent) = 100 * x + fraction * (y - x)
        /\ x \in Int /\ y \in Int /\ x <= y
    BY <1>2, <1>3, <1>5
  <2>2. /\ 100 * (i - 1) <= position => values[i] <= x
        /\ position <= 100 * (i - 1) => y <= values[i]
    BY <1>0, <1>2, <1>3, <1>5
  <2> HIDE DEF x, y
  <2>3. /\ fraction * (y - x) \in Int /\ 0 <= fraction * (y - x)
        /\ fraction * (y - x) <= 100 * (y - x) /\ 100 * x + 100 * (y - x) = 100 * y
    BY <1>2, <2>1, Between
  <2> QED BY <1>1, <1>3, <2>1, <2>2, <2>3
<1> QED BY <1>4, <1>5

\* A higher percentile is no less.
LEMMA PercentileGrows ==
    ASSUME NEW values, NEW n \in Nat, n > 0, Ascending(values, n),
           NEW p \in 0..100, NEW r \in 0..100, p <= r
    PROVE  Percentile(values, p) <= Percentile(values, r)
<1>1. PICK position, position2 : position = (n - 1) * p /\ position2 = (n - 1) * r
  OBVIOUS
<1>l. PICK lower \in 1..n, fraction \in 0..99 : Lies(values, n, p, lower, fraction)
  BY PercentileParts
<1>2. /\ lower \in 1..n /\ fraction \in 0..99
      /\ (n - 1) * p = 100 * (lower - 1) + fraction
      /\ fraction # 0 => lower + 1 \in 1..n
      /\ Percentile(values, p)
            = IF fraction = 0 THEN 100 * values[lower]
              ELSE 100 * values[lower] + fraction * (values[lower + 1] - values[lower])
  BY <1>l, Zenon DEF Lies
<1>m. PICK lower2 \in 1..n, fraction2 \in 0..99 : Lies(values, n, r, lower2, fraction2)
  BY PercentileParts
<1>3. /\ lower2 \in 1..n /\ fraction2 \in 0..99
      /\ (n - 1) * r = 100 * (lower2 - 1) + fraction2
      /\ fraction2 # 0 => lower2 + 1 \in 1..n
      /\ Percentile(values, r)
            = IF fraction2 = 0 THEN 100 * values[lower2]
              ELSE 100 * values[lower2] + fraction2 * (values[lower2 + 1] - values[lower2])
  BY <1>m, Zenon DEF Lies
<1>4. position = 100 * (lower - 1) + fraction /\ position2 = 100 * (lower2 - 1) + fraction2
  BY <1>1, <1>2, <1>3
<1>5. position <= position2
  <2>1. n - 1 \in Int /\ p \in Int /\ r \in Int /\ 0 <= n - 1
    OBVIOUS
  <2>2. p * (n - 1) <= r * (n - 1)
    BY <2>1, MoreOf
  <2>3. (n - 1) * p = p * (n - 1) /\ (n - 1) * r = r * (n - 1)
    BY <2>1
  <2> QED BY <1>1, <2>2, <2>3
<1>6. lower <= lower2 /\ (lower = lower2 => fraction <= fraction2)
  BY <1>4, <1>5
<1>7. CASE lower = lower2
  <2>1. CASE fraction = 0
    <3>1. Percentile(values, p) = 100 * values[lower] /\ 100 * (lower - 1) <= (n - 1) * r
      BY <1>1, <1>2, <1>3, <1>4, <1>7, <2>1
    <3> QED BY <1>3, <3>1, PercentileBounds
  <2>2. CASE fraction # 0
    <3> DEFINE x == values[lower]
               y == values[lower + 1]
    <3>1. /\ Percentile(values, p) = 100 * x + fraction * (y - x)
          /\ Percentile(values, r) = 100 * x + fraction2 * (y - x)
      BY <1>2, <1>3, <1>6, <1>7, <2>2
    <3>2. x \in Int /\ y \in Int /\ x <= y
      BY <1>2, <2>2 DEF Ascending
    <3> HIDE DEF x, y
    <3>3. /\ fraction * (y - x) <= fraction2 * (y - x)
          /\ fraction * (y - x) \in Int /\ fraction2 * (y - x) \in Int
      <4>1. fraction \in Int /\ fraction2 \in Int /\ y - x \in Int /\ 0 <= y - x
            /\ fraction <= fraction2
        BY <1>3, <1>4, <1>6, <1>7, <3>2
      <4> QED BY <4>1, MoreOf
    <3> QED BY <3>1, <3>2, <3>3
  <2> QED BY <2>1, <2>2
<1>8. CASE lower # lower2
  <2>1. (n - 1) * p <= 100 * (lower2 - 1) /\ 100 * (lower2 - 1) <= (n - 1) * r
    BY <1>1, <1>2, <1>3, <1>4, <1>6, <1>8
  <2>2. /\ Percentile(values, p) \in Int /\ Percentile(values, r) \in Int
        /\ Percentile(values, p) <= 100 * values[lower2]
        /\ 100 * values[lower2] <= Percentile(values, r)
    BY <1>4, <2>1, PercentileBounds
  <2>3. values[lower2] \in Int
    BY <1>4 DEF Ascending
  <2> QED BY <2>2, <2>3
<1> QED BY <1>7, <1>8

-----------------------------------------------------------------------------
(* The books of service: the intervals against the queues.                 *)

\* What a bearer, or a group of them, was served in some intervals.
ServedIn(i, bs) == SumOver(i.served, bs)

\* A record is that of a slot over and done with, and of what was committed.
Booked(i) ==
    /\ i.cell \in Cells
    /\ \A b \in Bearers : i.served[b] \in Nat
    /\ i.prbs \in [Ues -> 0..Prbs] /\ Sum(i.prbs, NumUes) <= Prbs
    /\ \A u \in Ues : i.capacity[u] \in Nat
    /\ i.eligible \subseteq Ues /\ i.outage \subseteq i.eligible

OverBy(i, k) ==
    /\ i.start = At(k) /\ i.end = At(k) + Slot
    /\ SlotStart(i.cell, k) \notin heap
    /\ \A e \in heap : e.kind = "service_completion" /\ e.entity = i.cell => e.seq # k

Over(i) == \E k \in Slots : OverBy(i, k)

BooksInv ==
    /\ IsFiniteSet(intervals)
    /\ \A i \in intervals : Booked(i) /\ Over(i)
    /\ \A i, j \in intervals : i.cell = j.cell /\ i.start = j.start => i = j
    /\ \A b \in Bearers : ServedOver(intervals, {b}) = queues[b].served

\* Bearers, UEs and cells are few.
LEMMA Few ==
    /\ IsFiniteSet(Bearers) /\ IsFiniteSet(Ues) /\ IsFiniteSet(Packets)
    /\ Bearers = 1..NumBearers /\ Ues = 1..NumUes /\ NumBearers \in Nat /\ NumUes \in Nat
<1>1. NumBearers \in Nat /\ NumUes \in Nat /\ NumPackets \in Nat
  BY PipelineAssumption
<1>2. 1 \in Int /\ NumBearers \in Int /\ NumUes \in Int /\ NumPackets \in Int
  BY <1>1
<1> QED BY <1>1, <1>2, FS_Interval DEF Bearers, Ues, Packets

\* What was served in one interval.
LEMMA ServedInNat ==
    ASSUME NEW i, Booked(i), NEW bs \in SUBSET Bearers
    PROVE  ServedIn(i, bs) \in Nat
<1>1. IsFiniteSet(bs)
  BY Few, FS_Subset
<1>2. \A b \in bs : i.served[b] \in Int /\ i.served[b] \in Nat
  BY DEF Booked
<1> QED BY <1>1, <1>2, SumOverInt DEF ServedIn

\* What was served in the intervals of two parts.
LEMMA ServedInParts ==
    ASSUME NEW is, NEW js, IsFiniteSet(is), IsFiniteSet(js), is \cap js = {},
           NEW bs, \A i \in is \cup js : ServedIn(i, bs) \in Int
    PROVE  /\ ServedOver(is \cup js, bs) = ServedOver(is, bs) + ServedOver(js, bs)
           /\ ServedOver(is, bs) \in Int /\ ServedOver(js, bs) \in Int
<1> DEFINE f == [i \in is |-> ServedIn(i, bs)]
           g == [i \in js |-> ServedIn(i, bs)]
           h == [i \in is \cup js |-> ServedIn(i, bs)]
<1>1. /\ ServedOver(is, bs) = SumOver(f, is) /\ ServedOver(js, bs) = SumOver(g, js)
      /\ ServedOver(is \cup js, bs) = SumOver(h, is \cup js)
  BY Zenon DEF ServedOver, ServedIn
<1>2. /\ \A i \in is : f[i] \in Int /\ f[i] = h[i]
      /\ \A i \in js : g[i] \in Int /\ g[i] = h[i]
      /\ \A i \in is \cup js : h[i] \in Int
  OBVIOUS
<1> HIDE DEF f, g, h
<1>3. SumOver(h, is \cup js) = SumOver(h, is) + SumOver(h, js)
  BY <1>2, SumOverParts
<1>4. SumOver(f, is) = SumOver(h, is) /\ SumOver(g, js) = SumOver(h, js)
  BY <1>2, SumOverSame
<1>5. SumOver(f, is) \in Int /\ SumOver(g, js) \in Int
  BY <1>2, SumOverInt
<1> QED BY <1>1, <1>3, <1>4, <1>5

\* And in a single one.
LEMMA ServedInOne ==
    ASSUME NEW i, NEW b, i.served[b] \in Int
    PROVE  ServedOver({i}, {b}) = i.served[b] /\ ServedIn(i, {b}) = i.served[b]
<1> DEFINE f == [j \in {i} |-> ServedIn(j, {b})]
<1>1. ServedOver({i}, {b}) = SumOver(f, {i})
  BY Zenon DEF ServedOver, ServedIn
<1>2. ServedIn(i, {b}) = i.served[b]
  BY SumOverSingle DEF ServedIn
<1>3. f[i] = ServedIn(i, {b})
  OBVIOUS
<1> HIDE DEF f
<1>4. SumOver(f, {i}) = f[i]
  BY <1>2, <1>3, SumOverSingle
<1> QED BY <1>1, <1>2, <1>3, <1>4

\* Nothing has been served before the run.
LEMMA BooksStart ==
    ASSUME intervals = {}, queues = [b \in Bearers |-> EmptyQueue]
    PROVE  BooksInv
<1>1. ASSUME NEW b \in Bearers
      PROVE  ServedOver(intervals, {b}) = queues[b].served
  <2> DEFINE f == [i \in {} |-> SumOver(i.served, {b})]
  <2>1. ServedOver(intervals, {b}) = SumOver(f, {})
    BY Zenon DEF ServedOver
  <2>2. SumOver(f, {}) = 0
    BY SumOverEmpty
  <2> QED BY <2>1, <2>2 DEF EmptyQueue
<1> QED BY <1>1, FS_EmptySet DEF BooksInv

\* The books stay as they are while nothing is served; a slot becomes one in
\* service when its start is taken.
LEMMA BooksKept ==
    ASSUME BooksInv, intervals' = intervals,
           \A b \in Bearers : queues'[b].served = queues[b].served,
           \A f \in heap' \ heap :
               f.kind = "service_completion" /\ SlotStart(f.entity, f.seq) \in heap
    PROVE  BooksInv'
<1>1. ASSUME NEW i \in intervals
      PROVE  Booked(i)' /\ Over(i)'
  <2>1. Booked(i)'
    BY DEF BooksInv, Booked
  <2>2. PICK k \in Slots : OverBy(i, k)
    BY DEF BooksInv, Over
  <2>3. SlotStart(i.cell, k) \notin heap'
    BY <2>2, SlotEventParts DEF OverBy
  <2>4. \A e \in heap' : e.kind = "service_completion" /\ e.entity = i.cell => e.seq # k
    BY <2>2 DEF OverBy
  <2> QED BY <2>1, <2>2, <2>3, <2>4 DEF OverBy, Over
<1>2. \A b \in Bearers : ServedOver(intervals, {b})' = ServedOver(intervals, {b})
  BY DEF ServedOver
<1> QED BY <1>1, <1>2 DEF BooksInv

\* Arrivals, expiries and censorings serve nothing.
LEMMA HandledBooks ==
    ASSUME NEW own, PipelineInv(own), BooksInv, intervals' = intervals,
           NEW e, NEW b, NEW s, Handled(e, b, s)
    PROVE  BooksInv'
<1>1. \A a \in Bearers : queues'[a].served = queues[a].served
  <2>1. /\ queues = [a \in Bearers |-> queues[a]] /\ queues' = [queues EXCEPT ![b] = s]
        /\ s.served = queues[b].served
    BY DEF Handled, PipelineInv, Running
  <2> QED BY <2>1
<1> QED BY <1>1, BooksKept DEF Handled

\* Nor does the start of a slot.
LEMMA CommittedBooks ==
    ASSUME NEW own, PipelineInv(own), BooksInv, intervals' = intervals,
           NEW e, NEW f, Committed(own, e, f)
    PROVE  BooksInv'
<1>1. \A b \in Bearers : queues'[b].served = queues[b].served
  BY DEF Committed, Reserved
<1>2. \A g \in heap' \ heap : g.kind = "service_completion" /\ SlotStart(g.entity, g.seq) \in heap
  <2>1. /\ e \in heap /\ heap' = (heap \ {e}) \cup {f} /\ e = SlotStart(e.entity, e.seq)
        /\ f.kind = "service_completion" /\ f.entity = e.entity /\ f.seq = e.seq
    BY CommittedEvents
  <2> QED BY <2>1
<1> QED BY <1>1, <1>2, BooksKept

\* The record of a slot that ends is new, and of this slot.
LEMMA IntervalParts ==
    ASSUME NEW own, PipelineInv(own), PlansWithin, BooksInv, NEW e \in heap, NEW lost,
           ServiceHandler(e, lost)
    PROVE  /\ Booked(IntervalOf(e, lost)) /\ e.seq \in Slots
           /\ IntervalOf(e, lost).start = At(e.seq)
           /\ IntervalOf(e, lost).end = At(e.seq) + Slot
           /\ IntervalOf(e, lost).cell = e.entity
           /\ \A b \in Bearers : IntervalOf(e, lost).served[b] = ServedBits(e.work.plan, b)
           /\ \A i \in intervals : ~(i.cell = e.entity /\ i.start = At(e.seq))
<1> DEFINE n == IntervalOf(e, lost)
<1>1. /\ e.kind = "service_completion" /\ e.seq \in Slots /\ e.seq \in Nat /\ e.entity \in Cells
      /\ e.tick = At(e.seq) + Slot
  BY Parts, ServiceParts DEF ServiceHandler, Pop
<1>2. /\ n.start = At(e.seq) /\ n.end = e.tick /\ n.cell = e.entity
      /\ n.eligible = e.work.eligible /\ n.outage = e.work.eligible \cap lost
      /\ n.prbs = e.work.prbs /\ n.capacity = e.work.capacity
      /\ \A b \in Bearers : n.served[b] = ServedBits(e.work.plan, b)
  BY DEF IntervalOf, At
<1> HIDE DEF n
<1>3. Booked(n)
  <2>1. WithinCapacity(e)
    BY <1>1 DEF PlansWithin
  <2>2. \A b \in Bearers : n.served[b] \in Nat
    BY <1>1, <1>2, ServedOfReserved
  <2> QED BY <1>1, <1>2, <2>1, <2>2 DEF Booked, WithinCapacity
<1>4. ASSUME NEW i \in intervals, i.cell = e.entity, i.start = At(e.seq)
      PROVE  FALSE
  <2>1. PICK k \in Slots : OverBy(i, k)
    BY DEF BooksInv, Over
  <2>2. k = e.seq
    BY <1>1, <1>4, <2>1, SlotTimes, SlotOrder DEF OverBy
  <2> QED BY <1>1, <1>4, <2>1, <2>2 DEF OverBy
<1> QED BY <1>1, <1>2, <1>3, <1>4 DEF n

\* It carries what the queues served in the slot.
LEMMA ServiceBooks ==
    ASSUME NEW own, PipelineInv(own), PipelineInv(own)', PlansWithin, BooksInv, NEW e \in heap,
           NEW lost, ServiceHandler(e, lost)
    PROVE  BooksInv'
<1>i. PICK n : n = IntervalOf(e, lost)
  OBVIOUS
<1>1. /\ Booked(n) /\ e.seq \in Slots /\ n.start = At(e.seq) /\ n.end = At(e.seq) + Slot
      /\ n.cell = e.entity
      /\ \A b \in Bearers : n.served[b] = ServedBits(e.work.plan, b)
      /\ \A i \in intervals : ~(i.cell = e.entity /\ i.start = At(e.seq))
  BY <1>i, IntervalParts
<1>2. /\ intervals' = intervals \cup {n} /\ heap' = heap \ {e}
      /\ e.kind = "service_completion"
  <2>1. mode' # "failed"
    BY DEF PipelineInv, Running
  <2> QED BY <1>i, <2>1 DEF ServiceHandler, Abort, Done, Pop
<1>3. Served(own, e)
  BY ServiceKeeps
<1>4. n \notin intervals
  BY <1>1
<1>5. ASSUME NEW i \in intervals'
      PROVE  Booked(i)' /\ Over(i)'
  <2>1. CASE i \in intervals
    <3>1. Booked(i)'
      BY <2>1 DEF BooksInv, Booked
    <3>2. PICK k \in Slots : OverBy(i, k)
      BY <2>1 DEF BooksInv, Over
    <3> QED BY <1>2, <3>1, <3>2 DEF OverBy, Over
  <2>2. CASE i = n
    <3>1. Booked(i)'
      BY <1>1, <2>2 DEF Booked
    <3>2. /\ SlotStart(e.entity, e.seq) \notin heap
          /\ \A f \in heap : f.kind = "service_completion" /\ f.entity = e.entity => f = e
      BY <1>2 DEF PipelineInv, Services, InService
    <3>3. OverBy(i, e.seq)'
      BY <1>1, <1>2, <2>2, <3>2 DEF OverBy
    <3> QED BY <1>1, <3>1, <3>3 DEF Over
  <2> QED BY <1>2, <2>1, <2>2
<1>6. \A i, j \in intervals' : i.cell = j.cell /\ i.start = j.start => i = j
  BY <1>1, <1>2 DEF BooksInv
<1>7. IsFiniteSet(intervals')
  BY <1>2, FS_AddElement DEF BooksInv
<1>8. ASSUME NEW b \in Bearers
      PROVE  ServedOver(intervals, {b})' = queues'[b].served
  <2>1. ServedOver(intervals, {b})' = ServedOver(intervals \cup {n}, {b})
    BY <1>2 DEF ServedOver
  <2>2. \A i \in intervals \cup {n} : ServedIn(i, {b}) \in Int
    <3>1. ASSUME NEW i \in intervals \cup {n}
          PROVE  Booked(i) /\ {b} \in SUBSET Bearers
      BY <1>1 DEF BooksInv
    <3> QED BY <3>1, ServedInNat
  <2>3. /\ ServedOver(intervals \cup {n}, {b})
              = ServedOver(intervals, {b}) + ServedOver({n}, {b})
        /\ ServedOver(intervals, {b}) \in Int
    <3>1. IsFiniteSet(intervals) /\ IsFiniteSet({n}) /\ intervals \cap {n} = {}
      BY <1>4, FS_Singleton DEF BooksInv
    <3>2. PICK one, bs : one = {n} /\ bs = {b}
      OBVIOUS
    <3>3. \A i \in intervals \cup one : ServedIn(i, bs) \in Int
      BY <2>2, <3>2
    <3>4. /\ ServedOver(intervals \cup one, bs)
                = ServedOver(intervals, bs) + ServedOver(one, bs)
          /\ ServedOver(intervals, bs) \in Int
      BY <3>1, <3>2, <3>3, ServedInParts
    <3> QED BY <3>2, <3>4
  <2>4. ServedOver({n}, {b}) = ServedBits(e.work.plan, b)
    <3>1. n.served[b] \in Int /\ n.served[b] = ServedBits(e.work.plan, b)
      BY <1>1 DEF Booked
    <3> QED BY <3>1, ServedInOne
  <2>5. ServedOver(intervals, {b}) = queues[b].served
    BY DEF BooksInv
  <2>6. queues'[b].served = queues[b].served + ServedBits(e.work.plan, b)
    BY <1>3 DEF Served
  <2> QED BY <2>1, <2>3, <2>4, <2>5, <2>6
<1> QED BY <1>5, <1>6, <1>7, <1>8 DEF BooksInv

\* Every step of the static pipeline keeps the books.
LEMMA StaticBooks ==
    ASSUME PipelineInv(CellOf), PlansWithin, BooksInv, [Next]_vars
    PROVE  BooksInv'
<1>1. CASE \E e \in heap : ArrivalHandler(e) /\ UNCHANGED intervals
  BY <1>1, ArrivalKeeps, HandledBooks
<1>2. CASE \E e \in heap : DeadlineHandler(e) /\ UNCHANGED intervals
  BY <1>2, DeadlineKeeps, HandledBooks
<1>3. CASE \E e \in heap : CensorHandler(e) /\ UNCHANGED intervals
  BY <1>3, CensorKeeps, HandledBooks
<1>4. CASE \E e \in heap : e.kind = "scheduling"
             /\ \E d \in ValidDecisions(Candidates(e.entity)) : SchedulingHandler(e, d)
  <2>1. PICK e \in heap : e.kind = "scheduling"
             /\ \E d \in ValidDecisions(Candidates(e.entity)) : SchedulingHandler(e, d)
    BY <1>4
  <2>2. PICK d \in ValidDecisions(Candidates(e.entity)) : SchedulingHandler(e, d)
    BY <2>1
  <2> DEFINE capacity == [u \in Ues |-> Capacity[u][d[u]]]
  <2>3. MayCarry(CellOf, e, capacity)
    BY <2>1, <2>2, StaticCarries
  <2>4. Pop(e, "scheduling") /\ Commit(e, Candidates(e.entity), d, capacity)
    BY <2>2 DEF SchedulingHandler
  <2> HIDE DEF capacity
  <2>5. \E f : Committed(CellOf, e, f)
    BY <2>3, <2>4, CommitKeeps
  <2>6. intervals' = intervals
    BY <2>4 DEF Commit
  <2> QED BY <2>5, <2>6, CommittedBooks
<1>5. CASE \E e \in heap : ServiceHandler(e, WithoutCapacity)
  <2>1. PICK e \in heap : \E lost : ServiceHandler(e, lost)
    BY <1>5
  <2>2. PipelineInv(CellOf)'
    BY NextInv
  <2> QED BY <2>1, <2>2, ServiceBooks
<1>6. CASE (Finish /\ UNCHANGED intervals) \/ UNCHANGED vars
  BY <1>6, BooksKept DEF Finish, vars, pipeline
<1> QED BY <1>1, <1>2, <1>3, <1>4, <1>5, <1>6 DEF Next

\* What the intervals sum up to.
LEMMA Resourced ==
    ASSUME BooksInv, ServiceWithinCapacity, NEW i \in intervals
    PROVE  /\ SumOver(i.prbs, Ues) \in Nat /\ SumOver(i.prbs, Ues) <= Prbs
           /\ WastedPrbs(i) \in Nat /\ WastedPrbs(i) <= SumOver(i.prbs, Ues)
           /\ Cardinality(i.eligible) \in Nat /\ Cardinality(i.outage) \in Nat
           /\ Cardinality(i.outage) <= Cardinality(i.eligible)
           /\ ServedIn(i, Bearers) \in Nat /\ SumOver(i.capacity, Ues) \in Nat
           /\ ServedIn(i, Bearers) <= SumOver(i.capacity, Ues)
<1>1. Booked(i)
  BY DEF BooksInv
<1>2. SumOver(i.prbs, Ues) \in Nat /\ SumOver(i.prbs, Ues) <= Prbs
  <2> DEFINE f == i.prbs
  <2>1. \A u \in Ues : f[u] \in Nat /\ f[u] \in Int
    BY <1>1, SlotAssumption DEF Booked
  <2>2. Sum(f, NumUes) <= Prbs
    BY <1>1 DEF Booked
  <2> HIDE DEF f
  <2>3. SumOver(f, Ues) = Sum(f, NumUes)
    BY <2>1, Few, SumOverRange
  <2>4. SumOver(f, Ues) \in Nat
    BY <2>1, Few, SumOverInt
  <2> QED BY <2>2, <2>3, <2>4 DEF f
<1>3. WastedPrbs(i) \in Nat /\ WastedPrbs(i) <= SumOver(i.prbs, Ues)
  <2> DEFINE f == i.prbs
             us == {u \in Ues : ServedTo(i, u) = 0}
  <2>1. \A u \in Ues : f[u] \in Nat /\ f[u] \in Int
    BY <1>1, SlotAssumption DEF Booked
  <2>2. WastedPrbs(i) = SumOver(f, us)
    BY DEF WastedPrbs
  <2>3. us \in SUBSET Ues /\ IsFiniteSet(us)
    BY Few, FS_Subset
  <2> HIDE DEF f, us
  <2>4. SumOver(f, us) <= SumOver(f, Ues) /\ SumOver(f, us) \in Nat
    BY <2>1, <2>3, Few, SumOverPart, SumOverInt
  <2> QED BY <2>2, <2>4 DEF f
<1>4. /\ Cardinality(i.eligible) \in Nat /\ Cardinality(i.outage) \in Nat
      /\ Cardinality(i.outage) <= Cardinality(i.eligible)
  <2>1. i.eligible \in SUBSET Ues /\ i.outage \in SUBSET i.eligible
    BY <1>1 DEF Booked
  <2>2. IsFiniteSet(i.eligible) /\ IsFiniteSet(i.outage)
    BY <2>1, Few, FS_Subset
  <2> QED BY <2>1, <2>2, FS_Subset, FS_CardinalityType
<1>5. ServedIn(i, Bearers) \in Nat
  BY <1>1, ServedInNat
<1>6. SumOver(i.capacity, Ues) \in Nat
  <2> DEFINE f == i.capacity
  <2>1. \A u \in Ues : f[u] \in Nat /\ f[u] \in Int
    BY <1>1 DEF Booked
  <2> HIDE DEF f
  <2>2. SumOver(f, Ues) \in Nat
    BY <2>1, Few, SumOverInt
  <2> QED BY <2>2 DEF f
<1>7. ServedIn(i, Bearers) <= SumOver(i.capacity, Ues)
  <2> DEFINE f == i.served
             c == i.capacity
             g == [u \in Ues |-> Sum([b \in 1..NumBearers |->
                                        IF UeOf[b] = u THEN f[b] ELSE 0], NumBearers)]
  <2>1. \A b \in 1..NumBearers : f[b] \in Int /\ UeOf[b] \in Ues
    <3>1. \A b \in Bearers : f[b] \in Nat /\ UeOf[b] \in Ues
      BY <1>1, Configuration DEF Booked
    <3> HIDE DEF f
    <3> QED BY <3>1, Few
  <2>2. SumOver(g, Ues) = Sum(f, NumBearers)
    BY <2>1, Few, SumByUnits
  <2>3. ServedIn(i, Bearers) = Sum(f, NumBearers)
    <3> HIDE DEF f
    <3>1. SumOver(f, Bearers) = Sum(f, NumBearers)
      BY <2>1, Few, SumOverRange
    <3> QED BY <3>1 DEF ServedIn, f
  <2>4. ASSUME NEW u \in Ues
        PROVE  g[u] = ServedTo(i, u)
    <3>1. ServedTo(i, u) = Sum([b \in 1..NumBearers |->
                                  IF UeOf[b] = u THEN f[b] ELSE 0], NumBearers)
      BY Zenon DEF ServedTo, Bearers
    <3> QED BY <3>1
  <2>5. \A u \in Ues : c[u] \in Int /\ ServedTo(i, u) <= c[u] /\ ServedTo(i, u) \in Int
    <3>1. ASSUME NEW u \in Ues
          PROVE  ServedTo(i, u) \in Int
      <4> DEFINE h == [b \in 1..NumBearers |-> IF UeOf[b] = u THEN f[b] ELSE 0]
      <4>1. \A b \in 1..NumBearers : h[b] \in Int
        BY <2>1
      <4>2. ServedTo(i, u) = Sum(h, NumBearers)
        BY <2>4
      <4> HIDE DEF h
      <4> QED BY <4>1, <4>2, Few, SumInt
    <3>2. \A u \in Ues : c[u] \in Int
      BY <1>1 DEF Booked
    <3> QED BY <3>1, <3>2 DEF ServiceWithinCapacity
  <2> HIDE DEF f, c, g
  <2>6. SumOver(g, Ues) <= SumOver(c, Ues)
    BY <2>4, <2>5, Few, SumOverMonotone
  <2> QED BY <2>2, <2>3, <2>6 DEF c
<1> QED BY <1>2, <1>3, <1>4, <1>5, <1>6, <1>7

\* The books and the bound on service give the report of the service.
LEMMA ServiceReported ==
    ASSUME BooksInv, ServiceWithinCapacity
    PROVE  ServiceReport
<1> DEFINE before == {i \in intervals : i.end < MeasureStart}
           during == CompletedIn(Cells)
           after  == {i \in intervals : i.end >= MeasureEnd}
           is == StartedIn(Cells)
<1>1. /\ IsFiniteSet(intervals) /\ \A i \in intervals : Booked(i)
      /\ \A i \in intervals : i.end \in Nat /\ i.cell \in Cells
  <2>1. ASSUME NEW i \in intervals
        PROVE  i.end \in Nat
    <3>1. PICK k \in Slots : i.end = At(k) + Slot
      BY DEF BooksInv, Over, OverBy
    <3>2. At(k) \in Nat /\ Slot \in Nat
      BY SlotTimes, Configuration
    <3> QED BY <3>1, <3>2
  <2> QED BY <2>1 DEF BooksInv, Booked
<1>2. /\ MeasureStart \in Nat /\ MeasureEnd \in Nat /\ MeasureStart < MeasureEnd
  BY PipelineAssumption
<1>3. /\ intervals = (before \cup during) \cup after
      /\ before \cap during = {} /\ (before \cup during) \cap after = {}
  <2>1. ASSUME NEW i \in intervals
        PROVE  /\ i \in during <=> MeasureStart <= i.end /\ i.end < MeasureEnd
               /\ i.end \in Nat
    BY <1>1 DEF CompletedIn, InWindow
  <2>2. during \subseteq intervals
    BY DEF CompletedIn
  <2> HIDE DEF during
  <2> QED BY <1>2, <2>1, <2>2
<1>4. before \in SUBSET intervals /\ during \in SUBSET intervals /\ after \in SUBSET intervals
      /\ is \in SUBSET intervals
  BY DEF CompletedIn, StartedIn
<1>5. /\ IsFiniteSet(before) /\ IsFiniteSet(during) /\ IsFiniteSet(after) /\ IsFiniteSet(is)
      /\ IsFiniteSet(before \cup during)
  <2> HIDE DEF before, during, after, is
  <2> QED BY <1>1, <1>4, FS_Subset, FS_Union
<1>6. ASSUME NEW b \in Bearers
      PROVE  /\ ServedOver(intervals, {b}) = queues[b].served
             /\ queues[b].served = ServedOver(before, {b}) + ServedOver(during, {b})
                                   + ServedOver(after, {b})
  <2>1. PICK bs : bs = {b}
    OBVIOUS
  <2>2. \A i \in intervals : ServedIn(i, bs) \in Int
    <3>1. bs \in SUBSET Bearers
      BY <2>1
    <3>2. ASSUME NEW i \in intervals
          PROVE  ServedIn(i, bs) \in Nat
      BY <1>1, <3>1, ServedInNat
    <3> QED BY <3>2
  <2> HIDE DEF before, during, after
  <2>3. PICK both : both = before \cup during
    OBVIOUS
  <2>4. /\ ServedOver(both \cup after, bs) = ServedOver(both, bs) + ServedOver(after, bs)
        /\ ServedOver(both, bs) \in Int /\ ServedOver(after, bs) \in Int
    <3>1. IsFiniteSet(both) /\ both \cap after = {}
          /\ \A i \in both \cup after : ServedIn(i, bs) \in Int
      BY <1>3, <1>4, <1>5, <2>2, <2>3
    <3> QED BY <1>5, <3>1, ServedInParts
  <2>5. /\ ServedOver(before \cup during, bs) = ServedOver(before, bs) + ServedOver(during, bs)
        /\ ServedOver(before, bs) \in Int /\ ServedOver(during, bs) \in Int
    <3>1. before \cap during = {} /\ \A i \in before \cup during : ServedIn(i, bs) \in Int
      BY <1>3, <1>4, <2>2
    <3> QED BY <1>5, <3>1, ServedInParts
  <2>6. intervals = both \cup after
    BY <1>3, <2>3
  <2>7. ServedOver(intervals, bs) = queues[b].served
    BY <2>1 DEF BooksInv
  <2> QED BY <2>1, <2>3, <2>4, <2>5, <2>6, <2>7
<1>7. ASSUME NEW i \in is
      PROVE  /\ SumOver(i.prbs, Ues) \in Nat /\ SumOver(i.prbs, Ues) <= Prbs
             /\ WastedPrbs(i) \in Nat /\ WastedPrbs(i) <= SumOver(i.prbs, Ues)
             /\ Cardinality(i.eligible) \in Nat /\ Cardinality(i.outage) \in Nat
             /\ Cardinality(i.outage) <= Cardinality(i.eligible)
             /\ ServedIn(i, Bearers) \in Nat /\ SumOver(i.capacity, Ues) \in Nat
             /\ ServedIn(i, Bearers) <= SumOver(i.capacity, Ues)
  BY <1>4, Resourced
<1> DEFINE allocated == [i \in is |-> SumOver(i.prbs, Ues)]
           wasted    == [i \in is |-> WastedPrbs(i)]
           eligible  == [i \in is |-> Cardinality(i.eligible)]
           outage    == [i \in is |-> Cardinality(i.outage)]
           scheduled == [i \in is |-> SumOver(i.capacity, Ues)]
           served    == [i \in is |-> ServedIn(i, Bearers)]
           r == Resources(Cells)
<1>8. /\ r.allocated = SumOver(allocated, is) /\ r.wasted = SumOver(wasted, is)
      /\ r.eligible = SumOver(eligible, is) /\ r.outage = SumOver(outage, is)
      /\ r.scheduled = SumOver(scheduled, is)
      /\ r.available = Prbs * Cardinality(is)
      /\ ServedOver(is, Bearers) = SumOver(served, is)
  BY DEF Resources, ServedOver, ServedIn
<1>9. \A i \in is : /\ allocated[i] \in Int /\ allocated[i] <= Prbs
                    /\ wasted[i] \in Int /\ wasted[i] <= allocated[i]
                    /\ eligible[i] \in Int /\ outage[i] \in Int /\ outage[i] <= eligible[i]
                    /\ served[i] \in Int /\ scheduled[i] \in Int /\ served[i] <= scheduled[i]
  <2> HIDE DEF is
  <2> QED BY <1>7
<1> HIDE DEF is, allocated, wasted, eligible, outage, scheduled, served, r
<1>10. SumOver(wasted, is) <= SumOver(allocated, is)
  BY <1>5, <1>9, SumOverMonotone
<1>11. SumOver(allocated, is) <= Prbs * Cardinality(is)
  <2>1. Prbs \in Int
    BY SlotAssumption
  <2>2. SumOver(allocated, is) <= Cardinality(is) * Prbs
    BY <1>5, <1>9, <2>1, SumOverBounded
  <2>3. Cardinality(is) \in Int
    BY <1>5, FS_CardinalityType
  <2>4. Cardinality(is) * Prbs = Prbs * Cardinality(is)
    BY <2>1, <2>3
  <2> QED BY <2>2, <2>4
<1>12. SumOver(outage, is) <= SumOver(eligible, is)
  BY <1>5, <1>9, SumOverMonotone
<1>13. SumOver(served, is) <= SumOver(scheduled, is)
  BY <1>5, <1>9, SumOverMonotone
<1>14. /\ r.wasted <= r.allocated /\ r.allocated <= r.available /\ r.outage <= r.eligible
       /\ ServedOver(is, Bearers) <= r.scheduled
  BY <1>8, <1>10, <1>11, <1>12, <1>13
<1> QED BY <1>6, <1>14 DEF ServiceReport, before, during, after, is, r
-----------------------------------------------------------------------------
(* The report of the packets.                                              *)

\* A packet that completed took a slot at least, and no more than its budget.
LEMMA SystemDelays ==
    ASSUME NEW own, PipelineInv(own), PacketsInSlots, NEW p \in Packets,
           StateOf(p).cause = "completed"
    PROVE  /\ SystemDelay(p) \in Int /\ SystemDelay(p) >= Slot
           /\ StateOf(p).terminal \in Int
           /\ Budget[BearerOf[p]] # NoBudget => SystemDelay(p) <= Budget[BearerOf[p]]
<1> DEFINE b == BearerOf[p]
           q == queues[b]
<1>1. /\ q.cause[p] = "completed" /\ b \in Bearers /\ StateOf(p).terminal = q.terminal[p]
      /\ SystemDelay(p) = q.terminal[p] - arrives[p]
  BY Configuration DEF StateOf, SystemDelay
<1>2. O!QueueAssumption /\ O!Valid(q) /\ arrives[p] \in Nat
  BY <1>1, Parts
<1>3. q.arrival[p] = arrives[p]
  BY <1>1 DEF PipelineInv, Traffic, PacketPending
<1>4. PICK j \in Nat, k \in Nat :
         /\ q.first[p] = At(j) /\ q.first[p] # NoTick
         /\ q.terminal[p] = At(k) + Slot /\ q.first[p] <= At(k)
  BY <1>1 DEF PacketsInSlots, InSlots
<1>5. arrives[p] <= At(k) /\ At(k) \in Nat /\ Slot \in Nat
  <2>1. q.arrival[p] <= q.first[p]
    BY <1>1, <1>2, <1>4, FirstServices
  <2>2. At(j) \in Nat /\ At(k) \in Nat /\ Slot \in Nat
    BY SlotTimes, Configuration
  <2> QED BY <1>2, <1>3, <1>4, <2>1, <2>2
<1>6. ASSUME Budget[b] # NoBudget
      PROVE  q.terminal[p] <= arrives[p] + Budget[b] /\ Budget[b] \in Nat
  <2>1. DeadlineTick[p] = arrives[p] + Budget[b] /\ Budget[b] \in Nat
    BY <1>1, <1>6, Configuration DEF DeadlineTick, Packets
  <2>2. DeadlineTick[p] # NoTick
    BY <1>2, <2>1 DEF NoTick
  <2> QED BY <1>1, <2>1, <2>2 DEF PipelineInv, EndedInTime
<1> HIDE DEF q, b
<1> QED BY <1>1, <1>2, <1>4, <1>5, <1>6 DEF b

\* The delays of a group, sorted.
LEMMA SortedDelays ==
    ASSUME NEW own, PipelineInv(own), PacketsInSlots, NEW bs \in SUBSET Bearers
    PROVE  /\ Cardinality(Ended(bs, "completed")) \in Nat /\ IsFiniteSet(Ended(bs, "completed"))
           /\ Ended(bs, "completed") # {} => Cardinality(Ended(bs, "completed")) > 0
           /\ Ascending(DelaysOf(SystemDelay, bs), Cardinality(Ended(bs, "completed")))
           /\ \A b \in bs : bs = {b} /\ Budget[b] # NoBudget =>
                 \A i \in 1..Cardinality(Ended(bs, "completed")) :
                     DelaysOf(SystemDelay, bs)[i] <= Budget[b]
<1> DEFINE C == Ended(bs, "completed")
           n == Cardinality(C)
           v == [p \in Packets |-> SystemDelay(p)]
           s == InOrderOf(v, C)
<1>1. C \in SUBSET Packets /\ Packets \subseteq Int /\ IsFiniteSet(C)
  <2>1. C \in SUBSET Packets
    BY DEF Ended, CohortOf
  <2> HIDE DEF C
  <2>2. IsFiniteSet(C)
    BY <2>1, Few, FS_Subset
  <2>3. Packets \subseteq Int
    BY Configuration
  <2> QED BY <2>1, <2>2, <2>3
<1>2. n \in Nat /\ (C # {} => n > 0)
  <2> HIDE DEF C
  <2>1. Cardinality(C) \in Nat /\ (Cardinality(C) = 0 <=> C = {})
    BY <1>1, FS_CardinalityType, FS_EmptySet
  <2> QED BY <2>1
<1>3. \A p \in C : /\ v[p] = SystemDelay(p) /\ SystemDelay(p) \in Int
                   /\ Budget[BearerOf[p]] # NoBudget => v[p] <= Budget[BearerOf[p]]
                   /\ BearerOf[p] \in bs
  <2>1. \A p \in C : p \in Packets /\ StateOf(p).cause = "completed" /\ BearerOf[p] \in bs
    BY DEF Ended, CohortOf
  <2> HIDE DEF C
  <2> QED BY <2>1, SystemDelays
<1>4. DelaysOf(SystemDelay, bs) = [i \in DOMAIN s |-> SystemDelay(s[i])]
  BY DEF DelaysOf
<1> HIDE DEF C, v
<1>5. /\ DOMAIN s = 1..n
      /\ \A i \in 1..n : s[i] \in C
      /\ \A i, j \in 1..n : i <= j => v[s[i]] <= v[s[j]]
  BY <1>1, <1>3, Sorted
<1> DEFINE values == DelaysOf(SystemDelay, bs)
<1>6. values = [i \in 1..n |-> v[s[i]]]
  <2>1. \A i \in 1..n : SystemDelay(s[i]) = v[s[i]]
    BY <1>3, <1>5
  <2> HIDE DEF s, n, values
  <2> QED BY <1>4, <1>5, <2>1 DEF values
<1> HIDE DEF s, n, values
<1>7. Len(values) = n /\ \A i \in 1..n : values[i] = v[s[i]] /\ values[i] \in Int
  <2>1. \A i \in 1..n : v[s[i]] \in Int
    BY <1>3, <1>5
  <2>2. values \in [1..n -> Int]
    BY <1>6, <2>1
  <2>3. Len(values) = n
    BY <1>2, <2>2
  <2> QED BY <1>6, <2>1, <2>3
<1>8. Ascending(values, n)
  BY <1>5, <1>7 DEF Ascending
<1>9. ASSUME NEW b \in bs, bs = {b}, Budget[b] # NoBudget, NEW i \in 1..n
      PROVE  values[i] <= Budget[b]
  BY <1>3, <1>5, <1>7, <1>9
<1> QED BY <1>1, <1>2, <1>8, <1>9 DEF C, n, values

\* Delays that follow each other differ by no more than the budget less a slot.
LEMMA JitterBounded ==
    ASSUME NEW own, PipelineInv(own), PacketsInSlots, NEW b \in Bearers, Budget[b] # NoBudget,
           Ended({b}, "completed") # {}
    PROVE  JitterSum(b) <= (Cardinality(Ended({b}, "completed")) - 1) * (Budget[b] - Slot)
<1> DEFINE C == Ended({b}, "completed")
           n == Cardinality(C)
           v == [p \in Packets |-> StateOf(p).terminal]
           s == InOrderOf(v, C)
           d(i) == SystemDelay(s[i]) - SystemDelay(s[i - 1])
           f == [i \in 2..Len(s) |-> IF d(i) < 0 THEN -d(i) ELSE d(i)]
           limit == Budget[b] - Slot
<1>1. /\ C \in SUBSET Packets /\ Packets \subseteq Int /\ IsFiniteSet(C)
      /\ \A p \in C : StateOf(p).cause = "completed" /\ BearerOf[p] = b
  <2>1. C \in SUBSET Packets /\ \A p \in C : StateOf(p).cause = "completed" /\ BearerOf[p] = b
    BY DEF Ended, CohortOf
  <2> HIDE DEF C
  <2>2. IsFiniteSet(C)
    BY <2>1, Few, FS_Subset
  <2>3. Packets \subseteq Int
    BY Configuration
  <2> QED BY <2>1, <2>2, <2>3
<1>2. n \in Nat /\ n > 0
  <2>1. C # {}
    OBVIOUS
  <2> HIDE DEF C
  <2>2. Cardinality(C) \in Nat /\ (Cardinality(C) = 0 <=> C = {})
    BY <1>1, FS_CardinalityType, FS_EmptySet
  <2> QED BY <2>1, <2>2
<1>3. JitterSum(b) = SumOver(f, 2..Len(s))
  BY DEF JitterSum
<1> HIDE DEF C
<1>4. \A p \in C : /\ v[p] \in Int /\ SystemDelay(p) \in Int
                   /\ Slot <= SystemDelay(p) /\ SystemDelay(p) <= Budget[b]
  <2>1. ASSUME NEW p \in C
        PROVE  /\ StateOf(p).terminal \in Int /\ SystemDelay(p) \in Int
               /\ Slot <= SystemDelay(p) /\ SystemDelay(p) <= Budget[b]
    <3>1. p \in Packets /\ StateOf(p).cause = "completed" /\ BearerOf[p] = b
      BY <1>1
    <3>2. SystemDelay(p) \in Int /\ SystemDelay(p) >= Slot /\ StateOf(p).terminal \in Int
          /\ SystemDelay(p) <= Budget[b]
      BY <3>1, SystemDelays
    <3> QED BY <3>2, Configuration
  <2> QED BY <1>1, <2>1
<1> HIDE DEF v
<1>5. s = InOrderOf(v, C) /\ DOMAIN s = 1..n /\ \A i \in 1..n : s[i] \in C
  BY <1>1, <1>4, Sorted
<1>6. Len(s) = n
  <2>1. s = [i \in 1..n |-> s[i]]
    BY DEF InOrderOf
  <2> HIDE DEF s, n
  <2>2. s \in [1..n -> C]
    BY <1>5, <2>1
  <2> QED BY <1>2, <2>2
<1> HIDE DEF s, n
<1>7. ASSUME NEW i \in 2..n
      PROVE  f[i] \in Int /\ f[i] <= limit
  <2>1. i \in 1..n /\ i - 1 \in 1..n
    BY <1>2
  <2>2. s[i] \in C /\ s[i - 1] \in C
    BY <1>5, <2>1
  <2>3. /\ SystemDelay(s[i]) \in Int /\ SystemDelay(s[i - 1]) \in Int
        /\ Slot <= SystemDelay(s[i]) /\ SystemDelay(s[i]) <= Budget[b]
        /\ Slot <= SystemDelay(s[i - 1]) /\ SystemDelay(s[i - 1]) <= Budget[b]
    BY <1>4, <2>2
  <2>4. d(i) \in Int /\ d(i) <= limit /\ -d(i) <= limit
    BY <2>3, Configuration
  <2>5. f[i] = IF d(i) < 0 THEN -d(i) ELSE d(i)
    BY <1>6
  <2> HIDE DEF d, f, limit
  <2> QED BY <2>4, <2>5
<1>8. limit \in Int
  BY Configuration
<1> HIDE DEF f, limit
<1>9. SumOver(f, 2..n) <= (n - 1) * limit
  <2>1. IsFiniteSet(2..n) /\ Cardinality(2..n) = n - 1
    <3>1. 2 \in Int /\ n \in Int
      BY <1>2
    <3>2. IsFiniteSet(2..n) /\ Cardinality(2..n) = IF 2 > n THEN 0 ELSE n - 2 + 1
      BY <3>1, FS_Interval
    <3> QED BY <1>2, <3>2
  <2>2. SumOver(f, 2..n) <= Cardinality(2..n) * limit
    BY <1>7, <1>8, <2>1, SumOverBounded
  <2> QED BY <2>1, <2>2
<1> QED BY <1>3, <1>6, <1>9 DEF n, C, limit

\* Jain's index is at most one.
LEMMA JainBounded ==
    ASSUME NEW us \in SUBSET Ues
    PROVE  Jain(us)[1] <= Jain(us)[2]
<1> DEFINE rate == [u \in Ues |-> GoodputBits(BearersOfUes({u}))]
           A == ActiveUes(us)
           q == [u \in Ues |-> rate[u] * rate[u]]
<1>1. A \in SUBSET Ues
  BY DEF ActiveUes
<1>2. ASSUME NEW u \in Ues
      PROVE  rate[u] \in Nat
  <2>1. PICK C : C = Ended(BearersOfUes({u}), "completed")
    OBVIOUS
  <2>2. C \in SUBSET Packets
    BY <2>1 DEF Ended, CohortOf
  <2>3. IsFiniteSet(C)
    BY <2>2, Few, FS_Subset
  <2>4. \A p \in C : Payload[p] \in Nat /\ Payload[p] \in Int
    BY <2>2, Configuration
  <2>5. SumOver(Payload, C) \in Nat
    BY <2>3, <2>4, SumOverInt
  <2>6. rate[u] = SumOver(Payload, C)
    BY <2>1 DEF GoodputBits
  <2> QED BY <2>5, <2>6
<1>3. \A u \in Ues : q[u] = rate[u] * rate[u]
  OBVIOUS
<1>4. /\ Jain(us)[1] = SumOver(rate, A) * SumOver(rate, A)
      /\ Jain(us)[2] = Cardinality(A) * SumOver(q, A)
  BY DEF Jain
<1> HIDE DEF A, rate, q
<1>5. IsFiniteSet(A)
  BY <1>1, Few, FS_Subset
<1>6. SumOver(rate, A) * SumOver(rate, A) <= Cardinality(A) * SumOver(q, A)
  <2>1. \A u \in A : rate[u] \in Nat /\ q[u] = rate[u] * rate[u]
    BY <1>1, <1>2, <1>3
  <2> QED BY <1>5, <2>1, SquareOfSum
<1> QED BY <1>4, <1>6

\* The report of the packets of a run that has returned.
LEMMA PacketReported ==
    ASSUME NEW own, PipelineInv(own), PacketsInSlots, mode = "done", NEW serving
    PROVE  PacketReport(serving)
<1>1. Groups(serving) \subseteq SUBSET Bearers
  BY DEF Groups, BearersOfUes
<1>2. ASSUME NEW bs \in SUBSET Bearers
      PROVE  OutcomesAccounted(bs) /\ DelaysInSlots(bs)
  BY OutcomesInv, DelaysInv
<1>3. ASSUME NEW bs \in SUBSET Bearers, Ended(bs, "completed") # {}
      PROVE  LET all == Percentiles(SystemDelay, bs)
             IN  /\ all.median <= all.p95 /\ all.p95 <= all.p99
                 /\ \A b \in bs : bs = {b} /\ Budget[b] # NoBudget =>
                       /\ all.p99 <= 100 * Budget[b]
                       /\ JitterSum(b) <=
                             (Cardinality(Ended(bs, "completed")) - 1) * (Budget[b] - Slot)
  <2> DEFINE all == Percentiles(SystemDelay, bs)
  <2>1. PICK values, n :
           values = DelaysOf(SystemDelay, bs) /\ n = Cardinality(Ended(bs, "completed"))
    OBVIOUS
  <2>2. /\ n \in Nat /\ n > 0 /\ Ascending(values, n)
        /\ \A b \in bs : bs = {b} /\ Budget[b] # NoBudget =>
              \A i \in 1..n : values[i] <= Budget[b]
    BY <1>3, <2>1, SortedDelays
  <2>3. /\ all.median = Percentile(values, 50) /\ all.p95 = Percentile(values, 95)
        /\ all.p99 = Percentile(values, 99)
    BY <2>1 DEF Percentiles
  <2>4. /\ Percentile(values, 50) <= Percentile(values, 95)
        /\ Percentile(values, 95) <= Percentile(values, 99)
    <3>1. 50 \in 0..100 /\ 95 \in 0..100 /\ 99 \in 0..100 /\ 50 <= 95 /\ 95 <= 99
      OBVIOUS
    <3> QED BY <2>2, <3>1, PercentileGrows
  <2>5. ASSUME NEW b \in bs, bs = {b}, Budget[b] # NoBudget
        PROVE  /\ Percentile(values, 99) <= 100 * Budget[b]
               /\ JitterSum(b) <= (n - 1) * (Budget[b] - Slot)
    <3>1. Percentile(values, 99) \in Int /\ Percentile(values, 99) <= 100 * values[n]
      <4>1. 99 \in 0..100 /\ n \in 1..n
        BY <2>2
      <4>2. (n - 1) * 99 <= 100 * (n - 1)
        BY <2>2
      <4> QED BY <2>2, <4>1, <4>2, PercentileBounds
    <3>2. values[n] \in Int /\ values[n] <= Budget[b] /\ Budget[b] \in Nat
      <4>1. n \in 1..n
        BY <2>2
      <4> QED BY <2>2, <2>5, <4>1, Configuration DEF Ascending
    <3>3. JitterSum(b) <= (n - 1) * (Budget[b] - Slot)
      <4>1. b \in Bearers /\ Ended({b}, "completed") # {}
        BY <1>3, <2>5
      <4>2. n = Cardinality(Ended({b}, "completed"))
        BY <2>1, <2>5, Zenon
      <4> QED BY <2>5, <4>1, <4>2, JitterBounded
    <3> QED BY <3>1, <3>2, <3>3
  <2> HIDE DEF all
  <2> QED BY <2>1, <2>3, <2>4, <2>5 DEF all
<1>4. ASSUME NEW bs \in SUBSET Bearers
      PROVE  LET j == Jain({UeOf[b] : b \in bs}) IN j[1] <= j[2]
  <2>1. PICK us : us = {UeOf[b] : b \in bs}
    OBVIOUS
  <2>2. us \in SUBSET Ues
    BY <2>1, Configuration
  <2> QED BY <2>1, <2>2, JainBounded
<1> QED BY <1>1, <1>2, <1>3, <1>4 DEF PacketReport

\* Every step of the dynamic pipeline keeps the books.
LEMMA DynamicBooks ==
    ASSUME DynamicInv, PlansWithin, BooksInv, [DynamicNext]_dynamicVars
    PROVE  BooksInv'
<1>1. PICK own : own = Serving /\ PipelineInv(own)
  BY DEF DynamicInv
<1>2. CASE \E e \in heap : TopologyHandler(e) \/ AssociationHandler(e)
  <2>1. PICK e \in heap : TopologyHandler(e) \/ AssociationHandler(e)
    BY <1>2
  <2>2. Idle(e) /\ intervals' = intervals
    BY <1>1, <2>1, RadioIdle DEF TopologyHandler, AssociationHandler
  <2>3. heap' \subseteq heap /\ queues' = queues
    BY <2>2 DEF Idle
  <2> QED BY <2>2, <2>3, BooksKept
<1>3. CASE \E e \in heap : e.kind = "scheduling"
             /\ \E d \in ValidDecisions(ReachableCandidates(e.entity, e.tick)) :
                    DynamicScheduling(e, d)
  <2>1. PICK e \in heap : e.kind = "scheduling"
             /\ \E d \in ValidDecisions(ReachableCandidates(e.entity, e.tick)) :
                    DynamicScheduling(e, d)
    BY <1>3
  <2>2. PICK d \in ValidDecisions(ReachableCandidates(e.entity, e.tick)) :
                    DynamicScheduling(e, d)
    BY <2>1
  <2> DEFINE capacity == [u \in Ues |-> PlannedBits(u, e.entity, d[u])]
  <2>3. MayCarry(own, e, capacity)
    BY <1>1, <2>2, DynamicCarries
  <2>4. /\ Pop(e, "scheduling")
        /\ Commit(e, ReachableCandidates(e.entity, e.tick), d, capacity)
    BY <2>2 DEF DynamicScheduling
  <2> HIDE DEF capacity
  <2>5. PICK f : Committed(own, e, f)
    BY <1>1, <2>3, <2>4, CommitKeeps
  <2>6. intervals' = intervals
    BY <2>4 DEF Commit
  <2> QED BY <1>1, <2>5, <2>6, CommittedBooks
<1>4. CASE \E e \in heap : ServiceHandler(e, WithoutEstimate)
                           /\ UNCHANGED <<radio, previous, current>>
  <2>1. PICK e \in heap : ServiceHandler(e, WithoutEstimate)
                          /\ UNCHANGED <<radio, previous, current>>
    BY <1>4
  <2> DEFINE lost == WithoutEstimate
  <2>2. ServiceHandler(e, lost)
    BY <2>1
  <2> HIDE DEF lost
  <2>3. PipelineInv(own)'
    <3>1. Served(own, e)
      BY <1>1, <2>2, ServiceKeeps
    <3> QED BY <1>1, <3>1, ServedInv
  <2> QED BY <1>1, <2>2, <2>3, ServiceBooks
<1>5. CASE \E e \in heap : (ArrivalHandler(e) \/ DeadlineHandler(e) \/ CensorHandler(e))
                           /\ UNCHANGED <<intervals, radio, previous, current>>
  BY <1>1, <1>5, ArrivalKeeps, DeadlineKeeps, CensorKeeps, HandledBooks
<1>6. CASE \/ Finish /\ UNCHANGED <<intervals, radio, previous, current>>
           \/ UNCHANGED dynamicVars
  BY <1>6, BooksKept DEF Finish, dynamicVars, pipeline
<1> QED BY <1>2, <1>3, <1>4, <1>5, <1>6 DEF DynamicNext

\* The report of a run that returned is true to the run (Reported): every
\* packet of its cohort has one outcome, every delay is queueing and then
\* whole slots of service, percentiles are ordered and within the deadline
\* budgets, successive delays differ by no more than a budget leaves room
\* for, Jain's index is at most one, and the intervals carry the bits that the
\* queues served, within what was allocated.
THEOREM PipelineReportHolds == Spec => []Reported
<1> DEFINE Inv == PacketsInSlots /\ PlansWithin /\ ServiceWithinCapacity /\ BooksInv
<1>1. Init => Inv
  BY StartInSlots, PlansStart, BooksStart DEF Init
<1>2. PipelineInv(CellOf) /\ Inv /\ [Next]_vars => Inv'
  BY StaticInSlots, StaticCapped, StaticBooks
<1>3. PipelineInv(CellOf) /\ Inv => Reported
  <2> SUFFICES ASSUME PipelineInv(CellOf), Inv, mode = "done"
               PROVE  PacketReport(CellOf) /\ ServiceReport
    BY DEF Reported
  <2> QED BY PacketReported, ServiceReported
<1> QED BY <1>1, <1>2, <1>3, PipelineInvariant, PTL DEF Spec
-----------------------------------------------------------------------------
(* The transitions against the frames.                                     *)

\* There is a frame for each association so far.
LEMMA FrameCount ==
    ASSUME RadioInv
    PROVE  \E n \in Nat : n = Len(frames)
<1>1. Len(frames) \in Nat
  BY DEF RadioInv, FramesInOrder
<1> QED BY <1>1

\* A transition of UE u in the slot of frame i.
Transition(u, i, kind) == [tick |-> At(i - 1), ue |-> u, kind |-> kind]
InRun(u, kind) == {x \in transitions : x.ue = u /\ x.kind = kind}

\* UE u in frame i and in the frame before.
Changed(u, i) == i > 1 /\ frames[i].ues[u].serving # frames[i - 1].ues[u].serving
WasOut(u, i)  == i > 1 /\ frames[i - 1].ues[u].outage

Kinds == {"a3_entered", "a3_cancelled", "handover_executed", "ping_pong",
          "outage_entered", "outage_recovered"}

\* The state machines of the UEs, before the first frame and with a last one.
Machines ==
    /\ handover \in [Ues -> HandoverStates(Cells)]
    /\ availability \in [Ues -> AvailabilityStates]
    /\ links = [u \in Ues |-> [c \in Cells |-> links[u][c]]]
    /\ \A u \in Ues : Len(frames) = 0 =>
          /\ handover[u].serving = NoCell /\ ~availability[u].outage
          /\ handover[u].count = 0 /\ handover[u].pingPong = 0
    /\ \A u \in Ues : Len(frames) > 0 =>
          /\ handover[u].serving \in Cells
          /\ frames[Len(frames)].ues[u].serving = handover[u].serving
          /\ frames[Len(frames)].ues[u].outage = availability[u].outage

\* The transitions recorded with a frame are its changes from the one before.
Logged(u, i) ==
    LET f == frames[i].ues[u] IN
    /\ f.outage \in BOOLEAN /\ (f.available <=> ~f.outage /\ ~f.interrupted)
    /\ Transition(u, i, "handover_executed") \in transitions <=> Changed(u, i)
    /\ Transition(u, i, "outage_entered") \in transitions <=> f.outage /\ ~WasOut(u, i)
    /\ Transition(u, i, "outage_recovered") \in transitions <=> ~f.outage /\ WasOut(u, i)

\* The state machines have counted them.
Counted(u) ==
    /\ \A k \in Kinds : IsFiniteSet(InRun(u, k))
    /\ Cardinality(InRun(u, "handover_executed")) = handover[u].count
    /\ Cardinality(InRun(u, "ping_pong")) = handover[u].pingPong

TransitionsInv ==
    /\ Machines
    /\ \A x \in transitions : \E u \in Ues, i \in 1..Len(frames), k \in Kinds :
          x = Transition(u, i, k)
    /\ \A u \in Ues : Counted(u) /\ \A i \in 1..Len(frames) : Logged(u, i)

\* There is a strongest among any cells, the first of those with equal levels.
LEMMA StrongestIn ==
    ASSUME NEW m, \A c \in Cells : m[c] \in Int, NEW cells \in SUBSET Cells, cells # {}
    PROVE  Strongest(m, cells) \in cells
<1> DEFINE v == [c \in Cells |-> -m[c]]
           b == InOrderOf(v, cells)[1]
<1>1. IsFiniteSet(cells) /\ Cells \subseteq Int
  <2>1. NumCells \in Int /\ 1 \in Int /\ Cells = 1..NumCells
    BY PipelineAssumption DEF Cells
  <2>2. IsFiniteSet(Cells) /\ Cells \subseteq Int
    BY <2>1, FS_Interval
  <2> QED BY <2>2, FS_Subset
<1>2. \A c \in Cells : v[c] = -m[c] /\ v[c] \in Int
  OBVIOUS
<1> HIDE DEF v
<1>3. b \in cells /\ Preceding(b, v, cells) = {}
  <2>1. cells \subseteq Int /\ \A c \in cells : v[c] \in Int
    BY <1>1, <1>2
  <2> QED BY <1>1, <2>1, SortedFrom
<1> HIDE DEF b
<1>4. ASSUME NEW d \in cells \ {b}
      PROVE  m[b] > m[d] \/ (m[b] = m[d] /\ b < d)
  <2>1. ~(v[d] < v[b]) /\ ~(v[d] = v[b] /\ d < b)
    BY <1>3, <1>4 DEF Preceding
  <2>2. /\ v[b] = -m[b] /\ v[d] = -m[d] /\ m[b] \in Int /\ m[d] \in Int
        /\ b \in Int /\ d \in Int /\ b # d
    BY <1>1, <1>2, <1>3, <1>4
  <2> QED BY <2>1, <2>2
<1> QED BY <1>3, <1>4 DEF Strongest

\* A step of the handover machine, and what it records.
LEMMA HandoverStep ==
    ASSUME NEW h \in HandoverStates(Cells), h.serving \in Cells, NEW t \in Nat,
           NEW m, DOMAIN m = Cells, \A c \in Cells : m[c] \in Int
    PROVE  /\ NextHandover(h, t, m) \in HandoverStates(Cells)
           /\ NextHandover(h, t, m).serving \in Cells
           /\ HandoverKinds(h, t, m) \subseteq Kinds \ {"outage_entered", "outage_recovered"}
           /\ "handover_executed" \in HandoverKinds(h, t, m)
                 <=> NextHandover(h, t, m).serving # h.serving
           /\ NextHandover(h, t, m).count
                 = IF "handover_executed" \in HandoverKinds(h, t, m) THEN h.count + 1 ELSE h.count
           /\ NextHandover(h, t, m).pingPong
                 = IF "ping_pong" \in HandoverKinds(h, t, m) THEN h.pingPong + 1 ELSE h.pingPong
<1> DEFINE b == Best(h, m)
           g == NextHandover(h, t, m)
           kinds == HandoverKinds(h, t, m)
<1>1. /\ h = [serving |-> h.serving, pending |-> h.pending, since |-> h.since,
              previous |-> h.previous, last |-> h.last, until |-> h.until,
              count |-> h.count, pingPong |-> h.pingPong]
      /\ h.pending \in Cells \cup {NoCell} /\ h.since \in Nat \cup {Never}
      /\ h.previous \in Cells \cup {NoCell} /\ h.last \in Nat \cup {Never}
      /\ h.until \in Nat /\ h.count \in Nat /\ h.pingPong \in Nat
  BY DEF HandoverStates
<1>2. CASE Neighbours(h, m) = {}
  BY <1>1, <1>2 DEF NextHandover, HandoverKinds
<1>3. CASE Neighbours(h, m) # {}
  <2>1. b \in Cells /\ b # h.serving
    <3>1. Neighbours(h, m) \in SUBSET Cells /\ Neighbours(h, m) = Cells \ {h.serving}
      BY DEF Neighbours
    <3>2. b \in Neighbours(h, m)
      BY <1>3, <3>1, StrongestIn DEF Best
    <3> QED BY <3>1, <3>2
  <2>2. Interruption \in Nat
    BY TimersAssumption
  <2> HIDE DEF b
  <2>3. CASE Triggered(h, t, m)
    <3>1. g = HandedOver(h, t, b)
      BY <1>3, <2>3 DEF NextHandover, b
    <3>2. kinds = {"handover_executed"} \cup {k \in {"ping_pong"} : Returns(h, t, b)}
      BY <1>3, <2>3 DEF HandoverKinds, b
    <3>3. "ping_pong" \in kinds <=> Returns(h, t, b)
      BY <3>2
    <3>4. "handover_executed" \in kinds /\ kinds \subseteq Kinds \ {"outage_entered", "outage_recovered"}
      BY <3>2 DEF Kinds
    <3> HIDE DEF g, kinds
    <3>5. /\ g.serving = b /\ g.count = h.count + 1
          /\ g.pingPong = IF Returns(h, t, b) THEN h.pingPong + 1 ELSE h.pingPong
      BY <3>1 DEF HandedOver
    <3>6. g \in HandoverStates(Cells)
      <4>1. /\ t + Interruption \in Nat /\ h.count + 1 \in Nat
            /\ (IF Returns(h, t, b) THEN h.pingPong + 1 ELSE h.pingPong) \in Nat
        BY <1>1, <2>2
      <4> QED BY <2>1, <3>1, <4>1 DEF HandedOver, HandoverStates
    <3> QED BY <2>1, <3>3, <3>4, <3>5, <3>6 DEF g, kinds
  <2>4. CASE ~Triggered(h, t, m)
    <3>1. /\ "handover_executed" \notin kinds /\ "ping_pong" \notin kinds
          /\ kinds \subseteq Kinds \ {"outage_entered", "outage_recovered"}
      BY <1>3, <2>4 DEF HandoverKinds, Kinds
    <3>2. g = Waiting(h, t, b) \/ g = Cancelled(h) \/ g = h
      BY <1>3, <2>4 DEF NextHandover, b
    <3>3. PendingSince(h, t, b) \in Nat \cup {Never}
      BY <1>1 DEF PendingSince
    <3> HIDE DEF g, kinds
    <3>4. /\ g \in HandoverStates(Cells) /\ g.serving = h.serving
          /\ g.count = h.count /\ g.pingPong = h.pingPong
      BY <1>1, <2>1, <3>2, <3>3 DEF Waiting, Cancelled, HandoverStates
    <3> QED BY <3>1, <3>4 DEF g, kinds
  <2> QED BY <2>3, <2>4
<1> QED BY <1>2, <1>3

\* A step of the availability machine, and what it records.
LEMMA AvailabilityStep ==
    ASSUME NEW a \in AvailabilityStates, NEW t \in Nat, NEW low \in BOOLEAN, NEW high \in BOOLEAN
    PROVE  /\ NextAvailability(a, t, low, high) \in AvailabilityStates
           /\ AvailabilityKinds(a, t, low, high) \subseteq {"outage_entered", "outage_recovered"}
           /\ "outage_entered" \in AvailabilityKinds(a, t, low, high)
                 <=> ~a.outage /\ NextAvailability(a, t, low, high).outage
           /\ "outage_recovered" \in AvailabilityKinds(a, t, low, high)
                 <=> a.outage /\ ~NextAvailability(a, t, low, high).outage
<1> DEFINE g == NextAvailability(a, t, low, high)
           kinds == AvailabilityKinds(a, t, low, high)
<1>1. /\ a = [outage |-> a.outage, outageSince |-> a.outageSince, recoverySince |-> a.recoverySince]
      /\ a.outage \in BOOLEAN /\ a.outageSince \in Nat \cup {Never}
      /\ a.recoverySince \in Nat \cup {Never}
  BY DEF AvailabilityStates
<1>2. OutageTimer(a, t, low) \in Nat \cup {Never} /\ RecoveryTimer(a, t, high) \in Nat \cup {Never}
  BY <1>1 DEF OutageTimer, RecoveryTimer, Since
<1>3. CASE EntersOutage(a, t, low)
  <2>1. g = Settled(TRUE) /\ kinds = {"outage_entered"} /\ ~a.outage
    BY <1>3 DEF NextAvailability, AvailabilityKinds, EntersOutage
  <2> QED BY <2>1 DEF Settled, AvailabilityStates
<1>4. CASE ~EntersOutage(a, t, low) /\ LeavesOutage(a, t, high)
  <2>1. g = Settled(FALSE) /\ kinds = {"outage_recovered"} /\ a.outage
    BY <1>4 DEF NextAvailability, AvailabilityKinds, LeavesOutage
  <2> QED BY <2>1 DEF Settled, AvailabilityStates
<1>5. CASE ~EntersOutage(a, t, low) /\ ~LeavesOutage(a, t, high)
  <2>1. /\ kinds = {}
        /\ g = IF a.outage THEN [a EXCEPT !.recoverySince = RecoveryTimer(a, t, high)]
               ELSE [a EXCEPT !.outageSince = OutageTimer(a, t, low)]
    BY <1>5 DEF NextAvailability, AvailabilityKinds
  <2> HIDE DEF g, kinds
  <2>2. g \in AvailabilityStates /\ g.outage = a.outage
    BY <1>1, <1>2, <2>1 DEF AvailabilityStates
  <2> QED BY <2>1, <2>2 DEF g, kinds
<1> QED BY <1>3, <1>4, <1>5

\* Before the first slot there is nothing to record.
LEMMA TransitionsInit ==
    ASSUME DynamicInit
    PROVE  TransitionsInv
<1>1. /\ frames = <<>> /\ transitions = {} /\ Len(frames) = 0
      /\ handover = [u \in Ues |-> ServedBy(NoCell)]
      /\ availability = [u \in Ues |-> Settled(FALSE)]
      /\ links = [u \in Ues |-> [c \in Cells |-> 0]]
  BY DEF DynamicInit
<1>2. ServedBy(NoCell) \in HandoverStates(Cells) /\ Settled(FALSE) \in AvailabilityStates
  BY DEF ServedBy, HandoverStates, Settled, AvailabilityStates
<1>3. \A u \in Ues, k \in Kinds : InRun(u, k) = {}
  BY <1>1 DEF InRun
<1>4. \A u \in Ues : InRun(u, "handover_executed") = {} /\ InRun(u, "ping_pong") = {}
  BY <1>3 DEF Kinds
<1>5. \A u \in Ues : /\ Cardinality(InRun(u, "handover_executed")) = 0
                     /\ Cardinality(InRun(u, "ping_pong")) = 0
  BY <1>4, FS_EmptySet
<1>6. \A u \in Ues, k \in Kinds : IsFiniteSet(InRun(u, k))
  BY <1>3, FS_EmptySet
<1>7. \A u \in Ues : /\ handover[u].serving = NoCell /\ ~availability[u].outage
                     /\ handover[u].count = 0 /\ handover[u].pingPong = 0
  BY <1>1 DEF ServedBy, Settled
<1>8. Machines
  <2>1. links = [u \in Ues |-> [c \in Cells |-> links[u][c]]]
    BY <1>1
  <2>2. /\ handover \in [Ues -> HandoverStates(Cells)]
        /\ availability \in [Ues -> AvailabilityStates]
    BY <1>1, <1>2
  <2>3. ~(Len(frames) > 0)
    BY <1>1
  <2> QED BY <1>7, <2>1, <2>2, <2>3 DEF Machines
<1>9. \A u \in Ues : Counted(u)
  BY <1>5, <1>6, <1>7 DEF Counted
<1> QED BY <1>1, <1>8, <1>9 DEF TransitionsInv

\* Only associations record transitions and frames.
LEMMA TransitionsStay ==
    ASSUME TransitionsInv,
           UNCHANGED <<handover, availability, frames, transitions>>,
           links' = [u \in Ues |-> [c \in Cells |-> links'[u][c]]]
    PROVE  TransitionsInv'
<1>1. /\ handover' = handover /\ availability' = availability
      /\ frames' = frames /\ transitions' = transitions
  OBVIOUS
<1>2. Machines'
  BY <1>1 DEF TransitionsInv, Machines
<1>3. ASSUME NEW u \in Ues
      PROVE  Counted(u)' /\ \A i \in 1..Len(frames) : Logged(u, i)'
  <2>1. /\ \A k : InRun(u, k)' = InRun(u, k)
        /\ \A i \in 1..Len(frames) : Logged(u, i)' = Logged(u, i)
    BY <1>1 DEF InRun, Logged, Changed, WasOut
  <2> QED BY <1>1, <2>1 DEF TransitionsInv, Counted
<1> QED BY <1>1, <1>2, <1>3 DEF TransitionsInv

\* What an association does to the machines of a UE, and what it records.
LEMMA AssociationStep ==
    ASSUME TransitionsInv, EstimateInv, RadioInv, NEW e, e.tick = At(Len(frames)),
           AssociationHandler(e), NEW u \in Ues
    PROVE  \E kinds \in SUBSET Kinds :
              /\ \A k : Transition(u, Len(frames) + 1, k) \in transitions' <=> k \in kinds
              /\ handover'[u] \in HandoverStates(Cells) /\ handover'[u].serving \in Cells
              /\ availability'[u] \in AvailabilityStates
              /\ "handover_executed" \in kinds
                    <=> Len(frames) > 0 /\ handover'[u].serving # handover[u].serving
              /\ handover'[u].count = IF "handover_executed" \in kinds
                                      THEN handover[u].count + 1 ELSE handover[u].count
              /\ handover'[u].pingPong = IF "ping_pong" \in kinds
                                         THEN handover[u].pingPong + 1 ELSE handover[u].pingPong
              /\ "outage_entered" \in kinds <=> ~availability[u].outage /\ availability'[u].outage
              /\ "outage_recovered" \in kinds <=> availability[u].outage /\ ~availability'[u].outage
<1> DEFINE n == Len(frames)
           t == e.tick
           sinr == [v \in Ues |-> FullSinr(v, handover'[v].serving)]
           h == handover[u]
           a == availability[u]
           moves == IF h.serving = NoCell THEN {} ELSE HandoverKinds(h, t, links[u])
           turns == AvailabilityKinds(a, t, IsLow(sinr[u]), IsHigh(sinr[u]))
<1>1. n \in Nat /\ t \in Nat /\ t = At(n)
  BY SlotTimes DEF RadioInv, FramesInOrder
<1>2. /\ handover' = [v \in Ues |-> Associated(v, t)]
      /\ availability' = [v \in Ues |->
             NextAvailability(availability[v], t, IsLow(sinr[v]), IsHigh(sinr[v]))]
      /\ transitions' = transitions \cup UNION {TransitionsAt(v, t, sinr[v]) : v \in Ues}
  BY DEF AssociationHandler
<1>3. /\ h \in HandoverStates(Cells) /\ a \in AvailabilityStates
      /\ n > 0 => h.serving \in Cells
      /\ n = 0 => h.serving = NoCell
  <2>1. n \in 1..Len(frames) \/ n = 0
    BY <1>1
  <2> QED BY <2>1 DEF TransitionsInv, Machines
<1>4. NoCell \notin Cells
  BY DEF Cells, NoCell
<1>5. DOMAIN links[u] = Cells /\ \A c \in Cells : links[u][c] \in Int
  <2>1. links[u] = [c \in Cells |-> links[u][c]]
    BY DEF TransitionsInv, Machines
  <2> QED BY <2>1 DEF EstimateInv
<1>6. /\ handover'[u] = Associated(u, t)
      /\ availability'[u] = NextAvailability(a, t, IsLow(sinr[u]), IsHigh(sinr[u]))
  BY <1>2
<1>7. \A k : Transition(u, n + 1, k) \in transitions' <=> k \in moves \cup turns
  <2>1. ASSUME NEW k
        PROVE  Transition(u, n + 1, k) \notin transitions
    <3>1. ASSUME NEW v \in Ues, NEW i \in 1..n, NEW l, Transition(u, n + 1, k) = Transition(v, i, l)
          PROVE  FALSE
      <4>1. At((n + 1) - 1) = At(i - 1)
        BY <3>1 DEF Transition
      <4>2. (n + 1) - 1 = n /\ i - 1 \in Nat /\ i - 1 < n
        BY <1>1
      <4> QED BY <1>1, <4>1, <4>2, SlotOrder
    <3> QED BY <3>1 DEF TransitionsInv
  <2>2. \A k : Transition(u, n + 1, k) = [tick |-> t, ue |-> u, kind |-> k]
    <3>1. (n + 1) - 1 = n
      BY <1>1
    <3> QED BY <1>1, <3>1 DEF Transition
  <2>3. TransitionsAt(u, t, sinr[u])
           = {[tick |-> t, ue |-> u, kind |-> k] : k \in moves \cup turns}
    BY DEF TransitionsAt
  <2>4. \A v \in Ues : \A x \in TransitionsAt(v, t, sinr[v]) : x.ue = v
    BY DEF TransitionsAt
  <2> HIDE DEF moves, turns, n, t, sinr
  <2>5. ASSUME NEW k
        PROVE  Transition(u, n + 1, k) \in transitions' <=> k \in moves \cup turns
    <3>1. Transition(u, n + 1, k) \in transitions'
             <=> \E v \in Ues : Transition(u, n + 1, k) \in TransitionsAt(v, t, sinr[v])
      BY <1>2, <2>1
    <3>2. Transition(u, n + 1, k).ue = u
      BY DEF Transition
    <3>3. Transition(u, n + 1, k) \in transitions'
             <=> Transition(u, n + 1, k) \in TransitionsAt(u, t, sinr[u])
      BY <2>4, <3>1, <3>2
    <3>4. \A l : Transition(u, n + 1, k) = Transition(u, n + 1, l) => k = l
      BY DEF Transition
    <3> QED BY <2>2, <2>3, <3>3, <3>4
  <2> QED BY <2>5
<1>8. IsLow(sinr[u]) \in BOOLEAN /\ IsHigh(sinr[u]) \in BOOLEAN
  BY DEF IsLow, IsHigh
<1>9. /\ availability'[u] \in AvailabilityStates
      /\ turns \subseteq {"outage_entered", "outage_recovered"}
      /\ "outage_entered" \in turns <=> ~a.outage /\ availability'[u].outage
      /\ "outage_recovered" \in turns <=> a.outage /\ ~availability'[u].outage
  <2> HIDE DEF a, t, sinr
  <2> QED BY <1>1, <1>3, <1>6, <1>8, AvailabilityStep
<1>10. /\ handover'[u] \in HandoverStates(Cells) /\ handover'[u].serving \in Cells
       /\ moves \subseteq Kinds \ {"outage_entered", "outage_recovered"}
       /\ "handover_executed" \in moves <=> n > 0 /\ handover'[u].serving # h.serving
       /\ handover'[u].count = IF "handover_executed" \in moves THEN h.count + 1 ELSE h.count
       /\ handover'[u].pingPong = IF "ping_pong" \in moves THEN h.pingPong + 1 ELSE h.pingPong
  <2>1. CASE n = 0
    <3>1. handover'[u] = ServedBy(Strongest(links[u], Cells)) /\ moves = {}
      BY <1>3, <1>6, <2>1 DEF Associated
    <3>2. Strongest(links[u], Cells) \in Cells
      <4>1. Cells # {} /\ Cells \in SUBSET Cells
        <5>1. NumCells \in Nat /\ NumCells # 0
          BY PipelineAssumption, DynamicAssumption
        <5>2. 1 \in Cells
          BY <5>1 DEF Cells
        <5> QED BY <5>2
      <4> QED BY <1>5, <4>1, StrongestIn
    <3>3. PICK s \in Cells : s = Strongest(links[u], Cells)
      BY <3>2
    <3>4. handover'[u] \in HandoverStates(Cells) /\ handover'[u].serving \in Cells
          /\ handover'[u].count = 0 /\ handover'[u].pingPong = 0
      BY <3>1, <3>3 DEF ServedBy, HandoverStates, NoCell, Never
    <3>5. h.count = 0 /\ h.pingPong = 0
      BY <2>1 DEF TransitionsInv, Machines
    <3> HIDE DEF h, n, moves
    <3> QED BY <2>1, <3>1, <3>4, <3>5
  <2>2. CASE n # 0
    <3>1. h.serving \in Cells /\ n > 0
      BY <1>1, <1>3, <2>2
    <3>2. handover'[u] = NextHandover(h, t, links[u]) /\ moves = HandoverKinds(h, t, links[u])
      BY <1>4, <1>6, <3>1 DEF Associated
    <3> HIDE DEF h, n, t, moves
    <3> QED BY <1>1, <1>3, <1>5, <3>1, <3>2, HandoverStep
  <2> QED BY <2>1, <2>2
<1>11. /\ moves \cup turns \in SUBSET Kinds
       /\ "handover_executed" \in moves \cup turns <=> "handover_executed" \in moves
       /\ "ping_pong" \in moves \cup turns <=> "ping_pong" \in moves
       /\ "outage_entered" \in moves \cup turns <=> "outage_entered" \in turns
       /\ "outage_recovered" \in moves \cup turns <=> "outage_recovered" \in turns
  BY <1>9, <1>10 DEF Kinds
<1>12. PICK kinds \in SUBSET Kinds : kinds = moves \cup turns
  BY <1>11
<1>13. \A k : Transition(u, n + 1, k) \in transitions' <=> k \in kinds
  BY <1>7, <1>12
<1> HIDE DEF moves, turns
<1> QED BY <1>9, <1>10, <1>11, <1>12, <1>13

\* An association records its transitions with its frame.
LEMMA AssociationTransitions ==
    ASSUME RadioInv, EstimateInv, TransitionsInv, RadioInv', NEW e, AssociationHandler(e)
    PROVE  TransitionsInv'
<1> PICK n \in Nat : n = Len(frames)
  BY FrameCount
<1> DEFINE frame == [tick |-> e.tick, previous |-> previous,
                     ues |-> [u \in Ues |-> FrameOf(u, e.tick)]]
<1>1. /\ n \in Nat /\ n = Len(frames) /\ e.tick = At(n) /\ At(n) \in Nat /\ links' = links
      /\ Len(frames') = n + 1 /\ frames'[n + 1] = frame
      /\ \A i \in 1..n : frames'[i] = frames[i]
  <2>1. frames' = Append(frames, frame) /\ links' = links /\ frame.tick = e.tick
    BY DEF AssociationHandler
  <2> HIDE DEF frame
  <2>2. n \in Nat /\ Len(frames') = n + 1 /\ frames'[n + 1] = frame
    <3> DEFINE S == {frames[i] : i \in DOMAIN frames}
    <3>1. frames \in Seq(S)
      BY DEF RadioInv, FramesInOrder
    <3> HIDE DEF S
    <3>2. frames \in Seq(S \cup {frame})
      BY <3>1
    <3> QED BY <2>1, <3>2
  <2>3. \A i \in 1..n : frames'[i] = frames[i]
    BY <2>1, FramesStay
  <2>4. frames'[n + 1].tick = At((n + 1) - 1)
    <3>1. n + 1 \in 1..Len(frames')
      BY <2>2
    <3> QED BY <3>1 DEF RadioInv, FramesInOrder, At
  <2>5. (n + 1) - 1 = n
    BY <2>2
  <2> QED BY <2>1, <2>2, <2>3, <2>4, <2>5, SlotTimes
<1>2. ASSUME NEW u \in Ues
      PROVE  /\ frame.ues[u].serving = handover'[u].serving
             /\ frame.ues[u].outage = availability'[u].outage
             /\ frame.ues[u].available
                   <=> Reachable(handover'[u], availability'[u], e.tick)
             /\ frame.ues[u].interrupted <=> e.tick < handover'[u].until
  BY DEF FrameOf
<1>3. /\ handover' = [u \in Ues |-> handover'[u]]
      /\ availability' = [u \in Ues |-> availability'[u]]
      /\ transitions \subseteq transitions'
      /\ \A x \in transitions' : \/ x \in transitions
                                 \/ \E u \in Ues : \E k : x = [tick |-> e.tick, ue |-> u, kind |-> k]
  BY DEF AssociationHandler, TransitionsAt
<1> HIDE DEF frame
<1>4. ASSUME NEW u \in Ues
      PROVE  \E kinds \in SUBSET Kinds :
              /\ \A k : Transition(u, n + 1, k) \in transitions' <=> k \in kinds
              /\ handover'[u] \in HandoverStates(Cells) /\ handover'[u].serving \in Cells
              /\ availability'[u] \in AvailabilityStates
              /\ "handover_executed" \in kinds
                    <=> n > 0 /\ handover'[u].serving # handover[u].serving
              /\ handover'[u].count = IF "handover_executed" \in kinds
                                      THEN handover[u].count + 1 ELSE handover[u].count
              /\ handover'[u].pingPong = IF "ping_pong" \in kinds
                                         THEN handover[u].pingPong + 1 ELSE handover[u].pingPong
              /\ "outage_entered" \in kinds <=> ~availability[u].outage /\ availability'[u].outage
              /\ "outage_recovered" \in kinds <=> availability[u].outage /\ ~availability'[u].outage
  BY <1>1, AssociationStep
<1>5. Machines'
  <2>1. /\ handover' \in [Ues -> HandoverStates(Cells)]
        /\ availability' \in [Ues -> AvailabilityStates]
    BY <1>3, <1>4
  <2>2. \A u \in Ues : /\ handover'[u].serving \in Cells
                       /\ frames'[n + 1].ues[u].serving = handover'[u].serving
                       /\ frames'[n + 1].ues[u].outage = availability'[u].outage
    BY <1>1, <1>2, <1>4
  <2>3. (links = [u \in Ues |-> [c \in Cells |-> links[u][c]]])'
    BY <1>1 DEF TransitionsInv, Machines
  <2>4. Len(frames') # 0
    BY <1>1
  <2> QED BY <1>1, <2>1, <2>2, <2>3, <2>4 DEF Machines
<1>6. \A u, i, k : Transition(u, i, k) = [tick |-> At(i - 1), ue |-> u, kind |-> k]
                   /\ Transition(u, i, k)' = Transition(u, i, k)
  BY DEF Transition, At
<1>7. ASSUME NEW u \in Ues, NEW k
      PROVE  Transition(u, n + 1, k) = [tick |-> e.tick, ue |-> u, kind |-> k]
  <2>1. (n + 1) - 1 = n
    BY <1>1
  <2> QED BY <1>1, <1>6, <2>1
<1>8. ASSUME NEW x \in transitions'
      PROVE  \E u \in Ues, i \in 1..(n + 1), k \in Kinds : x = Transition(u, i, k)
  <2>1. CASE x \in transitions
    <3>1. \E u \in Ues, i \in 1..n, k \in Kinds : x = Transition(u, i, k)
      BY <2>1 DEF TransitionsInv
    <3> QED BY <1>1, <3>1
  <2>2. CASE \E u \in Ues : \E k : x = [tick |-> e.tick, ue |-> u, kind |-> k]
    <3>1. PICK u, k : u \in Ues /\ x = Transition(u, n + 1, k)
      BY <1>7, <2>2
    <3>2. k \in Kinds
      BY <1>4, <1>8, <3>1
    <3>3. n + 1 \in 1..(n + 1)
      BY <1>1
    <3> QED BY <3>1, <3>2, <3>3
  <2> QED BY <1>3, <1>8, <2>1, <2>2
<1>9. ASSUME NEW u \in Ues, NEW i \in 1..n, NEW k
      PROVE  Transition(u, i, k) \in transitions' <=> Transition(u, i, k) \in transitions
  <2>1. Transition(u, i, k).tick = At(i - 1)
    BY <1>6
  <2>2. At(i - 1) # At(n)
    <3>1. i - 1 \in Nat /\ i - 1 # n
      BY <1>1
    <3> QED BY <1>1, <3>1, SlotOrder
  <2> QED BY <1>1, <1>3, <2>1, <2>2
<1>10. ASSUME NEW u \in Ues
       PROVE  Counted(u)' /\ \A i \in 1..(n + 1) : Logged(u, i)'
  <2> PICK kinds \in SUBSET Kinds :
              /\ \A k : Transition(u, n + 1, k) \in transitions' <=> k \in kinds
              /\ handover'[u] \in HandoverStates(Cells) /\ handover'[u].serving \in Cells
              /\ availability'[u] \in AvailabilityStates
              /\ "handover_executed" \in kinds
                    <=> n > 0 /\ handover'[u].serving # handover[u].serving
              /\ handover'[u].count = IF "handover_executed" \in kinds
                                      THEN handover[u].count + 1 ELSE handover[u].count
              /\ handover'[u].pingPong = IF "ping_pong" \in kinds
                                         THEN handover[u].pingPong + 1 ELSE handover[u].pingPong
              /\ "outage_entered" \in kinds <=> ~availability[u].outage /\ availability'[u].outage
              /\ "outage_recovered" \in kinds <=> availability[u].outage /\ ~availability'[u].outage
    BY <1>4
  <2>1. ASSUME NEW k \in Kinds
        PROVE  InRun(u, k)' = IF k \in kinds THEN InRun(u, k) \cup {Transition(u, n + 1, k)}
                              ELSE InRun(u, k)
    <3>1. Transition(u, n + 1, k) \in transitions' <=> k \in kinds
      OBVIOUS
    <3>2. Transition(u, n + 1, k).ue = u /\ Transition(u, n + 1, k).kind = k
      BY <1>6
    <3>3. ASSUME NEW x \in transitions', x.ue = u, x.kind = k, x \notin transitions
          PROVE  x = Transition(u, n + 1, k)
      BY <1>3, <1>7, <3>3
    <3>4. InRun(u, k)' = {x \in transitions' : x.ue = u /\ x.kind = k}
      BY DEF InRun
    <3> QED BY <1>3, <3>1, <3>2, <3>3, <3>4 DEF InRun
  <2>2. ASSUME NEW k \in Kinds
        PROVE  /\ IsFiniteSet(InRun(u, k)')
               /\ Cardinality(InRun(u, k)') = IF k \in kinds THEN Cardinality(InRun(u, k)) + 1
                                              ELSE Cardinality(InRun(u, k))
    <3>1. IsFiniteSet(InRun(u, k))
      BY DEF TransitionsInv, Counted
    <3>2. Transition(u, n + 1, k) \notin InRun(u, k)
      <4>1. ASSUME NEW v \in Ues, NEW i \in 1..n, NEW l
            PROVE  Transition(u, n + 1, k) # Transition(v, i, l)
        <5>1. Transition(u, n + 1, k).tick = At(n) /\ Transition(v, i, l).tick = At(i - 1)
          BY <1>1, <1>6, <1>7
        <5>2. i - 1 \in Nat /\ i - 1 # n
          BY <1>1
        <5>3. At(i - 1) # At(n)
          BY <1>1, <5>2, SlotOrder
        <5> QED BY <5>1, <5>3
      <4> QED BY <4>1 DEF TransitionsInv, InRun
    <3> QED BY <2>1, <3>1, <3>2, FS_AddElement
  <2>3. Counted(u)'
    <3>1. "handover_executed" \in Kinds /\ "ping_pong" \in Kinds
      BY DEF Kinds
    <3>2. /\ Cardinality(InRun(u, "handover_executed")) = handover[u].count
          /\ Cardinality(InRun(u, "ping_pong")) = handover[u].pingPong
      BY DEF TransitionsInv, Counted
    <3>3. \A k \in Kinds : IsFiniteSet(InRun(u, k)')
      BY <2>2
    <3>4. /\ Cardinality(InRun(u, "handover_executed")') = handover'[u].count
          /\ Cardinality(InRun(u, "ping_pong")') = handover'[u].pingPong
      BY <2>2, <3>1, <3>2
    <3> QED BY <3>3, <3>4 DEF Counted
  <2>4. ASSUME NEW i \in 1..n
        PROVE  Logged(u, i)'
    <3>1. Logged(u, i)
      BY DEF TransitionsInv
    <3>2. frames'[i] = frames[i] /\ (i > 1 => frames'[i - 1] = frames[i - 1])
      BY <1>1
    <3>3. Changed(u, i)' = Changed(u, i) /\ WasOut(u, i)' = WasOut(u, i)
      BY <3>2 DEF Changed, WasOut
    <3> QED BY <1>6, <1>9, <3>1, <3>2, <3>3 DEF Logged
  <2>5. Logged(u, n + 1)'
    <3> DEFINE f == frames'[n + 1].ues[u]
    <3>1. /\ f.serving = handover'[u].serving /\ f.outage = availability'[u].outage
          /\ f.outage \in BOOLEAN
      BY <1>1, <1>2 DEF AvailabilityStates
    <3>2. f.available <=> ~f.outage /\ ~f.interrupted
      <4>1. handover'[u].until \in Nat
        BY DEF HandoverStates
      <4>2. e.tick >= handover'[u].until <=> ~(e.tick < handover'[u].until)
        BY <1>1, <4>1
      <4> QED BY <1>1, <1>2, <4>2 DEF Reachable
    <3>3. /\ n > 0 => /\ (n + 1) - 1 = n /\ frames'[n] = frames[n]
                      /\ frames[n].ues[u].serving = handover[u].serving
                      /\ frames[n].ues[u].outage = availability[u].outage
          /\ n = 0 => ~availability[u].outage
          /\ availability[u].outage \in BOOLEAN
      <4>1. n > 0 => n \in 1..n /\ (n + 1) - 1 = n
        BY <1>1
      <4>2. availability[u] \in AvailabilityStates
        BY DEF TransitionsInv, Machines
      <4>3. availability[u].outage \in BOOLEAN
        BY <4>2 DEF AvailabilityStates
      <4> QED BY <1>1, <4>1, <4>3 DEF TransitionsInv, Machines
    <3>4. /\ Changed(u, n + 1)' <=> n > 0 /\ handover'[u].serving # handover[u].serving
          /\ WasOut(u, n + 1)' <=> availability[u].outage
      <4>1. n + 1 > 1 <=> n > 0
        BY <1>1
      <4>2. n > 0 \/ n = 0
        BY <1>1
      <4> QED BY <3>1, <3>3, <4>1, <4>2 DEF Changed, WasOut
    <3> HIDE DEF f
    <3>5. /\ Transition(u, n + 1, "handover_executed") \in transitions'
                <=> Changed(u, n + 1)'
          /\ Transition(u, n + 1, "outage_entered") \in transitions'
                <=> f.outage /\ ~WasOut(u, n + 1)'
          /\ Transition(u, n + 1, "outage_recovered") \in transitions'
                <=> ~f.outage /\ WasOut(u, n + 1)'
      BY <3>1, <3>4
    <3> QED BY <1>6, <3>1, <3>2, <3>5 DEF Logged, f
  <2>6. ASSUME NEW i \in 1..(n + 1)
        PROVE  Logged(u, i)'
    <3>1. i \in 1..n \/ i = n + 1
      BY <1>1
    <3> QED BY <2>4, <2>5, <3>1
  <2> QED BY <2>3, <2>6
<1> QED BY <1>1, <1>5, <1>8, <1>10 DEF TransitionsInv

\* Every step of the dynamic pipeline keeps transitions and frames together.
LEMMA TransitionsNext ==
    ASSUME RadioInv, EstimateInv, TransitionsInv, RadioInv', [DynamicNext]_dynamicVars
    PROVE  TransitionsInv'
<1>1. CASE \E e \in heap : AssociationHandler(e)
  BY <1>1, AssociationTransitions
<1>2. CASE \E e \in heap : TopologyHandler(e)
  <2>1. /\ UNCHANGED <<handover, availability, frames, transitions>>
        /\ \E level : links' = [u \in Ues |-> [c \in Cells |-> level[u][c]]]
    <3>1. PICK e \in heap : TopologyHandler(e)
      BY <1>2
    <3>2. PICK level : level = [u \in Ues |-> [c \in Cells |->
                                   LevelOf(u, c, motion'[u].x, shadow'[u][c], e.tick)]]
      OBVIOUS
    <3>3. links' = level /\ level = [u \in Ues |-> [c \in Cells |-> level[u][c]]]
      BY <3>1, <3>2 DEF TopologyHandler
    <3> QED BY <3>1, <3>3 DEF TopologyHandler
  <2>2. links' = [u \in Ues |-> [c \in Cells |-> links'[u][c]]]
    BY <2>1
  <2> QED BY <2>1, <2>2, TransitionsStay
<1>3. CASE UNCHANGED <<handover, availability, frames, transitions, links>>
  <2>1. links' = [u \in Ues |-> [c \in Cells |-> links'[u][c]]]
    BY <1>3 DEF TransitionsInv, Machines
  <2> QED BY <1>3, <2>1, TransitionsStay
<1> QED BY <1>1, <1>2, <1>3 DEF DynamicNext, DynamicScheduling, dynamicVars, radio
-----------------------------------------------------------------------------
(* The report of the dynamic simulation.                                   *)

\* The frames of the measurement window are few, one to a slot.
LEMMA MeasuredFew ==
    ASSUME RadioInv
    PROVE  /\ MeasuredFrames \subseteq 1..Len(frames) /\ IsFiniteSet(MeasuredFrames)
           /\ \A i \in 1..Len(frames) : i \in Nat /\ frames[i].tick = At(i - 1)
                                        /\ (i \in MeasuredFrames <=> InWindow(At(i - 1)))
           /\ \A i, j \in 1..Len(frames) : At(i - 1) = At(j - 1) => i = j
<1>1. /\ Len(frames) \in Nat /\ DOMAIN frames = 1..Len(frames)
      /\ \A i \in 1..Len(frames) : frames[i].tick = At(i - 1)
  BY DEF RadioInv, FramesInOrder
<1>2. PICK n \in Nat : n = Len(frames)
  BY <1>1
<1>3. IsFiniteSet(1..n)
  BY <1>2, FS_Interval
<1>4. MeasuredFrames \in SUBSET (1..n)
  BY <1>1, <1>2 DEF MeasuredFrames
<1>5. IsFiniteSet(MeasuredFrames)
  BY <1>3, <1>4, FS_Subset
<1>6. ASSUME NEW i \in 1..n, NEW j \in 1..n, At(i - 1) = At(j - 1)
      PROVE  i = j
  <2>1. i - 1 \in Nat /\ j - 1 \in Nat
    BY <1>2
  <2>2. i - 1 = j - 1
    BY <1>6, <2>1, SlotOrder
  <2> QED BY <1>2, <2>2
<1>7. \A i \in 1..n : i \in MeasuredFrames <=> InWindow(At(i - 1))
  BY <1>1, <1>2 DEF MeasuredFrames
<1> QED BY <1>1, <1>2, <1>4, <1>5, <1>6, <1>7

\* The transitions of a UE that are counted in the window are of its frames.
LEMMA TransitionsCounted ==
    ASSUME RadioInv, TransitionsInv, NEW u \in Ues, NEW kind \in Kinds
    PROVE  CountOf({u}, kind)
              = Cardinality({i \in MeasuredFrames : Transition(u, i, kind) \in transitions})
<1> DEFINE I == {i \in MeasuredFrames : Transition(u, i, kind) \in transitions}
           X == {x \in transitions : x.ue \in {u} /\ x.kind = kind /\ InWindow(x.tick)}
           g == [i \in I |-> Transition(u, i, kind)]
<1>1. IsFiniteSet(I) /\ \A i \in I : i \in 1..Len(frames) /\ InWindow(At(i - 1))
  <2>1. I \in SUBSET MeasuredFrames
    OBVIOUS
  <2>2. IsFiniteSet(I) /\ \A i \in I : i \in 1..Len(frames)
    BY <2>1, MeasuredFew, FS_Subset
  <2> QED BY <2>2, MeasuredFew
<1>2. \A i : /\ Transition(u, i, kind).tick = At(i - 1) /\ Transition(u, i, kind).ue = u
             /\ Transition(u, i, kind).kind = kind
  BY DEF Transition
<1>3. \A i \in I : g[i] \in X /\ g[i].tick = At(i - 1)
  BY <1>1, <1>2
<1>4. ASSUME NEW x \in X
      PROVE  \E i \in I : g[i] = x
  <2>1. PICK v \in Ues, i \in 1..Len(frames), k \in Kinds : x = Transition(v, i, k)
    BY DEF TransitionsInv
  <2>2. x.ue = v /\ x.kind = k /\ x.tick = At(i - 1)
    BY <2>1 DEF Transition
  <2>3. x = Transition(u, i, kind) /\ InWindow(At(i - 1))
    BY <2>1, <2>2
  <2>4. i \in I
    BY <2>3, MeasuredFew
  <2> QED BY <2>3, <2>4
<1>5. g = [i \in I |-> g[i]] /\ DOMAIN g = I
  OBVIOUS
<1> HIDE DEF I, X, g
<1>6. g \in [I -> X]
  BY <1>3, <1>5
<1>7. \A i, j \in I : g[i] = g[j] => i = j
  BY <1>1, <1>3, MeasuredFew
<1>8. g \in Bijection(I, X)
  BY <1>4, <1>5, <1>6, <1>7 DEF Bijection, Injection, Surjection, IsInjective
<1>9. Cardinality(X) = Cardinality(I)
  BY <1>1, <1>8, FS_Bijection DEF ExistsBijection
<1> QED BY <1>9 DEF CountOf, I, X

\* So they are the changes between its frames.
LEMMA ChangesCounted ==
    ASSUME RadioInv, TransitionsInv, NEW u \in Ues
    PROVE  /\ CountOf({u}, "handover_executed")
                 = Cardinality({i \in MeasuredFrames \ {1} :
                       frames[i].ues[u].serving # frames[i - 1].ues[u].serving})
           /\ CountOf({u}, "outage_entered")
                 = Cardinality({i \in MeasuredFrames :
                       /\ frames[i].ues[u].outage = TRUE
                       /\ (i > 1 /\ frames[i - 1].ues[u].outage) = FALSE})
           /\ CountOf({u}, "outage_recovered")
                 = Cardinality({i \in MeasuredFrames :
                       /\ frames[i].ues[u].outage = FALSE
                       /\ (i > 1 /\ frames[i - 1].ues[u].outage) = TRUE})
<1> DEFINE In(kind) == {i \in MeasuredFrames : Transition(u, i, kind) \in transitions}
<1>1. /\ CountOf({u}, "handover_executed") = Cardinality(In("handover_executed"))
      /\ CountOf({u}, "outage_entered") = Cardinality(In("outage_entered"))
      /\ CountOf({u}, "outage_recovered") = Cardinality(In("outage_recovered"))
  <2>1. {"handover_executed", "outage_entered", "outage_recovered"} \subseteq Kinds
    BY DEF Kinds
  <2> QED BY <2>1, TransitionsCounted
<1>2. ASSUME NEW i \in MeasuredFrames
      PROVE  /\ Logged(u, i) /\ i \in Nat /\ i >= 1
             /\ frames[i].ues[u].outage \in BOOLEAN
             /\ i > 1 => frames[i - 1].ues[u].outage \in BOOLEAN
  <2>1. PICK n \in Nat : n = Len(frames)
    BY FrameCount
  <2>2. i \in 1..n /\ i \in Nat /\ i >= 1 /\ (i > 1 => i - 1 \in 1..n)
    BY <2>1, MeasuredFew
  <2>3. \A j \in 1..n : Logged(u, j)
    BY <2>1 DEF TransitionsInv
  <2>4. \A j \in 1..n : frames[j].ues[u].outage \in BOOLEAN
    BY <2>3 DEF Logged
  <2> QED BY <2>2, <2>3, <2>4
<1>3. In("handover_executed")
         = {i \in MeasuredFrames \ {1} :
               frames[i].ues[u].serving # frames[i - 1].ues[u].serving}
  <2>1. \A i \in MeasuredFrames : i > 1 <=> i # 1
    BY <1>2
  <2> QED BY <1>2, <2>1 DEF Logged, Changed
<1>4. In("outage_entered")
         = {i \in MeasuredFrames :
               /\ frames[i].ues[u].outage = TRUE
               /\ (i > 1 /\ frames[i - 1].ues[u].outage) = FALSE}
  BY <1>2 DEF Logged, WasOut
<1>5. In("outage_recovered")
         = {i \in MeasuredFrames :
               /\ frames[i].ues[u].outage = FALSE
               /\ (i > 1 /\ frames[i - 1].ues[u].outage) = TRUE}
  BY <1>2 DEF Logged, WasOut
<1> HIDE DEF In
<1> QED BY <1>1, <1>3, <1>4, <1>5

\* A UE is eligible in a slot only of the cell that serves it, when it can be
\* reached: in no more slots than it is available in frames.
LEMMA EligibleCounted ==
    ASSUME RadioInv, BooksInv, NEW u \in Ues
    PROVE  Cardinality({i \in StartedIn(Cells) : u \in i.eligible})
              <= Cardinality(FramesWith({u}, "available"))
<1> DEFINE E == {i \in StartedIn(Cells) : u \in i.eligible}
           F == FramesWith({u}, "available")
           slot == [i \in E |-> CHOOSE j \in 0..(Len(frames) - 1) : InSlot(i, j)]
           f == [i \in E |-> <<slot[i] + 1, u>>]
<1>1. ASSUME NEW i \in E
      PROVE  /\ i \in intervals /\ u \in i.eligible /\ InWindow(i.start)
             /\ slot[i] \in Nat /\ slot[i] + 1 \in 1..Len(frames) /\ InSlot(i, slot[i])
  <2>1. i \in intervals /\ u \in i.eligible /\ InWindow(i.start)
    BY DEF StartedIn
  <2>2. \E j \in 0..(Len(frames) - 1) : InSlot(i, j)
    BY <2>1 DEF RadioInv
  <2>3. slot[i] = CHOOSE j \in 0..(Len(frames) - 1) : InSlot(i, j)
    OBVIOUS
  <2>4. slot[i] \in 0..(Len(frames) - 1) /\ InSlot(i, slot[i])
    BY <2>2, <2>3
  <2>5. PICK n \in Nat : n = Len(frames)
    BY FrameCount
  <2> QED BY <2>1, <2>4, <2>5
<1> HIDE DEF slot
<1>2. ASSUME NEW i \in E
      PROVE  /\ i.start = At(slot[i]) /\ f[i] \in F
             /\ i.cell = frames[slot[i] + 1].ues[u].serving
  <2>1. PICK j \in Nat : j = slot[i]
    BY <1>1
  <2>2. /\ i.start = At(j) /\ frames[j + 1].ues[u].serving = i.cell
        /\ frames[j + 1].ues[u].available
    BY <1>1, <2>1 DEF InSlot, FitsFrame
  <2>3. (j + 1) - 1 = j
    BY <2>1
  <2>4. j + 1 \in MeasuredFrames
    BY <1>1, <2>1, <2>2, <2>3, MeasuredFew
  <2>5. f[i] = <<j + 1, u>>
    BY <2>1
  <2>6. <<j + 1, u>> \in F
    BY <2>2, <2>4 DEF FramesWith
  <2> QED BY <2>1, <2>2, <2>5, <2>6
<1>3. ASSUME NEW i \in E, NEW j \in E, f[i] = f[j]
      PROVE  i = j
  <2>1. <<slot[i] + 1, u>> = <<slot[j] + 1, u>>
    BY <1>3
  <2>2. slot[i] = slot[j]
    BY <1>1, <2>1
  <2>3. i \in intervals /\ j \in intervals /\ i.start = j.start /\ i.cell = j.cell
    BY <1>1, <1>2, <2>2
  <2> QED BY <2>3 DEF BooksInv
<1>4. IsFiniteSet(F)
  <2>1. IsFiniteSet(MeasuredFrames) /\ IsFiniteSet({u})
    BY MeasuredFew, FS_Singleton
  <2>2. IsFiniteSet(MeasuredFrames \X {u})
    BY <2>1, FS_Product
  <2>3. F \in SUBSET (MeasuredFrames \X {u})
    BY DEF FramesWith
  <2> QED BY <2>2, <2>3, FS_Subset
<1>5. f = [i \in E |-> f[i]] /\ DOMAIN f = E
  OBVIOUS
<1> HIDE DEF E, F, f
<1>6. f \in Injection(E, F)
  <2>1. f \in [E -> F]
    BY <1>2, <1>5
  <2> QED BY <1>3, <1>5, <2>1 DEF Injection, IsInjective
<1>7. Cardinality(E) <= Cardinality(F)
  BY <1>4, <1>6, FS_Injection
<1> QED BY <1>7 DEF E, F

\* A UE counts as available in the frames in which it is neither in outage
\* nor interrupted.
LEMMA AvailableFrames ==
    ASSUME RadioInv, TransitionsInv
    PROVE  FramesWith(Ues, "available") = (MeasuredFrames \X Ues) \
              (FramesWith(Ues, "outage") \cup FramesWith(Ues, "interrupted"))
<1>1. ASSUME NEW i \in MeasuredFrames, NEW u \in Ues
      PROVE  frames[i].ues[u].available
                <=> ~frames[i].ues[u].outage /\ ~frames[i].ues[u].interrupted
  BY MeasuredFew DEF TransitionsInv, Logged
<1>2. \A s \in MeasuredFrames \X Ues : s[1] \in MeasuredFrames /\ s[2] \in Ues
  OBVIOUS
<1>3. \A s \in MeasuredFrames \X Ues :
         frames[s[1]].ues[s[2]]["available"]
            <=> ~frames[s[1]].ues[s[2]]["outage"] /\ ~frames[s[1]].ues[s[2]]["interrupted"]
  BY <1>1, <1>2
<1> QED BY <1>3 DEF FramesWith

\* What DynamicReported says of the transitions and the frames of a UE.
LEMMA UeReported ==
    ASSUME RadioInv, BooksInv, TransitionsInv, NEW u \in Ues
    PROVE  LET Changes == {i \in MeasuredFrames \ {1} :
                              frames[i].ues[u].serving # frames[i - 1].ues[u].serving}
               Turned(was, is) == {i \in MeasuredFrames :
                              /\ frames[i].ues[u].outage = is
                              /\ (i > 1 /\ frames[i - 1].ues[u].outage) = was}
               OfKind(kind) == {x \in transitions : x.ue = u /\ x.kind = kind}
           IN  /\ CountOf({u}, "handover_executed") = Cardinality(Changes)
               /\ CountOf({u}, "outage_entered") = Cardinality(Turned(FALSE, TRUE))
               /\ CountOf({u}, "outage_recovered") = Cardinality(Turned(TRUE, FALSE))
               /\ Cardinality(OfKind("handover_executed")) = handover[u].count
               /\ Cardinality(OfKind("ping_pong")) = handover[u].pingPong
               /\ Cardinality({i \in StartedIn(Cells) : u \in i.eligible})
                     <= Cardinality(FramesWith({u}, "available"))
<1>1. /\ Cardinality({x \in transitions : x.ue = u /\ x.kind = "handover_executed"})
            = handover[u].count
      /\ Cardinality({x \in transitions : x.ue = u /\ x.kind = "ping_pong"})
            = handover[u].pingPong
  BY DEF TransitionsInv, Counted, InRun
<1> QED BY <1>1, ChangesCounted, EligibleCounted, Zenon

\* The handovers and outages recorded are the changes between frames, and the
\* counters of the state machines are their numbers, throughout every run.
THEOREM DynamicTransitions == DynamicSpec => []TransitionsInv
<1>1. DynamicInit => TransitionsInv
  BY TransitionsInit
<1>2. RadioInv /\ EstimateInv /\ TransitionsInv /\ RadioInv' /\ [DynamicNext]_dynamicVars
         => TransitionsInv'
  BY TransitionsNext
<1> QED BY <1>1, <1>2, DynamicRadio, DynamicEstimates, PTL DEF DynamicSpec

\* The report of a dynamic run that returned is true to the run
\* (DynamicReported): its packets and service are accounted for as in the
\* static one, no plan has failed over a handover or an outage, the
\* transitions counted in the window are the changes between frames, those of
\* the run are the counters of the state machines, and a UE is eligible in no
\* more slots than it is available in.
THEOREM DynamicReportHolds == DynamicSpec => []DynamicReported
<1> DEFINE Inv == PacketsInSlots /\ PlansWithin /\ ServiceWithinCapacity /\ BooksInv
<1>1. DynamicInit => Inv
  BY StartInSlots, PlansStart, BooksStart DEF DynamicInit
<1>2. DynamicInv /\ Inv /\ [DynamicNext]_dynamicVars => Inv'
  <2> SUFFICES ASSUME DynamicInv, Inv, [DynamicNext]_dynamicVars
               PROVE  Inv'
    OBVIOUS
  <2>1. PICK own : own = Serving /\ PipelineInv(own)
    BY DEF DynamicInv
  <2>2. PacketsInSlots'
    BY DynamicStepsInSlots
  <2>3. PlansWithin' /\ ServiceWithinCapacity'
    BY <2>1, DynamicCapped
  <2>4. BooksInv'
    BY DynamicBooks
  <2> QED BY <2>2, <2>3, <2>4
<1>3. DynamicInv /\ RadioInv /\ TransitionsInv /\ Inv => DynamicReported
  <2> SUFFICES ASSUME DynamicInv, RadioInv, TransitionsInv, Inv, mode # "running"
               PROVE  DynamicReported
    BY DEF DynamicReported
  <2>1. PICK own : own = Serving /\ PipelineInv(own)
    BY DEF DynamicInv
  <2>2. mode = "done"
    BY <2>1 DEF PipelineInv, Running
  <2>3. \A serving : PacketReport(serving)
    BY <2>1, <2>2, PacketReported
  <2>4. ServiceReport
    BY ServiceReported
  <2> HIDE DEF Inv
  <2> QED BY <2>2, <2>3, <2>4, UeReported, AvailableFrames, Zenon DEF DynamicReported, Inv
<1> QED BY <1>1, <1>2, <1>3, DynamicInvariant, DynamicRadio, DynamicTransitions, PTL
        DEF DynamicSpec
=============================================================================
