---------------------------- MODULE PacketPipeline ----------------------------
(***************************************************************************)
(* What every simulation of the program shares: a kernel that dispatches   *)
(* events to handlers, the bearer queues the handlers call, and the        *)
(* packets, deadlines and censoring scheduled before the run.  The         *)
(* handlers for arrivals, deadlines and censoring are the same in          *)
(* experiments/simulation.py, experiments/dynamic_simulation.py and        *)
(* traffic/simulation.py; SlotPipeline, DynamicPipeline and                *)
(* TrafficMechanics add what serves the queues.                            *)
(***************************************************************************)
EXTENDS Integers, FiniteSets, Sequences

CONSTANTS
    NumPackets, Payload,             \* as in BearerQueueOps
    MaxQueuedPackets, MaxQueuedBits,
    NumBearers, NumUes, NumCells,
    BearerOf,     \* BearerOf[p]: the bearer packet p is generated for
    UeOf,         \* UeOf[b]: the UE of bearer b
    Budget,       \* Budget[b]: deadline_ns of bearer b's profile, or NoBudget
    Slot,         \* radio.slot_duration_ns
    MeasureStart, \* simulation.measurement_start_ns, before it is warm-up
    MeasureEnd,   \* simulation.measurement_end_ns, where generation stops
    Stop,         \* simulation.stop_ns
    ArrivalTicks  \* bound: ticks at which packets may arrive

NoBudget == 0
Bearers  == 1..NumBearers
Ues      == 1..NumUes
Cells    == 1..NumCells

\* Any configuration with these shapes is one the normalizer accepts;
\* _validate_slot_boundaries aligns the boundaries of the run to slots.
ASSUME PipelineAssumption ==
    /\ NumPackets \in Nat /\ Payload \in [1..NumPackets -> Nat \ {0}]
    /\ NumBearers \in Nat /\ NumUes \in Nat /\ NumCells \in Nat
    /\ BearerOf \in [1..NumPackets -> Bearers]
    /\ UeOf \in [Bearers -> Ues]
    /\ Budget \in [Bearers -> Nat]
    /\ Slot \in Nat \ {0}
    /\ \A t \in {MeasureStart, MeasureEnd, Stop} : t \in Nat /\ t % Slot = 0
    /\ MeasureStart < MeasureEnd /\ MeasureEnd <= Stop
    /\ ArrivalTicks \subseteq 0..(MeasureEnd - 1)

VARIABLES
    arrives,  \* arrival tick of each packet, generated before the run, or
              \* NoTick for a packet that is not
    queues,   \* runtime.queues
    heap,     \* the kernel's pending events, with their payload
    trace,    \* the kernel's trace, without outcomes
    now,      \* the kernel's current_tick
    mode      \* "running", "done" once run() returned, "failed" if it raised
pipeline == <<arrives, queues, heap, trace, now, mode>>

\* A packet's deadline_tick: its arrival plus the budget of its bearer.
DeadlineTick ==
    [p \in 1..NumPackets |->
        IF Budget[BearerOf[p]] = NoBudget THEN -1 ELSE arrives[p] + Budget[BearerOf[p]]]

INSTANCE BearerQueueOps WITH Deadline <- DeadlineTick

\* The bounds of every queue: what BearerQueue.__init__ requires.
ASSUME LimitAssumption ==
    /\ MaxQueuedPackets \in Nat /\ MaxQueuedBits \in Nat
    /\ MaxQueuedPackets # NoLimit \/ MaxQueuedBits # NoLimit

-----------------------------------------------------------------------------
(* Events: a kernel ordering key, a kind, and the payload: the packet it   *)
(* names, or the work of a slot.                                           *)

\* What a cell does in a slot (_SlotServicePlan): the UEs observed, the PRBs
\* and the capacity each is given, and the reservations of its bearers.
NoWork == [eligible |-> {}, prbs |-> [u \in Ues |-> 0],
           capacity |-> [u \in Ues |-> 0], plan |-> {}]

EventOf(tick, phase, entity, seq, kind, packet, work) ==
    [tick |-> tick, phase |-> phase, entity |-> entity, seq |-> seq,
     kind |-> kind, packet |-> packet, work |-> work]

\* Mutants of ServicePhase: after deadlines, after scheduling.
ServiceAfterDeadlines == 30
ServiceAfterScheduling == 70

\* EventPhase.
ServicePhase == 10
DeadlinePhase == 20
ArrivalPhase == 40
SchedulingPhase == 60
ObservationPhase == 80

Arrival(p) ==
    EventOf(arrives[p], ArrivalPhase, BearerOf[p], p, "packet_arrival", p, NoWork)

\* Mutant of Expiry: a tick early.
ExpiryEarly(p) ==
    EventOf(DeadlineTick[p] - 1, DeadlinePhase, BearerOf[p], p, "packet_deadline", p, NoWork)

Expiry(p) ==
    EventOf(DeadlineTick[p], DeadlinePhase, BearerOf[p], p, "packet_deadline", p, NoWork)
Censoring(b) ==
    EventOf(Stop, ObservationPhase, b, 0, "censor_at_stop", 0, NoWork)

\* A generator emits the packets of its bearer in time order and before the
\* generation stop (module TrafficMechanics shows that it does).
ArrivalPatterns ==
    {a \in [1..NumPackets -> ArrivalTicks] :
        \A p, o \in 1..NumPackets : BearerOf[p] = BearerOf[o] /\ p < o => a[p] <= a[o]}

\* The events of the packets of bearers bs, with their deadlines, and the
\* censoring of each bearer.
TrafficEvents(bs) ==
    LET generated == {p \in Packets : BearerOf[p] \in bs /\ arrives[p] # NoTick}
    IN  {Arrival(p) : p \in generated}
        \cup {Expiry(p) : p \in {p \in generated : DeadlineTick[p] # NoTick}}
        \cup {Censoring(b) : b \in bs}

-----------------------------------------------------------------------------
(* The run loop: pop the least event, run its handler, trace it.           *)

\* Mutant of Precedes: the sequence number is compared before the entity.
PrecedesBySequence(a, b) ==
    \/ a.tick < b.tick
    \/ a.tick = b.tick /\ a.phase < b.phase
    \/ a.tick = b.tick /\ a.phase = b.phase /\ a.seq < b.seq
    \/ a.tick = b.tick /\ a.phase = b.phase /\ a.seq = b.seq /\ a.entity < b.entity

Precedes(a, b) ==
    \/ a.tick < b.tick
    \/ a.tick = b.tick /\ a.phase < b.phase
    \/ a.tick = b.tick /\ a.phase = b.phase /\ a.entity < b.entity
    \/ a.tick = b.tick /\ a.phase = b.phase /\ a.entity = b.entity /\ a.seq < b.seq

Key(e) == [tick |-> e.tick, phase |-> e.phase, entity |-> e.entity,
           seq |-> e.seq, kind |-> e.kind]

Pop(e, kind) ==
    /\ mode = "running"
    /\ e.kind = kind
    /\ e.tick <= Stop
    /\ \A h \in heap \ {e} : Precedes(e, h)
    /\ now' = e.tick
    /\ UNCHANGED arrives

Done(e, followups) ==
    /\ trace' = Append(trace, Key(e))
    /\ heap' = (heap \ {e}) \cup followups
    /\ mode' = "running"

\* An exception in a handler propagates out of run() and of the simulation,
\* whose queues and kernel are then unreachable: what the handler had already
\* changed does not matter.
Abort(e) ==
    /\ heap' = heap \ {e}
    /\ mode' = "failed"
    /\ UNCHANGED <<trace, queues>>

ArrivalHandler(e) ==
    /\ Pop(e, "packet_arrival")
    /\ IF EnqueueRaises(queues[e.entity], e.tick, e.packet, TRUE)
       THEN Abort(e)
       ELSE /\ queues' = [queues EXCEPT ![e.entity] = Enqueue(@, e.tick, e.packet, TRUE)]
            /\ Done(e, {})

DeadlineHandler(e) ==
    /\ Pop(e, "packet_deadline")
    /\ IF ExpireRaises(queues[e.entity], e.tick, e.packet)
       THEN Abort(e)
       ELSE /\ queues' = [queues EXCEPT ![e.entity] = Expire(@, e.tick, e.packet)]
            /\ Done(e, {})

CensorHandler(e) ==
    /\ Pop(e, "censor_at_stop")
    /\ IF StaleTick(queues[e.entity], e.tick)
       THEN Abort(e)
       ELSE /\ queues' = [queues EXCEPT ![e.entity] = Censor(@, e.tick)]
            /\ Done(e, {})

\* Mutant of Finish: the stop tick is exclusive.
FinishBeforeStop ==
    /\ mode = "running"
    /\ \A h \in heap : h.tick >= Stop
    /\ mode' = "done"
    /\ now' = Stop
    /\ UNCHANGED <<arrives, queues, heap, trace>>

\* run() returns when nothing at or before the stop is pending.
Finish ==
    /\ mode = "running"
    /\ \A h \in heap : h.tick > Stop
    /\ mode' = "done"
    /\ now' = Stop
    /\ UNCHANGED <<arrives, queues, heap, trace>>

-----------------------------------------------------------------------------
(* Properties of every simulation.                                         *)

\* No handler raises on the queues' account (what a policy may raise is a
\* matter of module Schedulers): in the order the kernel dispatches, the queues'
\* "changed outside the service contract", non-monotonic time, early expiry,
\* overdue service and duplicate-reservation errors are unreachable, although
\* deadlines fall between a reservation and its completion.
NeverFails == mode # "failed"

\* The run returns, and then every generated packet has ended: nothing is
\* left queued, and nothing was forgotten by the traffic schedule.
Drains ==
    <>(mode = "done" /\ \A p \in Packets : queues[BearerOf[p]].cause[p] \in Terminal)
=============================================================================
