---------------------------- MODULE SlotPipeline ----------------------------
(***************************************************************************)
(* The static-radio simulation (experiments/simulation.py): association    *)
(* and SINR are fixed for the run, so a UE's serving cell and the capacity *)
(* of its PRBs are constants, and every backlogged UE of a cell may be     *)
(* scheduled in every slot.  Traffic is any arrival pattern.               *)
(***************************************************************************)
EXTENDS Kpis

CONSTANTS
    CellOf,   \* CellOf[u]: the serving cell of UE u, fixed for the run
    Capacity  \* Capacity[u][n]: capacity_bits_per_interval of n PRBs

ASSUME StaticAssumption ==
    /\ CellOf \in [Ues -> Cells]
    /\ Capacity \in [Ues -> [0..Prbs -> Nat]]
    /\ \A u \in Ues : Capacity[u][0] = 0

vars == <<pipeline, intervals>>

\* _schedule_exogenous_events and _schedule_slot_events.
InitialEvents ==
    TrafficEvents(Bearers) \cup {SlotStart(c, k) : c \in Cells, k \in Slots}

Init ==
    /\ arrives \in ArrivalPatterns
    /\ queues = [b \in Bearers |-> EmptyQueue]
    /\ heap = InitialEvents
    /\ trace = <<>>
    /\ now = 0
    /\ mode = "running"
    /\ intervals = {}

Candidates(c) == {u \in Ues : CellOf[u] = c /\ QueuedBits(u) > 0}

SchedulingHandler(e, d) ==
    /\ Pop(e, "scheduling")
    /\ Commit(e, Candidates(e.entity), d, [u \in Ues |-> Capacity[u][d[u]]])

WithoutCapacity == {u \in Ues : Capacity[u][Prbs] = 0}

Next ==
    \/ \E e \in heap : ArrivalHandler(e) /\ UNCHANGED intervals
    \/ \E e \in heap : DeadlineHandler(e) /\ UNCHANGED intervals
    \/ \E e \in heap : e.kind = "scheduling"
           /\ \E d \in ValidDecisions(Candidates(e.entity)) : SchedulingHandler(e, d)
    \/ \E e \in heap : ServiceHandler(e, WithoutCapacity)
    \/ \E e \in heap : CensorHandler(e) /\ UNCHANGED intervals
    \/ Finish /\ UNCHANGED intervals

\* run() is one loop in one thread: it goes on until it returns or raises.
Spec == Init /\ [][Next]_vars /\ WF_vars(Next)

-----------------------------------------------------------------------------
(* Properties.                                                             *)

\* The report of a run that returned, whose UEs never changed cell.
Reported ==
    mode = "done" => PacketReport(CellOf) /\ ServiceReport

\* Each step of the pipeline is a step of the kernel: handlers schedule
\* only follow-ups the kernel accepts, and run in its order.
EventKeys ==
    {Key(EventOf(t, ArrivalPhase, BearerOf[p], p, "packet_arrival", p, NoWork)) :
        p \in Packets, t \in 0..Stop}
    \cup {Key(EventOf(t + Budget[BearerOf[p]], DeadlinePhase, BearerOf[p], p,
                      "packet_deadline", p, NoWork)) : p \in Packets, t \in 0..Stop}
    \cup {Key(Censoring(b)) : b \in Bearers}
    \cup {Key(SlotStart(c, k)) : c \in Cells, k \in Slots}
    \cup {Key(SlotEnd(c, k, NoWork)) : c \in Cells, k \in Slots}
KernelKinds == {"packet_arrival", "packet_deadline", "scheduling",
                "service_completion", "censor_at_stop"}
TracedKeys == {trace[i] : i \in DOMAIN trace}

K == INSTANCE Kernel WITH
        Events <- EventKeys,
        Kinds <- KernelKinds,
        MaxUntil <- Stop,
        MaxFollowups <- 1,
        heap <- {Key(e) : e \in heap},
        known <- {Key(e) : e \in heap} \cup TracedKeys,
        handlers <- KernelKinds,
        trace <- trace,
        last <- IF trace = <<>> THEN <<>> ELSE <<trace[Len(trace)]>>,
        now <- now,
        until <- IF mode = "running" THEN Stop ELSE -1,
        lost <- {}

KernelSteps == [][K!Next]_(K!vars)
=============================================================================
