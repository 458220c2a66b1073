----------------------------- MODULE SlotService -----------------------------
(***************************************************************************)
(* Slots: at its start a cell commits PRBs to UEs and reserves the bits    *)
(* they will carry; at its end the reservations are completed.  The two    *)
(* simulations differ in who may be scheduled and in what the PRBs can     *)
(* carry, and share the rest: experiments/simulation.py is cited here, and *)
(* experiments/dynamic_simulation.py repeats it.                           *)
(*                                                                         *)
(* The scheduler is any policy whose decisions pass validate_decision, so  *)
(* the properties hold under every policy; module Schedulers checks that   *)
(* each policy of the program is one.                                      *)
(***************************************************************************)
EXTENDS PacketPipeline

CONSTANT Prbs  \* radio.prb_count

ASSUME SlotAssumption == Prbs \in Nat \ {0}

VARIABLE intervals  \* runtime.intervals, a record per completed slot of a cell

SlotStart(c, k) ==
    EventOf(k * Slot, SchedulingPhase, c, k, "scheduling", 0, NoWork)
SlotEnd(c, k, work) ==
    EventOf((k + 1) * Slot, ServicePhase, c, k, "service_completion", 0, work)

Slots == 0..((Stop \div Slot) - 1)

-----------------------------------------------------------------------------
(* What the scheduling handlers read, and the order in which a UE's        *)
(* packets are promised capacity.                                          *)

QueuedBits(u) ==
    Sum([b \in Bearers |-> IF UeOf[b] = u THEN queues[b].queued ELSE 0], NumBearers)

\* Mutant of Older: bearer by bearer.
OlderByBearer(o, p) ==
    \/ BearerOf[o] < BearerOf[p]
    \/ BearerOf[o] = BearerOf[p] /\ arrives[o] < arrives[p]
    \/ BearerOf[o] = BearerOf[p] /\ arrives[o] = arrives[p] /\ o < p

\* The order of _oldest_packet_first_capacity: arrival tick, bearer, packet.
Older(o, p) ==
    \/ arrives[o] < arrives[p]
    \/ arrives[o] = arrives[p] /\ BearerOf[o] < BearerOf[p]
    \/ arrives[o] = arrives[p] /\ BearerOf[o] = BearerOf[p] /\ o < p

QueuedInUe(u) == {p \in Packets : UeOf[BearerOf[p]] = u
                                  /\ queues[BearerOf[p]].cause[p] = "active"}

\* The bits of capacity that the walk over a UE's packets selects for p.
Selected(u, capacity, p) ==
    LET older == {o \in QueuedInUe(u) : Older(o, p)}
        left  == capacity - Total([o \in Packets |->
                     IF o \in older THEN queues[BearerOf[o]].remaining[o] ELSE 0])
    IN  IF p \in QueuedInUe(u) THEN Clamp(left, queues[BearerOf[p]].remaining[p]) ELSE 0

\* Mutant of BearerCapacity: each bearer is given the UE's capacity.
BearerCapacityAlone(b, capacity) == Clamp(capacity, queues[b].queued)

BearerCapacity(b, capacity) ==
    Total([p \in Packets |->
        IF BearerOf[p] = b THEN Selected(UeOf[b], capacity, p) ELSE 0])

\* validate_decision: positive PRBs for observed UEs only, within the cell.
\* A UE that is not allocated has 0.
ValidDecisions(observed) ==
    {d \in [Ues -> 0..Prbs] :
        /\ \A u \in Ues : d[u] > 0 => u \in observed
        /\ Sum(d, NumUes) <= Prbs}

\* Bits each bearer gets when the UEs get this capacity; _service_plan
\* reserves those that are positive.
Share(capacity, b) == BearerCapacity(b, capacity[UeOf[b]])

PlanOf(capacity, t) ==
    {[bearer |-> b, reservation |-> Planned(queues[b], t, t + Slot, Share(capacity, b))] :
        b \in {b \in Bearers : Share(capacity, b) > 0}}

-----------------------------------------------------------------------------
(* The two handlers.                                                       *)

\* The scheduling handler past its choice of UEs and capacities.
Commit(e, observed, prbs, capacity) ==
    LET granted == {b \in Bearers : Share(capacity, b) > 0}
        work    == [eligible |-> observed, prbs |-> prbs, capacity |-> capacity,
                    plan |-> PlanOf(capacity, e.tick)]
    IN  /\ IF \E b \in granted :
                 ReserveRaises(queues[b], e.tick, e.tick + Slot, Share(capacity, b))
           THEN Abort(e)
           ELSE /\ queues' = [b \in Bearers |->
                       IF b \in granted
                       THEN Reserve(queues[b], e.tick, e.tick + Slot, Share(capacity, b))
                       ELSE queues[b]]
                /\ Done(e, {SlotEnd(e.entity, e.seq, work)})
        /\ UNCHANGED intervals

PlanOfBearer(plan, b) == {s \in plan : s.bearer = b}
ReservationOf(plan, b) == (CHOOSE s \in PlanOfBearer(plan, b) : TRUE).reservation

\* Mutant of ServedBits: the promise is reported.
ReservedBits(plan, b) ==
    IF PlanOfBearer(plan, b) = {} THEN 0 ELSE Total(ReservationOf(plan, b).items)

\* consumed_bits of the completion of b's reservation.
ServedBits(plan, b) ==
    IF PlanOfBearer(plan, b) = {} THEN 0
    ELSE Total(Drawn(queues[b], ReservationOf(plan, b)))

\* SchedulingIntervalRecord: lost are the UEs whose state at completion has
\* no capacity.
IntervalOf(e, lost) ==
    [start    |-> e.seq * Slot,
     end      |-> e.tick,
     cell     |-> e.entity,
     eligible |-> e.work.eligible,
     outage   |-> e.work.eligible \cap lost,
     prbs     |-> e.work.prbs,
     capacity |-> e.work.capacity,
     served   |-> [b \in Bearers |-> ServedBits(e.work.plan, b)]]

ServiceHandler(e, lost) ==
    /\ Pop(e, "service_completion")
    /\ IF \E s \in e.work.plan : CompleteRaises(queues[s.bearer], s.reservation)
       THEN /\ Abort(e)
            /\ UNCHANGED intervals
       ELSE /\ queues' = [b \in Bearers |->
                   IF PlanOfBearer(e.work.plan, b) = {} THEN queues[b]
                   ELSE Complete(queues[b], ReservationOf(e.work.plan, b))]
            /\ intervals' = intervals \cup {IntervalOf(e, lost)}
            /\ Done(e, {})

-----------------------------------------------------------------------------
(* Properties of every slotted simulation.                                 *)

PendingServices == UNION {e.work.plan : e \in heap}

\* A packet that completes does so by its deadline, though
\* complete_reserved_service never looks at deadlines; one that expires does
\* so at its deadline, and not while service that ends by then is pending:
\* the phase order alone decides the tie (TIME-005, TIME-006).
DeadlinesKept ==
    \A b \in Bearers, p \in Packets :
        DeadlineTick[p] # NoTick =>
            /\ queues[b].cause[p] = "completed" => queues[b].terminal[p] <= DeadlineTick[p]
            /\ queues[b].cause[p] = "deadline_expired"
                  => /\ queues[b].terminal[p] = DeadlineTick[p]
                     /\ \A s \in PendingServices :
                           s.reservation.items[p] > 0
                           => s.reservation.completion > DeadlineTick[p]

\* A packet is in the plan of at most one slot, so a bit is never promised
\* twice and the second completion never finds it gone.
PlannedOnce ==
    \A s, r \in PendingServices : \A p \in Packets :
        s.reservation.items[p] > 0 /\ r.reservation.items[p] > 0 => s = r

\* Oldest first across the bearers of a UE: the split over bearers by
\* arrival order and the queues' own FIFO plans agree, so that a packet is
\* reserved only when every older packet of the UE still queued is
\* reserved in full.
OldestFirst ==
    \A e \in heap : \A s \in e.work.plan : \A p, o \in Packets :
        /\ s.reservation.items[p] > 0
        /\ UeOf[BearerOf[o]] = UeOf[BearerOf[p]] /\ arrives[o] < arrives[p]
        /\ queues[BearerOf[o]].cause[o] = "active"
        => \E r \in e.work.plan : r.reservation.items[o] = queues[BearerOf[o]].remaining[o]

\* A slot's plan wastes nothing and promises nothing twice: over its
\* bearers, each UE is promised its capacity or all its queued bits,
\* whichever is less, and a UE without PRBs nothing.
Promised(e, u) ==
    Sum([b \in Bearers |-> IF UeOf[b] = u THEN ReservedBits(e.work.plan, b) ELSE 0],
        NumBearers)
WorkConserving ==
    [][\A e \in heap' \ heap : \A u \in Ues :
          Promised(e, u) = IF e.work.prbs[u] = 0 THEN 0
                           ELSE Clamp(e.work.capacity[u], QueuedBits(u))]_<<pipeline, intervals>>

=============================================================================
