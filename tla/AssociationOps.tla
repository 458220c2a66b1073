---------------------------- MODULE AssociationOps ----------------------------
(***************************************************************************)
(* The two state machines of a UE's association (radio/dynamic.py) as      *)
(* operators on their states: update_handover_state, A3-inspired with      *)
(* time-to-trigger, service interruption and ping-pong counting, and       *)
(* update_availability_state, with hysteresis and dwell times.  Module     *)
(* Association checks them alone, DynamicPipeline runs them in every slot. *)
(*                                                                         *)
(* Measurements are a function from cells to integer decibel values; the   *)
(* SINR enters as the truth of its two comparisons.                        *)
(***************************************************************************)
EXTENDS Integers

CONSTANTS
    Offset, Hysteresis, \* offset_db, hysteresis_db
    TimeToTrigger, Interruption, PingPongWindow,
    OutageDwell, RecoveryDwell  \* *_time_to_trigger_ns of the availability

\* load_normalized_dynamic_radio.
ASSUME TimersAssumption ==
    /\ Offset \in Int /\ Hysteresis \in Nat
    /\ \A d \in {TimeToTrigger, Interruption, PingPongWindow,
                 OutageDwell, RecoveryDwell} : d \in Nat

NoCell == 0   \* None; cells are numbered in the lexical order of their names
Never  == -1  \* Python's None for a tick

Enter == Offset + Hysteresis
Leave == Offset - Hysteresis

\* How long a condition has held at tick t, given since when it had before.
Since(since, holds, t) == IF ~holds THEN Never ELSE IF since = Never THEN t ELSE since

-----------------------------------------------------------------------------
(* HandoverState.                                                          *)

HandoverStates(cells) ==
    [serving : cells \cup {NoCell}, pending : cells \cup {NoCell},
     since : Nat \cup {Never}, previous : cells \cup {NoCell},
     last : Nat \cup {Never}, until : Nat, count : Nat, pingPong : Nat]

ServedBy(c) ==
    [serving |-> c, pending |-> NoCell, since |-> Never,
     previous |-> NoCell, last |-> Never, until |-> 0, count |-> 0, pingPong |-> 0]

\* Sorted by power, ties by identifier.
Strongest(m, cells) ==
    CHOOSE c \in cells : \A d \in cells \ {c} : m[c] > m[d] \/ (m[c] = m[d] /\ c < d)

Neighbours(h, m) == DOMAIN m \ {h.serving}
Best(h, m)       == Strongest(m, Neighbours(h, m))
Delta(h, m, c)   == m[c] - m[h.serving]

\* Mutant of PendingSince: the wait starts again at every tick.
PendingRestarts(h, t, n) == t

\* Since when n is pending, once it is found strongest and entered.
PendingSince(h, t, n) == IF h.pending = n THEN h.since ELSE t

\* Mutant of Returns: the end of the window is excluded.
ReturnsWithin(h, t, n) ==
    h.previous = n /\ h.last # Never /\ t - h.last < PingPongWindow

Returns(h, t, n) ==
    h.previous = n /\ h.last # Never /\ t - h.last <= PingPongWindow

Entered(h, m) == Delta(h, m, Best(h, m)) > Enter
Left(h, m)    == ~Entered(h, m) /\ Delta(h, m, Best(h, m)) < Leave
Triggered(h, t, m) ==
    Entered(h, m) /\ t - PendingSince(h, t, Best(h, m)) >= TimeToTrigger

HandedOver(h, t, n) ==
    [serving |-> n, pending |-> NoCell, since |-> Never,
     previous |-> h.serving, last |-> t, until |-> t + Interruption,
     count |-> h.count + 1,
     pingPong |-> IF Returns(h, t, n) THEN h.pingPong + 1 ELSE h.pingPong]

\* a3_entered, or a candidate that goes on waiting.
Waiting(h, t, n) == [h EXCEPT !.pending = n, !.since = PendingSince(h, t, n)]

\* Mutant of Cancelled: the candidate is kept.
CancelledKept(h) == h

\* a3_cancelled, which also finds nothing to cancel.
Cancelled(h) == [h EXCEPT !.pending = NoCell, !.since = Never]

NextHandover(h, t, m) ==
    IF Neighbours(h, m) = {} THEN h
    ELSE IF Triggered(h, t, m) THEN HandedOver(h, t, Best(h, m))
    ELSE IF Entered(h, m) THEN Waiting(h, t, Best(h, m))
    ELSE IF Left(h, m) THEN Cancelled(h)
    ELSE h

\* The kind of the HandoverTransition, if there is one, and its ping_pong.
HandoverKinds(h, t, m) ==
    IF Neighbours(h, m) = {} THEN {}
    ELSE IF Triggered(h, t, m)
         THEN {"handover_executed"} \cup {k \in {"ping_pong"} : Returns(h, t, Best(h, m))}
    ELSE IF Entered(h, m) /\ h.pending # Best(h, m) THEN {"a3_entered"}
    ELSE IF Left(h, m) /\ h.pending # NoCell THEN {"a3_cancelled"}
    ELSE {}

-----------------------------------------------------------------------------
(* AvailabilityState: low says the SINR is at or below the outage          *)
(* threshold, high at or above the recovery threshold.                     *)

AvailabilityStates ==
    [outage : BOOLEAN, outageSince : Nat \cup {Never}, recoverySince : Nat \cup {Never}]

Settled(outage) == [outage |-> outage, outageSince |-> Never, recoverySince |-> Never]

OutageTimer(a, t, low) == Since(a.outageSince, low, t)

\* Mutants of RecoveryTimer: a dip does not stop the timer, or every tick
\* starts it again.
RecoveryTimerThroughDips(a, t, high) ==
    IF a.recoverySince # Never THEN a.recoverySince ELSE Since(Never, high, t)
RecoveryTimerRestarts(a, t, high) == Since(Never, high, t)

RecoveryTimer(a, t, high) == Since(a.recoverySince, high, t)

EntersOutage(a, t, low) ==
    ~a.outage /\ low /\ t - OutageTimer(a, t, low) >= OutageDwell
LeavesOutage(a, t, high) ==
    a.outage /\ high /\ t - RecoveryTimer(a, t, high) >= RecoveryDwell

NextAvailability(a, t, low, high) ==
    IF EntersOutage(a, t, low) THEN Settled(TRUE)
    ELSE IF LeavesOutage(a, t, high) THEN Settled(FALSE)
    ELSE IF a.outage THEN [a EXCEPT !.recoverySince = RecoveryTimer(a, t, high)]
    ELSE [a EXCEPT !.outageSince = OutageTimer(a, t, low)]

\* The kind of the AvailabilityTransition, if there is one.
AvailabilityKinds(a, t, low, high) ==
    IF EntersOutage(a, t, low) THEN {"outage_entered"}
    ELSE IF LeavesOutage(a, t, high) THEN {"outage_recovered"}
    ELSE {}

\* available_for_scheduling of a frame; _is_available says the same.
Reachable(h, a, t) == ~a.outage /\ t >= h.until
=============================================================================
