----------------------------- MODULE Association -----------------------------
(***************************************************************************)
(* Association and availability of one UE, advanced by the association     *)
(* handler of experiments/dynamic_simulation.py at every slot with the     *)
(* machines of AssociationOps.  UEs do not influence each other here: the  *)
(* reference powers and the SINR the UE measures are arbitrary.            *)
(*                                                                         *)
(* Times are in slots, of which the normalizer makes every configured time *)
(* a multiple; decibel values are integers.                                *)
(***************************************************************************)
EXTENDS AssociationOps, Sequences, FiniteSets

CONSTANTS
    NumCells,
    Levels,  \* reference powers a cell may be measured at
    Sinrs,   \* serving SINRs that may be measured
    OutageThreshold, RecoveryThreshold,
    Stop     \* slots in the run

Cells == 1..NumCells

ASSUME AssociationAssumption ==
    /\ NumCells \in Nat \ {0}
    /\ Levels \subseteq Int /\ Sinrs \subseteq Int
    /\ OutageThreshold \in Int /\ RecoveryThreshold \in Int
    /\ RecoveryThreshold > OutageThreshold
    /\ Stop \in Nat

VARIABLES
    tick,       \* the latest association tick, Never before the first
    ho,         \* HandoverState, serving NoCell before the first tick
    av,         \* AvailabilityState
    available,  \* available_for_scheduling in the UE's latest frame
    moves,      \* history: the handovers executed, oldest first
    entered,    \* history: entered[c], since when c has been entered
    best,       \* history: best[c], since when c has been the entered best
    above,      \* history: since when some neighbour has been above Leave
    low, high   \* history: since when the SINR has been low, has been high
vars == <<tick, ho, av, available, moves, entered, best, above, low, high>>

Init ==
    /\ tick = Never
    /\ ho = ServedBy(NoCell)
    /\ av = Settled(FALSE)
    /\ available = FALSE
    /\ moves = <<>>
    /\ entered = [c \in Cells |-> Never]
    /\ best = [c \in Cells |-> Never]
    /\ above = Never
    /\ low = Never /\ high = Never

-----------------------------------------------------------------------------
(* The handler, with measurements m[c] at this tick.                       *)

NextTick(t) == t = tick + 1 /\ t < Stop /\ tick' = t

\* Mutant of UpdateAvailability: the interruption read before the handover.
UpdateAvailabilityStale(t, sinr) ==
    LET isLow  == sinr <= OutageThreshold
        isHigh == sinr >= RecoveryThreshold
    IN  /\ av' = NextAvailability(av, t, isLow, isHigh)
        /\ available' = Reachable(ho, av', t)
        /\ low' = Since(low, isLow, t)
        /\ high' = Since(high, isHigh, t)

\* The handler updates availability after the handover, with the SINR of the
\* cell that serves by then.
UpdateAvailability(t, sinr) ==
    LET isLow  == sinr <= OutageThreshold
        isHigh == sinr >= RecoveryThreshold
    IN  /\ av' = NextAvailability(av, t, isLow, isHigh)
        /\ available' = Reachable(ho', av', t)
        /\ low' = Since(low, isLow, t)
        /\ high' = Since(high, isHigh, t)

\* What an observer of the measurements knows at this tick.
EnteredAt(t, m, c) ==
    IF c \notin Neighbours(ho, m) \/ Delta(ho, m, c) < Leave THEN Never
    ELSE IF entered[c] = Never /\ Delta(ho, m, c) > Enter THEN t
    ELSE entered[c]
BestAt(t, m, c) ==
    Since(best[c], c \in Neighbours(ho, m) /\ c = Best(ho, m) /\ Entered(ho, m), t)
AboveAt(t, m) ==
    Since(above, \E c \in Neighbours(ho, m) : Delta(ho, m, c) >= Leave, t)

Observe(t, m) ==
    /\ entered' = [c \in Cells |-> EnteredAt(t, m, c)]
    /\ best' = [c \in Cells |-> BestAt(t, m, c)]
    /\ above' = AboveAt(t, m)

\* The first tick: the strongest cell serves.
Associate(t, m) ==
    /\ ho.serving = NoCell
    /\ ho' = ServedBy(Strongest(m, Cells))
    /\ UNCHANGED <<moves, entered, best, above>>

\* Later ticks, by the outcome of NextHandover: handover_executed, ...
Execute(t, m) ==
    /\ ho.serving # NoCell /\ NumCells > 1
    /\ Triggered(ho, t, m)
    /\ ho' = NextHandover(ho, t, m)
    /\ moves' = Append(moves, [tick |-> t, from |-> ho.serving, to |-> Best(ho, m),
                               entered |-> EnteredAt(t, m, Best(ho, m)),
                               above |-> AboveAt(t, m)])
    /\ entered' = [c \in Cells |-> Never]
    /\ best' = [c \in Cells |-> Never]
    /\ above' = Never

\* ... and no handover.
Stay(t, m) ==
    /\ ho.serving # NoCell
    /\ NumCells > 1 => ~Triggered(ho, t, m)
    /\ ho' = NextHandover(ho, t, m)
    /\ Observe(t, m)
    /\ UNCHANGED moves

Next ==
    \E t \in 0..Stop, m \in [Cells -> Levels], sinr \in Sinrs :
        /\ NextTick(t)
        /\ Associate(t, m) \/ Execute(t, m) \/ Stay(t, m)
        /\ UpdateAvailability(t, sinr)

Spec == Init /\ [][Next]_vars

-----------------------------------------------------------------------------
(* Properties.                                                             *)

Moves == DOMAIN moves

TypeOK ==
    /\ tick \in Nat \cup {Never}
    /\ ho \in HandoverStates(Cells)
    /\ ho.pending = NoCell <=> ho.since = Never
    /\ ho.pending = NoCell \/ ho.pending # ho.serving
    /\ av \in AvailabilityStates
    /\ available \in BOOLEAN
    /\ \A i \in Moves : moves[i].tick \in 0..tick

\* A handover is never hasty: successive ones are at least the time to
\* trigger plus one slot apart, and over the whole time to trigger before
\* one some neighbour has been above the leave threshold.
NeverHasty ==
    \A i \in Moves :
        /\ moves[i].above # Never /\ moves[i].tick - moves[i].above >= TimeToTrigger
        /\ i > 1 => moves[i].tick - moves[i - 1].tick > TimeToTrigger

\* "The candidate shall remain continuously entered for the configured
\* time-to-trigger before handover" (DYN-HO-002): the cell taken had been
\* entered, without leaving, for that long.
ContinuousEntry ==
    \A i \in Moves :
        moves[i].entered # Never /\ moves[i].tick - moves[i].entered >= TimeToTrigger

\* Nor is it late: no neighbour stays the strongest, above the entry
\* threshold, for the time to trigger without being taken, whatever other
\* candidate was pending when it appeared (DYN-HO-002).
NeverLate ==
    \A c \in Cells : best[c] # Never => tick - best[c] < TimeToTrigger

\* The counters of the state machine, which survive each rebuilding of the
\* state, count the history: handovers, and those that return to the cell
\* the previous one left, within the window (DYN-HO-004).
CountsHistory ==
    /\ ho.count = Len(moves)
    /\ ho.pingPong = Cardinality({i \in Moves \ {1} :
                        /\ moves[i].to = moves[i - 1].from
                        /\ moves[i].tick - moves[i - 1].tick <= PingPongWindow})

\* Outage begins and ends only on a full dwell: it is entered if the SINR
\* has been low all through the outage dwell, and left if it has been high
\* all through the recovery dwell, across handovers and earlier outages
\* (DYN-AVL-001, DYN-AVL-002).
DwellComplete ==
    [][/\ ~av.outage /\ av'.outage => low' # Never /\ tick' - low' >= OutageDwell
       /\ av.outage /\ ~av'.outage => high' # Never /\ tick' - high' >= RecoveryDwell]_vars

\* Nor is either put off: no full dwell passes without the transition,
\* although each transition forgets the timer of the other direction.
DwellPrompt ==
    /\ av.outage => high = Never \/ tick - high < RecoveryDwell
    /\ ~av.outage => low = Never \/ tick - low < OutageDwell

\* A UE is never offered to the scheduler during the interruption of any of
\* its handovers, even when a later one began within it, nor in outage, and
\* is offered otherwise (DYN-HO-003, DYN-AVL-003).
OfferedWhenReachable ==
    tick # Never =>
        (available <=> /\ ~av.outage
                       /\ \A i \in Moves : tick >= moves[i].tick + Interruption)
=============================================================================
