--------------------------- MODULE DynamicPipeline ---------------------------
(***************************************************************************)
(* The dynamic-radio simulation (experiments/dynamic_simulation.py): at    *)
(* the start of each slot a topology event moves the UEs and evaluates     *)
(* their links, an association event runs the handover and availability    *)
(* machines of each UE, and each cell then schedules the UEs that it       *)
(* serves and that are available, against the interference of the slot     *)
(* before.  Queues, plans and completions are those of SlotService.        *)
(*                                                                         *)
(* Powers are integer levels of 3 dB, so that sums in watts are sums of    *)
(* powers of two.  Path loss, antennas and the drawn shadowing are given:  *)
(* a table over positions, and any fade.                                   *)
(*                                                                         *)
(* Initial states, actions and report have names other than SlotPipeline's *)
(* (DynamicInit for Init), as PipelineProofs is about both simulations.    *)
(***************************************************************************)
EXTENDS Kpis, AssociationOps, LinkCapacity

CONSTANTS
    Start,          \* Start[u]: initial position and velocity of UE u on its axis
    Lower, Upper,   \* motion bounds
    UpdateInterval, \* channel.update_interval_ns
    InitialActive,  \* channel.initial_active_prbs
    PathLevel,      \* PathLevel[c][x]: level of cell c at position x, no beam
    BeamGain,       \* BeamGain[c][x]: the gains of c's beams towards x
    Blockages,      \* blockage_intervals, as records
    Fades,          \* Fades[u]: the shadow levels over the cells that may be drawn
    Noise,          \* noise power in one PRB
    OutageSinr,     \* outage_threshold_db as a linear ratio * 100
    RecoverySinr    \* recovery_threshold_db as a linear ratio * 100

\* load_normalized_dynamic_radio: channel updates and timers are whole slots,
\* and each cell has at least one beam.  A topology has at least one cell.
ASSUME DynamicAssumption ==
    /\ NumCells # 0
    /\ \A u \in Ues : Start[u].x \in Lower..Upper /\ Start[u].v \in Int
    /\ Lower \in Int /\ Upper \in Int /\ Lower < Upper
    /\ UpdateInterval \in Nat \ {0} /\ UpdateInterval % Slot = 0
    /\ InitialActive \in 0..Prbs
    /\ IsFiniteSet(Blockages) /\ \A b \in Blockages : b.start < b.end /\ b.loss \in Nat
    /\ \A c \in Cells, x \in Lower..Upper :
          /\ PathLevel[c][x] \in Int
          /\ BeamGain[c][x] \subseteq Int /\ BeamGain[c][x] # {} /\ IsFiniteSet(BeamGain[c][x])
    /\ \A u \in Ues : Fades[u] \subseteq [Cells -> Int]
    /\ Noise \in Nat \ {0} /\ OutageSinr < RecoverySinr
    /\ \A d \in {TimeToTrigger, Interruption, OutageDwell, RecoveryDwell} : d % Slot = 0

VARIABLES
    motion,      \* runtime.motion
    shadow,      \* link_state[c, u].shadow_db
    links,       \* runtime.links_by_ue: the level of each cell at each UE
    handover,    \* runtime.handover
    availability,
    estimate,    \* full_capacity_by_ue: the bits of all PRBs, 0 without capacity
    previous,    \* previous_active_prbs
    current,     \* current_active_prbs
    frames,      \* runtime.frames, by slot
    transitions  \* handover_transitions and availability_transitions
radio == <<motion, shadow, links, handover, availability, estimate, frames, transitions>>
dynamicVars == <<pipeline, intervals, radio, previous, current>>

TopologyPhase == 30
AssociationPhase == 50

\* The initial events: _schedule_events.
TopologyTick(k)    == EventOf(k * Slot, TopologyPhase, 0, k, "topology_control", 0, NoWork)
AssociationTick(k) == EventOf(k * Slot, AssociationPhase, 0, k, "link_association", 0, NoWork)

DynamicEvents ==
    TrafficEvents(Bearers)
    \cup {TopologyTick(k) : k \in Slots} \cup {AssociationTick(k) : k \in Slots}
    \cup {SlotStart(c, k) : c \in Cells, k \in Slots}

DynamicInit ==
    /\ arrives \in ArrivalPatterns
    /\ queues = [b \in Bearers |-> EmptyQueue]
    /\ heap = DynamicEvents
    /\ trace = <<>> /\ now = 0 /\ mode = "running"
    /\ intervals = {}
    /\ motion = Start
    /\ shadow = [u \in Ues |-> [c \in Cells |-> 0]]
    /\ links = [u \in Ues |-> [c \in Cells |-> 0]]
    /\ handover = [u \in Ues |-> ServedBy(NoCell)]
    /\ availability = [u \in Ues |-> Settled(FALSE)]
    /\ estimate = [u \in Ues |-> 0]
    /\ previous = [c \in Cells |-> InitialActive]
    /\ current = [c \in Cells |-> 0]
    /\ frames = <<>>
    /\ transitions = {}

-----------------------------------------------------------------------------
(* Motion and links: _topology_handler.                                    *)

\* Mutant of Reflected: a path that crosses two bounds turns only once.
ReflectedOnce(m, elapsed) ==
    LET length    == Upper - Lower
        unwrapped == m.x - Lower + m.v * elapsed
    IN  IF m.v = 0 \/ elapsed = 0 THEN m
        ELSE IF unwrapped \in 0..length THEN [x |-> Lower + unwrapped, v |-> m.v]
        ELSE [x |-> Upper - (unwrapped % length), v |-> -m.v]

\* _reflect_axis: the segment of the unwrapped path says how often the UE has
\* turned; one that has come down to a bound belongs to the segment below.
Reflected(m, elapsed) ==
    LET length    == Upper - Lower
        unwrapped == m.x - Lower + m.v * elapsed
        touches   == unwrapped % length = 0 /\ m.v < 0
        segment   == IF touches THEN unwrapped \div length - 1 ELSE unwrapped \div length
        remainder == IF touches THEN length ELSE unwrapped % length
    IN  IF m.v = 0 \/ elapsed = 0 THEN m
        ELSE IF segment % 2 = 0 THEN [x |-> Lower + remainder, v |-> m.v]
        ELSE [x |-> Upper - remainder, v |-> -m.v]

\* explicit_blockage_state: the largest loss active in [start, end).
Blocked(u, c, t) ==
    Sets!Max({0} \cup {b.loss : b \in {b \in Blockages :
                      b.ue = u /\ b.cell = c /\ b.start <= t /\ t < b.end}})

\* select_horizontal_beam: the gain of the best configured beam.
BestGain(c, x) == Sets!Max(BeamGain[c][x])

\* _evaluate_link: path, best beam, shadow and blockage; a level below the
\* scale counts as its floor.
LevelOf(u, c, x, fade, t) ==
    Sets!Max({0, PathLevel[c][x] + BestGain(c, x) + fade - Blocked(u, c, t)})

\* A new fade is drawn at each update, and a UE that stands still keeps its own.
FadesAt(t) ==
    {f \in [Ues -> UNION {Fades[u] : u \in Ues}] :
        \A u \in Ues : /\ f[u] \in Fades[u]
                       /\ t > 0 /\ motion[u].v = 0 => f[u] = shadow[u]}

\* Mutant of Activity: the PRBs of the slot before are taken at updates only.
ActivityAtUpdates(t) ==
    IF t > 0 /\ t % UpdateInterval = 0 THEN current ELSE previous

Activity(t) == IF t > 0 THEN current ELSE previous

TopologyHandler(e) ==
    /\ Pop(e, "topology_control")
    /\ previous' = Activity(e.tick)
    /\ current' = [c \in Cells |-> 0]
    /\ IF e.tick % UpdateInterval = 0
       THEN /\ motion' = [u \in Ues |->
                    Reflected(motion[u], IF e.tick = 0 THEN 0 ELSE UpdateInterval)]
            /\ shadow' \in FadesAt(e.tick)
       ELSE UNCHANGED <<motion, shadow>>
    /\ links' = [u \in Ues |-> [c \in Cells |->
                    LevelOf(u, c, motion'[u].x, shadow'[u][c], e.tick)]]
    /\ Done(e, {})
    /\ UNCHANGED <<queues, intervals, handover, availability, estimate, frames, transitions>>

-----------------------------------------------------------------------------
(* SINR and capacity of an allocation.                                     *)

\* Mutant of Overlap: the neighbour's PRBs are counted from the top.
OverlapFromTop(prbs, active) ==
    IF active + prbs > Prbs THEN active + prbs - Prbs ELSE 0

\* Every cell fills its band from the lowest PRB.
Overlap(prbs, active) == Sets!Min({prbs, active})

\* calculate_activity_coupled_sinr.
Sinr(u, c, prbs) ==
    <<prbs * 2^links[u][c],
      prbs * Noise + Sum([d \in Cells |->
          IF d = c THEN 0 ELSE Overlap(prbs, previous[d]) * 2^links[u][d]], NumCells)>>

-----------------------------------------------------------------------------
(* _association_handler.                                                   *)

Associated(u, t) ==
    IF handover[u].serving = NoCell THEN ServedBy(Strongest(links[u], Cells))
    ELSE NextHandover(handover[u], t, links[u])

FullSinr(u, c) == Sinr(u, c, Prbs)
IsLow(sinr)    == 100 * sinr[1] <= OutageSinr * sinr[2]
IsHigh(sinr)   == 100 * sinr[1] >= RecoverySinr * sinr[2]

\* DynamicUeFrame.
FrameOf(u, t) ==
    [serving     |-> handover'[u].serving,
     outage      |-> availability'[u].outage,
     interrupted |-> t < handover'[u].until,
     available   |-> Reachable(handover'[u], availability'[u], t),
     estimate    |-> estimate'[u]]

TransitionsAt(u, t, sinr) ==
    {[tick |-> t, ue |-> u, kind |-> k] :
        k \in (IF handover[u].serving = NoCell THEN {}
               ELSE HandoverKinds(handover[u], t, links[u]))
              \cup AvailabilityKinds(availability[u], t, IsLow(sinr), IsHigh(sinr))}

AssociationHandler(e) ==
    /\ Pop(e, "link_association")
    /\ handover' = [u \in Ues |-> Associated(u, e.tick)]
    /\ LET sinr == [u \in Ues |-> FullSinr(u, handover'[u].serving)]
       IN  /\ availability' = [u \in Ues |->
                  NextAvailability(availability[u], e.tick, IsLow(sinr[u]), IsHigh(sinr[u]))]
           /\ estimate' = [u \in Ues |-> CapacityBits(sinr[u], Prbs)]
           /\ transitions' = transitions
                  \cup UNION {TransitionsAt(u, e.tick, sinr[u]) : u \in Ues}
    /\ frames' = Append(frames, [tick     |-> e.tick,
                                 previous |-> previous,
                                 ues      |-> [u \in Ues |-> FrameOf(u, e.tick)]])
    /\ Done(e, {})
    /\ UNCHANGED <<queues, intervals, motion, shadow, links, previous, current>>

-----------------------------------------------------------------------------
(* _scheduling_handler, and the handlers shared with the static simulation. *)

\* Mutant of ReachableCandidates: the interruption of a handover is not looked at.
CandidatesInterrupted(c, t) ==
    {u \in Ues : /\ handover[u].serving = c
                 /\ ~availability[u].outage
                 /\ QueuedBits(u) > 0}

ReachableCandidates(c, t) ==
    {u \in Ues : /\ handover[u].serving = c
                 /\ Reachable(handover[u], availability[u], t)
                 /\ QueuedBits(u) > 0}

PlannedBits(u, c, prbs) == IF prbs = 0 THEN 0 ELSE CapacityBits(Sinr(u, c, prbs), prbs)

DynamicScheduling(e, d) ==
    /\ Pop(e, "scheduling")
    /\ Commit(e, ReachableCandidates(e.entity, e.tick), d,
              [u \in Ues |-> PlannedBits(u, e.entity, d[u])])
    /\ current' = [current EXCEPT ![e.entity] = Sum(d, NumUes)]
    /\ UNCHANGED <<radio, previous>>

\* A completion reads the estimates as they are by then.
WithoutEstimate == {u \in Ues : estimate[u] = 0}

DynamicNext ==
    \/ \E e \in heap : TopologyHandler(e)
    \/ \E e \in heap : AssociationHandler(e)
    \/ \E e \in heap : e.kind = "scheduling"
           /\ \E d \in ValidDecisions(ReachableCandidates(e.entity, e.tick)) : DynamicScheduling(e, d)
    \/ \E e \in heap : ServiceHandler(e, WithoutEstimate) /\ UNCHANGED <<radio, previous, current>>
    \/ \E e \in heap : ArrivalHandler(e) /\ UNCHANGED <<intervals, radio, previous, current>>
    \/ \E e \in heap : DeadlineHandler(e) /\ UNCHANGED <<intervals, radio, previous, current>>
    \/ \E e \in heap : CensorHandler(e) /\ UNCHANGED <<intervals, radio, previous, current>>
    \/ Finish /\ UNCHANGED <<intervals, radio, previous, current>>

DynamicSpec == DynamicInit /\ [][DynamicNext]_dynamicVars /\ WF_dynamicVars(DynamicNext)

-----------------------------------------------------------------------------
(* _build_dynamic_kpis: transitions and frames in the measurement window.  *)

\* Mutant of CountOf: every transition counts.
CountOfAny(us, kind) == Cardinality({x \in transitions : x.ue \in us /\ InWindow(x.tick)})

\* The counts of a UE, or of all of them.
CountOf(us, kind) ==
    Cardinality({x \in transitions : x.ue \in us /\ x.kind = kind /\ InWindow(x.tick)})

MeasuredFrames == {i \in DOMAIN frames : InWindow(frames[i].tick)}

\* The numerators of the fractions: the UE-slot samples in a state.
FramesWith(us, state) == {s \in MeasuredFrames \X us : frames[s[1]].ues[s[2]][state]}

-----------------------------------------------------------------------------
(* Properties.                                                             *)

FrameAt(t) == frames[t \div Slot + 1]

\* The interference of a slot comes from what every cell allocated in the
\* slot before, whatever the order of the cells and of the channel updates,
\* and never from the slot itself (DYN-INT-002).
InterferenceIsPrevious ==
    \A f \in {frames[i] : i \in DOMAIN frames} : \A i \in intervals :
        i.end = f.tick => f.previous[i.cell] = Sum(i.prbs, NumUes)

\* A slot is planned and reported on one view of the radio: though its
\* completion comes after the next slot's tick began, its eligible UEs are
\* those the cell served and could reach in the frame of its start, and its
\* outages those without capacity in that frame.
IntervalsMatchFrames ==
    \A i \in intervals :
        LET f == FrameAt(i.start).ues
        IN  /\ \A u \in i.eligible : f[u].serving = i.cell /\ f[u].available
            /\ \A u \in Ues : i.prbs[u] > 0 => u \in i.eligible
            /\ i.outage = {u \in i.eligible : f[u].estimate = 0}

\* No allocation is promised more than the rate the policy was shown for all
\* PRBs: a narrower allocation has no better SINR, for the neighbours fill
\* the same PRBs first, and no larger transport block.
WithinEstimate ==
    \A i \in intervals, u \in Ues : i.capacity[u] <= FrameAt(i.start).ues[u].estimate

\* Motion is a function of time: after any number of updates a UE is where
\* a straight line folded at the bounds has it at the latest update.
Folded(x, v, t) ==
    LET length == Upper - Lower
        phase  == (x - Lower + v * t) % (2 * length)
    IN  IF phase <= length THEN Lower + phase ELSE Upper - (phase - length)

MotionFollowsClock ==
    \A i \in DOMAIN frames : i = Len(frames) /\ now = frames[i].tick =>
        \A u \in Ues :
            motion[u].x = Folded(Start[u].x, Start[u].v,
                                 (now \div UpdateInterval) * UpdateInterval)

\* A run that ends has returned, no plan having failed over a handover or an
\* outage.  In its report the transitions counted in the window are the
\* changes between its frames and the frame before, those of the whole run are
\* the counters of the state machines, and a UE is eligible in no more slots
\* than it counts as available.
DynamicReported ==
    mode # "running" =>
        /\ mode = "done"
        /\ PacketReport([u \in Ues |-> handover[u].serving])
        /\ ServiceReport
        /\ \A u \in Ues :
              LET Changes == {i \in MeasuredFrames \ {1} :
                                 frames[i].ues[u].serving # frames[i - 1].ues[u].serving}
                  Turned(was, is) == {i \in MeasuredFrames :
                                 /\ frames[i].ues[u].outage = is
                                 /\ (i > 1 /\ frames[i - 1].ues[u].outage) = was}
                  InRun(kind) == {x \in transitions : x.ue = u /\ x.kind = kind}
              IN  /\ CountOf({u}, "handover_executed") = Cardinality(Changes)
                  /\ CountOf({u}, "outage_entered") = Cardinality(Turned(FALSE, TRUE))
                  /\ CountOf({u}, "outage_recovered") = Cardinality(Turned(TRUE, FALSE))
                  /\ Cardinality(InRun("handover_executed")) = handover[u].count
                  /\ Cardinality(InRun("ping_pong")) = handover[u].pingPong
                  /\ Cardinality({i \in StartedIn(Cells) : u \in i.eligible})
                        <= Cardinality(FramesWith({u}, "available"))
        /\ FramesWith(Ues, "available") = (MeasuredFrames \X Ues) \
              (FramesWith(Ues, "outage") \cup FramesWith(Ues, "interrupted"))
=============================================================================
