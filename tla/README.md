# A verification of the 5G NR RAN simulator in TLA+

The simulator in `src/src/nr_ran_sim` is a deterministic discrete-event program
in Python: an event kernel drives bearer queues, packet schedulers and radio
state machines through slots of downlink service. A simulation runs in one
thread; what is hard about it is the *order* of events, the *age* of what one
handler plans and a later one carries out, and the bookkeeping that has to
survive both. Around it, an experiment runs many simulations in a pool of
threads and publishes their results through the file system, where processes
race, are killed, and files change. The modules here model that logic, TLC
checks it on small instances, and TLAPS proves most of what the runs check for
every instance: of the queue, the kernel, the policies, the handover machine, both
slotted simulations, the traffic run, and the publication of evidence.

Paths below are relative to `src/src/nr_ran_sim`, docs to `src/docs`.

## The system

| component | code | state | operations | what makes it correct | modelled in |
|---|---|---|---|---|---|
| event kernel | `kernel/` | heap, pending keys, last key, clock, handlers, trace | `register_handler`, `schedule`, `run` | one total order of events; nothing runs twice, in the past, or is left behind at the stop | Kernel |
| bearer queue | `traffic/queue.py`, `domain/packets.py` | deque, packet states, cached occupancy, served bits, ids of reservations | `apply` of five commands, `reserve_service`, `complete_reserved_service` | ledger balances; FIFO; bounds; a plan is realised once, on what is still there | BearerQueueOps, BearerQueue |
| static pipeline | `experiments/simulation.py` | kernel, queues, scheduler, interval records | arrival, deadline, scheduling, service, censoring handlers | plans survive what happens before their completion; deadlines; oldest first; every packet ends | PacketPipeline, SlotService, SlotPipeline |
| schedulers | `mac/` | cursor per cell, average rate per UE | `decide`, `record_service` | valid decisions, fairness over cycles, no failure | Schedulers |
| handover, availability | `radio/dynamic.py` | per UE: serving and pending cell, timers, counters, outage and its timers; positions | `update_handover_state`, `update_availability_state`, reflection, blockage, activity-coupled SINR | neither hasty nor late; dwell times; availability matches reachability | AssociationOps, Association, DynamicPipeline |
| dynamic pipeline | `experiments/dynamic_simulation.py` | the above, links, previous and current active PRBs, frames | topology, association, scheduling, service and the shared handlers | one consistent view of radio state per slot | DynamicPipeline |
| traffic sources | `traffic/sources.py` | random streams | `packets` | time order, progress, deadlines after arrivals | TrafficMechanics |
| traffic mechanics | `traffic/simulation.py` | kernel, queues | grants as service events | as the pipeline, with immediate service | TrafficMechanics |
| random streams | `experiments/seeds.py` | streams and owners | `acquire` | one owner per stream | TrafficMechanics |
| link and capacity | `radio/tbs.py`, `link_adaptation.py`, `nr_tables.py`, `capacity.py`, `resources.py` | none | pure functions | size monotone in resources and SINR | LinkCapacity |
| KPIs | `metrics/` | none | aggregation of packets and intervals | every packet and bit counted once, on the right side of the windows | Kpis |
| orchestration | `experiments/orchestration.py` | run cells, worker pool, staging directory, output | `execute_experiment` | all or nothing at the output, bounded memory, records in their order | Orchestration |
| statistics, plots | `experiments/statistics.py`, `reporting/svg.py` | files of the bundle | `summarize_experiment`, `generate_experiment_plots` | compares like with like, from rows that hold | Statistics, Evidence |
| evidence | `reporting/evidence.py`, `experiments/verification.py` | staging directory, snapshot | `publish_evidence_snapshot` | publishes only what verifies | Evidence |
| experiment configuration, identity | `experiments/config.py`, `identity.py` | none | validation, expansion, hashing | one cell per combination | - |
| propagation, topology | `radio/propagation.py`, `link.py`, `snapshot.py`, ... | none | floating-point formulas | numeric | - |
| scenario configuration | `config/` | none | validation | rejects what the rest assumes away | - |
| reporting, CLI | `reporting/portfolio.py`, `cli/` | none | text output | - | - |

**How they interact.** Everything happens inside `DeterministicKernel.run`: it
pops the least event in the order *(tick, phase, entity, sequence)*, calls the
handler of its kind, appends the outcome to the trace and schedules the
follow-ups. The handlers share one runtime record: the queues and the scheduler
in the static pipeline, and also the handover, availability and activity state
in the dynamic one. A scheduling event at a slot's start asks the policy for
PRBs, turns each UE's PRBs into bits, splits the bits over the UE's bearers
oldest packet first and *reserves* them in each queue; a follow-up at the
slot's end *completes* the reservations and reports to the policy. Arrivals and
deadlines fall in between. In the dynamic pipeline each slot first moves the UEs,
evaluates their links against what the cells allocated in the slot before, and runs
each UE's handover and availability machines. An exception anywhere ends the run.

`experiment-run` hands the cells of a plan to worker threads and writes each
outcome into a staging directory as it comes in; one rename promotes the directory
to the output. `experiment-summarize`, `experiment-plot` and `experiment-publish`
later read it, append to it, verify it and copy a snapshot. These commands share
nothing but the file system.

**What is hard.** (1) A reservation is a plan about a queue that has changed by
the time it is realised. (2) Events at
one tick are ordered by phase numbers alone: completion before deadline before
arrival before scheduling before censoring. (3) The queue keeps counters that
repeat what its packets say. (4) The handover machine has one pending candidate
while the strongest neighbour changes under it. (5) Policies keep state
about sets of UEs that change between decisions. (6) A slot is planned, served and
reported in three handlers, while the radio state they read is replaced between the
second and the third. (7) Grants given in advance are joined, ordered and refused
before the run they are for. (8) Workers finish in any order, processes are killed between two
steps, and two invocations may name the same output. (9) A bundle is verified by digests that
cover parts of files, and copied after that without another look. `PROJECT.json` lists each such
hazard at its line, with the properties aimed at it.

## The modules

`A <- B` reads "B extends A"; a module under *proofs* extends the one it is about.
PipelineProofs also extends PacketProofs, which has what every simulation does with its
queues and what the two slotted ones have in common.

```
component                                          instance for TLC     proofs
---------                                          ----------------     ------
Sums                                                                    SumsProofs
  <- BearerQueueOps                                                     BearerQueueOpsProofs
       <- BearerQueue                              MCBearerQueue        ComponentProofs
            INSTANCE PacketLine (refinement)
  <- Schedulers                                    (itself)             SchedulersProofs
Kernel                                             MCKernel             ComponentProofs
AssociationOps <- Association                      (itself)             AssociationProofs

PacketPipeline (INSTANCE BearerQueueOps)                                PacketProofs
  <- SlotService                                                        PacketProofs
  |    <- Kpis <- SlotPipeline                     MCSlotPipeline       PipelineProofs
  |                   |       INSTANCE Kernel (refinement)              PipelineProofs
  |                   <- DynamicPipeline           MCDynamicPipeline    PipelineProofs
  |                        (with AssociationOps, LinkCapacity)
  <- TrafficMechanics                              MCTrafficMechanics   PacketProofs

Orchestration <- Statistics <- Evidence            MCEvidence           EvidenceProofs
```

* **Sums**: sums over `1..n` as a recursive *function*, so that proofs may use it, and sums
  over a set.
* **BearerQueueOps**: the queue as a record and each method of `BearerQueue` as
  an operator from a queue to the queue it leaves, with a second operator that
  says when it raises. A method that raises half way leaves what it had done:
  immediate service stops at an overdue packet, and a completion at the first
  item that no longer matches, and both keep the earlier items' effects.
  The deque is a set with ranks, which is all its order is used for. A
  reservation is the bits it reserves of each packet with its two ticks and its
  capacity; two plans with the same content are the same reservation, as they
  have the same id in the program. Python's `None` is `NoTick`/`NoLimit`.
* **BearerQueue**: any caller of these methods in any order; one action per
  command. `drawn` is a history variable: the bits taken by each reservation.
* **PacketLine**: what a queue promises, with none of its bookkeeping.
* **Kernel**: heap, known keys, handlers, trace and clock of
  `DeterministicKernel`, and `until`, which is `-1` outside `run()`. One action
  per iteration of the loop by the way it ends: handler missing, handler raises,
  or result traced and follow-ups scheduled up to the first one rejected. The
  heap is the set it stands for. `known` joins the pending keys to those already
  processed, `lost` are events whose dispatch raised.
* **PacketPipeline**: what every simulation shares: an array of queues, the
  kernel's heap, trace and clock, the events scheduled before the run, and the
  arrival, deadline and censoring handlers. `Pop` takes the least event in the
  kernel's order. An exception sets `mode` to `failed`.
* **SlotService**: the scheduling and service handlers of the two slotted
  simulations: split over bearers, reservation, completion, interval record. The
  policy is *any* choice that `validate_decision` accepts, and traffic any arrival
  pattern in time order, so what holds does not depend on either.
* **Kpis**: the report of a finished run as reductions of packets and intervals:
  groups, cohort by arrival, service by slot end, resources by slot start, outcome
  ratios, delays, percentiles, jitter, Jain's index as a fraction. A packet's place in a
  sorted list is the number of those before it.
* **SlotPipeline**: the static simulation: serving cells and capacities are fixed.
* **LinkCapacity**: SINR to CQI to MCS, and the transport block size by the
  standard's tables, quantisation and code blocks, in integers.
* **AssociationOps**: `update_handover_state` and `update_availability_state` as
  operators on their states.
* **Association**: one UE of the dynamic simulation, slot by slot; each action is
  one call of the association handler by the branch it takes, followed by the
  availability update. Powers and SINR are small integers. `moves`, `entered`,
  `best`, `above`, `low` and `high` are history variables that no guard reads.
* **DynamicPipeline**: the dynamic simulation: motion with reflection, links with
  beams, blockage and fades, activity-coupled interference, the two machines for
  each UE, and scheduling by them, on SlotService's queues. Powers are integer
  levels of 3 dB, so that a sum of powers is a sum of powers of two. `frames` and
  `transitions` are the program's records.
* **TrafficMechanics**: each bearer's source emits packets until the window is
  full (`Open`, `Emit`, `Close`), having acquired its streams; then grants are
  merged per bearer and tick and become events, or are refused, and the run serves
  them at once. What a source draws is any value its distribution allows.
* **Schedulers**: the three policies; the caller offers any set of backlogged UEs
  with any rates and reports any service for the slot before. Averages are exact
  fractions, as Decimal arithmetic is at these sizes.
* **Orchestration**: invocations of `experiment-run`, each with a thread pool that
  is handed cells in order and completes them in any order (`Take`), the write of
  one outcome (`Write`), the composition of the bundle, its rename and the failure
  policy. `Crash` kills an invocation between any two steps.
* **Statistics**: which runs each estimate and paired comparison of a summary is of.
* **Evidence**: what follows a published bundle: summary, plots, and publication by
  several publishers, with edits of any file at any moment. A file has a *body*, which
  digests cover, and a *rest*, which none does: the times and the environment in
  `bundle.json`, and all of the manifest but the design and the base scenario
  (`verification.py:23-53`). Both are editions, 1 as written and higher once edited. A
  digest stands for the edition of the body it was computed from: `cites` has those a
  file records of others, `fits` says whether its own is right. An edit of a body may
  leave every digest as it was, or bring up to date the file's own, those it records of
  others, or both (`Changes`); so `bundle.json` may be digested anew and COMPLETE
  rewritten to match, which verifies.

**The grain of Orchestration and Evidence.** A cell comes to the same outcome in
each invocation, as a simulation is deterministic. A command reads its inputs and
writes its outputs in one step, except for the work of the pool and for
`experiment-publish`, which verifies the record (`VerifyRecord`), verifies the reports
(`VerifyReports`), reads `bundle.json` again and copies file by file (`Copy`), and renames
(`PromoteSnapshot`); an edit may fall before any of these steps and not within one.
The summary and the plots each test for their file in the step that writes it, so two
summaries at one time (`statistics.py:97-103`) are outside this grain. Analysis starts
when no invocation is at work. A bundle edited to say so counts as complete; what a
summary makes of edited files is left open. The directory a killed process leaves has a random name;
nothing looks into it. A rename onto a directory with files fails, which is what
`Path.replace` does on POSIX systems.

## What the runs check

| run | instance | properties | question it answers |
|---|---|---|---|
| `queue_fifo` | 3 packets of 1, 2, 1 bits; at most 2 packets and 3 bits; ticks 0..1; 1 reservation | `Ledger`, `WithinLimits`, `Implements` | does the ledger balance, do the bounds hold, and is the queue a PacketLine under all command orders? |
| `queue_reserve` | 2 packets; ticks 0..2; 2 overlapping reservations; bit bound only | `TimelineOrdered`, `ReservationsKept` | are timelines in order and plans kept when they complete late, in any order, half, or twice? |
| `kernel` | 5 events, two with one key and different kinds; up to 2 follow-ups; stops up to 2 | `TraceOrdered`, `PendingAhead`, `ExactlyOnce`, `RunReachesStop` | is there one order, nothing twice, nothing behind, nothing left at the stop, also after exceptions and over several runs? |
| `slot_pipeline` | 5 packets on 4 bearers of 3 UEs in 2 cells, 2 PRBs, slots of 2 ticks to tick 6, all arrival patterns and valid decisions | `NeverFails`, `DeadlinesKept`, `PlannedOnce`, `OldestFirst`, `Reported`, `WorkConserving`, `Drains`, `KernelSteps` | do plans survive their slot, does every packet end, does the report add up, and is every step one of the kernel's? |
| `schedulers` | 3 UEs, 2 cells, 5 PRBs, rates 0 and 1, weights 1/2 and 1 | `DecisionsValid`, `FairCycles`, `FailsOnlyAtAlphaOne` | are decisions valid, cycles fair, and does only weight one fail? |
| `pf_alpha_one` | 3 UEs, weight 1, 2 updates | `AlwaysDecides` | *violated*: proportional fair divides by zero |
| `rr_cursor` | 3 UEs, 1 cell | `CursorAdvancesOneUe` | *violated*: the cursor does not advance by one UE when the set changes |
| `association` | 3 cells, 3 power levels, 3 SINR levels, 7 slots, time to trigger 1, interruption 3, window 2, dwells 1 and 2 | `NeverHasty`, `NeverLate`, `CountsHistory`, `DwellPrompt`, `DwellComplete`, `OfferedWhenReachable` | are handovers and outages neither early nor late, and are the scheduler's candidates the reachable UEs? |
| `continuous_entry` | as above, time to trigger 2, SINR fixed | `ContinuousEntry` | *violated*: a target need not have been continuously entered |
| `dynamic_pipeline` | 2 UEs with 3 bearers, 2 cells, 2 PRBs, 6 slots, 4 positions, blockages and fades | `InterferenceIsPrevious`, `IntervalsMatchFrames`, `WithinEstimate`, `MotionFollowsClock`, `DynamicReported` | is a slot planned, served and reported on one view of the radio, through handovers and outages? |
| `evidence` | 2 invocations with 1 or 3 workers, 4 cells, 2 publishers, 2 edits of 11 kinds, symmetric in both kinds of process | `AllOrNothing`, `InFlightBounded`, `SnapshotVerified`, `ComparesLikeWithLike`, `PublishedOnce` | is the output whole or absent, is a snapshot founded on COMPLETE and copied as verified, does a summary compare like with like? |
| `traffic` | 3 bearers with a source of each type, up to 9 packets, 69 sequences of grants | `RefusesOnlyBadInput`, `SourcesFillTheWindow`, `GrantsUsed`, `Ends` | is only bad input refused, do sources fill their window, and is no granted bit lost? |

Some properties say more than their name. `Reported` of the static run relates the
report to itself and to the queues: the four outcomes account for every packet of
every group's cohort, successes are deliveries, delays contain whole slots of
service, no percentile or jitter exceeds what the deadline allows, and the bits of
all intervals, warm-up and drain included, are those the queues served.
`DynamicReported` says the same of the dynamic run, that the run did not fail, and that
the transitions counted are the changes between frames and the counters of the state
machines. The other properties of the static run
hold in the dynamic one too, by theorem.
`WithinEstimate` is about the composition of two numeric parts: fewer PRBs have no
worse SINR against cells that fill the band from below, yet may never carry more
than the policy was shown for all of them. `KernelSteps` is the refinement: under the
mapping that forgets payloads, each step of the static pipeline is a step of Kernel, so
what is proved of Kernel's steps holds of the pipeline's trace.
`InFlightBounded` bounds the outcomes that are not written yet; the pool's set of completed
futures (`orchestration.py:168-173`) may refer to written ones a little longer.

`SnapshotVerified` says what a published snapshot is evidence of, and no more. As long as
COMPLETE is the program's, the bodies of the record that was verified are the program's
and no run failed, however many files were edited. In each file that did not change since
its verification, the copy is what was verified, and the plots are of the summary beside
them. The run reaches what it leaves open, and the code allows: a snapshot whose
environment or times were edited (they have no digest); one of a `bundle.json` digested
anew together with COMPLETE; and one with a file that was edited between `verify_experiment_bundle`
and the copy, as nothing compares the copies with what was verified
(`evidence.py:27-37`).

**Bounds, and why they are enough.** The queue logic compares ticks and takes
minima of bits: two ticks give "before" and "at", a packet of two bits gives
partial service, three packets a middle one, and the limits are one below what
the packets need, so overflow happens on both. Two reservations overlap, are
completed in either order, twice, and by a foreign queue. The kernel's events
include all ways to differ in the key and two that do not differ. The static pipeline
has a UE with two bearers (the split), a cell with two UEs (the competition), a second
cell (the order of entities), a deadline at a slot boundary (the tie), one within a
slot and one at the stop, a UE for which one PRB is worth nothing, and a measurement
window with a slot before and one after it. Five PRBs over one, two or three UEs
give remainders 0, 1 and 2. In Association the interruption is longer than the time to
trigger, so a second handover begins inside the interruption of the first, and two
neighbours compete while a third cell serves. In DynamicPipeline one UE crosses its range
and turns within every update, a handover becomes due while a plan is pending, updates
come in every other slot so that the activity must move without one, and the other UE
loses both cells for two slots and regains one. In Evidence three workers are fewer
than the cells and one is the serial path; the plan's order differs from the records';
one cell fails, lacks a metric or its value, repeats an identity or differs in its
inputs, or two fail, or one fails and one lacks the value.
Two edits are the fewest that deceive the verification: `bundle.json` with its digest, and
COMPLETE. They also change a file between its verification and its copy, or what no digest
covers. `MCChanges` has, for each file, the edit that leaves most digests fitting, and
some that are noticed at once. The symmetry of the invocations and of the publishers is
sound here: the properties name none of them, and none is about liveness.
The grants share ticks, miss slots, follow the stop, name nobody or have no capacity.

Named bounds: `MaxTick`, `MaxCapacity`, `MaxReservations` on the commands of
BearerQueue; `MaxUntil`, `MaxFollowups` of Kernel; `MaxUpdates` on the averages in
Schedulers; `MaxDraw` on a Poisson source's interval; `MaxEdits` of Evidence;
`Stop` and `ArrivalTicks` of the simulations; `NumPackets`, which is also the
safety budget of the sources.

**Deadlock.** `CHECK_DEADLOCK FALSE` stands where the system stops: after a
simulation returned, refused its input or raised, after a policy raised or its updates
are used up, after the last slot. Queue, Kernel, round robin and Evidence are checked for it.

**Fairness.** SlotPipeline, DynamicPipeline and TrafficMechanics state weak
fairness of their next-state relation. A simulation is one loop in one thread, which
goes on until it returns or raises; nothing can overtake it. `Drains` and `Ends` are
checked under it. Evidence states none: a process may be killed at any point, and what it
promises then is safety.

## What is proved

The runs are of instances; these theorems hold for every value of the constants
under the named assumptions, which are what constructors and configuration check:
`QueueAssumption`, `LimitAssumption` (`traffic/queue.py:126-155`: some bound is set),
`KernelAssumption`, `SchedulerAssumption`, `TimersAssumption`, `AssociationAssumption`,
`PipelineAssumption` (`experiments/simulation.py:642-655`: the run's boundaries are whole
slots), `SlotAssumption`,
`StaticAssumption`, `DynamicAssumption` (bounds of motion and the tables of levels, gains
and fades are integers, as the model has them; there is a cell, `config/models.py:151`, and each cell has at least one beam and
finitely many, `config/dynamic.py:350`; there are finitely many blockages; channel updates
are whole slots), `CapacityAssumption`,
`SourceAssumption` (`config/normalize.py`: periods, means and bounds of intervals are
positive, as validation has them), `PlanAssumption` and `ReferenceAssumption` (`experiments/config.py:247-313`,
`experiments/orchestration.py:80-85`: the plan
is a full factorial design of distinct cells, the reference one of its schedulers),
`ResultsAssumption`, `WorkersAssumption`, `ChangesAssumption` (an edit is of a file).

| module | theorems | of the runs' properties |
|---|---|---|
| ComponentProofs, queue | `TypeCorrect`, `LedgerHolds`, `QueueImplementsLine`, `BoundsHold`, `TimelinesOrdered`, `ReservationsAreKept` | `Ledger`, `Implements`, `WithinLimits`, `TimelineOrdered`, `ReservationsKept` |
| ComponentProofs, kernel | `KernelTypes`, `TraceIsOrdered`, `NothingPendingBehind`, `EventsProcessedOnce`, `RunsReachTheirStop` | `TraceOrdered`, `PendingAhead`, `ExactlyOnce`, `RunReachesStop` |
| SchedulersProofs | `WeightsBelowOneDecide`, `EveryDecisionValid`, `EveryCycleFair` | `FailsOnlyAtAlphaOne`, `DecisionsValid`, `FairCycles` |
| AssociationProofs | `AssociationTypes`, `HandoversNeverHasty`, `HandoversNeverLate`, `CountersCountHistory`, `DwellsArePrompt`, `DwellsAreComplete`, `OffersAreReachable` | `NeverHasty`, `NeverLate`, `CountsHistory`, `DwellPrompt`, `DwellComplete`, `OfferedWhenReachable` |
| PipelineProofs, static | `PipelineInvariant`, `PipelineTraced`, `PipelineNeverFails`, `PipelineDeadlinesKept`, `PipelinePlannedOnce`, `PipelineOldestFirst`, `PipelineWorkConserving`, `PipelineDrained`, `PipelineRunsInKernel`, `PipelineServiceWithin`, `PipelineReportHolds` | `NeverFails`, `DeadlinesKept`, `PlannedOnce`, `OldestFirst`, `WorkConserving`, `KernelSteps`, `Reported` |
| PipelineProofs, dynamic | `DynamicInvariant`, `DynamicNeverFails`, `DynamicDeadlinesKept`, `DynamicPlannedOnce`, `DynamicOldestFirst`, `DynamicWorkConserving`, `DynamicRadio`, `DynamicInterference`, `DynamicIntervals`, `DynamicMotion`, `DynamicMotionFollowsClock`, `DynamicEstimates`, `DynamicWithinEstimate`, `DynamicServiceWithin`, `DynamicTransitions`, `DynamicReportHolds` | the first five of these, and `InterferenceIsPrevious`, `IntervalsMatchFrames`, `MotionFollowsClock`, `WithinEstimate`, `DynamicReported` |
| PacketProofs, traffic | `TrafficInvariant`, `TrafficRefusals`, `TrafficFillsTheWindow`, `TrafficGrantsUsed` | `RefusesOnlyBadInput`, `SourcesFillTheWindow`, `GrantsUsed` |
| EvidenceProofs | `MemoryIsBounded`, `PublishedOnlyOnce`, `OutputIsWhole`, `SnapshotIsFaithful`, `ComparisonsAreFair` | `InFlightBounded`, `PublishedOnce`, `AllOrNothing`, `SnapshotVerified`, `ComparesLikeWithLike` |

* **BearerQueueOpsProofs** holds what the commands do to one queue value, so that the
  queue on its own and the queues of a simulation rest on the same lemmas: one lemma
  per effect (`ConsumeSound`, `TerminateSound`, `EnqueueSound`) and one per command.
  `Sound` is the invariant under `Ledger`, which is not inductive: the deque is exactly the
  packets without a terminal cause, a packet's remaining bits lie between one and its
  payload while it is queued, ranks are distinct, and the number of offers is the number
  of packets known. The step that needs it: a completion subtracts from the cached
  occupancy, which stays a natural number only because what it draws is at most what
  is left of queued packets, however old the plan is. `FifoReservations`: a reservation
  promises everything ahead of a packet it names at least what is left there. Nothing
  between planning and completion can undo this, as packets only lose bits or leave, and
  join behind. Hence a late completion still serves from the head of the line: it raises
  before it could overtake a packet.
* **ComponentProofs: queue.** `QueueImplementsLine` is the refinement of PacketLine.
  `QInv` adds `Orderly` (the ticks of each packet against the
  queue's clock; packets named by a plan were queued and in service at its start;
  the limits in terms of the cached counter) and `DrawnOnce`: of a reservation not
  yet completed, whatever was drawn exhausted its packet. The queue keeps no
  record of the items a failed completion has realised, so a retry goes through them
  again; by `FifoReservations` each of them was the whole of its packet, and there is
  nothing left to take.
* **ComponentProofs: kernel.** The invariant is the conjunction of the properties with
  `LastIsLatest`: the key remembered is the greatest of the trace. It is the follow-up
  check in `schedule` that keeps it.
* **SchedulersProofs.** `AverageInv`: averages are fractions, positive where the
  weight is below one; averaging keeps a positive part of what it replaces.
  `EveryDecisionValid` counts place by place that round robin gives out every PRB, and finds
  the winner of the other two by a least counterexample; products of rates and averages
  are compared as fractions. `CycleInv` says how many PRBs each UE has had since the
  eligible set last changed: its equal part, and one for each time it was among the
  first places, which over a cycle is the remainder.
* **AssociationProofs.** The machines keep one timer each, the properties speak of how
  long conditions have held. `AvailabilityInv`: the timer that runs *is* the observer's.
  `HandoverInv`: `PendingWitnessed`, while a candidate is pending some neighbour has
  been above the leaving threshold since before its time began; `BestIsPending`, a
  neighbour that has been the entered best is the one pending, and has been for at
  least as long; `LastMoveHeld`, the record of the last handover is the last move. That
  the strongest neighbour exists and is unique under ties is itself a lemma
  (`StrongestExists`), by a least counterexample over the cells.
* **PacketProofs: plans.** `PipelineInv` says of every packet that the heap holds
  exactly the events still due to it (its arrival while it is absent, its expiry while it
  is queued, its bearer's censoring until the stop) and of every pending completion that
  it is of the running slot, the only one of its cell, and that its queue can still
  realise it (`Intact`: what a reservation names has ended or has at least that much left).
  What makes it inductive is the order of phases: a slot's completion comes before the expiries
  of its tick and before the next slot's start, so no packet is promised
  twice and none expires while promised. `NeverFails`, `DeadlinesKept`, `PlannedOnce`
  and `PipelineDrained`, the safety half of `Drains` (a run that has returned has ended
  every packet), follow. The policy is any that passes `validate_decision`, which
  `EveryDecisionValid` shows the three policies to do.
* **PacketProofs: order.** The program shares out a UE's capacity over its packets by
  arrival, sums what falls to each bearer, and lets each queue plan that many bits in its own
  order. `PlanAgrees`: queue and walk choose the same bits of the same packets. So the
  oldest are served first (`OldestFirst`), and what the bearers are promised adds
  up to the UE's capacity or backlog (`WorkConserving`).
* **PipelineProofs: kernel.** `PipelineRunsInKernel` is the refinement of Kernel, step by
  step: a handler that runs is a dispatch, with the follow-up accepted. It is, because
  nothing processed is as late as a slot's end (`Traced`) and the completion of a
  slot is never pending while its start is.
* **PipelineProofs: dynamic.** `PipelineInv` is stated over the cell that serves
  each UE, and handovers change it only when nothing is promised: the completions of a
  slot come before the next association. Capacities are computed, so
  `CapacityIsSize` first shows that the tables, the quantisation and the code-block
  arithmetic always yield a number of bits. `RadioInv`: frames are in the order of the slots,
  the slots in service are those of the last frame and agree with the state it
  recorded, and what a cell has allocated is handed on to the next topology.
  `MotionInv`: each UE is on its path, folded into its range, as of the last update; `FoldMoves`
  is the arithmetic of one update over any number of turns, and `UpdateTimes`
  relates the updates, which come every few slots, to the clock.
* **PipelineProofs: estimates.** `WithinEstimate` composes two facts. A narrower allocation
  that starts at the bottom of the band has no better SINR: a neighbour that fills its band
  from below overlaps it in a part that only grows as it shrinks (`OverlapShrinks`, for
  *x min(y, a) <= y min(x, a)* whenever *x >= y*). And the bits grow with the SINR and with the
  PRBs (`CapacityGrows`, in PacketProofs): the rows of the MCS table are ordered by the
  product of order and rate that the size depends on, quantisation rounds within an octave
  of powers of two, and code blocks are cut into whole bytes, also where low rates change the
  size of a block. `EstimateInv` says that the estimates and the interference a plan is made
  from are those of one topology: what the other cells have allocated meanwhile
  counts for the next one.
* **PipelineProofs: report.** The report is a pure function of the final state, but what it
  says rests on invariants of the whole run. `PacketsInSlots`: each first service
  is a slot's start and each completion a slot's end. `PlansWithin`: the plan of a pending
  completion promises each UE at most what it may carry. `BooksInv`: a cell has at most one
  interval for each slot over and done with, and a bearer's intervals carry the bits its
  queue has served; a completion adds to both. From these, over any set of
  packets: each place in the order of the delays is taken by one packet (`Sorted`: the
  number of those before it is a bijection), a percentile lies between the samples
  around its position and grows with it, and Jain's index is at most one (the inequality of
  Cauchy and Schwarz over sums on sets).
* **PipelineProofs: transitions.** `TransitionsInv` relates the log to the frames: a
  handover or an outage is recorded in a slot when, and only when, its frame differs
  so from the one before, and the machines' counters are the numbers recorded.
  It takes that the strongest cell is one of the cells, and that a handover is always
  to another cell. The counts in the window are then
  those of frames, by the bijection of a frame and its slot; the slots in which a UE is
  eligible map one to one to frames in which it is available, for only the cell that serves
  it in the frame has it as eligible (`EligibleCounted`).
* **PacketProofs** holds what every simulation shares: what a handler's call does to one
  queue of the array, the arithmetic of a link's capacity, the traffic run, and the slots
  of the static and the dynamic simulation.
* **PacketProofs: traffic.** `TrafficInv` has a part for each phase of the program. While the
  sources generate, each has filled its time up to its clock (`Filled`): its packets are in
  strict order and no gap exceeds its longest interval. In the run the heap holds the
  events still due, and the grants not yet served. `Kept`: while a packet is queued,
  its bearer has been served all that was granted since the packet arrived, for what a
  grant leaves unused it leaves for want of packets. An expiry comes before the
  grant of its tick and a censoring after it, by the order of the phases. `TrafficRefusals`
  needs that each stream belongs to one bearer, and that no handler
  raises on the packets a source can have emitted.
* **EvidenceProofs.** `PublishedOnlyOnce` because every writer tests for the output in
  the step that writes it: the early test of `execute_experiment`, which is stale by
  then, is not needed. `MemoryIsBounded` because the pool is refilled by one for each one
  taken; a single worker never has one pending while one is written. `OutputIsWhole`
  from an account of the cells handed out (`Dealt`): each is noted in the staging directory,
  in hand or pending, once, and a bundle is composed when nothing is in hand or pending; the records
  are sorted by a bijection. `SnapshotIsFaithful` from the chain of digests that starts in
  COMPLETE: a file whose body is as written records the digests as written (`RecordKept`),
  so what verifies with the COMPLETE of the program has the bodies of the program, one
  file after the other (`RecordFounded`). That a file is what was verified is known at the
  copy and must be so still when the property looks: editions only grow (`NextKeeps`,
  `GrowsOn`), so a file that is what was read never was another in between. Nothing is
  claimed of the rest of a file beyond that.
  `ComparisonsAreFair` from the factorial design: a pair of a stratum is determined
  by either of its runs.
* **SumsProofs**: sums over `1..n` and over sets without an induction theorem: if two sums
  differed there would be a least counterexample, and the step from the one before
  it contradicts that. The other inductions are by the same device (`LeastNumber`).

**Only model-checked**, and why:

* Liveness under fairness (`Drains`, `Ends`), which is beyond the prover; of `Drains` the
  safety half is `PipelineDrained`.

## Where program and documentation disagree

* **Proportional fair at weight one** (`mac/policies.py:146`, run `pf_alpha_one`).
  The weight 1 is allowed by the constructor and the schema. An eligible UE that
  a slot does not serve then averages to zero, and the next `decide` that sees it
  raises a division error. `FailsOnlyAtAlphaOne` checks that this is the only way.
* **Round robin cursor** (`mac/policies.py:58`, run `rr_cursor`).
  `docs/mac/scheduling-qos-and-kpis.md` says the cursor advances by one UE. It is
  an index modulo the number of UEs eligible at the moment: after a decision over
  one UE it is back at 0. With an unchanged set the promise holds (`FairCycles`).
* **Continuous entry** (`radio/dynamic.py:432`, run `continuous_entry`).
  `docs/requirements/dynamic-radio-requirements.md` (DYN-HO-002) requires the
  candidate to remain continuously entered. The code looks at the strongest
  neighbour only: while another one is strongest and between the thresholds, a pending
  candidate may drop below the leaving threshold and keeps its time. What does hold
  is `NeverHasty`: some neighbour was above that threshold all along.

## Not modelled

* **Propagation, link budget, topology drops** (`radio/propagation.py`, `link.py`,
  `snapshot.py`, `topology.py`, `geometry.py`): floating-point formulas without
  state; TLC has no reals. DynamicPipeline takes their results as tables over positions,
  and the correlated shadow as any fade of a small set.
* **Scenario and experiment configuration** (`config/`, `experiments/config.py`):
  validation of input without state. What it guarantees are the modules' assumptions;
  the expansion of a design is the constant `Plan`.
* **Identity, hashing, canonical JSON, seeds**: a digest is the edition of what it
  covers, and a derived seed determines nothing here, as any draw is allowed.
* **Statistics in numbers**: means, bootstrap intervals, rates by duration. Which runs
  and bits they are of is modelled.
* **Rendering and CLI** (`reporting/portfolio.py`, the drawing in `reporting/svg.py`,
  `cli/`), log records, exception texts: output without state.

In the parts modelled, diagnostics and the serialisation of results are left out. So are
the sources' refusal of ticks beyond 64 bits, and the underflow of a proportional-fair
average with a weight below one, which exact fractions do not have.
The traffic run repeats three handlers of the static one (`traffic/simulation.py`);
PacketPipeline stands for both.

## Plan

1. *Done*: queue, kernel, policies, association; the static, dynamic and traffic runs
   with KPIs and link capacity; orchestration, statistics and evidence; proofs of the
   queue, kernel, policies, association, the three simulations and evidence.
2. *Done*: the reports of both simulations (Kpis), as theorems of whole runs.
3. Model: the expansion of a design into `Plan` with its refusal of duplicates; two
   summaries at one time; a crash within the writing of a report.
