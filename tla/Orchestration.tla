---------------------------- MODULE Orchestration ----------------------------
(***************************************************************************)
(* experiment-run: the cells of a factorial plan are executed by a bounded *)
(* pool, every outcome is written into a staging directory as it comes in, *)
(* and the staged bundle is promoted to the output path by one rename      *)
(* (experiments/orchestration.py).  Several invocations may name the same  *)
(* output path, and each may be killed between two steps.                  *)
(***************************************************************************)
EXTENDS Naturals, FiniteSets, SequencesExt

CONSTANTS
    Invocations,   \* processes that were given the same output directory
    Plan,          \* the cells, in the order the design is expanded
    Results,       \* what the cells may come to: a set of [Cells -> Kinds]
    WorkerCounts   \* worker counts an invocation may be given

Cells == Range(Plan)

\* What executing a cell comes to.  A simulation is deterministic, so a cell
\* comes to the same thing in every invocation.  "unmeasured" lacks a metric
\* the analysis selects, "valueless" has it without a value; "twin" has the run
\* identity of another twin, and "unpaired" other exogenous inputs than its
\* group: the identity and the configuration digests should rule both out, and
\* the code checks them.
Kinds == {"success", "valueless", "failure", "unmeasured", "twin", "unpaired"}

\* A full factorial design: a variant is named by the digest of its factor
\* levels, and runs in every replication.
ASSUME PlanAssumption ==
    /\ Plan \in Seq([variant : Nat, factors : Nat, replication : Nat])
    /\ IsInjective(Plan) /\ Plan # << >>
    /\ \A c, d \in Cells :
          /\ c.variant = d.variant => c.factors = d.factors
          /\ \E e \in Cells : e.variant = c.variant /\ e.replication = d.replication
ASSUME ResultsAssumption == Results \subseteq [Cells -> Kinds]
ASSUME WorkersAssumption == WorkerCounts \subseteq 1..64

VARIABLES
    result,     \* what each cell comes to
    failFast,   \* the failure policy is "fail-experiment"
    workers,    \* max_workers of each invocation
    pc,         \* how far each invocation is
    pending,    \* cells handed out whose outcome was not taken yet
    held,       \* the outcome taken from a worker and not yet written
    stage,      \* the staging directory of each invocation
    target      \* the output directory
vars == <<result, failFast, workers, pc, pending, held, stage, target>>

Absent      == [present |-> FALSE]
EmptyStage  == [present |-> TRUE, runs |-> << >>, failures |-> << >>]
Whole(i, b) == [present |-> TRUE, by |-> i, bundle |-> b]  \* its times and environment are of i
Leftover    == [present |-> TRUE]  \* of a killed process: nobody looks into it

Init ==
    /\ result \in Results /\ failFast \in BOOLEAN
    /\ workers \in [Invocations -> WorkerCounts]
    /\ pc      = [i \in Invocations |-> "idle"]
    /\ pending = [i \in Invocations |-> {}]
    /\ held    = [i \in Invocations |-> {}]
    /\ stage   = [i \in Invocations |-> Absent]
    /\ target  = Absent
------------------------------------------------------------------------------
RunId(c)     == IF result[c] = "twin" THEN Plan[1] ELSE c
Exogenous(c) == result[c] = "unpaired"
Group(c)     == <<c.factors, c.replication>>

\* _artifact_sort_key
Precedes(c, d) == \/ c.variant < d.variant
                  \/ c.variant = d.variant /\ c.replication < d.replication
\* list.sort: the records, no later one before an earlier one.
Sorted(records) ==
    LET order == CHOOSE p \in Bijection(DOMAIN records, DOMAIN records) :
                    \A j, k \in DOMAIN records :
                       j < k => ~Precedes(records[p[k]], records[p[j]])
    IN [k \in DOMAIN records |-> records[order[k]]]

\* bundle.json, as built from the outcomes written so far.
BundleFrom(runs, failures) ==
    [runs     |-> runs,
     failures |-> failures,
     missing  |-> Len(Plan) - Len(runs) - Len(failures),
     status   |-> IF Len(runs) = Len(Plan) THEN "complete" ELSE "partial"]
\* Mutant of BundleOf: the records stay in the order of completion.
BundleAsCompleted(s) == BundleFrom(s.runs, s.failures)
BundleOf(s) == BundleFrom(Sorted(s.runs), Sorted(s.failures))

\* The next n cells of the plan go to the workers, fewer if it runs out.
HandedOut(i) == IF ~stage[i].present THEN 0
                ELSE Len(stage[i].runs) + Len(stage[i].failures)
                     + Cardinality(held[i]) + Cardinality(pending[i])
NextCells(i, n) == {Plan[k] : k \in DOMAIN Plan \cap (HandedOut(i) + 1..HandedOut(i) + n)}
Submit(i, n, left) == pending' = [pending EXCEPT ![i] = left \cup NextCells(i, n)]

\* A single worker runs in the calling thread: the next cell starts when the
\* outcome of the last one has been written.  A pool is refilled as soon as
\* an outcome is taken.
Serial(i) == workers[i] = 1

\* The except clause: the stage goes, and nobody takes what workers still run.
Abort(i) ==
    /\ pc'      = [pc EXCEPT ![i] = "raised"]
    /\ stage'   = [stage EXCEPT ![i] = Absent]
    /\ pending' = [pending EXCEPT ![i] = {}]
    /\ held'    = [held EXCEPT ![i] = {}]
    /\ UNCHANGED <<workers, target>>

\* execute_experiment up to the first submissions: an existing output refuses.
Begin(i) ==
    /\ pc[i] = "idle"
    /\ \/ /\ target.present
          /\ pc' = [pc EXCEPT ![i] = "refused"]
          /\ UNCHANGED <<pending, stage>>
       \/ /\ ~target.present
          /\ pc' = [pc EXCEPT ![i] = "running"]
          /\ stage' = [stage EXCEPT ![i] = EmptyStage]
          /\ Submit(i, workers[i], {})
    /\ UNCHANGED <<workers, held, target>>

\* Mutant of Take: as many cells are submitted as there are workers.
TakeEager(i) ==
    /\ pc[i] = "running" /\ held[i] = {}
    /\ \E c \in pending[i] :
          /\ held' = [held EXCEPT ![i] = {c}]
          /\ Submit(i, workers[i], pending[i] \ {c})
    /\ UNCHANGED <<workers, pc, stage, target>>

\* A cell completes and its outcome is taken; workers complete in any order.
Take(i) ==
    /\ pc[i] = "running" /\ held[i] = {}
    /\ \E c \in pending[i] :
          /\ held' = [held EXCEPT ![i] = {c}]
          /\ Submit(i, IF Serial(i) THEN 0 ELSE 1, pending[i] \ {c})
    /\ UNCHANGED <<workers, pc, stage, target>>

\* The result's identity is that of a run already written.
Repeats(i, c) == /\ result[c] # "failure"
                 /\ \E d \in Range(stage[i].runs) : RunId(d) = RunId(c)

\* _metric_rows: the result lacks a metric the analysis selects.
LacksMetric(c) == result[c] = "unmeasured"

Noted(s, c) == IF result[c] = "failure" THEN [s EXCEPT !.failures = Append(@, c)]
                                        ELSE [s EXCEPT !.runs = Append(@, c)]

\* One turn of the loop of _write_bundle: a failure is noted, a result is
\* written unless its identity repeats, and must have the selected metrics.
Write(i) == \E c \in held[i] :
    \/ /\ ~LacksMetric(c)
       /\ ~Repeats(i, c)
       /\ stage' = [stage EXCEPT ![i] = Noted(@, c)]
       /\ held' = [held EXCEPT ![i] = {}]
       /\ Submit(i, IF Serial(i) THEN 1 ELSE 0, pending[i])
       /\ UNCHANGED <<workers, pc, target>>
    \/ /\ \/ LacksMetric(c)
          \/ Repeats(i, c)
       /\ Abort(i)

\* The rest of _write_bundle, once the outcomes are exhausted: the schedulers
\* of a group must have had the same inputs; bundle.json, then COMPLETE.
Compose(i) ==
    /\ pc[i] = "running" /\ held[i] = {} /\ pending[i] = {}
    /\ LET records == stage[i].runs
           unpaired == \E c, d \in Range(records) :
                          Group(c) = Group(d) /\ Exogenous(c) # Exogenous(d)
       IN \/ unpaired /\ Abort(i)
          \/ /\ ~unpaired
             /\ stage' = [stage EXCEPT ![i] = Whole(i, BundleOf(stage[i]))]
             /\ pc' = [pc EXCEPT ![i] = "composed"]
             /\ UNCHANGED <<workers, pending, held, target>>

\* Mutant of Promote: the output is replaced, there or not.
PromoteOver(i) ==
    /\ pc[i] = "composed"
    /\ target' = stage[i]
    /\ stage' = [stage EXCEPT ![i] = Absent]
    /\ pc' = [pc EXCEPT ![i] = IF failFast /\ stage[i].bundle.failures # << >>
                               THEN "retained" ELSE "returned"]
    /\ UNCHANGED <<workers, pending, held>>

\* stage.replace(target): the rename refuses a directory with files in it.
\* With the bundle in place, a failed cell still raises under "fail-experiment".
Promote(i) ==
    /\ pc[i] = "composed"
    /\ \/ target.present /\ Abort(i)
       \/ /\ ~target.present
          /\ target' = stage[i]
          /\ stage' = [stage EXCEPT ![i] = Absent]
          /\ pc' = [pc EXCEPT ![i] = IF failFast /\ stage[i].bundle.failures # << >>
                                     THEN "retained" ELSE "returned"]
          /\ UNCHANGED <<workers, pending, held>>

\* The process is killed: whatever is on disk stays there.
Crash(i) ==
    /\ pc[i] \in {"running", "composed"}
    /\ pc'      = [pc EXCEPT ![i] = "crashed"]
    /\ stage'   = [stage EXCEPT ![i] = Leftover]
    /\ pending' = [pending EXCEPT ![i] = {}]
    /\ held'    = [held EXCEPT ![i] = {}]
    /\ UNCHANGED <<workers, target>>
------------------------------------------------------------------------------
\* Every cell of the plan is accounted for once, in the order of the records.
WholeBundle(b) ==
    /\ Range(b.runs) = {c \in Cells : result[c] # "failure"}
    /\ Range(b.failures) = {c \in Cells : result[c] = "failure"}
    /\ b.missing = 0
    /\ \A records \in {b.runs, b.failures} :
          \A j, k \in DOMAIN records :
             j < k => Precedes(records[j], records[k])
    /\ b.status = "complete" <=> b.failures = << >>

\* All or nothing: whatever invocation wrote it, and whichever were killed or
\* lost the race, the output directory is absent or a whole bundle, in which
\* every cell of the plan is accounted for once, in the order of the records
\* and not of completion; and an invocation that ended by itself leaves no
\* staging directory behind.
\* (execute_experiment, _write_bundle: stage, compose, replace, rmtree)
AllOrNothing ==
    /\ target.present => WholeBundle(target.bundle)
    /\ \A i \in Invocations :
          /\ pc[i] \in {"refused", "raised", "retained", "returned"} => ~stage[i].present
          /\ pc[i] \in {"retained", "returned"} => target.present

\* Memory stays bounded by the workers: no more outcomes are unwritten than
\* there are workers and the one being written, and a single worker never
\* runs ahead of the writer (docs/TROUBLESHOOTING.md: bounded by active
\* workers; _execute_cells).
InFlightBounded == \A i \in Invocations :
    /\ Cardinality(pending[i]) <= workers[i]
    /\ Serial(i) => Cardinality(pending[i]) + Cardinality(held[i]) <= 1
==============================================================================
