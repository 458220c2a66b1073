------------------------------ MODULE Statistics ------------------------------
(***************************************************************************)
(* The rows that a summary is of: an estimate for every variant, and for   *)
(* every other scheduler its paired comparison with the reference one      *)
(* (experiments/statistics.py).  One metric stands for the selected ones.  *)
(* Means and bootstrap intervals are left out: what matters is which runs  *)
(* they are of.                                                            *)
(***************************************************************************)
EXTENDS Orchestration

CONSTANT Reference   \* the variants whose scheduler is the reference one

\* The reference scheduler is one of the schedulers, so that every combination
\* of the other factors has its one variant with it.
ASSUME ReferenceAssumption == \A c \in Cells :
    /\ \E d \in Cells : d.variant \in Reference /\ d.factors = c.factors
    /\ \A d, e \in Cells : /\ d.variant \in Reference /\ d.factors = c.factors
                          /\ e.variant \in Reference /\ e.factors = c.factors
                          => d.variant = e.variant

Replications == {c.replication : c \in Cells}

\* The selected metric of a run may be null, with a reason.
Measured(rows) == {c \in rows : result[c] # "valueless"}

RowsOf(v, runs) == {c \in Range(runs) : c.variant = v}

\* _estimate_rows: the rows of a variant are one group.
Estimates(runs) ==
    {[variant |-> c.variant,
      total   |-> Cardinality(RowsOf(c.variant, runs)),
      valid   |-> Cardinality(Measured(RowsOf(c.variant, runs))),
      sources |-> RowsOf(c.variant, runs)] : c \in Range(runs)}

\* Mutant of Pairs: rows are paired by their place in the dataset.
PairsByPlace(f, v, runs) ==
    LET place(c) == Cardinality({d \in RowsOf(c.variant, runs) : Precedes(d, c)})
    IN {pair \in Range(runs) \X Range(runs) :
          /\ pair[1].variant \in Reference /\ pair[2].variant = v
          /\ pair[1].factors = f /\ pair[2].factors = f
          /\ place(pair[1]) = place(pair[2])}

\* The rows of a stratum meet in a replication that both schedulers have.
Pairs(f, v, runs) ==
    {pair \in Range(runs) \X Range(runs) :
        /\ pair[1].variant \in Reference /\ pair[2].variant = v
        /\ pair[1].factors = f /\ pair[2].factors = f
        /\ pair[1].replication = pair[2].replication}

\* _comparison_rows: in every stratum that has a row, every other scheduler.
Candidates(runs) == {c \in Cells : /\ c.variant \notin Reference
                                   /\ \E d \in Range(runs) : d.factors = c.factors}
Comparison(f, v, runs) ==
    [stratum  |-> f, candidate |-> v,
     expected |-> Cardinality(Replications),
     valid    |-> Cardinality({pair \in Pairs(f, v, runs) : Range(pair) = Measured(Range(pair))}),
     pairs    |-> Pairs(f, v, runs)]
Comparisons(runs) == {Comparison(c.factors, c.variant, runs) : c \in Candidates(runs)}

SummaryOf(b) == [estimates |-> Estimates(b.runs), comparisons |-> Comparisons(b.runs),
                 partial   |-> b.status # "complete"]
===============================================================================
