------------------------------ MODULE MCEvidence ------------------------------
(* Two schedulers over two replications, the plan in another order than the  *)
(* records; one experiment that is complete, with a run without a value, and *)
(* others with one cell, or two, that do not succeed.                        *)
EXTENDS Evidence

Cell(v, r) == [variant |-> v, factors |-> 1, replication |-> r]
MCPlan == <<Cell(2, 1), Cell(2, 2), Cell(1, 1), Cell(1, 2)>>
Comes(others) == [c \in Range(MCPlan) |->
                     IF c \in DOMAIN others THEN others[c] ELSE "success"]
MCResults ==
    {Comes(Cell(1, 2) :> kind) : kind \in Kinds \ {"success"}}
    \cup {Comes(Cell(1, 1) :> "failure" @@ Cell(2, 2) :> "valueless"),
          Comes(Cell(1, 1) :> "failure" @@ Cell(1, 2) :> "failure")}

\* Edits that leave all digests as they were, all but the file's own, or none.
Change(f, redigested, relinked) == [of |-> f, redigested |-> redigested, relinked |-> relinked]
MCChanges ==
    {Change(f, FALSE, FALSE) : f \in {"runs", "replications", "plots"}}
    \cup {Change(f, TRUE, FALSE) : f \in {"manifest", "summary"}}
    \cup {Change(f, TRUE, TRUE) : f \in {"COMPLETE", "bundle", "replications", "plotManifest"}}

Symmetry == {i @@ p : i \in Permutations(Invocations), p \in Permutations(Publishers)}
===============================================================================
