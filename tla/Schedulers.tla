------------------------------ MODULE Schedulers ------------------------------
(***************************************************************************)
(* The three policies of mac/policies.py, over one run's sequence of       *)
(* decisions and service feedbacks.  Cells take their slots in turn, each  *)
(* with any set of eligible UEs and any rates; a cell's feedback comes     *)
(* before its next decision, as the event phases order them.               *)
(*                                                                         *)
(* Decimal averages are exact fractions [n, d]; the 28-digit rounding of   *)
(* Python's decimal context is not modelled.                               *)
(***************************************************************************)
EXTENDS FiniteSets, Sums

CONSTANTS
    Policies,         \* scheduler.policy: the run takes one of these
    NumUes, NumCells,
    Prbs,             \* observation.available_prbs
    Rates,            \* full-allocation rates a UE may have, 0 in outage
    Alphas, AlphaDen, \* averaging_alpha: the run takes one of a / AlphaDen
    RateFloor,        \* initial_rate_floor_bps
    MaxUpdates        \* bound: feedbacks folded into one average

Ues   == 1..NumUes    \* in the lexical order of their identifiers
Cells == 1..NumCells

\* NormalizedScheduler, and the checks of ProportionalFairScheduler.__init__.
ASSUME SchedulerAssumption ==
    /\ Policies \subseteq {"round-robin", "max-ci", "proportional-fair"}
    /\ NumUes \in Nat \ {0} /\ NumCells \in Nat \ {0}
    /\ Prbs \in Nat \ {0}
    /\ Rates \subseteq Nat
    /\ AlphaDen \in Nat \ {0} /\ Alphas \subseteq 1..AlphaDen
    /\ RateFloor \in Nat \ {0}
    /\ MaxUpdates \in Nat

VARIABLES
    policy,    \* the policy build_scheduler built
    alpha,     \* its averaging_alpha, in parts of AlphaDen
    cursor,    \* _cursor_by_cell, 0 for a cell not yet decided
    average,   \* _average_rate_bps: [n, d, k], the fraction n/d after k updates
    eligible,  \* candidates of the cell's latest decision
    rate,      \* their full-allocation rates, until the feedback
    alloc,     \* PRBs of the decision, 0 for none, until the feedback
    awaiting,  \* cells whose latest decision has had no feedback yet
    first,     \* head of rotated_order at the cell's latest decision
    failed,    \* a decision raised: the run is aborted
    steady,    \* history: decisions since eligible last changed or a cycle ended
    granted    \* history: PRBs granted to each UE over those decisions
vars == <<policy, alpha, cursor, average, eligible, rate, alloc, awaiting, first, failed,
          steady, granted>>

NoUe    == 0
NoAlpha == 0  \* averaging_alpha of the other policies is None
Floor   == [n |-> RateFloor, d |-> 1, k |-> 0]
Nobody  == [u \in Ues |-> 0]

Init ==
    /\ policy \in Policies
    /\ alpha \in IF policy = "proportional-fair" THEN Alphas ELSE {NoAlpha}
    /\ cursor   = [c \in Cells |-> 0]
    /\ average  = [c \in Cells |-> [u \in Ues |-> Floor]]
    /\ eligible = [c \in Cells |-> {}]
    /\ rate     = [c \in Cells |-> Nobody]
    /\ alloc    = [c \in Cells |-> Nobody]
    /\ awaiting = {}
    /\ first    = [c \in Cells |-> NoUe]
    /\ failed   = FALSE
    /\ steady   = [c \in Cells |-> 0]
    /\ granted  = [c \in Cells |-> Nobody]

-----------------------------------------------------------------------------
(* The policies: PRBs per UE for candidates cand.                          *)

Position(u, cand) == Cardinality({v \in cand : v < u})

\* Place of u in candidates[start:] + candidates[:start].
Ordinal(u, cand, start) == (Position(u, cand) - start) % Cardinality(cand)

\* Mutant of RoundRobin: one UE too many gets a remainder PRB.
RoundRobinOver(cand, start) ==
    LET quotient  == Prbs \div Cardinality(cand)
        remainder == Prbs % Cardinality(cand)
    IN  [u \in Ues |->
            IF u \notin cand THEN 0
            ELSE IF Ordinal(u, cand, start) <= remainder THEN quotient + 1 ELSE quotient]

RoundRobin(cand, start) ==
    LET quotient  == Prbs \div Cardinality(cand)
        remainder == Prbs % Cardinality(cand)
    IN  [u \in Ues |->
            IF u \notin cand THEN 0
            ELSE IF Ordinal(u, cand, start) < remainder THEN quotient + 1 ELSE quotient]

WinnerTakesAll(winner) == [u \in Ues |-> IF u = winner THEN Prbs ELSE 0]

\* Largest full-allocation payload, then the least identifier.
MaxCiWinner(cand, r) ==
    CHOOSE w \in cand : \A v \in cand \ {w} : r[w] > r[v] \/ (r[w] = r[v] /\ w < v)

\* rate / average of u compared with that of v.
RankAbove(a, b) == a[1] * b[2] > b[1] * a[2]
Metric(c, r, u) == <<r[u] * average[c][u].d, average[c][u].n>>

ProportionalFairWinner(c, cand, r) ==
    CHOOSE w \in cand : \A v \in cand \ {w} :
        \/ RankAbove(Metric(c, r, w), Metric(c, r, v))
        \/ ~RankAbove(Metric(c, r, v), Metric(c, r, w)) /\ w < v

\* Decimal division by an average of zero raises.
DividesByZero(c, cand) ==
    policy = "proportional-fair" /\ \E u \in cand : average[c][u].n = 0

Start(c, cand) == cursor[c] % Cardinality(cand)

Decision(c, cand, r) ==
    CASE cand = {} -> Nobody
      [] cand # {} /\ policy = "round-robin" -> RoundRobin(cand, Start(c, cand))
      [] cand # {} /\ policy = "max-ci" -> WinnerTakesAll(MaxCiWinner(cand, r))
      [] cand # {} /\ policy = "proportional-fair" ->
            WinnerTakesAll(ProportionalFairWinner(c, cand, r))

-----------------------------------------------------------------------------
\* Mutant of Advance: the cursor stays.
AdvanceNever(c, cand) == UNCHANGED <<cursor, first>>

DecidesNext(c) == awaiting = {b \in Cells : b < c}
ReportsNext(c) == awaiting = {b \in Cells : b >= c}

\* The cell's cursor follows a nonempty Round Robin decision.
Advance(c, cand) ==
    IF policy = "round-robin" /\ cand # {}
    THEN /\ cursor' = [cursor EXCEPT ![c] = (Start(c, cand) + 1) % Cardinality(cand)]
         /\ first' = [first EXCEPT ![c] =
                CHOOSE u \in cand : Ordinal(u, cand, Start(c, cand)) = 0]
    ELSE UNCHANGED <<cursor, first>>

\* A cycle is as many decisions on one set of UEs as it has members.
Remember(c, cand, d) ==
    LET continues == cand = eligible[c] /\ steady[c] < Cardinality(cand)
    IN  IF policy = "round-robin"
        THEN /\ steady' = [steady EXCEPT ![c] = IF continues THEN @ + 1 ELSE 1]
             /\ granted' = [granted EXCEPT ![c] =
                    [u \in Ues |-> (IF continues THEN granted[c][u] ELSE 0) + d[u]]]
        ELSE UNCHANGED <<steady, granted>>

Decide(c, cand, r) ==
    /\ ~failed
    /\ DecidesNext(c)
    /\ ~DividesByZero(c, cand)
    /\ LET d == Decision(c, cand, r)
       IN  /\ alloc' = [alloc EXCEPT ![c] = d]
           /\ Remember(c, cand, d)
    /\ Advance(c, cand)
    /\ eligible' = [eligible EXCEPT ![c] = cand]
    /\ rate' = [rate EXCEPT ![c] = r]
    /\ awaiting' = awaiting \cup {c}
    /\ UNCHANGED <<policy, alpha, average, failed>>

DecideRaises(c, cand) ==
    /\ ~failed
    /\ DecidesNext(c)
    /\ DividesByZero(c, cand)
    /\ failed' = TRUE
    /\ UNCHANGED <<policy, alpha, cursor, average, eligible, rate, alloc, awaiting,
                   first, steady, granted>>

\* Mutant of Blend: the previous average is forgotten.
BlendForgets(a, realized) ==
    [n |-> alpha * realized * a.d, d |-> a.d * AlphaDen, k |-> a.k + 1]

\* (1 - alpha) * previous + alpha * realized, over a common denominator.
Blend(a, realized) ==
    [n |-> (AlphaDen - alpha) * a.n + alpha * realized * a.d,
     d |-> a.d * AlphaDen, k |-> a.k + 1]

\* Every eligible UE is updated, those that were not served with rate 0.
RecordService(c, realized) ==
    /\ ~failed
    /\ ReportsNext(c)
    /\ awaiting' = awaiting \ {c}
    /\ \A u \in Ues : realized[u] <= rate[c][u] /\ (alloc[c][u] = 0 => realized[u] = 0)
    /\ IF policy = "proportional-fair"
       THEN /\ \A u \in eligible[c] : average[c][u].k < MaxUpdates
            /\ average' = [average EXCEPT ![c] = [u \in Ues |->
                  IF u \in eligible[c] THEN Blend(average[c][u], realized[u])
                  ELSE average[c][u]]]
       ELSE UNCHANGED average
    /\ rate' = [rate EXCEPT ![c] = Nobody]
    /\ alloc' = [alloc EXCEPT ![c] = Nobody]
    /\ UNCHANGED <<policy, alpha, cursor, eligible, first, failed, steady, granted>>

\* Full-allocation rates of the candidates; the others' are not read.
RatesOf(cand) == {r \in [Ues -> Rates \cup {0}] : \A u \in Ues \ cand : r[u] = 0}

Next ==
    \/ \E c \in Cells, cand \in SUBSET Ues : \E r \in RatesOf(cand) : Decide(c, cand, r)
    \/ \E c \in Cells, cand \in SUBSET Ues : DecideRaises(c, cand)
    \/ \E c \in Cells, realized \in [Ues -> Rates \cup {0}] : RecordService(c, realized)

Spec == Init /\ [][Next]_vars

-----------------------------------------------------------------------------
(* Properties.                                                             *)

Given(c) == Sum(alloc[c], NumUes)

\* A decision passes validate_decision and, when someone is eligible, leaves
\* no PRB idle, whatever the remainder and the cursor (MAC-002, MAC-003).
DecisionsValid ==
    \A c \in awaiting :
        /\ \A u \in Ues : alloc[c][u] > 0 => u \in eligible[c]
        /\ Given(c) = IF eligible[c] = {} THEN 0 ELSE Prbs

\* While the same UEs stay eligible, Round Robin gives them equal PRBs over
\* each cycle, and within a cycle nobody leads by more than the number of
\* remainder PRBs (MAC-004).
FairCycles ==
    policy = "round-robin" =>
        \A c \in Cells : \A u, v \in eligible[c] :
            LET lead == granted[c][u] - granted[c][v]
            IN  /\ lead <= Prbs % Cardinality(eligible[c])
                /\ steady[c] = Cardinality(eligible[c]) => lead = 0

\* "A per-cell cursor advances by one UE after every nonempty decision": the
\* UE that leads a decision is the one next in UE order, among the eligible,
\* after the UE that led the decision before.
NextInOrder(u, cand) ==
    IF \E v \in cand : v > u THEN CHOOSE v \in cand : v > u /\ \A w \in cand : w > u => v <= w
    ELSE CHOOSE v \in cand : \A w \in cand : v <= w
CursorAdvancesOneUe ==
    [][\A c \in Cells :
          first[c] # NoUe /\ awaiting' = awaiting \cup {c} /\ awaiting' # awaiting
          /\ eligible'[c] # {}
          => first'[c] = NextInOrder(first[c], eligible'[c])]_vars

\* "Round Robin, Max-C/I, and Proportional Fair always produce valid,
\* positive, eligible, capacity-bounded PRB allocations": no average that
\* Proportional Fair divides by is ever zero.
AlwaysDecides == ~failed

\* With an averaging_alpha below one no average reaches zero, however long a
\* UE stays eligible and is not served: a decision fails at alpha one alone.
FailsOnlyAtAlphaOne == failed => policy = "proportional-fair" /\ alpha = AlphaDen
=============================================================================
