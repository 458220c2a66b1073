-------------------------- MODULE SchedulersProofs --------------------------
(***************************************************************************)
(* Proofs about Schedulers, for any numbers of UEs, cells and PRBs, any    *)
(* rates and any number of updates: below averaging weight one the         *)
(* averages that Proportional Fair divides by stay positive; every         *)
(* decision of each policy is valid; and a cycle of round robin is fair.   *)
(*                                                                         *)
(* Round robin gives a PRB more to the UEs at its first places, counted    *)
(* from the cursor.  That it gives out all PRBs is a count over the        *)
(* places, and that its cycles are fair is a count over the decisions      *)
(* since the set of eligible UEs changed: the places that a UE has been at *)
(* are an interval modulo the number of UEs, and Favours says how often    *)
(* it was among the first.                                                 *)
(***************************************************************************)
EXTENDS Schedulers, SumsProofs, FiniteSetTheorems

Averages == [n : Nat, d : Nat \ {0}, k : Nat]

\* The weight of Proportional Fair is one of those configured.
WeightChosen ==
    policy = "proportional-fair" => alpha \in 1..AlphaDen

\* Averages are fractions, and positive where the weight is below one.
AveragesPositive ==
    policy = "proportional-fair" =>
        \A c \in Cells : \A u \in Ues :
            /\ average[c][u] \in Averages
            /\ alpha # AlphaDen => average[c][u].n # 0

AverageInv ==
    /\ average \in [Cells -> [Ues -> Averages]]
    /\ WeightChosen /\ AveragesPositive /\ FailsOnlyAtAlphaOne

\* The assumptions on the constants, with what is used of them.
LEMMA Settings ==
    /\ AlphaDen \in Nat /\ AlphaDen # 0 /\ Alphas \subseteq 1..AlphaDen
    /\ RateFloor \in Nat /\ RateFloor # 0
    /\ Rates \subseteq Nat
BY SchedulerAssumption

\* Products of naturals, and of positive ones.
LEMMA Products ==
    ASSUME NEW x \in Nat, NEW y \in Nat
    PROVE  x * y \in Nat /\ (x # 0 /\ y # 0 => x * y # 0)
OBVIOUS

\* Averaging keeps a part of the average it replaces, unless the weight is
\* one.
LEMMA BlendPositive ==
    ASSUME NEW a \in Averages, NEW realized \in Nat, alpha \in 1..AlphaDen
    PROVE  /\ Blend(a, realized) \in Averages
           /\ alpha # AlphaDen /\ a.n # 0 => Blend(a, realized).n # 0
<1> DEFINE kept == (AlphaDen - alpha) * a.n
           added == alpha * realized * a.d
           d == a.d * AlphaDen
<1>1. /\ AlphaDen \in Nat /\ AlphaDen # 0 /\ alpha \in Nat /\ AlphaDen - alpha \in Nat
      /\ alpha # AlphaDen => AlphaDen - alpha # 0
      /\ a.n \in Nat /\ a.d \in Nat /\ a.d # 0 /\ a.k \in Nat
  BY Settings DEF Averages
<1>2. kept \in Nat /\ (alpha # AlphaDen /\ a.n # 0 => kept # 0)
  BY <1>1, Products
<1>3. added \in Nat
  <2>1. alpha * realized \in Nat
    BY <1>1, Products
  <2> QED BY <1>1, <2>1, Products
<1>4. d \in Nat /\ d # 0
  BY <1>1, Products
<1>5. Blend(a, realized) = [n |-> kept + added, d |-> d, k |-> a.k + 1]
  BY DEF Blend
<1> HIDE DEF kept, added, d
<1> QED BY <1>1, <1>2, <1>3, <1>4, <1>5 DEF Averages

\* Averages start at the rate floor, which is positive.
LEMMA InitPositive == Init => AverageInv
<1> SUFFICES ASSUME Init PROVE AverageInv
  OBVIOUS
<1>1. Floor \in Averages /\ Floor.n # 0
  BY Settings DEF Floor, Averages
<1>2. average = [c \in Cells |-> [u \in Ues |-> Floor]] /\ failed = FALSE
  BY DEF Init
<1>3. WeightChosen
  BY Settings DEF Init, WeightChosen
<1> QED BY <1>1, <1>2, <1>3 DEF AverageInv, AveragesPositive, FailsOnlyAtAlphaOne

\* Only the feedback changes an average, and only a zero average fails.
LEMMA NextPositive == AverageInv /\ [Next]_vars => AverageInv'
<1> SUFFICES ASSUME AverageInv, [Next]_vars PROVE AverageInv'
  OBVIOUS
<1>1. ASSUME NEW c \in Cells, NEW cand \in SUBSET Ues, NEW r \in RatesOf(cand),
             Decide(c, cand, r)
      PROVE  AverageInv'
  BY <1>1 DEF Decide, AverageInv, WeightChosen, AveragesPositive, FailsOnlyAtAlphaOne
<1>2. ASSUME NEW c \in Cells, NEW cand \in SUBSET Ues, DecideRaises(c, cand)
      PROVE  AverageInv'
  <2>1. policy = "proportional-fair" /\ \E u \in cand : average[c][u].n = 0
    BY <1>2 DEF DecideRaises, DividesByZero
  <2>2. alpha = AlphaDen
    BY <2>1 DEF AverageInv, AveragesPositive
  <2>3. UNCHANGED <<policy, alpha, average>>
    BY <1>2 DEF DecideRaises
  <2> QED BY <2>1, <2>2, <2>3 DEF AverageInv, WeightChosen, AveragesPositive, FailsOnlyAtAlphaOne
<1>3. ASSUME NEW c \in Cells, NEW realized \in [Ues -> Rates \cup {0}],
             RecordService(c, realized)
      PROVE  AverageInv'
  <2>1. UNCHANGED <<policy, alpha, failed>> /\ ~failed
    BY <1>3 DEF RecordService
  <2>2. CASE policy = "proportional-fair"
    <3>1. average' = [average EXCEPT ![c] = [u \in Ues |->
              IF u \in eligible[c] THEN Blend(average[c][u], realized[u])
              ELSE average[c][u]]]
      BY <1>3, <2>2 DEF RecordService
    <3>2. ASSUME NEW b \in Cells, NEW u \in Ues
          PROVE  /\ average'[b][u] \in Averages
                 /\ alpha # AlphaDen => average'[b][u].n # 0
      <4>1. /\ average[b][u] \in Averages
            /\ alpha # AlphaDen => average[b][u].n # 0
        BY <2>2 DEF AverageInv, AveragesPositive
      <4>2. realized[u] \in Nat
        <5>1. realized[u] \in Rates \/ realized[u] = 0
          OBVIOUS
        <5>2. \A r \in Rates : r \in Nat
          BY Settings
        <5> QED BY <5>1, <5>2
      <4>3. /\ Blend(average[b][u], realized[u]) \in Averages
            /\ alpha # AlphaDen => Blend(average[b][u], realized[u]).n # 0
        BY <2>2, <4>1, <4>2, BlendPositive DEF AverageInv, WeightChosen
      <4>4. \/ average'[b][u] = average[b][u]
            \/ average'[b][u] = Blend(average[b][u], realized[u])
        BY <3>1 DEF AverageInv
      <4> QED BY <4>1, <4>3, <4>4
    <3>3. average' \in [Cells -> [Ues -> Averages]]
      <4>1. [u \in Ues |-> IF u \in eligible[c] THEN Blend(average[c][u], realized[u])
                           ELSE average[c][u]] \in [Ues -> Averages]
        <5> SUFFICES ASSUME NEW u \in Ues
                     PROVE  (IF u \in eligible[c] THEN Blend(average[c][u], realized[u])
                             ELSE average[c][u]) \in Averages
          OBVIOUS
        <5>1. average'[c][u] = IF u \in eligible[c] THEN Blend(average[c][u], realized[u])
                               ELSE average[c][u]
          BY <3>1 DEF AverageInv
        <5> QED BY <3>2, <5>1
      <4> QED BY <3>1, <4>1 DEF AverageInv
    <3> QED BY <2>1, <2>2, <3>2, <3>3
            DEF AverageInv, WeightChosen, AveragesPositive, FailsOnlyAtAlphaOne
  <2>3. CASE policy # "proportional-fair"
    <3>1. average' = average
      BY <1>3, <2>3 DEF RecordService
    <3> QED BY <2>1, <2>3, <3>1
            DEF AverageInv, WeightChosen, AveragesPositive, FailsOnlyAtAlphaOne
  <2> QED BY <2>2, <2>3
<1>4. CASE UNCHANGED vars
  BY <1>4 DEF vars, AverageInv, WeightChosen, AveragesPositive, FailsOnlyAtAlphaOne
<1> QED BY <1>1, <1>2, <1>3, <1>4 DEF Next

\* No averaging weight below one ever makes a decision fail.
THEOREM WeightsBelowOneDecide == Spec => []FailsOnlyAtAlphaOne
<1>1. AverageInv => FailsOnlyAtAlphaOne
  BY DEF AverageInv
<1> QED BY <1>1, InitPositive, NextPositive, PTL DEF Spec

-----------------------------------------------------------------------------
(* Candidates in the order of their identifiers.                           *)

\* Candidates are counted, and a place is below their number.
LEMMA Places ==
    ASSUME NEW cand \in SUBSET Ues
    PROVE  /\ IsFiniteSet(cand) /\ Cardinality(cand) \in Nat
           /\ cand # {} => Cardinality(cand) > 0
           /\ \A j : Position(j, cand) \in Nat /\ Position(j, cand) <= Cardinality(cand)
           /\ \A u \in cand : Position(u, cand) < Cardinality(cand)
<1>1. IsFiniteSet(cand)
  <2>1. NumUes \in Int /\ 1 \in Int
    BY SchedulerAssumption
  <2>2. IsFiniteSet(1..NumUes)
    BY <2>1, FS_Interval
  <2> QED BY <2>2, FS_Subset DEF Ues
<1>2. Cardinality(cand) \in Nat /\ (cand # {} => Cardinality(cand) > 0)
  BY <1>1, FS_CardinalityType, FS_EmptySet
<1>3. ASSUME NEW j
      PROVE  Position(j, cand) \in Nat /\ Position(j, cand) <= Cardinality(cand)
  <2> DEFINE below == {v \in cand : v < j}
  <2>1. below \subseteq cand
    OBVIOUS
  <2> HIDE DEF below
  <2>2. IsFiniteSet(below) /\ Cardinality(below) <= Cardinality(cand)
    BY <1>1, <2>1, FS_Subset
  <2> QED BY <2>2, FS_CardinalityType DEF Position, below
<1>4. ASSUME NEW u \in cand
      PROVE  Position(u, cand) < Cardinality(cand)
  <2> DEFINE below == {v \in cand : v < u}
  <2>1. below \subseteq cand \ {u}
    BY DEF Ues
  <2> HIDE DEF below
  <2>2. IsFiniteSet(cand \ {u}) /\ Cardinality(cand \ {u}) = Cardinality(cand) - 1
    BY <1>1, FS_RemoveElement
  <2>3. Cardinality(below) <= Cardinality(cand \ {u})
    BY <2>1, <2>2, FS_Subset
  <2>4. Position(u, cand) = Cardinality(below)
    BY DEF Position, below
  <2>5. Position(u, cand) \in Nat
    BY <1>3
  <2> QED BY <1>2, <2>2, <2>3, <2>4, <2>5
<1> QED BY <1>1, <1>2, <1>3, <1>4

\* The candidates below j, one by one.
LEMMA PlaceSteps ==
    ASSUME NEW cand \in SUBSET Ues
    PROVE  /\ Position(1, cand) = 0
           /\ Position(NumUes + 1, cand) = Cardinality(cand)
           /\ \A j \in Ues : Position(j + 1, cand)
                               = Position(j, cand) + (IF j \in cand THEN 1 ELSE 0)
<1>1. IsFiniteSet(cand)
  BY Places
<1>2. NumUes \in Nat /\ Ues = 1..NumUes
  BY SchedulerAssumption DEF Ues
<1>6. \A v \in cand : v \in Int /\ 1 <= v /\ v <= NumUes
  BY <1>2
<1>3. Position(1, cand) = 0
  <2>1. {v \in cand : v < 1} = {}
    BY <1>6
  <2> QED BY <2>1, FS_EmptySet DEF Position
<1>4. Position(NumUes + 1, cand) = Cardinality(cand)
  <2>1. \A v \in cand : v < NumUes + 1
    BY <1>2, <1>6
  <2>2. {v \in cand : v < NumUes + 1} = cand
    BY <2>1
  <2> QED BY <2>2 DEF Position
<1>5. ASSUME NEW j \in Ues
      PROVE  Position(j + 1, cand) = Position(j, cand) + (IF j \in cand THEN 1 ELSE 0)
  <2> DEFINE below == {v \in cand : v < j}
             upTo == {v \in cand : v < j + 1}
  <2>1. IsFiniteSet(below)
    BY <1>1, FS_Subset
  <2>2. Position(j, cand) = Cardinality(below) /\ Position(j + 1, cand) = Cardinality(upTo)
    BY DEF Position
  <2>3. CASE j \in cand
    <3>1. upTo = below \cup {j} /\ j \notin below
      <4>1. \A v \in cand : v < j + 1 <=> v < j \/ v = j
        BY <1>2, <1>6
      <4>2. ~(j < j)
        BY <1>2
      <4> QED BY <2>3, <4>1, <4>2
    <3> HIDE DEF upTo, below
    <3> QED BY <2>1, <2>2, <2>3, <3>1, FS_AddElement
  <2>4. CASE j \notin cand
    <3>1. upTo = below
      <4>1. \A v \in cand : v < j + 1 <=> v < j
        BY <1>2, <1>6, <2>4
      <4> QED BY <4>1
    <3>2. Position(j, cand) \in Nat
      BY Places
    <3> HIDE DEF upTo, below
    <3> QED BY <2>2, <2>4, <3>1, <3>2
  <2> QED BY <2>3, <2>4
<1> QED BY <1>3, <1>4, <1>5

\* Places on a circle of n.
LEMMA Turns ==
    ASSUME NEW n \in Nat, n > 0, NEW x \in 0..(n - 1), NEW y \in 0..(n - 1)
    PROVE  /\ (x - y) % n = IF x >= y THEN x - y ELSE x - y + n
           /\ (y + 1) % n = IF y = n - 1 THEN 0 ELSE y + 1
           /\ y % n = y
OBVIOUS

\* Quotient and remainder of the PRBs.
LEMMA Quotients ==
    ASSUME NEW n \in Nat, n > 0
    PROVE  /\ Prbs \div n \in Nat /\ Prbs % n \in 0..(n - 1)
           /\ Prbs = n * (Prbs \div n) + (Prbs % n)
BY SchedulerAssumption

-----------------------------------------------------------------------------
(* Decisions are valid.                                                    *)

\* How many numbers lie in lo..(hi - 1).
Between(lo, hi) == IF lo < hi THEN hi - lo ELSE 0
Least(a, b)     == IF a < b THEN a ELSE b

\* Of the first m places, those that get a remainder PRB when the rotation
\* starts at s and rem PRBs remain.
Favoured(n, s, rem, m) ==
    Between(s, Least(m, s + rem)) + Between(0, Least(m, s + rem - n))

\* Round Robin gives away all PRBs, whatever the remainder and the start.
LEMMA RoundRobinGives ==
    ASSUME NEW cand \in SUBSET Ues, cand # {}, NEW s \in 0..(Cardinality(cand) - 1)
    PROVE  /\ RoundRobin(cand, s) \in [Ues -> Nat]
           /\ \A u \in Ues : RoundRobin(cand, s)[u] > 0 => u \in cand
           /\ Sum(RoundRobin(cand, s), NumUes) = Prbs
<1> DEFINE n   == Cardinality(cand)
           q   == Prbs \div n
           rem == Prbs % n
           d   == RoundRobin(cand, s)
           At(j) == Position(j + 1, cand)
           Ok(j) == Sum(d, j) = q * At(j) + Favoured(n, s, rem, At(j))
           T   == {j \in 0..NumUes : ~Ok(j)}
<1>1. n \in Nat /\ n > 0 /\ s \in Nat /\ s < n
  BY Places
<1>2. q \in Nat /\ rem \in Nat /\ rem < n /\ Prbs = n * q + rem
  BY <1>1, Quotients
<1>3. NumUes \in Nat /\ Ues = 1..NumUes
  BY SchedulerAssumption DEF Ues
<1>4. \A u \in Ues : d[u] = IF u \notin cand THEN 0
                            ELSE IF (Position(u, cand) - s) % n < rem THEN q + 1 ELSE q
  BY DEF RoundRobin, Ordinal
<1>5. d = [u \in Ues |-> d[u]]
  BY DEF RoundRobin
<1> HIDE DEF n, q, rem, d
<1>6. /\ \A u \in Ues : d[u] \in Nat
      /\ \A u \in Ues : d[u] > 0 => u \in cand
  BY <1>2, <1>4
<1>7. Ok(0)
  <2>1. At(0) = 0 /\ Sum(d, 0) = 0
    BY PlaceSteps, SumStep
  <2> QED BY <1>1, <1>2, <2>1 DEF Favoured, Between, Least
<1>8. ASSUME NEW j \in 1..NumUes, Ok(j - 1)
      PROVE  Ok(j)
  <2> DEFINE m == Position(j, cand)
  <2>1. /\ j - 1 \in Nat /\ (j - 1) + 1 = j /\ j \in Ues
        /\ Sum(d, j) = Sum(d, j - 1) + d[j]
    BY <1>3, SumStep
  <2>2. m \in Nat /\ (j \in cand => m < n)
    BY Places DEF n
  <2>3. Position(j + 1, cand) = m + (IF j \in cand THEN 1 ELSE 0)
    BY <2>1, PlaceSteps
  <2>4. Sum(d, j - 1) = q * m + Favoured(n, s, rem, m)
    BY <1>8, <2>1
  <2> HIDE DEF m
  <2>5. CASE j \notin cand
    <3>1. d[j] = 0 /\ Position(j + 1, cand) = m
      BY <1>4, <2>1, <2>2, <2>3, <2>5
    <3>2. q * m \in Nat /\ Favoured(n, s, rem, m) \in Nat
      <4>1. q * m \in Nat
        BY <1>2, <2>2
      <4> QED BY <1>1, <1>2, <2>2, <4>1 DEF Favoured, Between, Least
    <3> QED BY <2>1, <2>4, <3>1, <3>2
  <2>6. CASE j \in cand
    <3> DEFINE extra == IF (m - s) % n < rem THEN 1 ELSE 0
    <3>1. d[j] = q + extra /\ Position(j + 1, cand) = m + 1 /\ m < n
      BY <1>2, <1>4, <2>1, <2>2, <2>3, <2>6 DEF m
    <3>2. (m - s) % n = IF m >= s THEN m - s ELSE m - s + n
      BY <1>1, <2>2, <3>1, Turns
    <3>3. Favoured(n, s, rem, m + 1) = Favoured(n, s, rem, m) + extra
          /\ Favoured(n, s, rem, m) \in Nat
      BY <1>1, <1>2, <2>2, <3>1, <3>2 DEF Favoured, Between, Least
    <3>4. q * (m + 1) = q * m + q /\ q * m \in Nat
      BY <1>2, <2>2
    <3> HIDE DEF extra
    <3>5. extra \in Nat
      BY DEF extra
    <3> QED BY <1>2, <2>1, <2>4, <3>1, <3>3, <3>4, <3>5
  <2> QED BY <2>5, <2>6
<1>9. T = {}
  <2> HIDE DEF Ok
  <2> SUFFICES ASSUME T # {} PROVE FALSE
    OBVIOUS
  <2>1. T \subseteq Nat
    OBVIOUS
  <2>2. PICK j \in T : \A k \in T : ~(k < j)
    BY <2>1, LeastNumber
  <2>3. j \in 1..NumUes /\ j - 1 \in 0..NumUes /\ j - 1 < j
    BY <1>3, <1>7, <2>2
  <2> QED BY <1>8, <2>2, <2>3
<1>10. Sum(d, NumUes) = Prbs
  <2>1. Sum(d, NumUes) = q * n + Favoured(n, s, rem, n)
    <3>1. Ok(NumUes) /\ At(NumUes) = n
      BY <1>3, <1>9, PlaceSteps DEF n
    <3> QED BY <3>1
  <2>2. Favoured(n, s, rem, n) = rem
    BY <1>1, <1>2 DEF Favoured, Between, Least
  <2>3. q * n = n * q
    BY <1>1, <1>2
  <2> QED BY <1>2, <2>1, <2>2, <2>3
<1> QED BY <1>5, <1>6, <1>10 DEF d

\* All PRBs to one UE.
LEMMA WinnerGets ==
    ASSUME NEW w \in Ues
    PROVE  /\ WinnerTakesAll(w) \in [Ues -> Nat]
           /\ \A u \in Ues : WinnerTakesAll(w)[u] > 0 => u = w
           /\ Sum(WinnerTakesAll(w), NumUes) = Prbs
<1>1. NumUes \in Nat /\ Ues = 1..NumUes /\ Prbs \in Nat
  BY SchedulerAssumption DEF Ues
<1> DEFINE d == WinnerTakesAll(w)
<1>2. d = [u \in Ues |-> IF u = w THEN Prbs ELSE 0]
  BY DEF WinnerTakesAll
<1>3. d[w] = Prbs /\ \A i \in 1..NumUes : i # w => d[i] = 0
  BY <1>1, <1>2
<1>4. d \in [Ues -> Nat] /\ \A u \in Ues : d[u] > 0 => u = w
  BY <1>1, <1>2
<1> HIDE DEF d
<1>5. Sum(d, NumUes) = d[w]
  BY <1>1, <1>3, SumSingle
<1> QED BY <1>3, <1>4, <1>5 DEF d

\* Where any two can be compared, some candidate is above all the others.
LEMMA BestExists ==
    ASSUME NEW cand \in SUBSET Ues, cand # {}, NEW above,
           \A u, v \in Ues : u # v => <<u, v>> \in above \/ <<v, u>> \in above,
           \A u, v, w \in Ues : <<u, v>> \in above /\ <<v, w>> \in above => <<u, w>> \in above
    PROVE  \E w \in cand : \A v \in cand \ {w} : <<w, v>> \in above
<1> DEFINE Best(S) == \E w \in S : \A v \in S \ {w} : <<w, v>> \in above
           upTo(j) == {u \in cand : u <= j}
           T == {j \in 0..NumUes : upTo(j) # {} /\ ~Best(upTo(j))}
<1>1. NumUes \in Nat /\ Ues = 1..NumUes
  BY SchedulerAssumption DEF Ues
<1>2. \A u \in cand : u \in Int /\ 1 <= u /\ u <= NumUes /\ u \in Ues
  BY <1>1
<1>3. upTo(0) = {} /\ upTo(NumUes) = cand
  <2>1. \A u \in cand : ~(u <= 0)
    BY <1>2
  <2> QED BY <1>2, <2>1
<1>4. ASSUME NEW j \in 1..NumUes, upTo(j - 1) = {} \/ Best(upTo(j - 1)), upTo(j) # {}
      PROVE  Best(upTo(j))
  <2>1. \A u \in cand : u <= j <=> u <= j - 1 \/ u = j
    BY <1>1, <1>2
  <2>2. CASE j \notin cand
    <3>1. upTo(j) = upTo(j - 1)
      BY <2>1, <2>2
    <3> QED BY <1>4, <3>1
  <2>3. CASE j \in cand
    <3>1. upTo(j) = upTo(j - 1) \cup {j}
      <4>1. j <= j
        BY <1>1
      <4> QED BY <2>1, <2>3, <4>1
    <3>2. CASE upTo(j - 1) = {}
      BY <3>1, <3>2
    <3>3. CASE Best(upTo(j - 1))
      <4>1. PICK w \in upTo(j - 1) : \A v \in upTo(j - 1) \ {w} : <<w, v>> \in above
        BY <3>3
      <4>2. w \in Ues /\ j \in Ues /\ upTo(j - 1) \subseteq Ues
        BY <1>1
      <4> HIDE DEF upTo
      <4>3. CASE <<w, j>> \in above
        BY <3>1, <4>1, <4>3
      <4>4. CASE <<w, j>> \notin above /\ w # j
        <5>1. <<j, w>> \in above
          BY <4>2, <4>4
        <5> QED BY <3>1, <4>1, <4>2, <5>1
      <4>5. CASE w = j
        BY <3>1, <4>1, <4>5
      <4> QED BY <4>3, <4>4, <4>5
    <3> QED BY <1>4, <3>2, <3>3
  <2> QED BY <2>2, <2>3
<1>5. T = {}
  <2> HIDE DEF Best, upTo
  <2> SUFFICES ASSUME T # {} PROVE FALSE
    OBVIOUS
  <2>1. T \subseteq Nat
    OBVIOUS
  <2>2. PICK j \in T : \A k \in T : ~(k < j)
    BY <2>1, LeastNumber
  <2>3. j \in 1..NumUes /\ j - 1 \in 0..NumUes /\ j - 1 < j
    BY <1>1, <1>3, <2>2
  <2> QED BY <1>4, <2>2, <2>3
<1>6. Best(cand)
  <2> HIDE DEF Best, upTo
  <2>1. NumUes \in 0..NumUes
    BY <1>1
  <2> QED BY <1>3, <1>5, <2>1
<1> QED BY <1>6

\* Max-C/I finds its winner among the candidates.
LEMMA MaxCiFinds ==
    ASSUME NEW cand \in SUBSET Ues, cand # {}, NEW r, \A u \in Ues : r[u] \in Nat
    PROVE  MaxCiWinner(cand, r) \in cand
<1> DEFINE Above(w, v) == r[w] > r[v] \/ (r[w] = r[v] /\ w < v)
           above == {pair \in Ues \X Ues : Above(pair[1], pair[2])}
<1>1. \A u \in Ues : u \in Int /\ r[u] \in Nat
  BY SchedulerAssumption DEF Ues
<1>2. /\ \A u, v \in Ues : u # v => Above(u, v) \/ Above(v, u)
      /\ \A u, v, w \in Ues : Above(u, v) /\ Above(v, w) => Above(u, w)
  BY <1>1
<1>3. \A u, v \in Ues : <<u, v>> \in above <=> Above(u, v)
  OBVIOUS
<1> HIDE DEF above
<1>4. \E w \in cand : \A v \in cand \ {w} : <<w, v>> \in above
  <2> HIDE DEF Above
  <2> QED BY <1>2, <1>3, BestExists
<1>5. \E w \in cand : \A v \in cand \ {w} : Above(w, v)
  BY <1>3, <1>4
<1> QED BY <1>5 DEF MaxCiWinner

\* Fractions with positive denominators compare transitively.
LEMMA Crossing ==
    ASSUME NEW a \in Nat, NEW b \in Nat, NEW c \in Nat, NEW d \in Nat, NEW e \in Nat,
           NEW f \in Nat, b > 0, d > 0, f > 0,
           a * d >= c * b, c * f >= e * d
    PROVE  /\ a * f >= e * b
           /\ a * d > c * b \/ c * f > e * d => a * f > e * b
<1> DEFINE x == a * d
           y == c * b
           z == c * f
           w == e * d
           p == a * f
           r == e * b
<1>1. x \in Nat /\ y \in Nat /\ z \in Nat /\ w \in Nat /\ p \in Nat /\ r \in Nat
  OBVIOUS
<1>2. x * f = p * d /\ y * f = z * b /\ w * b = r * d
  OBVIOUS
<1> HIDE DEF x, y, z, w, p, r
<1>3. \A m, n, k \in Nat : k > 0 =>
         /\ m >= n => m * k >= n * k
         /\ m > n => m * k > n * k
         /\ m * k \in Nat
  OBVIOUS
<1>4. x >= y /\ z >= w
  BY DEF x, y, z, w
<1>5. /\ x * f >= y * f /\ z * b >= w * b
      /\ x > y => x * f > y * f
      /\ z > w => z * b > w * b
      /\ x * f \in Nat /\ y * f \in Nat /\ w * b \in Nat /\ z * b \in Nat
  BY <1>1, <1>3, <1>4
<1>6. p * d >= r * d /\ (x > y \/ z > w => p * d > r * d)
  BY <1>2, <1>5
<1>7. p >= r /\ (x > y \/ z > w => p > r)
  <2>1. r > p => r * d > p * d
    BY <1>1, <1>3
  <2>2. r >= p => r * d >= p * d
    BY <1>1, <1>3
  <2>3. p * d \in Nat /\ r * d \in Nat
    BY <1>1, <1>3
  <2> QED BY <1>1, <1>6, <2>1, <2>2, <2>3
<1> QED BY <1>7 DEF x, y, z, w, p, r

\* And so does Proportional Fair, when it can divide by the averages.
LEMMA ProportionalFairFinds ==
    ASSUME NEW c, NEW cand \in SUBSET Ues, cand # {}, NEW r, \A u \in Ues : r[u] \in Nat,
           \A u \in cand : average[c][u] \in Averages /\ average[c][u].n # 0
    PROVE  ProportionalFairWinner(c, cand, r) \in cand
<1> DEFINE m(u) == Metric(c, r, u)
           Above(w, v) == \/ RankAbove(m(w), m(v))
                          \/ ~RankAbove(m(v), m(w)) /\ w < v
           above == {pair \in Ues \X Ues :
                        IF pair[1] \in cand /\ pair[2] \in cand THEN Above(pair[1], pair[2])
                        ELSE pair[1] \in cand \/ (pair[2] \notin cand /\ pair[1] < pair[2])}
<1>1. \A u \in Ues : u \in Int
  BY SchedulerAssumption DEF Ues
<1>2. ASSUME NEW u \in cand
      PROVE  m(u)[1] \in Nat /\ m(u)[2] \in Nat /\ m(u)[2] > 0
  BY Products DEF Metric, Averages
<1> HIDE DEF m
<1>3. \A u, v \in cand : m(u)[1] * m(v)[2] \in Nat
  BY <1>2, Products
<1>4. \A u, v \in cand : u # v => Above(u, v) \/ Above(v, u)
  BY <1>1, <1>3 DEF RankAbove
<1>5. ASSUME NEW u \in cand, NEW v \in cand, NEW w \in cand, Above(u, v), Above(v, w)
      PROVE  Above(u, w)
  <2>1. /\ m(u)[1] * m(v)[2] >= m(v)[1] * m(u)[2]
        /\ m(v)[1] * m(w)[2] >= m(w)[1] * m(v)[2]
    BY <1>3, <1>5 DEF RankAbove
  <2>2. /\ m(u)[1] * m(w)[2] >= m(w)[1] * m(u)[2]
        /\ \/ m(u)[1] * m(v)[2] > m(v)[1] * m(u)[2]
           \/ m(v)[1] * m(w)[2] > m(w)[1] * m(v)[2]
           => m(u)[1] * m(w)[2] > m(w)[1] * m(u)[2]
    BY <1>2, <2>1, Crossing
  <2> QED BY <1>1, <1>3, <1>5, <2>2 DEF RankAbove
<1> HIDE DEF Above
<1>6. \A u, v \in Ues : <<u, v>> \in above <=>
         IF u \in cand /\ v \in cand THEN Above(u, v)
         ELSE u \in cand \/ (v \notin cand /\ u < v)
  OBVIOUS
<1> HIDE DEF above
<1>7. /\ \A u, v \in Ues : u # v => <<u, v>> \in above \/ <<v, u>> \in above
      /\ \A u, v, w \in Ues : <<u, v>> \in above /\ <<v, w>> \in above => <<u, w>> \in above
  BY <1>1, <1>4, <1>5, <1>6
<1>8. \E w \in cand : \A v \in cand \ {w} : <<w, v>> \in above
  BY <1>7, BestExists
<1>9. \E w \in cand : \A v \in cand \ {w} : Above(w, v)
  BY <1>6, <1>8
<1> QED BY <1>9 DEF ProportionalFairWinner, Above, m

\* Between decisions, what is awaiting feedback is a valid decision.
DecisionInv ==
    /\ policy \in Policies
    /\ cursor \in [Cells -> Nat]
    /\ alloc = [c \in Cells |-> alloc[c]]
    /\ eligible \in [Cells -> SUBSET Ues]
    /\ awaiting \subseteq Cells
    /\ DecisionsValid

\* Nobody is given nothing.
LEMMA NobodyGets ==
    /\ \A u \in Ues : Nobody[u] = 0
    /\ Sum(Nobody, NumUes) = 0
<1>1. NumUes \in Nat /\ Ues = 1..NumUes
  BY SchedulerAssumption DEF Ues
<1>2. \A u \in 1..NumUes : Nobody[u] = 0
  BY <1>1 DEF Nobody
<1> QED BY <1>1, <1>2, SumZero

\* What any of the policies decides is valid.
LEMMA DecisionValid ==
    ASSUME AverageInv, policy \in Policies, cursor \in [Cells -> Nat],
           NEW c \in Cells, NEW cand \in SUBSET Ues, NEW r \in RatesOf(cand),
           ~DividesByZero(c, cand)
    PROVE  /\ \A u \in Ues : Decision(c, cand, r)[u] > 0 => u \in cand
           /\ Sum(Decision(c, cand, r), NumUes) = IF cand = {} THEN 0 ELSE Prbs
<1>1. policy \in {"round-robin", "max-ci", "proportional-fair"}
  BY SchedulerAssumption
<1>2. \A u \in Ues : r[u] \in Nat
  <2>1. \A u \in Ues : r[u] \in Rates \/ r[u] = 0
    BY DEF RatesOf
  <2>2. \A x \in Rates : x \in Nat
    BY Settings
  <2> QED BY <2>1, <2>2
<1>3. CASE cand = {}
  <2>1. Decision(c, cand, r) = Nobody
    BY <1>3 DEF Decision
  <2> QED BY <1>3, <2>1, NobodyGets
<1>4. CASE cand # {} /\ policy = "round-robin"
  <2>1. Decision(c, cand, r) = RoundRobin(cand, Start(c, cand))
    BY <1>4 DEF Decision
  <2>2. Start(c, cand) \in 0..(Cardinality(cand) - 1)
    <3>1. Cardinality(cand) \in Nat /\ Cardinality(cand) > 0 /\ cursor[c] \in Nat
      BY <1>4, Places
    <3> QED BY <3>1 DEF Start
  <2> QED BY <1>4, <2>1, <2>2, RoundRobinGives
<1>5. CASE cand # {} /\ policy = "max-ci"
  <2>1. Decision(c, cand, r) = WinnerTakesAll(MaxCiWinner(cand, r))
    BY <1>5 DEF Decision
  <2>2. MaxCiWinner(cand, r) \in cand
    BY <1>2, <1>5, MaxCiFinds
  <2> QED BY <1>5, <2>1, <2>2, WinnerGets
<1>6. CASE cand # {} /\ policy = "proportional-fair"
  <2>1. Decision(c, cand, r) = WinnerTakesAll(ProportionalFairWinner(c, cand, r))
    BY <1>6 DEF Decision
  <2>2. \A u \in cand : average[c][u] \in Averages /\ average[c][u].n # 0
    BY <1>6 DEF DividesByZero, AverageInv
  <2>3. ProportionalFairWinner(c, cand, r) \in cand
    BY <1>2, <1>6, <2>2, ProportionalFairFinds
  <2> QED BY <1>6, <2>1, <2>3, WinnerGets
<1> QED BY <1>1, <1>3, <1>4, <1>5, <1>6

\* Nothing is awaiting feedback at the start.
LEMMA InitDecisions == Init => DecisionInv
BY DEF Init, DecisionInv, DecisionsValid

\* A decision concerns its own cell, and feedback ends what it is about.
LEMMA NextDecisions == AverageInv /\ DecisionInv /\ [Next]_vars => DecisionInv'
<1> SUFFICES ASSUME AverageInv, DecisionInv, [Next]_vars PROVE DecisionInv'
  OBVIOUS
<1>1. ASSUME NEW c \in Cells, NEW cand \in SUBSET Ues, NEW r \in RatesOf(cand),
             Decide(c, cand, r)
      PROVE  DecisionInv'
  <2> DEFINE d == Decision(c, cand, r)
  <2>1. /\ policy' = policy /\ awaiting' = awaiting \cup {c}
        /\ alloc' = [alloc EXCEPT ![c] = d]
        /\ eligible' = [eligible EXCEPT ![c] = cand]
    BY <1>1 DEF Decide
  <2>2. /\ \A u \in Ues : d[u] > 0 => u \in cand
        /\ Sum(d, NumUes) = IF cand = {} THEN 0 ELSE Prbs
    BY <1>1, DecisionValid DEF Decide, DecisionInv
  <2> HIDE DEF d
  <2>3. cursor' \in [Cells -> Nat]
    <3>1. CASE policy = "round-robin" /\ cand # {}
      <4>1. Cardinality(cand) \in Nat /\ Cardinality(cand) > 0 /\ cursor[c] \in Nat
        BY <3>1, Places DEF DecisionInv
      <4>2. (Start(c, cand) + 1) % Cardinality(cand) \in Nat
        BY <4>1 DEF Start
      <4> QED BY <1>1, <3>1, <4>2 DEF Decide, Advance, DecisionInv
    <3>2. CASE ~(policy = "round-robin" /\ cand # {})
      BY <1>1, <3>2 DEF Decide, Advance, DecisionInv
    <3> QED BY <3>1, <3>2
  <2>4. /\ alloc' = [b \in Cells |-> alloc'[b]] /\ eligible' \in [Cells -> SUBSET Ues]
        /\ alloc'[c] = d /\ eligible'[c] = cand
        /\ \A b \in Cells \ {c} : alloc'[b] = alloc[b] /\ eligible'[b] = eligible[b]
    BY <2>1 DEF DecisionInv
  <2>5. ASSUME NEW b \in awaiting'
        PROVE  /\ \A u \in Ues : alloc'[b][u] > 0 => u \in eligible'[b]
               /\ Sum(alloc'[b], NumUes) = IF eligible'[b] = {} THEN 0 ELSE Prbs
    <3>1. CASE b = c
      BY <2>2, <2>4, <3>1
    <3>2. CASE b # c
      <4>1. b \in awaiting /\ b \in Cells
        BY <2>1, <3>2 DEF DecisionInv
      <4> QED BY <2>4, <3>2, <4>1 DEF DecisionInv, DecisionsValid, Given
    <3> QED BY <3>1, <3>2
  <2>6. DecisionsValid'
    BY <2>5 DEF DecisionsValid, Given
  <2> QED BY <2>1, <2>3, <2>4, <2>6 DEF DecisionInv
<1>2. ASSUME NEW c \in Cells, NEW cand \in SUBSET Ues, DecideRaises(c, cand)
      PROVE  DecisionInv'
  BY <1>2 DEF DecideRaises, DecisionInv, DecisionsValid, Given
<1>3. ASSUME NEW c \in Cells, NEW realized \in [Ues -> Rates \cup {0}],
             RecordService(c, realized)
      PROVE  DecisionInv'
  <2>1. /\ policy' = policy /\ cursor' = cursor /\ eligible' = eligible
        /\ awaiting' = awaiting \ {c} /\ alloc' = [alloc EXCEPT ![c] = Nobody]
    BY <1>3 DEF RecordService
  <2>2. /\ alloc' = [b \in Cells |-> alloc'[b]]
        /\ \A b \in Cells \ {c} : alloc'[b] = alloc[b]
    BY <2>1 DEF DecisionInv
  <2> QED BY <2>1, <2>2 DEF DecisionInv, DecisionsValid, Given
<1>4. CASE UNCHANGED vars
  BY <1>4 DEF vars, DecisionInv, DecisionsValid, Given
<1> QED BY <1>1, <1>2, <1>3, <1>4 DEF Next

\* Every decision passes validate_decision and leaves no PRB idle while
\* anyone is eligible (DecisionsValid), whatever the policy, the numbers of
\* UEs and PRBs, the rates and the history.
THEOREM EveryDecisionValid == Spec => []DecisionsValid
<1>1. DecisionInv => DecisionsValid
  BY DEF DecisionInv
<1> QED BY <1>1, InitPositive, NextPositive, InitDecisions, NextDecisions, PTL DEF Spec

-----------------------------------------------------------------------------
(* Round Robin is fair.                                                    *)

\* A UE at place x of the rotation of the next decision was at places x + 1
\* to x + k, modulo n, in the last k: in how many it got a remainder PRB.
Favours(n, rem, x, k) ==
    Between(x + 1, Least(x + k + 1, rem))
    + Between(IF x + 1 < n THEN n ELSE x + 1, Least(x + k + 1, n + rem))

\* A cycle so far: every UE had its equal part, and the remainder PRBs that
\* its places gave it.
CycleInv ==
    policy = "round-robin" =>
        \A c \in Cells :
            LET n == Cardinality(eligible[c])
            IN  /\ steady[c] \in Nat
                /\ eligible[c] # {} =>
                      /\ cursor[c] < n /\ steady[c] >= 1 /\ steady[c] <= n
                      /\ \A u \in eligible[c] :
                            granted[c][u] = steady[c] * (Prbs \div n)
                              + Favours(n, Prbs % n,
                                        (Position(u, eligible[c]) - cursor[c]) % n, steady[c])

\* The histories are functions, so that one cell's change is only its own.
Histories ==
    /\ steady = [c \in Cells |-> steady[c]]
    /\ granted = [c \in Cells |-> granted[c]]

\* Favours never exceed the remainder, and are the remainder after a cycle.
LEMMA FavoursBounded ==
    ASSUME NEW n \in Nat, NEW rem \in 0..(n - 1), NEW x \in 0..(n - 1), NEW k \in 0..n
    PROVE  /\ Favours(n, rem, x, k) \in Nat /\ Favours(n, rem, x, k) <= rem
           /\ Favours(n, rem, x, 0) = 0
           /\ Favours(n, rem, x, n) = rem
BY DEF Favours, Between, Least

\* One more decision favours the UEs at its first places.
LEMMA FavoursStep ==
    ASSUME NEW n \in Nat, NEW rem \in 0..(n - 1), NEW x \in 0..(n - 1), NEW k \in 0..(n - 1)
    PROVE  Favours(n, rem, IF x = 0 THEN n - 1 ELSE x - 1, k + 1)
             = Favours(n, rem, x, k) + (IF x < rem THEN 1 ELSE 0)
<1>1. CASE x = 0
  BY <1>1 DEF Favours, Between, Least
<1>2. CASE x # 0
  BY <1>2 DEF Favours, Between, Least
<1> QED BY <1>1, <1>2

\* A Round Robin decision extends the cycle, or starts one.
LEMMA CycleStep ==
    ASSUME NEW cand \in SUBSET Ues, cand # {}, NEW s \in 0..(Cardinality(cand) - 1),
           NEW k \in 0..(Cardinality(cand) - 1), NEW u \in cand, NEW before,
           before = k * (Prbs \div Cardinality(cand))
                      + Favours(Cardinality(cand), Prbs % Cardinality(cand),
                                (Position(u, cand) - s) % Cardinality(cand), k)
    PROVE  before + RoundRobin(cand, s)[u]
             = (k + 1) * (Prbs \div Cardinality(cand))
                 + Favours(Cardinality(cand), Prbs % Cardinality(cand),
                           (Position(u, cand) - ((s + 1) % Cardinality(cand)))
                               % Cardinality(cand), k + 1)
<1> DEFINE n    == Cardinality(cand)
           q    == Prbs \div n
           rem  == Prbs % n
           m    == Position(u, cand)
           x    == (m - s) % n
           turn == (s + 1) % n
           y    == (m - turn) % n
           d    == RoundRobin(cand, s)[u]
<1>1. n \in Nat /\ n > 0 /\ m \in Nat /\ m < n
  BY Places
<1>2. q \in Nat /\ rem \in 0..(n - 1)
  BY <1>1, Quotients
<1>3. d = IF x < rem THEN q + 1 ELSE q
  BY DEF RoundRobin, Ordinal, Ues
<1>4. x = IF m >= s THEN m - s ELSE m - s + n
  <2>1. m \in 0..(n - 1) /\ s \in 0..(n - 1)
    BY <1>1
  <2> HIDE DEF n, m
  <2> QED BY <1>1, <2>1, Turns
<1>5. turn = IF s = n - 1 THEN 0 ELSE s + 1
  BY <1>1, Turns
<1>6. before = k * q + Favours(n, rem, x, k) /\ k \in 0..(n - 1) /\ s \in 0..(n - 1)
  OBVIOUS
<1> HIDE DEF n, q, rem, m, turn, x, d
<1>7. y = IF m >= turn THEN m - turn ELSE m - turn + n
  BY <1>1, <1>5, <1>6, Turns
<1> HIDE DEF y
<1>8. x \in 0..(n - 1) /\ y = IF x = 0 THEN n - 1 ELSE x - 1
  BY <1>1, <1>4, <1>5, <1>6, <1>7
<1>9. Favours(n, rem, y, k + 1) = Favours(n, rem, x, k) + (IF x < rem THEN 1 ELSE 0)
  BY <1>1, <1>2, <1>6, <1>8, FavoursStep
<1>10. k * q \in Nat /\ (k + 1) * q = k * q + q
  BY <1>2, <1>6
<1>11. Favours(n, rem, x, k) \in Nat
  BY <1>1, <1>2, <1>6, <1>8, FavoursBounded
<1>12. before + d = (k + 1) * q + Favours(n, rem, y, k + 1)
  BY <1>2, <1>3, <1>6, <1>9, <1>10, <1>11
<1> QED BY <1>12 DEF n, q, rem, m, turn, x, y, d

\* No cycle has begun.
LEMMA InitCycles == Init => CycleInv /\ Histories
BY DEF Init, CycleInv, Histories

\* Cycles follow the decisions.
LEMMA NextCycles == DecisionInv /\ CycleInv /\ Histories /\ [Next]_vars => CycleInv' /\ Histories'
<1> SUFFICES ASSUME DecisionInv, CycleInv, Histories, [Next]_vars
             PROVE  CycleInv' /\ Histories'
  OBVIOUS
<1>1. ASSUME NEW c \in Cells, NEW cand \in SUBSET Ues, NEW r \in RatesOf(cand),
             Decide(c, cand, r)
      PROVE  CycleInv' /\ Histories'
  <2> DEFINE n == Cardinality(cand)
             d == Decision(c, cand, r)
             continues == cand = eligible[c] /\ steady[c] < n
             k == IF continues THEN steady[c] ELSE 0
             sum == [u \in Ues |-> (IF continues THEN granted[c][u] ELSE 0) + d[u]]
  <2>1. /\ policy' = policy /\ eligible' = [eligible EXCEPT ![c] = cand]
        /\ Remember(c, cand, d) /\ Advance(c, cand)
    BY <1>1 DEF Decide
  <2>2. CASE policy # "round-robin"
    <3>1. steady' = steady /\ granted' = granted
      BY <2>1, <2>2 DEF Remember
    <3> QED BY <2>1, <2>2, <3>1 DEF CycleInv, Histories
  <2>3. CASE policy = "round-robin"
    <3>1. /\ steady' = [steady EXCEPT ![c] = IF continues THEN steady[c] + 1 ELSE 1]
          /\ granted' = [granted EXCEPT ![c] = sum]
      BY <2>1, <2>3 DEF Remember
    <3>2. steady[c] \in Nat /\ n \in Nat
      BY <2>3, Places DEF CycleInv
    <3>3. /\ steady'[c] = k + 1 /\ granted'[c] = sum /\ eligible'[c] = cand
          /\ \A b \in Cells \ {c} : /\ steady'[b] = steady[b] /\ granted'[b] = granted[b]
                                    /\ eligible'[b] = eligible[b]
      <4> HIDE DEF sum
      <4> QED BY <2>1, <3>1, <3>2 DEF Histories, DecisionInv
    <3>4. Histories'
      <4> HIDE DEF sum, continues
      <4> QED BY <3>1 DEF Histories
    <3>5. \A b \in Cells \ {c} : cursor'[b] = cursor[b]
      BY <2>1 DEF Advance, DecisionInv
    <3>6. ASSUME cand # {}
          PROVE  /\ cursor'[c] < n /\ k + 1 >= 1 /\ k + 1 <= n
                 /\ \A u \in cand :
                       sum[u] = (k + 1) * (Prbs \div n)
                                 + Favours(n, Prbs % n,
                                           (Position(u, cand) - cursor'[c]) % n, k + 1)
      <4> DEFINE s == Start(c, cand)
      <4>1. n > 0 /\ cursor[c] \in Nat
        BY <3>6, Places DEF DecisionInv
      <4>2. s \in 0..(n - 1) /\ cursor'[c] = (s + 1) % n
        BY <2>1, <2>3, <3>2, <3>6, <4>1 DEF Start, Advance, DecisionInv
      <4>3. d = RoundRobin(cand, s)
        BY <2>3, <3>6 DEF Decision
      <4>4. k \in 0..(n - 1)
        BY <3>2, <4>1
      <4>5. continues => s = cursor[c]
        <5>1. continues => cursor[c] < n
          BY <2>3, <3>6 DEF CycleInv
        <5> QED BY <3>2, <4>1, <5>1, Turns DEF Start
      <4>6. ASSUME NEW u \in cand
            PROVE  sum[u] = (k + 1) * (Prbs \div n)
                             + Favours(n, Prbs % n,
                                       (Position(u, cand) - cursor'[c]) % n, k + 1)
        <5> DEFINE before == IF continues THEN granted[c][u] ELSE 0
                   x == (Position(u, cand) - s) % n
        <5>1. before = k * (Prbs \div n) + Favours(n, Prbs % n, x, k)
          <6>1. CASE continues
            BY <2>3, <3>6, <4>5, <6>1 DEF CycleInv
          <6>2. CASE ~continues
            <7>1. Position(u, cand) \in Nat /\ Position(u, cand) < n
              BY Places
            <7>2. x \in 0..(n - 1)
              BY <3>2, <4>1, <4>2, <7>1
            <7>3. Prbs % n \in 0..(n - 1) /\ Prbs \div n \in Nat
              BY <3>2, <4>1, Quotients
            <7> HIDE DEF x
            <7>4. Favours(n, Prbs % n, x, 0) = 0
              <8> HIDE DEF n
              <8> QED BY <3>2, <4>1, <7>2, <7>3, FavoursBounded
            <7>5. 0 * (Prbs \div n) = 0
              BY <7>3
            <7> HIDE DEF n, continues
            <7> QED BY <6>2, <7>4, <7>5
          <6> QED BY <6>1, <6>2
        <5>2. sum[u] = before + RoundRobin(cand, s)[u]
          BY <4>3
        <5> HIDE DEF before, sum, k, s, continues, d
        <5>3. before + RoundRobin(cand, s)[u]
                = (k + 1) * (Prbs \div n)
                    + Favours(n, Prbs % n, (Position(u, cand) - ((s + 1) % n)) % n, k + 1)
          BY <3>6, <4>2, <4>4, <5>1, CycleStep
        <5> QED BY <4>2, <5>2, <5>3
      <4>7. cursor'[c] < n /\ k + 1 >= 1 /\ k + 1 <= n
        <5> HIDE DEF s, k
        <5> QED BY <3>2, <4>1, <4>2, <4>4
      <4> HIDE DEF sum, k, d, continues, s
      <4> QED BY <4>6, <4>7
    <3>7. k + 1 \in Nat
      BY <3>2
    <3> HIDE DEF sum, k, continues, d
    <3>8. ASSUME NEW b \in Cells
          PROVE  LET e == eligible'[b]
                     j == Cardinality(e)
                 IN  /\ steady'[b] \in Nat
                     /\ e # {} =>
                           /\ cursor'[b] < j /\ steady'[b] >= 1 /\ steady'[b] <= j
                           /\ \A u \in e :
                                 granted'[b][u] = steady'[b] * (Prbs \div j)
                                   + Favours(j, Prbs % j,
                                             (Position(u, e) - cursor'[b]) % j, steady'[b])
      <4>1. CASE b = c
        BY <3>3, <3>6, <3>7, <4>1
      <4>2. CASE b # c
        BY <2>3, <3>3, <3>5, <4>2 DEF CycleInv
      <4> QED BY <4>1, <4>2
    <3>9. CycleInv'
      BY <3>8 DEF CycleInv
    <3> QED BY <3>4, <3>9
  <2> QED BY <2>2, <2>3
<1>2. ASSUME NEW c \in Cells, NEW cand \in SUBSET Ues, DecideRaises(c, cand)
      PROVE  CycleInv' /\ Histories'
  BY <1>2 DEF DecideRaises, CycleInv, Histories
<1>3. ASSUME NEW c \in Cells, NEW realized \in [Ues -> Rates \cup {0}],
             RecordService(c, realized)
      PROVE  CycleInv' /\ Histories'
  BY <1>3 DEF RecordService, CycleInv, Histories
<1>4. CASE UNCHANGED vars
  BY <1>4 DEF vars, CycleInv, Histories
<1> QED BY <1>1, <1>2, <1>3, <1>4 DEF Next

\* What the invariant says of the lead of a UE over another.
LEMMA CyclesFair == DecisionInv /\ CycleInv => FairCycles
<1> SUFFICES ASSUME DecisionInv, CycleInv, policy = "round-robin", NEW c \in Cells,
                    NEW u \in eligible[c], NEW v \in eligible[c]
             PROVE  LET lead == granted[c][u] - granted[c][v]
                    IN  /\ lead <= Prbs % Cardinality(eligible[c])
                        /\ steady[c] = Cardinality(eligible[c]) => lead = 0
  BY DEF FairCycles
<1> DEFINE cand == eligible[c]
           n    == Cardinality(cand)
           k    == steady[c]
           rem  == Prbs % n
           equal == k * (Prbs \div n)
           Place(w) == (Position(w, cand) - cursor[c]) % n
<1>1. cand \in SUBSET Ues /\ cand # {} /\ cursor[c] \in Nat
  BY DEF DecisionInv
<1>2. n \in Nat /\ n > 0 /\ \A w \in cand : Position(w, cand) \in Nat
  BY <1>1, Places
<1>3. k \in 0..n /\ \A w \in cand : granted[c][w] = equal + Favours(n, rem, Place(w), k)
  BY <1>1, <1>2 DEF CycleInv
<1>4. rem \in 0..(n - 1) /\ Prbs \div n \in Nat
  BY <1>2, Quotients
<1>5. \A w \in cand : Place(w) \in 0..(n - 1)
  BY <1>1, <1>2
<1>6. equal \in Nat
  BY <1>3, <1>4
<1> HIDE DEF n, k, rem, equal, Place, cand
<1>7. ASSUME NEW w \in cand
      PROVE  /\ Favours(n, rem, Place(w), k) \in Nat
             /\ Favours(n, rem, Place(w), k) <= rem
             /\ k = n => Favours(n, rem, Place(w), k) = rem
  BY <1>2, <1>3, <1>4, <1>5, FavoursBounded
<1>8. u \in cand /\ v \in cand
  BY DEF cand
<1>9. granted[c][u] - granted[c][v] <= rem /\ (k = n => granted[c][u] - granted[c][v] = 0)
  BY <1>3, <1>4, <1>6, <1>7, <1>8
<1> QED BY <1>9 DEF n, k, rem, cand

\* While the same UEs stay eligible Round Robin gives them equal PRBs over
\* each cycle (FairCycles), for any numbers of UEs and PRBs, however the
\* eligible UEs changed before.
THEOREM EveryCycleFair == Spec => []FairCycles
BY InitPositive, NextPositive, InitDecisions, NextDecisions, InitCycles, NextCycles,
   CyclesFair, PTL DEF Spec

=============================================================================
