---------------------------- MODULE EvidenceProofs ----------------------------
(***************************************************************************)
(* Proofs about Evidence and the Orchestration it builds on, for any plan, *)
(* any invocations and worker counts, and any number of edits.             *)
(*                                                                         *)
(* What is published is never written again because each writer of it      *)
(* tests for it in the step that writes.  The outcomes in memory are       *)
(* bounded because the pool is refilled by the number taken from it, which *)
(* needs only that the cells handed out so far are counted by a number.    *)
(*                                                                         *)
(* The output is whole because of an account kept of every invocation: of  *)
(* the cells handed out, each is written, in hand or pending, and only one *)
(* of these; nothing is left in hand or pending when the bundle is         *)
(* composed, and sorting the records is a bijection.  A snapshot is        *)
(* founded on COMPLETE because the digests of the record form a chain that *)
(* starts there: while a file is as the program wrote it, so are the       *)
(* digests it records, and what verifies has the bodies they are of.  A    *)
(* change after the verification shows because editions only grow.         *)
(* Comparisons are fair because the design is factorial: in each           *)
(* replication a scheduler has one run of a stratum, so none is paired     *)
(* twice, and a pair is missing only where one of its runs failed.         *)
(***************************************************************************)
EXTENDS Evidence, FiniteSetTheorems, FunctionTheorems, TLAPS

-----------------------------------------------------------------------------
(* Cells handed out.                                                       *)

\* A request for n cells hands out n at most.
LEMMA NextCellsBounded ==
    ASSUME NEW i \in Invocations, NEW n \in Nat, HandedOut(i) \in Nat
    PROVE  /\ NextCells(i, n) \subseteq Cells
           /\ IsFiniteSet(NextCells(i, n))
           /\ Cardinality(NextCells(i, n)) <= n
<1> DEFINE h == HandedOut(i)
           places == DOMAIN Plan \cap (h + 1..h + n)
           f == [k \in places |-> Plan[k]]
<1>1. h \in Nat
  OBVIOUS
<1> HIDE DEF h
<1>0. IsFiniteSet(h + 1..h + n) /\ Cardinality(h + 1..h + n) = n
  <2>1. h + 1 \in Int /\ h + n \in Int
    BY <1>1
  <2>2. /\ IsFiniteSet(h + 1..h + n)
        /\ Cardinality(h + 1..h + n)
              = IF h + 1 > h + n THEN 0 ELSE (h + n) - (h + 1) + 1
    BY <2>1, FS_Interval, Zenon
  <2> QED BY <1>1, <2>2
<1>2. IsFiniteSet(places) /\ Cardinality(places) <= n /\ Cardinality(places) \in Nat
  BY <1>0, FS_Subset, FS_CardinalityType
<1>3. NextCells(i, n) = {Plan[k] : k \in places}
  BY DEF NextCells, h
<1>4. f \in Surjection(places, NextCells(i, n))
  BY <1>3 DEF Surjection
<1>5. /\ IsFiniteSet(NextCells(i, n))
      /\ Cardinality(NextCells(i, n)) <= Cardinality(places)
  BY <1>2, <1>4, FS_Surjection
<1>6. NextCells(i, n) \subseteq Cells
  BY <1>3 DEF Cells, Range
<1> QED BY <1>2, <1>5, <1>6, FS_CardinalityType

\* Adding them to what is pending adds n at most.
LEMMA SubmitBounded ==
    ASSUME NEW i \in Invocations, NEW n \in Nat, HandedOut(i) \in Nat,
           NEW left \in SUBSET Cells, IsFiniteSet(left)
    PROVE  /\ left \cup NextCells(i, n) \in SUBSET Cells
           /\ IsFiniteSet(left \cup NextCells(i, n))
           /\ Cardinality(left \cup NextCells(i, n)) <= Cardinality(left) + n
<1> DEFINE more == NextCells(i, n)
<1>1. more \subseteq Cells /\ IsFiniteSet(more) /\ Cardinality(more) <= n
  BY NextCellsBounded
<1> HIDE DEF more
<1>2. IsFiniteSet(left \cap more)
  BY <1>1, FS_Subset
<1>3. /\ IsFiniteSet(left \cup more)
      /\ Cardinality(left \cup more)
            = Cardinality(left) + Cardinality(more) - Cardinality(left \cap more)
  BY <1>1, FS_Union
<1>4. /\ Cardinality(left) \in Nat /\ Cardinality(more) \in Nat
      /\ Cardinality(left \cap more) \in Nat
  BY <1>1, <1>2, FS_CardinalityType
<1> QED BY <1>1, <1>3, <1>4 DEF more

-----------------------------------------------------------------------------
(* Sorting the records.                                                    *)

\* A cell is its variant in a replication.
LEMMA Identified ==
    ASSUME NEW c \in Cells, NEW d \in Cells
    PROVE  /\ c \in [variant : Nat, factors : Nat, replication : Nat]
           /\ c.variant = d.variant /\ c.replication = d.replication => c = d
<1>1. Plan \in Seq([variant : Nat, factors : Nat, replication : Nat])
  BY PlanAssumption
<1>2. \A e \in Cells : e \in [variant : Nat, factors : Nat, replication : Nat]
  <2> DEFINE R == [variant : Nat, factors : Nat, replication : Nat]
  <2>1. Plan \in Seq(R)
    BY <1>1
  <2> HIDE DEF R
  <2>2. \A e \in Cells : e \in R
    BY <2>1 DEF Cells, Range
  <2> QED BY <2>2 DEF R
<1>3. c.variant = d.variant => c.factors = d.factors
  BY PlanAssumption
<1> QED BY <1>2, <1>3

\* So any two cells have an order.
LEMMA KeysOrder ==
    ASSUME NEW c \in Cells, NEW d \in Cells
    PROVE  /\ ~Precedes(c, c)
           /\ c # d => Precedes(c, d) \/ Precedes(d, c)
           /\ ~(Precedes(c, d) /\ Precedes(d, c))
           /\ \A e \in Cells : Precedes(c, d) /\ Precedes(d, e) => Precedes(c, e)
<1>1. \A e \in Cells : e.variant \in Nat /\ e.replication \in Nat
  BY Identified
<1>2. c # d => c.variant # d.variant \/ c.replication # d.replication
  BY Identified
<1> QED BY <1>1, <1>2 DEF Precedes

\* Numbering distinct records by how many precede them is an ordering of them.
LEMMA OrderExists ==
    ASSUME NEW records \in Seq(Cells), IsInjective(records)
    PROVE  \E p \in Bijection(DOMAIN records, DOMAIN records) :
              \A j, k \in DOMAIN records :
                 j < k => ~Precedes(records[p[k]], records[p[j]])
<1> DEFINE D == DOMAIN records
           n == Len(records)
           Below(j) == {k \in D : Precedes(records[k], records[j])}
           rank == [j \in D |-> Cardinality(Below(j)) + 1]
           p == Inverse(rank, D, D)
<1>1. /\ n \in Nat /\ D = 1..n /\ \A j \in D : records[j] \in Cells
      /\ \A j, k \in D : j # k => records[j] # records[k]
  BY DEF IsInjective
<1>2. IsFiniteSet(D) /\ Cardinality(D) = n
  <2>1. IsFiniteSet(1..n) /\ Cardinality(1..n) = IF 1 > n THEN 0 ELSE n - 1 + 1
    BY <1>1, FS_Interval
  <2> QED BY <1>1, <2>1
<1> HIDE DEF n, D
<1>3. ASSUME NEW j \in D
      PROVE  /\ IsFiniteSet(Below(j)) /\ Cardinality(Below(j)) \in Nat
             /\ Cardinality(Below(j)) < n /\ j \notin Below(j)
  <2>1. j \notin Below(j)
    BY <1>1, KeysOrder
  <2>2. Below(j) \in SUBSET (D \ {j})
    BY <2>1
  <2>3. IsFiniteSet(D \ {j}) /\ Cardinality(D \ {j}) = n - 1
    BY <1>2, FS_RemoveElement
  <2>4. IsFiniteSet(Below(j)) /\ Cardinality(Below(j)) <= n - 1
    BY <2>2, <2>3, FS_Subset
  <2>5. Cardinality(Below(j)) \in Nat
    BY <2>4, FS_CardinalityType
  <2> QED BY <1>1, <2>1, <2>4, <2>5
<1>4. rank \in [D -> D]
  <2> HIDE DEF Below
  <2>1. \A j \in D : Cardinality(Below(j)) + 1 \in D
    BY <1>1, <1>3
  <2> QED BY <2>1
<1>5. ASSUME NEW j \in D, NEW k \in D, Precedes(records[j], records[k])
      PROVE  rank[j] < rank[k]
  <2>1. Below(j) \cup {j} \in SUBSET Below(k)
    BY <1>1, <1>5, KeysOrder
  <2>2. Cardinality(Below(j) \cup {j}) = Cardinality(Below(j)) + 1
    BY <1>3, FS_AddElement
  <2>3. Cardinality(Below(j) \cup {j}) <= Cardinality(Below(k))
    BY <1>3, <2>1, FS_Subset
  <2>4. Cardinality(Below(j)) \in Nat /\ Cardinality(Below(k)) \in Nat
    BY <1>3
  <2>5. rank[j] = Cardinality(Below(j)) + 1 /\ rank[k] = Cardinality(Below(k)) + 1
    OBVIOUS
  <2> HIDE DEF Below, rank
  <2> QED BY <2>2, <2>3, <2>4, <2>5
<1>6. \A j \in D : rank[j] \in Nat
  BY <1>1, <1>4
<1> HIDE DEF rank, Below
<1>7. \A j, k \in D : rank[j] = rank[k] => j = k
  <2>1. SUFFICES ASSUME NEW j \in D, NEW k \in D, j # k
                 PROVE  rank[j] # rank[k]
    OBVIOUS
  <2>2. Precedes(records[j], records[k]) \/ Precedes(records[k], records[j])
    BY <1>1, <2>1, KeysOrder
  <2> QED BY <1>5, <1>6, <2>2
<1>8. rank \in Injection(D, D)
  BY <1>4, <1>7, Fun_IsInj
<1>9. rank \in Surjection(D, D)
  BY <1>2, <1>8, FS_Injection
<1>10. rank \in Bijection(D, D)
  BY <1>8, <1>9, Fun_IsBij
<1>11. p \in Bijection(D, D) /\ \A s \in D : p[rank[s]] = s
  BY <1>10, Fun_BijInverse
<1> HIDE DEF p
<1>12. p \in [D -> D] /\ \A s \in D : \E t \in D : rank[t] = s
  BY <1>9, <1>11, Fun_BijectionProperties, Fun_SurjectionProperties
<1>13. \A s \in D : p[s] \in D /\ rank[p[s]] = s
  BY <1>11, <1>12
<1>14. ASSUME NEW j \in D, NEW k \in D, j < k
       PROVE  ~Precedes(records[p[k]], records[p[j]])
  <2>1. Precedes(records[p[k]], records[p[j]]) => rank[p[k]] < rank[p[j]]
    BY <1>5, <1>13
  <2>2. j \in Int /\ k \in Int
    BY <1>1
  <2> QED BY <1>13, <1>14, <2>1, <2>2
<1> QED BY <1>11, <1>14 DEF D

\* Sorting distinct records keeps them, in the order of their keys.
LEMMA SortedRecords ==
    ASSUME NEW records \in Seq(Cells), IsInjective(records)
    PROVE  /\ Sorted(records) \in Seq(Cells)
           /\ Len(Sorted(records)) = Len(records)
           /\ Range(Sorted(records)) = Range(records)
           /\ \A j, k \in DOMAIN Sorted(records) :
                 j < k => Precedes(Sorted(records)[j], Sorted(records)[k])
<1> DEFINE D == DOMAIN records
           Ordering(p) == \A j, k \in D : j < k => ~Precedes(records[p[k]], records[p[j]])
           order == CHOOSE p \in Bijection(D, D) : Ordering(p)
           out == [k \in D |-> records[order[k]]]
<1>1. \E p \in Bijection(D, D) : Ordering(p)
  BY OrderExists
<1>2. order \in Bijection(D, D) /\ Ordering(order)
  <2> HIDE DEF Ordering, D
  <2> QED BY <1>1
<1>3. Sorted(records) = out
  BY DEF Sorted
<1> HIDE DEF order
<1>4. /\ order \in [D -> D] /\ \A t \in D : \E s \in D : order[s] = t
      /\ \A a, b \in D : order[a] = order[b] => a = b
  BY <1>2, Fun_BijectionProperties
<1>5. /\ Len(records) \in Nat /\ D = 1..Len(records) /\ \A j \in D : records[j] \in Cells
      /\ \A j, k \in D : j # k => records[j] # records[k]
  BY DEF IsInjective
<1>6. out \in Seq(Cells) /\ Len(out) = Len(records) /\ DOMAIN out = D
  BY <1>4, <1>5
<1>7. Range(out) = Range(records)
  BY <1>4, <1>6 DEF Range
<1>8. ASSUME NEW j \in D, NEW k \in D, j < k
      PROVE  Precedes(out[j], out[k])
  <2>1. out[j] = records[order[j]] /\ out[k] = records[order[k]]
    OBVIOUS
  <2>2. order[j] \in D /\ order[k] \in D /\ order[j] # order[k]
    <3>1. j # k
      BY <1>5, <1>8
    <3> QED BY <1>4, <3>1
  <2>3. ~Precedes(out[k], out[j])
    BY <1>2, <1>8, <2>1
  <2>4. out[j] \in Cells /\ out[k] \in Cells /\ out[j] # out[k]
    BY <1>5, <2>1, <2>2
  <2> QED BY <2>3, <2>4, KeysOrder
<1> HIDE DEF out, D
<1> QED BY <1>3, <1>6, <1>7, <1>8

-----------------------------------------------------------------------------
(* The cells as they are dealt out.                                        *)

\* A sequence without repetition has as many members as places.
LEMMA DistinctSize ==
    ASSUME NEW S, NEW s \in Seq(S), IsInjective(s)
    PROVE  IsFiniteSet(Range(s)) /\ Cardinality(Range(s)) = Len(s) /\ Range(s) \subseteq S
<1>1. Len(s) \in Nat /\ DOMAIN s = 1..Len(s) /\ \A k \in 1..Len(s) : s[k] \in S
  OBVIOUS
<1>2. Range(s) \subseteq S
  BY <1>1 DEF Range
<1>3. IsFiniteSet(1..Len(s)) /\ Cardinality(1..Len(s)) = Len(s)
  <2>1. IsFiniteSet(1..Len(s)) /\ Cardinality(1..Len(s)) = IF 1 > Len(s) THEN 0 ELSE Len(s) - 1 + 1
    BY <1>1, FS_Interval
  <2> QED BY <1>1, <2>1
<1>4. s \in [1..Len(s) -> S]
  BY <1>1
<1>5. s \in Surjection(1..Len(s), Range(s))
  BY <1>4, Fun_RangeProperties
<1>6. s \in Injection(1..Len(s), Range(s))
  <2>1. s \in [1..Len(s) -> Range(s)]
    BY <1>5, Fun_SurjectionProperties
  <2>2. \A a, b \in 1..Len(s) : s[a] = s[b] => a = b
    BY <1>1 DEF IsInjective
  <2> QED BY <2>1, <2>2, Fun_IsInj
<1> QED BY <1>2, <1>3, <1>5, <1>6, FS_Surjection

\* One more member that was not there.
LEMMA AppendDistinct ==
    ASSUME NEW S, NEW s \in Seq(S), NEW c \in S
    PROVE  /\ Append(s, c) \in Seq(S)
           /\ Range(Append(s, c)) = Range(s) \cup {c}
           /\ IsInjective(s) /\ c \notin Range(s) => IsInjective(Append(s, c))
<1> DEFINE n == Len(s)
           t == Append(s, c)
<1>1. /\ n \in Nat /\ DOMAIN s = 1..n
      /\ t \in Seq(S) /\ DOMAIN t = 1..n + 1 /\ t[n + 1] = c
      /\ \A k \in 1..n : t[k] = s[k]
  OBVIOUS
<1> HIDE DEF n, t
<1>2. Range(t) = Range(s) \cup {c}
  <2>1. 1..n + 1 = (1..n) \cup {n + 1}
    BY <1>1
  <2> QED BY <1>1, <2>1 DEF Range
<1>3. ASSUME IsInjective(s), c \notin Range(s)
      PROVE  IsInjective(t)
  <2>1. \A k \in 1..n : t[k] # c
    BY <1>1, <1>3 DEF Range
  <2>2. \A a, b \in 1..n : t[a] = t[b] => a = b
    BY <1>1, <1>3 DEF IsInjective
  <2>3. \A a \in 1..n + 1 : a \in 1..n \/ a = n + 1
    BY <1>1
  <2> QED BY <1>1, <2>1, <2>2, <2>3 DEF IsInjective
<1> QED BY <1>1, <1>2, <1>3 DEF t

\* The plan lists every cell once.
LEMMA PlanLists ==
    /\ Len(Plan) \in Nat /\ DOMAIN Plan = 1..Len(Plan)
    /\ \A j, k \in 1..Len(Plan) : Plan[j] = Plan[k] => j = k
    /\ Len(Plan) >= 1
<1> DEFINE R == [variant : Nat, factors : Nat, replication : Nat]
<1>1. Plan \in Seq(R) /\ IsInjective(Plan) /\ Plan # << >>
  BY PlanAssumption
<1> HIDE DEF R
<1> QED BY <1>1 DEF IsInjective

\* The first h cells of the plan.
First(h) == {Plan[k] : k \in 1..h}

\* They are h cells, and all of them are the cells of the plan.
LEMMA FirstCells ==
    ASSUME NEW h \in 0..Len(Plan)
    PROVE  /\ First(h) \subseteq Cells /\ IsFiniteSet(First(h)) /\ Cardinality(First(h)) = h
           /\ First(0) = {} /\ First(Len(Plan)) = Cells
<1> DEFINE f == [k \in 1..h |-> Plan[k]]
<1>1. /\ Len(Plan) \in Nat /\ DOMAIN Plan = 1..Len(Plan)
      /\ \A j, k \in 1..Len(Plan) : Plan[j] = Plan[k] => j = k
  BY PlanLists
<1>2. 1..h \subseteq 1..Len(Plan) /\ h \in Nat
  BY <1>1
<1>3. IsFiniteSet(1..h) /\ Cardinality(1..h) = h
  <2>1. IsFiniteSet(1..h) /\ Cardinality(1..h) = IF 1 > h THEN 0 ELSE h - 1 + 1
    BY <1>2, FS_Interval
  <2> QED BY <1>2, <2>1
<1>4. f \in [1..h -> First(h)] /\ \A t \in First(h) : \E k \in 1..h : f[k] = t
  BY DEF First
<1>5. f \in Injection(1..h, First(h)) /\ f \in Surjection(1..h, First(h))
  <2>1. \A j, k \in 1..h : f[j] = f[k] => j = k
    BY <1>1, <1>2
  <2> HIDE DEF f
  <2> QED BY <1>4, <2>1, Fun_IsInj, Fun_IsSurj
<1>6. IsFiniteSet(First(h)) /\ Cardinality(First(h)) = h
  BY <1>3, <1>5, FS_Surjection
<1>7. First(h) \subseteq Cells
  BY <1>1, <1>2 DEF First, Cells, Range
<1>8. First(0) = {} /\ First(Len(Plan)) = Cells
  BY <1>1 DEF First, Cells, Range
<1> QED BY <1>6, <1>7, <1>8

\* The next n are behind them, as long as there are any.
LEMMA NextAre ==
    ASSUME NEW i \in Invocations, NEW n \in Nat, HandedOut(i) \in 0..Len(Plan)
    PROVE  \E g \in 0..Len(Plan) :
              /\ First(g) = First(HandedOut(i)) \cup NextCells(i, n)
              /\ First(HandedOut(i)) \cap NextCells(i, n) = {}
              /\ NextCells(i, n) = {} => g = HandedOut(i)
              /\ NextCells(i, n) = {} /\ n >= 1 => g = Len(Plan)
<1> DEFINE h == HandedOut(i)
           places == DOMAIN Plan \cap (h + 1..h + n)
           g == IF h + n > Len(Plan) THEN Len(Plan) ELSE h + n
<1>1. /\ Len(Plan) \in Nat /\ DOMAIN Plan = 1..Len(Plan)
      /\ \A j, k \in 1..Len(Plan) : Plan[j] = Plan[k] => j = k
  BY PlanLists
<1>2. NextCells(i, n) = {Plan[k] : k \in places}
  BY DEF NextCells
<1>3. h \in Nat /\ h <= Len(Plan)
  BY <1>1
<1> HIDE DEF h
<1>4. /\ g \in 0..Len(Plan) /\ places = (h + 1..g) /\ g >= h
      /\ (1..g) = (1..h) \cup (h + 1..g)
      /\ (1..h) \cap (h + 1..g) = {}
      /\ (1..g) \subseteq 1..Len(Plan)
  BY <1>1, <1>3
<1>5. n >= 1 /\ g = h => g = Len(Plan)
  <2>1. CASE h + n > Len(Plan)
    BY <2>1
  <2>2. CASE ~(h + n > Len(Plan))
    <3>1. g = h + n
      BY <2>2
    <3> HIDE DEF g
    <3> QED BY <1>3, <3>1
  <2> QED BY <2>1, <2>2
<1> HIDE DEF g, places
<1>9. g # h => h + 1 \in h + 1..g
  BY <1>1, <1>3, <1>4
<1>6. First(g) = First(h) \cup NextCells(i, n)
  BY <1>2, <1>4 DEF First
<1>7. First(h) \cap NextCells(i, n) = {}
  BY <1>1, <1>2, <1>4 DEF First
<1>8. NextCells(i, n) = {} => g = h
  <2>1. places = {} => g = h
    BY <1>4, <1>9
  <2> QED BY <1>2, <2>1
<1> QED BY <1>4, <1>5, <1>6, <1>7, <1>8 DEF h

\* The cells whose outcome was written.
Noticed(s) == Range(s.runs) \cup Range(s.failures)

\* What was written, is in hand and is pending are parts of the first h cells.
Shares(h, note, hand, left) ==
    /\ (note \cup hand) \cup left = First(h)
    /\ note \cap hand = {} /\ (note \cup hand) \cap left = {}

\* More cells are the next ones.
LEMMA SharesGrow ==
    ASSUME NEW i \in Invocations, NEW n \in Nat, HandedOut(i) \in 0..Len(Plan),
           NEW note, NEW hand, NEW left, Shares(HandedOut(i), note, hand, left)
    PROVE  \E g \in 0..Len(Plan) :
              /\ Shares(g, note, hand, left \cup NextCells(i, n))
              /\ left \cup NextCells(i, n) = {} =>
                    /\ g = HandedOut(i)
                    /\ n >= 1 => g = Len(Plan)
<1>1. PICK g \in 0..Len(Plan) :
              /\ First(g) = First(HandedOut(i)) \cup NextCells(i, n)
              /\ First(HandedOut(i)) \cap NextCells(i, n) = {}
              /\ NextCells(i, n) = {} => g = HandedOut(i)
              /\ NextCells(i, n) = {} /\ n >= 1 => g = Len(Plan)
  BY NextAre
<1>2. Shares(g, note, hand, left \cup NextCells(i, n))
  BY <1>1 DEF Shares
<1>3. left \cup NextCells(i, n) = {} => NextCells(i, n) = {}
  OBVIOUS
<1> QED BY <1>1, <1>2, <1>3

\* The numbers of outcomes and of cells in memory add up to h.
LEMMA SharesCount ==
    ASSUME NEW h \in 0..Len(Plan), NEW runs \in Seq(Cells), NEW failures \in Seq(Cells),
           IsInjective(runs), IsInjective(failures), Range(runs) \cap Range(failures) = {},
           NEW hand \in SUBSET Cells, NEW left \in SUBSET Cells,
           Shares(h, Range(runs) \cup Range(failures), hand, left)
    PROVE  Len(runs) + Len(failures) + Cardinality(hand) + Cardinality(left) = h
<1> DEFINE note == Range(runs) \cup Range(failures)
<1>1. /\ note \cup hand \cup left = First(h)
      /\ note \cap hand = {} /\ (note \cup hand) \cap left = {}
  BY DEF Shares
<1>2. /\ IsFiniteSet(Range(runs)) /\ Cardinality(Range(runs)) = Len(runs)
      /\ IsFiniteSet(Range(failures)) /\ Cardinality(Range(failures)) = Len(failures)
      /\ Len(runs) \in Nat /\ Len(failures) \in Nat
  BY DistinctSize
<1>3. IsFiniteSet({}) /\ Cardinality({}) = 0
  BY FS_EmptySet
<1>4. IsFiniteSet(note) /\ Cardinality(note) = Len(runs) + Len(failures)
  <2> DEFINE A == Range(runs)
             B == Range(failures)
  <2>2. IsFiniteSet(A) /\ IsFiniteSet(B) /\ A \cap B = {}
    BY <1>2
  <2>3. IsFiniteSet(A \cup B)
        /\ Cardinality(A \cup B) = Cardinality(A) + Cardinality(B) - Cardinality(A \cap B)
    <3> HIDE DEF A, B
    <3> QED BY <2>2, FS_Union
  <2>1. /\ IsFiniteSet(note)
        /\ Cardinality(note) = Cardinality(Range(runs)) + Cardinality(Range(failures)) - 0
    BY <1>3, <2>2, <2>3
  <2> QED BY <1>2, <2>1
<1>5. IsFiniteSet(First(h)) /\ Cardinality(First(h)) = h
  BY FirstCells
<1>6. IsFiniteSet(hand) /\ IsFiniteSet(left)
  <2>1. hand \in SUBSET First(h) /\ left \in SUBSET First(h)
    BY <1>1
  <2> QED BY <1>5, <2>1, FS_Subset
<1> HIDE DEF note
<1>7. Cardinality(hand) \in Nat /\ Cardinality(left) \in Nat
  BY <1>6, FS_CardinalityType
<1>8. /\ IsFiniteSet(note \cup hand)
      /\ Cardinality(note \cup hand) = Cardinality(note) + Cardinality(hand) - 0
  BY <1>1, <1>3, <1>4, <1>6, FS_Union
<1>9. Cardinality(note \cup hand \cup left)
         = Cardinality(note \cup hand) + Cardinality(left) - 0
  <2>1. PICK both : both = note \cup hand
    OBVIOUS
  <2> QED BY <1>1, <1>3, <1>6, <1>8, <2>1, FS_Union
<1>10. Cardinality(note) + Cardinality(hand) + Cardinality(left) = h
  <2>1. Cardinality(note) \in Nat
    BY <1>2, <1>4
  <2>2. Cardinality((note \cup hand) \cup left) = h
    BY <1>1, <1>5
  <2> QED BY <1>7, <1>8, <1>9, <2>1, <2>2
<1> QED BY <1>2, <1>4, <1>7, <1>10

-----------------------------------------------------------------------------
(* The invariant.                                                          *)

RunningStage == [present : {TRUE}, runs : Seq(Cells), failures : Seq(Cells)]

\* What an invocation has in memory.
InMemory ==
    /\ pending \in [Invocations -> SUBSET Cells]
    /\ held \in [Invocations -> SUBSET Cells]
    /\ \A i \in Invocations : IsFiniteSet(pending[i]) /\ IsFiniteSet(held[i])
    /\ InFlightBounded

\* Where it is, and its staging directory.
Phases == {"idle", "running", "composed", "refused", "raised", "retained", "returned", "crashed"}
Staging ==
    /\ pc \in [Invocations -> Phases]
    /\ stage = [i \in Invocations |-> stage[i]]
    /\ \A i \in Invocations :
          /\ pc[i] = "idle" => stage[i] = Absent
          /\ pc[i] = "running" => stage[i] \in RunningStage
          /\ pc[i] # "running" => held[i] = {}

\* The files: what is not written has no edition, and the plots come with
\* their manifest.
Typed(content) ==
    /\ content = [body |-> content.body, rest |-> content.rest,
                  fits |-> content.fits, cites |-> content.cites]
    /\ content.body \in Nat /\ content.rest \in Nat
Editions ==
    /\ file = [f \in Files |-> file[f]]
    /\ \A f \in Files : Typed(file[f]) /\ (~Written(f) => file[f].rest = 0)
    /\ Written("plotManifest") <=> Written("plots")

\* A file that changes has a later edition, of its body or of its rest.
Grown(old, new) == \/ new = old
                   \/ /\ new.body >= old.body
                      /\ new.body + new.rest > old.body + old.rest

IInv ==
    /\ workers \in [Invocations -> WorkerCounts]
    /\ InMemory
    /\ Staging
    /\ Editions

\* A worker count is a positive number.
LEMMA WorkersPositive ==
    ASSUME NEW n \in WorkerCounts
    PROVE  n \in Nat /\ n >= 1
BY WorkersAssumption

\* While an invocation runs, the cells it has handed out are counted.
LEMMA HandedOutCounted ==
    ASSUME IInv, NEW i \in Invocations, pc[i] \in {"idle", "running"}
    PROVE  HandedOut(i) \in Nat
<1>1. Cardinality(pending[i]) \in Nat /\ Cardinality(held[i]) \in Nat
  BY FS_CardinalityType DEF IInv, InMemory
<1>2. CASE ~stage[i].present
  BY <1>2 DEF HandedOut
<1>3. CASE stage[i].present
  <2>1. stage[i] \in RunningStage
    BY <1>3 DEF IInv, Staging, Absent
  <2> DEFINE a == Len(stage[i].runs)
             b == Len(stage[i].failures)
             c == Cardinality(held[i])
             d == Cardinality(pending[i])
  <2>2. a \in Nat /\ b \in Nat /\ c \in Nat /\ d \in Nat
    BY <1>1, <2>1 DEF RunningStage
  <2>3. HandedOut(i) = a + b + c + d
    BY <1>3, Zenon DEF HandedOut
  <2> HIDE DEF a, b, c, d
  <2> QED BY <2>2, <2>3
<1> QED BY <1>2, <1>3

\* Every invocation has cells in memory within its bounds after it submits n
\* more to those left, with those in hand.
LEMMA SubmitKeeps ==
    ASSUME IInv, NEW i \in Invocations, NEW n \in Nat, HandedOut(i) \in Nat,
           NEW left \in SUBSET Cells, IsFiniteSet(left), Submit(i, n, left),
           NEW hand \in SUBSET Cells, IsFiniteSet(hand),
           held' = [held EXCEPT ![i] = hand], workers' = workers,
           Cardinality(left) + n <= workers[i],
           Serial(i) => Cardinality(left) + n + Cardinality(hand) <= 1
    PROVE  InMemory'
<1> DEFINE more == left \cup NextCells(i, n)
<1>1. /\ more \in SUBSET Cells /\ IsFiniteSet(more)
      /\ Cardinality(more) <= Cardinality(left) + n
  BY SubmitBounded
<1>2. pending' = [pending EXCEPT ![i] = more]
  BY DEF Submit
<1> HIDE DEF more
<1>3. /\ pending \in [Invocations -> SUBSET Cells] /\ held \in [Invocations -> SUBSET Cells]
      /\ \A j \in Invocations : IsFiniteSet(pending[j]) /\ IsFiniteSet(held[j])
      /\ workers[i] \in Nat
  BY WorkersPositive DEF IInv, InMemory
<1>4. /\ Cardinality(more) \in Nat /\ Cardinality(left) \in Nat
      /\ Cardinality(hand) \in Nat
  BY <1>1, FS_CardinalityType
<1>5. \A j \in Invocations : /\ pending'[j] = IF j = i THEN more ELSE pending[j]
                             /\ held'[j] = IF j = i THEN hand ELSE held[j]
  BY <1>2, <1>3
<1>6. ASSUME NEW j \in Invocations
      PROVE  /\ Cardinality(pending'[j]) <= workers'[j]
             /\ workers'[j] = 1 => Cardinality(pending'[j]) + Cardinality(held'[j]) <= 1
  <2>1. CASE j = i
    <3>1. pending'[j] = more /\ held'[j] = hand
      BY <1>5, <2>1
    <3> QED BY <1>1, <1>3, <1>4, <2>1, <3>1 DEF Serial
  <2>2. CASE j # i
    <3>1. pending'[j] = pending[j] /\ held'[j] = held[j]
      BY <1>5, <2>2
    <3> QED BY <3>1 DEF IInv, InMemory, InFlightBounded, Serial
  <2> QED BY <2>1, <2>2
<1> QED BY <1>1, <1>2, <1>3, <1>5, <1>6 DEF InMemory, InFlightBounded, Serial

\* Clearing what an invocation has in memory keeps it within its bounds.
LEMMA ClearKeeps ==
    ASSUME IInv, NEW i \in Invocations, workers' = workers,
           pending' = [pending EXCEPT ![i] = {}], held' = [held EXCEPT ![i] = {}]
    PROVE  InMemory'
<1>1. /\ pending \in [Invocations -> SUBSET Cells] /\ held \in [Invocations -> SUBSET Cells]
      /\ \A j \in Invocations : /\ IsFiniteSet(pending[j]) /\ IsFiniteSet(held[j])
                                 /\ workers[j] \in Nat
  BY WorkersPositive DEF IInv, InMemory
<1>2. IsFiniteSet({}) /\ Cardinality({}) = 0
  BY FS_EmptySet
<1>3. \A j \in Invocations : /\ pending'[j] = IF j = i THEN {} ELSE pending[j]
                             /\ held'[j] = IF j = i THEN {} ELSE held[j]
  BY <1>1
<1>4. ASSUME NEW j \in Invocations
      PROVE  /\ Cardinality(pending'[j]) <= workers'[j]
             /\ workers'[j] = 1 => Cardinality(pending'[j]) + Cardinality(held'[j]) <= 1
  <2>1. CASE j = i
    BY <1>1, <1>2, <1>3, <2>1
  <2>2. CASE j # i
    <3>1. pending'[j] = pending[j] /\ held'[j] = held[j]
      BY <1>3, <2>2
    <3> QED BY <3>1 DEF IInv, InMemory, InFlightBounded, Serial
  <2> QED BY <2>1, <2>2
<1> QED BY <1>1, <1>2, <1>3, <1>4 DEF InMemory, InFlightBounded, Serial

-----------------------------------------------------------------------------
(* Every step keeps it.                                                    *)

\* Nothing is in memory before an invocation begins.
LEMMA InitInv == EvidenceInit => IInv
<1> SUFFICES ASSUME EvidenceInit PROVE IInv
  OBVIOUS
<1>1. IsFiniteSet({}) /\ Cardinality({}) = 0
  BY FS_EmptySet
<1>2. Editions
  <2>1. file = [f \in Files |-> IF f \in Core THEN AsWritten([g \in Cites[f] |-> 1])
                                               ELSE Unwritten]
    BY DEF EvidenceInit
  <2>2. \A f \in Files : Typed(file[f]) /\ (~Written(f) => file[f].rest = 0)
    BY <2>1 DEF AsWritten, Unwritten, Typed, Written
  <2>3. file = [f \in Files |-> file[f]]
    BY <2>1
  <2>4. file["plotManifest"] = Unwritten /\ file["plots"] = Unwritten
    BY <2>1 DEF Files, Reports, Core
  <2> QED BY <2>2, <2>3, <2>4 DEF Editions, Written
<1>3. /\ workers \in [Invocations -> WorkerCounts]
      /\ pc      = [i \in Invocations |-> "idle"]
      /\ pending = [i \in Invocations |-> {}]
      /\ held    = [i \in Invocations |-> {}]
      /\ stage   = [i \in Invocations |-> Absent]
  BY DEF EvidenceInit, Init
<1>4. InMemory
  BY <1>1, <1>3, WorkersPositive DEF InMemory, InFlightBounded
<1>5. Staging
  BY <1>3 DEF Staging, Phases
<1> QED BY <1>2, <1>3, <1>4, <1>5 DEF IInv

\* Nothing changes in memory in a step that leaves it alone.
LEMMA SameMemory ==
    ASSUME IInv, pending' = pending, held' = held, workers' = workers
    PROVE  InMemory'
BY DEF IInv, InMemory, InFlightBounded, Serial

\* An invocation that moves on keeps the staging of the others.
LEMMA MovesOn ==
    ASSUME IInv, NEW i \in Invocations, NEW phase \in Phases \ {"idle"}, NEW s,
           pc' = [pc EXCEPT ![i] = phase], stage' = [stage EXCEPT ![i] = s],
           phase = "running" => s \in RunningStage,
           phase # "running" => held'[i] = {},
           \A j \in Invocations \ {i} : held'[j] = held[j]
    PROVE  Staging'
<1>1. pc \in [Invocations -> Phases] /\ stage = [j \in Invocations |-> stage[j]]
  BY DEF IInv, Staging
<1>2. /\ pc' \in [Invocations -> Phases]
      /\ stage' = [j \in Invocations |-> stage'[j]]
      /\ pc'[i] = phase /\ stage'[i] = s
      /\ \A j \in Invocations \ {i} : pc'[j] = pc[j] /\ stage'[j] = stage[j]
  BY <1>1
<1>3. ASSUME NEW j \in Invocations
      PROVE  /\ pc'[j] = "idle" => stage'[j] = Absent
             /\ pc'[j] = "running" => stage'[j] \in RunningStage
             /\ pc'[j] # "running" => held'[j] = {}
  BY <1>2 DEF IInv, Staging
<1> QED BY <1>2, <1>3 DEF Staging

\* The steps that empty the memory of an invocation, or leave it alone.
LEMMA AbortKeeps ==
    ASSUME IInv, NEW i \in Invocations, Abort(i)
    PROVE  InMemory' /\ Staging'
<1>1. InMemory'
  BY ClearKeeps DEF Abort
<1>2. held \in [Invocations -> SUBSET Cells]
  BY DEF IInv, InMemory
<1>3. held'[i] = {} /\ \A j \in Invocations \ {i} : held'[j] = held[j]
  BY <1>2 DEF Abort
<1>4. Staging'
  BY <1>3, MovesOn DEF Abort, Phases
<1> QED BY <1>1, <1>4

\* See AbortKeeps.
LEMMA CrashKeeps ==
    ASSUME IInv, NEW i \in Invocations, Crash(i)
    PROVE  InMemory' /\ Staging'
<1>1. InMemory'
  BY ClearKeeps DEF Crash
<1>2. held \in [Invocations -> SUBSET Cells]
  BY DEF IInv, InMemory
<1>3. held'[i] = {} /\ \A j \in Invocations \ {i} : held'[j] = held[j]
  BY <1>2 DEF Crash
<1>4. Staging'
  BY <1>3, MovesOn DEF Crash, Phases
<1> QED BY <1>1, <1>4

\* See AbortKeeps.
LEMMA ComposeKeeps ==
    ASSUME IInv, NEW i \in Invocations, Compose(i)
    PROVE  InMemory' /\ Staging'
<1>1. CASE Abort(i)
  BY <1>1, AbortKeeps
<1>2. CASE ~Abort(i)
  <2>1. /\ stage' = [stage EXCEPT ![i] = Whole(i, BundleOf(stage[i]))]
        /\ pc' = [pc EXCEPT ![i] = "composed"]
        /\ workers' = workers /\ pending' = pending /\ held' = held /\ held[i] = {}
    BY <1>2 DEF Compose
  <2>2. InMemory'
    BY <2>1, SameMemory
  <2>3. Staging'
    BY <2>1, MovesOn DEF Phases
  <2> QED BY <2>2, <2>3
<1> QED BY <1>1, <1>2

\* See AbortKeeps.
LEMMA PromoteKeeps ==
    ASSUME IInv, NEW i \in Invocations, Promote(i)
    PROVE  InMemory' /\ Staging'
<1>1. CASE Abort(i)
  BY <1>1, AbortKeeps
<1>2. CASE ~Abort(i)
  <2>1. /\ stage' = [stage EXCEPT ![i] = Absent]
        /\ \E phase \in {"retained", "returned"} : pc' = [pc EXCEPT ![i] = phase]
        /\ workers' = workers /\ pending' = pending /\ held' = held /\ pc[i] = "composed"
    BY <1>2 DEF Promote
  <2>2. InMemory'
    BY <2>1, SameMemory
  <2>3. held[i] = {}
    BY <2>1 DEF IInv, Staging
  <2>4. Staging'
    BY <2>1, <2>3, MovesOn DEF Phases
  <2> QED BY <2>2, <2>4
<1> QED BY <1>1, <1>2

\* The first cells are as many as the workers.
LEMMA BeginKeeps ==
    ASSUME IInv, NEW i \in Invocations, Begin(i)
    PROVE  InMemory' /\ Staging'
<1>1. pc[i] = "idle" /\ held' = held /\ workers' = workers
  BY DEF Begin
<1>2. CASE target.present
  <2>1. pc' = [pc EXCEPT ![i] = "refused"] /\ pending' = pending /\ stage' = stage
    BY <1>2 DEF Begin
  <2>2. stage' = [stage EXCEPT ![i] = stage[i]]
    BY <2>1 DEF IInv, Staging
  <2>3. Staging'
    <3>1. held[i] = {}
      BY <1>1 DEF IInv, Staging
    <3> QED BY <1>1, <2>1, <2>2, <3>1, MovesOn DEF Phases
  <2> QED BY <1>1, <2>1, <2>3, SameMemory
<1>3. CASE ~target.present
  <2>1. /\ pc' = [pc EXCEPT ![i] = "running"]
        /\ stage' = [stage EXCEPT ![i] = EmptyStage]
        /\ Submit(i, workers[i], {})
    BY <1>3 DEF Begin
  <2>2. EmptyStage \in RunningStage
    BY DEF EmptyStage, RunningStage
  <2>3. Staging'
    <3>1. held[i] = {}
      BY <1>1 DEF IInv, Staging
    <3> QED BY <1>1, <2>1, <2>2, <3>1, MovesOn DEF Phases
  <2>4. workers[i] \in Nat /\ held[i] = {} /\ held \in [Invocations -> SUBSET Cells]
    BY <1>1, WorkersPositive DEF IInv, InMemory, Staging
  <2>5. HandedOut(i) \in Nat
    BY <1>1, HandedOutCounted
  <2>6. IsFiniteSet({}) /\ Cardinality({}) = 0
    BY FS_EmptySet
  <2>7. held' = [held EXCEPT ![i] = {}]
    BY <1>1, <2>4
  <2>8. Serial(i) => Cardinality({}) + workers[i] + Cardinality({}) <= 1
    BY <2>4, <2>6 DEF Serial
  <2>9. Cardinality({}) + workers[i] <= workers[i]
    BY <2>4, <2>6
  <2>10. InMemory'
    BY <1>1, <2>1, <2>4, <2>5, <2>6, <2>7, <2>8, <2>9, SubmitKeeps
  <2> QED BY <2>3, <2>10
<1> QED BY <1>2, <1>3

\* The pool is refilled by the one outcome taken.
LEMMA TakeKeeps ==
    ASSUME IInv, NEW i \in Invocations, Take(i)
    PROVE  InMemory' /\ Staging'
<1>1. PICK c \in pending[i] : /\ held' = [held EXCEPT ![i] = {c}]
                              /\ Submit(i, IF Serial(i) THEN 0 ELSE 1, pending[i] \ {c})
  BY DEF Take
<1>2. /\ pc[i] = "running" /\ pc' = pc /\ stage' = stage /\ workers' = workers
      /\ held[i] = {}
  BY DEF Take
<1> DEFINE left == pending[i] \ {c}
           n == IF Serial(i) THEN 0 ELSE 1
<1>3. /\ pending[i] \in SUBSET Cells /\ IsFiniteSet(pending[i])
      /\ Cardinality(pending[i]) <= workers[i] /\ workers[i] \in Nat
      /\ Serial(i) => Cardinality(pending[i]) + Cardinality(held[i]) <= 1
      /\ pc \in [Invocations -> Phases] /\ stage = [j \in Invocations |-> stage[j]]
      /\ held \in [Invocations -> SUBSET Cells]
  BY WorkersPositive DEF IInv, InMemory, Staging, InFlightBounded
<1>4. /\ IsFiniteSet(left) /\ Cardinality(left) = Cardinality(pending[i]) - 1
      /\ Cardinality(pending[i]) \in Nat
      /\ IsFiniteSet({c}) /\ Cardinality({c}) = 1 /\ Cardinality({}) = 0
  BY <1>3, FS_RemoveElement, FS_Singleton, FS_EmptySet, FS_CardinalityType
<1>5. HandedOut(i) \in Nat
  BY <1>2, HandedOutCounted
<1>6. n \in Nat /\ left \in SUBSET Cells /\ {c} \in SUBSET Cells
  BY <1>3
<1>7. /\ Cardinality(left) + n <= workers[i]
      /\ Serial(i) => Cardinality(left) + n + Cardinality({c}) <= 1
  BY <1>2, <1>3, <1>4
<1>8. InMemory'
  <2>1. Submit(i, n, left)
    BY <1>1
  <2> HIDE DEF n, left
  <2> QED BY <1>1, <1>2, <1>4, <1>5, <1>6, <1>7, <2>1, SubmitKeeps
<1>9. Staging'
  <2>1. /\ pc' = [pc EXCEPT ![i] = pc[i]] /\ stage' = [stage EXCEPT ![i] = stage[i]]
        /\ \A j \in Invocations \ {i} : held'[j] = held[j]
    BY <1>1, <1>2, <1>3
  <2>2. pc[i] \in Phases \ {"idle"} /\ stage[i] \in RunningStage
    BY <1>2 DEF IInv, Staging, Phases
  <2> QED BY <1>2, <2>1, <2>2, MovesOn
<1> QED BY <1>8, <1>9

\* A single worker gets its next cell when nothing else is in memory.
LEMMA WriteKeeps ==
    ASSUME IInv, NEW i \in Invocations, Write(i)
    PROVE  InMemory' /\ Staging'
<1>1. PICK c \in held[i] :
        \/ /\ stage' = [stage EXCEPT ![i] = Noted(stage[i], c)]
           /\ held' = [held EXCEPT ![i] = {}]
           /\ Submit(i, IF Serial(i) THEN 1 ELSE 0, pending[i])
           /\ workers' = workers /\ pc' = pc
        \/ Abort(i)
  BY DEF Write
<1>2. CASE Abort(i)
  BY <1>2, AbortKeeps
<1>3. CASE ~Abort(i)
  <2> DEFINE n == IF Serial(i) THEN 1 ELSE 0
             s == Noted(stage[i], c)
  <2>0. pc[i] = "running"
    BY DEF IInv, Staging
  <2>1. /\ pending[i] \in SUBSET Cells /\ IsFiniteSet(pending[i])
        /\ Cardinality(pending[i]) <= workers[i] /\ workers[i] \in Nat
        /\ Serial(i) => Cardinality(pending[i]) + Cardinality(held[i]) <= 1
        /\ pc \in [Invocations -> Phases] /\ stage = [j \in Invocations |-> stage[j]]
        /\ held \in [Invocations -> SUBSET Cells] /\ IsFiniteSet(held[i])
        /\ stage[i] \in RunningStage /\ c \in Cells
    BY <2>0, WorkersPositive DEF IInv, InMemory, Staging, InFlightBounded
  <2>2. /\ Cardinality(pending[i]) \in Nat /\ Cardinality(held[i]) \in Nat
        /\ Cardinality(held[i]) # 0 /\ IsFiniteSet({}) /\ Cardinality({}) = 0
    BY <2>1, FS_EmptySet, FS_CardinalityType
  <2>3. HandedOut(i) \in Nat
    BY <2>0, HandedOutCounted
  <2>4. /\ Cardinality(pending[i]) + n <= workers[i] /\ n \in Nat
        /\ Serial(i) => Cardinality(pending[i]) + n + Cardinality({}) <= 1
    BY <2>1, <2>2 DEF Serial
  <2>5. /\ Submit(i, n, pending[i]) /\ held' = [held EXCEPT ![i] = {}]
        /\ workers' = workers /\ pc' = pc /\ stage' = [stage EXCEPT ![i] = s]
    BY <1>1, <1>3, Zenon
  <2>6. s \in RunningStage
    <3>1. /\ stage[i].runs \in Seq(Cells) /\ stage[i].failures \in Seq(Cells)
          /\ stage[i] = [present |-> TRUE, runs |-> stage[i].runs,
                         failures |-> stage[i].failures]
      BY <2>1 DEF RunningStage
    <3>2. /\ Append(stage[i].failures, c) \in Seq(Cells)
          /\ Append(stage[i].runs, c) \in Seq(Cells)
      BY <2>1, <3>1
    <3> QED BY <2>1, <3>1, <3>2 DEF RunningStage, Noted
  <2> HIDE DEF n, s
  <2>7. InMemory'
    BY <2>1, <2>2, <2>3, <2>4, <2>5, SubmitKeeps
  <2>8. Staging'
    <3>1. /\ pc' = [pc EXCEPT ![i] = "running"]
          /\ \A j \in Invocations \ {i} : held'[j] = held[j]
      BY <2>0, <2>1, <2>5
    <3> QED BY <2>5, <2>6, <3>1, MovesOn DEF Phases
  <2> QED BY <2>7, <2>8
<1> QED BY <1>1, <1>2, <1>3

\* No other step touches an invocation; a file is written when it is not
\* there yet, or edited, which is a later edition.
Grows == Editions' /\ \A f \in Files : Grown(file[f], file'[f])

\* One file is written or edited.
LEMMA OneGrows ==
    ASSUME Editions, NEW f \in Files, NEW new, Typed(new), new.body # 0,
           Grown(file[f], new), file' = [file EXCEPT ![f] = new],
           f \notin {"plots", "plotManifest"} \/ Written(f)
    PROVE  Grows
<1>1. /\ file' = [g \in Files |-> file'[g]]
      /\ \A g \in Files : file'[g] = IF g = f THEN new ELSE file[g]
  BY DEF Editions
<1>2. \A g \in Files : Grown(file[g], file'[g])
  BY <1>1 DEF Grown
<1>3. \A g \in Files : Typed(file'[g]) /\ (file'[g].body = 0 => file'[g].rest = 0)
  BY <1>1 DEF Editions, Written
<1>4. (file'["plotManifest"].body # 0) <=> (file'["plots"].body # 0)
  BY <1>1 DEF Editions, Written, Files, Reports
<1> QED BY <1>1, <1>2, <1>3, <1>4 DEF Grows, Editions, Written, Typed

\* What the program writes where nothing was.
LEMMA WritingGrows ==
    ASSUME Editions, NEW f \in Files, ~Written(f), NEW cites
    PROVE  Typed(AsWritten(cites)) /\ Grown(file[f], AsWritten(cites))
BY DEF Editions, Typed, Written, AsWritten, Grown

\* An edit of a body makes a later edition of it.
LEMMA EditIs ==
    ASSUME Editions, NEW c, Edit(c), c.of \in Files
    PROVE  \E new : /\ file' = [file EXCEPT ![c.of] = new]
                    /\ Typed(new) /\ new.body = file[c.of].body + 1
                    /\ new.rest = file[c.of].rest
<1> DEFINE New(b, r, fits, cites) == [body |-> b, rest |-> r, fits |-> fits, cites |-> cites]
<1>1. PICK fits, cites : file' = [file EXCEPT ![c.of] =
                                     New(file[c.of].body + 1, file[c.of].rest, fits, cites)]
  BY DEF Edit
<1>2. Typed(file[c.of])
  BY DEF Editions
<1>3. PICK new : new = New(file[c.of].body + 1, file[c.of].rest, fits, cites)
  OBVIOUS
<1>4. Typed(new) /\ new.body = file[c.of].body + 1 /\ new.rest = file[c.of].rest
  BY <1>2, <1>3 DEF Typed
<1> HIDE DEF New
<1> QED BY <1>1, <1>3, <1>4

\* A step of a publisher.
Publishes(p) == \/ VerifyRecord(p) \/ VerifyReports(p)
                \/ \E f \in Published : Copy(p, f)
                \/ PromoteSnapshot(p) \/ KillPublisher(p)

\* Publishing leaves the bundle and the invocations alone.
LEMMA PublishingReads ==
    ASSUME NEW p \in Publishers, Publishes(p)
    PROVE  UNCHANGED <<vars, bundle>>
BY DEF Publishes, VerifyRecord, VerifyReports, Copy, PromoteSnapshot, KillPublisher

\* So does every other step but those of the invocations, which leave the
\* files alone.
LEMMA NextKeeps ==
    ASSUME IInv, [Next]_all
    PROVE  IInv' /\ Grows
<1>1. Editions
  BY DEF IInv
<1>2. file' = file => Grows
  BY <1>1 DEF Grows, Editions, Written, Typed, Grown
<1>3. vars' = vars => InMemory' /\ Staging' /\ workers' \in [Invocations -> WorkerCounts]
  BY DEF vars, IInv, InMemory, Staging, InFlightBounded, Serial
<1>4. ASSUME NEW i \in Invocations, file' = file,
             Begin(i) \/ Take(i) \/ Write(i) \/ Compose(i) \/ Promote(i) \/ Crash(i)
      PROVE  Grows /\ IInv'
  <2>1. InMemory' /\ Staging'
    BY <1>4, BeginKeeps, TakeKeeps, WriteKeeps, ComposeKeeps, PromoteKeeps, CrashKeeps
  <2>2. workers' = workers
    BY <1>4 DEF Begin, Take, Write, Compose, Promote, Crash, Abort
  <2> QED BY <1>2, <1>4, <2>1, <2>2 DEF IInv, Grows
<1>5. ASSUME NEW allow \in BOOLEAN, Summarize(allow)
      PROVE  Grows /\ vars' = vars
  <2>1. PICK cites : file' = [file EXCEPT !["summary"] = AsWritten(cites)]
    BY <1>5 DEF Summarize
  <2>2. ~Written("summary") /\ vars' = vars
    BY <1>5 DEF Summarize
  <2>3. "summary" \in Files /\ AsWritten(cites).body # 0
    BY DEF Files, Reports, AsWritten
  <2> QED BY <1>1, <2>1, <2>2, <2>3, WritingGrows, OneGrows
<1>6. ASSUME Plot
      PROVE  Grows /\ vars' = vars
  <2>1. PICK cites : file' = [file EXCEPT !["plots"] = AsWritten(<< >>),
                                          !["plotManifest"] = AsWritten(cites)]
    BY <1>6 DEF Plot
  <2>2. ~Written("plots") /\ ~Written("plotManifest") /\ vars' = vars
    BY <1>1, <1>6 DEF Plot, Editions
  <2>3. "plots" \in Files /\ "plotManifest" \in Files
    BY DEF Files, Reports
  <2>4. /\ Typed(AsWritten(<< >>)) /\ Grown(file["plots"], AsWritten(<< >>))
        /\ Typed(AsWritten(cites)) /\ Grown(file["plotManifest"], AsWritten(cites))
    BY <1>1, <2>2, <2>3, WritingGrows
  <2>5. /\ file' = [g \in Files |-> file'[g]]
        /\ \A g \in Files : file'[g] = IF g = "plots" THEN AsWritten(<< >>)
                                       ELSE IF g = "plotManifest" THEN AsWritten(cites)
                                       ELSE file[g]
    BY <1>1, <2>1, <2>3 DEF Editions
  <2>6. \A g \in Files : Grown(file[g], file'[g])
    BY <2>4, <2>5 DEF Grown
  <2>7. AsWritten(<< >>).body = 1 /\ AsWritten(cites).body = 1
    BY DEF AsWritten
  <2>8. \A g \in Files : Typed(file'[g]) /\ (file'[g].body = 0 => file'[g].rest = 0)
    BY <1>1, <2>4, <2>5, <2>7 DEF Editions, Written
  <2>9. file'["plots"].body = 1 /\ file'["plotManifest"].body = 1
    BY <2>3, <2>5, <2>7
  <2> QED BY <2>2, <2>5, <2>6, <2>8, <2>9 DEF Grows, Editions, Written, Typed
<1>7. ASSUME NEW p \in Publishers, Publishes(p)
      PROVE  file' = file /\ vars' = vars
  BY <1>7, PublishingReads DEF bundle
<1>8. ASSUME NEW f \in PartlySigned, EditRest(f)
      PROVE  Grows /\ vars' = vars
  <2> DEFINE new == [file[f] EXCEPT !.rest = @ + 1]
  <2>1. f \in Files /\ Typed(file[f]) /\ Written(f) /\ vars' = vars
    BY <1>1, <1>8 DEF EditRest, PartlySigned, Files, Core, Editions
  <2>2. file' = [file EXCEPT ![f] = new]
    BY <1>8 DEF EditRest
  <2>3. new = [body |-> file[f].body, rest |-> file[f].rest + 1,
               fits |-> file[f].fits, cites |-> file[f].cites]
    BY <2>1 DEF Typed
  <2>4. Typed(new) /\ new.body # 0 /\ Grown(file[f], new)
    BY <2>1, <2>3 DEF Typed, Written, Grown
  <2> HIDE DEF new
  <2> QED BY <1>1, <2>1, <2>2, <2>4, OneGrows
<1>9. ASSUME NEW c \in Changes, Edit(c)
      PROVE  Grows /\ vars' = vars
  <2>1. c.of \in Files
    BY ChangesAssumption
  <2>2. Typed(file[c.of]) /\ Written(c.of) /\ vars' = vars
    BY <1>1, <1>9, <2>1 DEF Edit, Editions
  <2>3. PICK new : /\ file' = [file EXCEPT ![c.of] = new]
                   /\ Typed(new) /\ new.body = file[c.of].body + 1 /\ new.rest = file[c.of].rest
    BY <1>1, <1>9, <2>1, EditIs
  <2>4. new.body # 0 /\ Grown(file[c.of], new)
    BY <2>2, <2>3 DEF Typed, Grown
  <2> QED BY <1>1, <2>1, <2>2, <2>3, <2>4, OneGrows
<1>10. ASSUME Rest \/ UNCHANGED all
      PROVE  file' = file /\ vars' = vars
  BY <1>10 DEF Rest, all, bundle
<1> QED
  <2>1. CASE \E i \in Invocations :
               /\ Begin(i) \/ Take(i) \/ Write(i) \/ Compose(i) \/ Promote(i) \/ Crash(i)
               /\ file' = file
    BY <1>4, <2>1
  <2>2. CASE vars' = vars /\ Grows
    BY <1>3, <2>2 DEF IInv, Grows
  <2>3. \/ \E i \in Invocations :
               /\ Begin(i) \/ Take(i) \/ Write(i) \/ Compose(i) \/ Promote(i) \/ Crash(i)
               /\ file' = file
        \/ \E allow \in BOOLEAN : Summarize(allow)
        \/ Plot
        \/ \E p \in Publishers : Publishes(p)
        \/ \E f \in PartlySigned : EditRest(f)
        \/ \E c \in Changes : Edit(c)
        \/ Rest \/ UNCHANGED all
    BY DEF Next, bundle, Publishes
  <2> QED BY <1>2, <1>5, <1>6, <1>7, <1>8, <1>9, <1>10, <2>1, <2>2, <2>3

\* The inductive invariant holds in every reachable state.
THEOREM Invariance == Spec => []IInv
BY InitInv, NextKeeps, PTL DEF Spec

\* The outcomes that an invocation has in memory never exceed its workers,
\* whatever the plan, and however many invocations there are.
THEOREM MemoryIsBounded == Spec => []InFlightBounded
<1>1. IInv => InFlightBounded
  BY DEF IInv, InMemory
<1> QED BY <1>1, Invariance, PTL

-----------------------------------------------------------------------------
(* What is published stays.                                                *)

\* Whoever publishes tests, in the step that does it, that nothing is there.
LEMMA PublishedStays ==
    ASSUME [Next]_all
    PROVE  /\ target.present => target' = target
           /\ snapshot.present => snapshot' = snapshot
<1>1. ASSUME NEW i \in Invocations, UNCHANGED evidence,
             Begin(i) \/ Take(i) \/ Write(i) \/ Compose(i) \/ Promote(i) \/ Crash(i)
      PROVE  (target.present => target' = target) /\ snapshot' = snapshot
  BY <1>1 DEF Begin, Take, Write, Compose, Promote, Crash, Abort, evidence
<1>2. ASSUME NEW allow \in BOOLEAN, Summarize(allow) \/ Plot
      PROVE  target' = target /\ snapshot' = snapshot
  BY <1>2 DEF Summarize, Plot, vars, evidence
<1>3. ASSUME NEW p \in Publishers, Publishes(p)
      PROVE  target' = target /\ (snapshot.present => snapshot' = snapshot)
  BY <1>3 DEF Publishes, VerifyRecord, VerifyReports, Copy, PromoteSnapshot, KillPublisher, vars
<1>4. ASSUME NEW f \in PartlySigned, EditRest(f)
      PROVE  target' = target /\ snapshot' = snapshot
  BY <1>4 DEF EditRest, vars, evidence
<1>5. ASSUME NEW c \in Changes, Edit(c)
      PROVE  target' = target /\ snapshot' = snapshot
  BY <1>5 DEF Edit, vars, evidence
<1>6. ASSUME Rest \/ UNCHANGED all
      PROVE  target' = target /\ snapshot' = snapshot
  BY <1>6 DEF Rest, all, vars, evidence
<1> QED BY <1>1, <1>2, <1>3, <1>4, <1>5, <1>6 DEF Next, Publishes

\* A published bundle or snapshot is never written again and reports are
\* written once, whatever the number of invocations, publishers and edits.
THEOREM PublishedOnlyOnce == Spec => PublishedOnce
<1>1. IInv /\ [Next]_all =>
        [/\ target.present => target' = target
         /\ snapshot.present => snapshot' = snapshot
         /\ \A f \in Files : Written(f) => file'[f].body >= file[f].body]_all
  <2>1. IInv /\ [Next]_all => \A f \in Files : file'[f].body >= file[f].body
    BY NextKeeps DEF Grows, Grown, IInv, Editions, Typed
  <2> QED BY <2>1, PublishedStays
<1> QED BY <1>1, Invariance, PTL DEF Spec, PublishedOnce

-----------------------------------------------------------------------------
(* Every cell is accounted for.                                            *)

\* The staging directory of invocation i: of the first h cells each is noted
\* there, in hand or pending, once; and when there is nothing in hand or
\* pending, nothing is left of the plan.
Dealt(i, h) ==
    /\ IsInjective(stage[i].runs) /\ IsInjective(stage[i].failures)
    /\ \A c \in Range(stage[i].runs) : result[c] # "failure"
    /\ \A c \in Range(stage[i].failures) : result[c] = "failure"
    /\ Shares(h, Noticed(stage[i]), held[i], pending[i])
    /\ held[i] = {} \/ \E c \in Cells : held[i] = {c}
    /\ pending[i] = {} /\ (held[i] = {} \/ ~Serial(i)) => h = Len(Plan)

\* A whole bundle, its failures a list of cells.
Bundled(b) == WholeBundle(b) /\ b.failures \in Seq(Cells)

\* What holds of an invocation, by how far it is.
Stands(i) ==
    /\ pc[i] = "running" => \E h \in 0..Len(Plan) : Dealt(i, h)
    /\ pc[i] = "composed" => stage[i].present /\ Bundled(stage[i].bundle)
    /\ pc[i] \in {"refused", "raised", "retained", "returned"} => ~stage[i].present
    /\ pc[i] \in {"retained", "returned"} => target.present

DealInv ==
    /\ target.present => Bundled(target.bundle)
    /\ \A i \in Invocations : Stands(i)

\* The cells handed out are h, and a running invocation has a staging directory.
LEMMA DealtCount ==
    ASSUME IInv, NEW i \in Invocations, pc[i] = "running", NEW h \in 0..Len(Plan), Dealt(i, h)
    PROVE  /\ HandedOut(i) = h /\ stage[i] \in RunningStage
           /\ pending[i] \in SUBSET Cells /\ held[i] \in SUBSET Cells
           /\ Range(stage[i].runs) \cap Range(stage[i].failures) = {}
           /\ Len(stage[i].runs) + Len(stage[i].failures)
                 + Cardinality(held[i]) + Cardinality(pending[i]) = h
<1>1. /\ stage[i] \in RunningStage
      /\ pending[i] \in SUBSET Cells /\ held[i] \in SUBSET Cells
  BY DEF IInv, Staging, InMemory
<1>2. /\ stage[i].runs \in Seq(Cells) /\ stage[i].failures \in Seq(Cells) /\ stage[i].present
  BY <1>1 DEF RunningStage
<1>3. /\ IsInjective(stage[i].runs) /\ IsInjective(stage[i].failures)
      /\ Range(stage[i].runs) \cap Range(stage[i].failures) = {}
      /\ Shares(h, Range(stage[i].runs) \cup Range(stage[i].failures), held[i], pending[i])
  BY DEF Dealt, Noticed
<1>4. Len(stage[i].runs) + Len(stage[i].failures)
         + Cardinality(held[i]) + Cardinality(pending[i]) = h
  <2> DEFINE runs == stage[i].runs
             failures == stage[i].failures
             hand == held[i]
             left == pending[i]
  <2>1. /\ runs \in Seq(Cells) /\ failures \in Seq(Cells)
        /\ IsInjective(runs) /\ IsInjective(failures) /\ Range(runs) \cap Range(failures) = {}
        /\ hand \in SUBSET Cells /\ left \in SUBSET Cells
        /\ Shares(h, Range(runs) \cup Range(failures), hand, left)
    BY <1>1, <1>2, <1>3
  <2>2. Len(runs) + Len(failures) + Cardinality(hand) + Cardinality(left) = h
    <3> HIDE DEF runs, failures, hand, left
    <3> QED BY <2>1, SharesCount
  <2> QED BY <2>2
<1> QED BY <1>1, <1>2, <1>3, <1>4 DEF HandedOut

\* A step that leaves an invocation alone, and the bundle if there is one.
LEMMA OthersStand ==
    ASSUME NEW j \in Invocations, Stands(j), result' = result, workers' = workers,
           pc'[j] = pc[j], stage'[j] = stage[j], held'[j] = held[j], pending'[j] = pending[j],
           target.present => target'.present
    PROVE  Stands(j)'
<1>1. ASSUME NEW h \in 0..Len(Plan), Dealt(j, h)
      PROVE  Dealt(j, h)'
  BY <1>1 DEF Dealt, Serial, Noticed, Shares, First
<1>2. stage[j].present /\ Bundled(stage[j].bundle) => Bundled(stage[j].bundle)'
  BY DEF Bundled, WholeBundle, Precedes
<1> QED BY <1>1, <1>2 DEF Stands

\* What an invocation does, it does to itself.
LEMMA OnlyItself ==
    ASSUME IInv, NEW i \in Invocations,
           Begin(i) \/ Take(i) \/ Write(i) \/ Compose(i) \/ Promote(i) \/ Crash(i)
    PROVE  \A j \in Invocations \ {i} :
              /\ pc'[j] = pc[j] /\ stage'[j] = stage[j]
              /\ held'[j] = held[j] /\ pending'[j] = pending[j]
<1>1. /\ pc \in [Invocations -> Phases] /\ stage = [j \in Invocations |-> stage[j]]
      /\ pending \in [Invocations -> SUBSET Cells] /\ held \in [Invocations -> SUBSET Cells]
  BY DEF IInv, Staging, InMemory
<1>2. ASSUME Abort(i) \/ Crash(i)
      PROVE  \A j \in Invocations \ {i} :
                /\ pc'[j] = pc[j] /\ stage'[j] = stage[j]
                /\ held'[j] = held[j] /\ pending'[j] = pending[j]
  BY <1>1, <1>2 DEF Abort, Crash
<1>3. CASE Begin(i) \/ Take(i)
  BY <1>1, <1>3 DEF Begin, Take, Submit
<1>4. CASE Write(i) \/ Compose(i) \/ Promote(i)
  BY <1>1, <1>2, <1>4 DEF Write, Compose, Promote, Submit
<1> QED BY <1>2, <1>3, <1>4

\* Without a staging directory nothing is left to hold of an invocation.
LEMMA AbortStands ==
    ASSUME IInv, NEW i \in Invocations, Abort(i)
    PROVE  Stands(i)' /\ target' = target
<1>1. pc'[i] = "raised" /\ stage'[i] = Absent /\ target' = target
  BY DEF IInv, Staging, Abort
<1> QED BY <1>1 DEF Stands, Absent

\* See AbortStands.
LEMMA CrashStands ==
    ASSUME IInv, NEW i \in Invocations, Crash(i)
    PROVE  Stands(i)' /\ target' = target
<1>1. pc'[i] = "crashed" /\ target' = target
  BY DEF IInv, Staging, Crash
<1> QED BY <1>1 DEF Stands

\* The first cells are handed out, and there is one at least.
LEMMA BeginStands ==
    ASSUME IInv, NEW i \in Invocations, Begin(i)
    PROVE  Stands(i)' /\ target' = target
<1>1. /\ pc[i] = "idle" /\ stage[i] = Absent /\ held[i] = {} /\ held' = held
      /\ workers' = workers /\ target' = target /\ workers[i] \in Nat /\ workers[i] >= 1
  BY WorkersPositive DEF IInv, Staging, Begin
<1>2. CASE target.present
  <2>1. pc'[i] = "refused" /\ stage'[i] = Absent
    BY <1>1, <1>2 DEF IInv, Staging, Begin
  <2> QED BY <1>1, <2>1 DEF Stands, Absent
<1>3. CASE ~target.present
  <2>1. /\ pc'[i] = "running" /\ stage'[i] = EmptyStage
        /\ pending'[i] = {} \cup NextCells(i, workers[i])
    BY <1>3 DEF IInv, Staging, InMemory, Begin, Submit
  <2>2. HandedOut(i) = 0 /\ HandedOut(i) \in 0..Len(Plan)
    BY <1>1, PlanLists DEF HandedOut, Absent
  <2>3. Shares(HandedOut(i), {}, {}, {})
    BY <2>2, FirstCells DEF Shares
  <2>4. PICK g \in 0..Len(Plan) :
              /\ Shares(g, {}, {}, {} \cup NextCells(i, workers[i]))
              /\ {} \cup NextCells(i, workers[i]) = {} => (workers[i] >= 1 => g = Len(Plan))
    BY <1>1, <2>2, <2>3, SharesGrow
  <2>5. /\ Range(EmptyStage.runs) = {} /\ Range(EmptyStage.failures) = {}
        /\ IsInjective(EmptyStage.runs) /\ IsInjective(EmptyStage.failures)
    BY DEF EmptyStage, Range, IsInjective
  <2>6. Shares(g, Noticed(EmptyStage), {}, pending'[i])
    <3>1. Noticed(EmptyStage) = {}
      BY <2>5 DEF Noticed
    <3> QED BY <2>1, <2>4, <3>1
  <2>7. held'[i] = {} /\ (pending'[i] = {} => g = Len(Plan))
    BY <1>1, <2>1, <2>4
  <2>8. Dealt(i, g)'
    BY <2>1, <2>5, <2>6, <2>7 DEF Dealt, Shares, Noticed, First
  <2> QED BY <1>1, <2>1, <2>8 DEF Stands
<1> QED BY <1>1, <1>2, <1>3

\* An outcome goes from pending to in hand, and a pool is refilled.
LEMMA TakeStands ==
    ASSUME IInv, NEW i \in Invocations, Stands(i), Take(i), result' = result
    PROVE  Stands(i)' /\ target' = target
<1>0. /\ pc[i] = "running" /\ pc' = pc /\ stage' = stage /\ held[i] = {}
      /\ workers' = workers /\ target' = target
  BY DEF Take
<1>1. PICK c \in pending[i] : /\ held' = [held EXCEPT ![i] = {c}]
                              /\ Submit(i, IF Serial(i) THEN 0 ELSE 1, pending[i] \ {c})
  BY DEF Take
<1>2. PICK h \in 0..Len(Plan) : Dealt(i, h)
  BY <1>0 DEF Stands
<1>3. HandedOut(i) = h /\ pending[i] \in SUBSET Cells
  BY <1>0, <1>2, DealtCount
<1> DEFINE n == IF Serial(i) THEN 0 ELSE 1
           left == pending[i] \ {c}
           note == Noticed(stage[i])
<1>4. held'[i] = {c} /\ pending'[i] = left \cup NextCells(i, n)
  BY <1>1 DEF IInv, InMemory, Submit
<1>5. n \in Nat /\ (Serial(i) => n = 0) /\ (~Serial(i) => n = 1)
  OBVIOUS
<1>6. Shares(HandedOut(i), note, {c}, left)
  BY <1>0, <1>1, <1>2, <1>3 DEF Dealt, Shares
<1> HIDE DEF n, left, note
<1>7. PICK g \in 0..Len(Plan) :
            /\ Shares(g, note, {c}, left \cup NextCells(i, n))
            /\ left \cup NextCells(i, n) = {} => (n >= 1 => g = Len(Plan))
  BY <1>3, <1>5, <1>6, SharesGrow
<1>8. pending'[i] = {} /\ ~Serial(i) => g = Len(Plan)
  BY <1>4, <1>5, <1>7
<1>9. result' = result => Dealt(i, g)'
  BY <1>0, <1>2, <1>3, <1>4, <1>7, <1>8 DEF Dealt, Shares, Noticed, First, Serial, note
<1> QED BY <1>0, <1>9 DEF Stands

\* The outcome in hand goes where it belongs, and a single worker gets its
\* next cell.
LEMMA WriteStands ==
    ASSUME IInv, NEW i \in Invocations, Stands(i), Write(i), result' = result
    PROVE  Stands(i)' /\ target' = target
<1>1. CASE Abort(i)
  BY <1>1, AbortStands
<1>2. CASE ~Abort(i)
  <2> DEFINE n == IF Serial(i) THEN 1 ELSE 0
             s == stage[i]
  <2>1. PICK c \in held[i] : /\ stage' = [stage EXCEPT ![i] = Noted(s, c)]
                             /\ held' = [held EXCEPT ![i] = {}]
                             /\ Submit(i, n, pending[i])
                             /\ workers' = workers /\ pc' = pc /\ target' = target
    BY <1>2 DEF Write
  <2>2. pc[i] = "running"
    BY DEF IInv, Staging
  <2>3. PICK h \in 0..Len(Plan) : Dealt(i, h)
    BY <2>2 DEF Stands
  <2>4. HandedOut(i) = h /\ s \in RunningStage /\ held[i] = {c} /\ c \in Cells
    BY <2>1, <2>2, <2>3, DealtCount DEF Dealt
  <2>5. /\ stage'[i] = Noted(s, c) /\ held'[i] = {}
        /\ pending'[i] = pending[i] \cup NextCells(i, n)
    BY <2>1 DEF IInv, Staging, InMemory, Submit
  <2>6. n \in Nat /\ (Serial(i) => n = 1)
    OBVIOUS
  <2>7. s.runs \in Seq(Cells) /\ s.failures \in Seq(Cells)
    BY <2>4 DEF RunningStage
  <2> HIDE DEF n
  <2>8. c \notin Range(s.runs) /\ c \notin Range(s.failures)
    BY <2>3, <2>4 DEF Dealt, Shares, Noticed
  <2>9. /\ IsInjective(s.runs) /\ IsInjective(s.failures)
        /\ \A d \in Range(s.runs) : result[d] # "failure"
        /\ \A d \in Range(s.failures) : result[d] = "failure"
    BY <2>3 DEF Dealt
  <2>10. LET t == Noted(s, c)
         IN /\ IsInjective(t.runs) /\ IsInjective(t.failures)
            /\ \A d \in Range(t.runs) : result[d] # "failure"
            /\ \A d \in Range(t.failures) : result[d] = "failure"
            /\ Noticed(t) = Noticed(s) \cup {c}
    <3>1. CASE result[c] = "failure"
      <4>1. /\ Noted(s, c).runs = s.runs
            /\ Noted(s, c).failures = Append(s.failures, c)
        BY <2>4, <3>1 DEF Noted, RunningStage
      <4>2. /\ Range(Append(s.failures, c)) = Range(s.failures) \cup {c}
            /\ IsInjective(Append(s.failures, c))
        BY <2>4, <2>7, <2>8, <2>9, AppendDistinct
      <4> QED BY <2>9, <3>1, <4>1, <4>2 DEF Noticed
    <3>2. CASE result[c] # "failure"
      <4>1. /\ Noted(s, c).runs = Append(s.runs, c)
            /\ Noted(s, c).failures = s.failures
        BY <2>4, <3>2 DEF Noted, RunningStage
      <4>2. /\ Range(Append(s.runs, c)) = Range(s.runs) \cup {c}
            /\ IsInjective(Append(s.runs, c))
        BY <2>4, <2>7, <2>8, <2>9, AppendDistinct
      <4> QED BY <2>9, <3>2, <4>1, <4>2 DEF Noticed
    <3> QED BY <3>1, <3>2
  <2>11. Shares(HandedOut(i), Noticed(s) \cup {c}, {}, pending[i])
    BY <2>3, <2>4 DEF Dealt, Shares
  <2>12. PICK g \in 0..Len(Plan) :
              /\ Shares(g, Noticed(s) \cup {c}, {}, pending[i] \cup NextCells(i, n))
              /\ pending[i] \cup NextCells(i, n) = {} =>
                    g = HandedOut(i) /\ (n >= 1 => g = Len(Plan))
    BY <2>4, <2>6, <2>11, SharesGrow
  <2>13. pending'[i] = {} => g = Len(Plan)
    <3>1. SUFFICES ASSUME pending'[i] = {} PROVE g = Len(Plan)
      OBVIOUS
    <3>2. CASE Serial(i)
      BY <2>5, <2>6, <2>12, <3>1, <3>2
    <3>3. CASE ~Serial(i)
      <4>1. pending[i] = {}
        BY <2>5, <3>1
      <4>2. h = Len(Plan)
        BY <2>3, <3>3, <4>1 DEF Dealt
      <4> QED BY <2>4, <2>5, <2>12, <3>1, <4>2
    <3> QED BY <3>2, <3>3
  <2>14. Dealt(i, g)'
    <3>1. Shares(g, Noticed(stage'[i]), held'[i], pending'[i])
      BY <2>5, <2>10, <2>12
    <3>2. First(g)' = First(g)
      BY DEF First
    <3>3. /\ IsInjective(stage'[i].runs) /\ IsInjective(stage'[i].failures)
          /\ \A d \in Range(stage'[i].runs) : result'[d] # "failure"
          /\ \A d \in Range(stage'[i].failures) : result'[d] = "failure"
      BY <2>5, <2>10
    <3> QED BY <2>5, <2>13, <3>1, <3>2, <3>3 DEF Dealt, Shares, Noticed
  <2> QED BY <2>1, <2>2, <2>14 DEF Stands
<1> QED BY <1>1, <1>2

\* When nothing is in hand or pending the bundle has every cell.
LEMMA BundleIsWhole ==
    ASSUME IInv, NEW i \in Invocations, pc[i] = "running", held[i] = {}, pending[i] = {},
           NEW h \in 0..Len(Plan), Dealt(i, h)
    PROVE  Bundled(BundleOf(stage[i]))
<1> DEFINE runs == stage[i].runs
           failures == stage[i].failures
<1>1. /\ stage[i] \in RunningStage /\ Range(runs) \cap Range(failures) = {}
      /\ Len(runs) + Len(failures) + Cardinality(held[i]) + Cardinality(pending[i]) = h
  BY DealtCount
<1>2. /\ runs \in Seq(Cells) /\ failures \in Seq(Cells)
      /\ IsInjective(runs) /\ IsInjective(failures)
  BY <1>1 DEF RunningStage, Dealt
<1>3. h = Len(Plan)
  BY DEF Dealt
<1>4. Cardinality({}) = 0
  BY FS_EmptySet
<1>5. Len(runs) \in Nat /\ Len(failures) \in Nat /\ Len(runs) + Len(failures) = Len(Plan)
  <2>1. Len(runs) \in Nat /\ Len(failures) \in Nat
    BY <1>2
  <2>2. Len(runs) + Len(failures) + 0 + 0 = Len(Plan)
    BY <1>1, <1>3, <1>4
  <2> HIDE DEF runs, failures
  <2> QED BY <2>1, <2>2
<1>6. Range(runs) \cup Range(failures) = Cells
  <2>1. First(Len(Plan)) = Cells
    BY <1>3, FirstCells
  <2> QED BY <1>3, <2>1 DEF Dealt, Shares, Noticed
<1>7. /\ \A c \in Range(runs) : result[c] # "failure"
      /\ \A c \in Range(failures) : result[c] = "failure"
  BY DEF Dealt
<1> DEFINE R == Sorted(runs)
           F == Sorted(failures)
           b == BundleFrom(R, F)
<1>8. BundleOf(stage[i]) = b
  BY DEF BundleOf
<1> HIDE DEF runs, failures
<1>9. /\ Len(R) = Len(runs) /\ Range(R) = Range(runs) /\ R \in Seq(Cells)
      /\ Len(F) = Len(failures) /\ Range(F) = Range(failures) /\ F \in Seq(Cells)
      /\ \A j, k \in DOMAIN R : j < k => Precedes(R[j], R[k])
      /\ \A j, k \in DOMAIN F : j < k => Precedes(F[j], F[k])
  BY <1>2, SortedRecords
<1> HIDE DEF R, F
<1>10. /\ Range(R) = {c \in Cells : result[c] # "failure"}
       /\ Range(F) = {c \in Cells : result[c] = "failure"}
  BY <1>6, <1>7, <1>9
<1>11. /\ b.runs = R /\ b.failures = F /\ b.missing = Len(Plan) - Len(R) - Len(F)
       /\ b.status = IF Len(R) = Len(Plan) THEN "complete" ELSE "partial"
  BY DEF BundleFrom
<1> HIDE DEF b
<1>12. b.missing = 0
  BY <1>5, <1>9, <1>11, PlanLists
<1>13. b.status = "complete" <=> F = << >>
  <2>1. F = << >> <=> Len(F) = 0
    BY <1>9
  <2> QED BY <1>5, <1>9, <1>11, <2>1
<1> QED BY <1>8, <1>9, <1>10, <1>11, <1>12, <1>13 DEF Bundled, WholeBundle

\* The composed bundle is whole.
LEMMA ComposeStands ==
    ASSUME IInv, NEW i \in Invocations, Stands(i), Compose(i), result' = result
    PROVE  Stands(i)' /\ target' = target
<1>1. CASE Abort(i)
  BY <1>1, AbortStands
<1>2. CASE ~Abort(i)
  <2>1. /\ stage' = [stage EXCEPT ![i] = Whole(i, BundleOf(stage[i]))]
        /\ pc' = [pc EXCEPT ![i] = "composed"]
        /\ pc[i] = "running" /\ held[i] = {} /\ pending[i] = {} /\ target' = target
    BY <1>2 DEF Compose
  <2>2. PICK h \in 0..Len(Plan) : Dealt(i, h)
    BY <2>1 DEF Stands
  <2>3. Bundled(BundleOf(stage[i]))
    BY <2>1, <2>2, BundleIsWhole
  <2>4. pc'[i] = "composed" /\ stage'[i] = Whole(i, BundleOf(stage[i]))
    BY <2>1 DEF IInv, Staging
  <2>5. stage'[i].present /\ stage'[i].bundle = BundleOf(stage[i])
    BY <2>4 DEF Whole
  <2>6. Bundled(stage[i].bundle)'
    BY <2>3, <2>5 DEF Bundled, WholeBundle, Precedes
  <2> QED BY <2>1, <2>4, <2>5, <2>6 DEF Stands
<1> QED BY <1>1, <1>2

\* What is promoted is what was composed.
LEMMA PromoteStands ==
    ASSUME IInv, NEW i \in Invocations, Stands(i), Promote(i), result' = result
    PROVE  /\ Stands(i)'
           /\ target' = target \/ (target'.present /\ Bundled(target.bundle)')
<1>1. CASE Abort(i)
  BY <1>1, AbortStands
<1>2. CASE ~Abort(i)
  <2>1. /\ target' = stage[i] /\ stage' = [stage EXCEPT ![i] = Absent] /\ pc[i] = "composed"
        /\ \E phase \in {"retained", "returned"} : pc' = [pc EXCEPT ![i] = phase]
    BY <1>2 DEF Promote
  <2>2. stage[i].present /\ Bundled(stage[i].bundle)
    BY <2>1 DEF Stands
  <2>3. stage'[i] = Absent /\ pc'[i] \in {"retained", "returned"}
    BY <2>1 DEF IInv, Staging
  <2>4. target'.present /\ Bundled(target.bundle)'
    BY <2>1, <2>2 DEF Bundled, WholeBundle, Precedes
  <2> QED BY <2>3, <2>4 DEF Stands, Absent
<1> QED BY <1>1, <1>2

\* Nothing is dealt or published at first.
LEMMA InitDeal == EvidenceInit => DealInv
BY DEF EvidenceInit, Init, DealInv, Stands, Absent

\* Every step keeps the account of the cells.
LEMMA NextDeals ==
    ASSUME IInv, DealInv, [Next]_all
    PROVE  DealInv'
<1>1. ASSUME NEW i \in Invocations, result' = result,
             Begin(i) \/ Take(i) \/ Write(i) \/ Compose(i) \/ Promote(i) \/ Crash(i)
      PROVE  DealInv'
  <2>1. Stands(i)
    BY DEF DealInv
  <2>2. /\ Stands(i)'
        /\ target' = target \/ (target'.present /\ Bundled(target.bundle)')
    BY <1>1, <2>1, BeginStands, TakeStands, WriteStands, ComposeStands, PromoteStands, CrashStands
  <2>3. target'.present => Bundled(target.bundle)'
    <3>1. target' = target /\ Bundled(target.bundle) => Bundled(target.bundle)'
      BY <1>1 DEF Bundled, WholeBundle, Precedes
    <3> QED BY <2>2, <3>1 DEF DealInv
  <2>4. workers' = workers
    BY <1>1 DEF Begin, Take, Write, Compose, Promote, Crash, Abort
  <2>5. ASSUME NEW j \in Invocations \ {i}
        PROVE  Stands(j)'
    <3>1. /\ pc'[j] = pc[j] /\ stage'[j] = stage[j]
          /\ held'[j] = held[j] /\ pending'[j] = pending[j]
      BY <1>1, OnlyItself
    <3> QED BY <1>1, <2>2, <2>4, <3>1, OthersStand DEF DealInv
  <2> QED BY <2>2, <2>3, <2>5 DEF DealInv
<1>2. ASSUME vars' = vars
      PROVE  DealInv'
  <2>1. \A j \in Invocations : Stands(j)'
    BY <1>2, OthersStand DEF DealInv, vars
  <2>2. target'.present => Bundled(target.bundle)'
    BY <1>2 DEF DealInv, vars, Bundled, WholeBundle, Precedes
  <2> QED BY <2>1, <2>2 DEF DealInv
<1>3. \/ vars' = vars
      \/ \E i \in Invocations :
            /\ Begin(i) \/ Take(i) \/ Write(i) \/ Compose(i) \/ Promote(i) \/ Crash(i)
            /\ result' = result
  <2>1. \A p \in Publishers : Publishes(p) => vars' = vars
    BY PublishingReads
  <2> QED BY <2>1 DEF Next, Publishes, Summarize, Plot, EditRest, Edit, Rest, all, vars
<1> QED BY <1>1, <1>2, <1>3

\* Whatever invocations run, fail, are killed or lose the race, the output is
\* absent or a whole bundle, for any plan, worker counts and outcomes.
THEOREM OutputIsWhole == Spec => []AllOrNothing
<1>1. DealInv => AllOrNothing
  BY DEF DealInv, Stands, AllOrNothing, Bundled
<1> QED BY <1>1, InitDeal, NextDeals, Invariance, PTL DEF Spec

-----------------------------------------------------------------------------
(* What a snapshot is of.                                                  *)

\* A file of the record as the program wrote it records the digests of others
\* as it wrote them.
RecordKept == \A f \in Core :
    /\ Written(f)
    /\ file[f].body = 1 => \A g \in Cites[f] : file[f].cites[g] = 1

\* What was verified is founded on COMPLETE: with it, the record is as the
\* program wrote it, of a complete experiment.
Founded(read) == read["COMPLETE"].body = 1 =>
    target.bundle.status = "complete" /\ \A f \in Core : read[f].body = 1
\* The reports bear out what they say of one another and of the record.
Borne(read) == \A f \in Reports : \A g \in Cites[f] : read[f].cites[g] = read[g].body
\* The files read have grown since, if anything.
Before(read, fs) == \A f \in fs : Typed(read[f]) /\ Grown(read[f], file[f])
\* A file copied is the one verified, if that did not change.
Taken(copies, read, fs) == \A f \in fs : file[f] = read[f] => copies[f] = read[f]

\* What a publisher knows while it is at work.
Drafted(p) ==
    LET read   == draft[p].verified
        copies == draft[p].copies
    IN /\ target.present /\ Founded(read)
       /\ draft[p] = [verified |-> read, copies |-> copies]
       /\ desk[p] = "verifying" => Before(read, Core) /\ copies = Unread
       /\ desk[p] = "copying" =>
             /\ Before(read, Files) /\ Borne(read)
             /\ copies = [f \in Files |-> copies[f]]
             /\ Taken(copies, read, {f \in Published : copies[f].body # 0})

SnapshotInv ==
    /\ RecordKept
    /\ desk = [p \in Publishers |-> desk[p]] /\ draft = [p \in Publishers |-> draft[p]]
    /\ \A p \in Publishers : desk[p] \in {"verifying", "copying"} => Drafted(p)
    /\ snapshot.present =>
          /\ target.present /\ Founded(snapshot.verified) /\ Borne(snapshot.verified)
          /\ Before(snapshot.verified, Files)
          /\ Taken(snapshot.copies, snapshot.verified, Published)

\* A later edition of a later edition is a later edition, and never that from
\* which it has grown.
LEMMA GrowsOn ==
    ASSUME NEW a, NEW b, NEW c, Typed(b), Typed(c), Grown(a, b), Grown(b, c),
           Typed(a)
    PROVE  Grown(a, c) /\ (c = a => b = a)
BY DEF Grown, Typed

\* What verifies as a record is founded on COMPLETE: the digests form a chain
\* that starts there.
LEMMA RecordFounded ==
    ASSUME RecordKept, NEW read, \A f \in Core : read[f] = file[f], RecordHolds(read)
    PROVE  Founded(read)
<1> SUFFICES ASSUME read["COMPLETE"].body = 1
             PROVE  target.bundle.status = "complete" /\ \A f \in Core : read[f].body = 1
  BY DEF Founded
<1>1. \A f \in Core : /\ \A g \in Cites[f] : read[f].cites[g] = read[g].body
                      /\ read[f].body = 1 => \A g \in Cites[f] : read[f].cites[g] = 1
  BY DEF RecordHolds, BearsOut, RecordKept
<1>2. \A f \in Core : \A g \in Cites[f] : read[f].body = 1 => read[g].body = 1
  BY <1>1
<1>3. /\ "COMPLETE" \in Core /\ "bundle" \in Core
      /\ Cites["COMPLETE"] = {"bundle"} /\ Cites["bundle"] = {"manifest", "runs", "replications"}
  BY DEF Core, Cites
<1>4. read["bundle"].body = 1
  BY <1>2, <1>3
<1>5. \A g \in {"manifest", "runs", "replications"} : read[g].body = 1
  BY <1>2, <1>3, <1>4
<1>6. \A f \in Core : read[f].body = 1
  BY <1>4, <1>5 DEF Core
<1>7. target.bundle.status = "complete"
  BY <1>4 DEF RecordHolds, Complete
<1> QED BY <1>6, <1>7

\* A report records nothing in the record; an edit is a later edition.
LEMMA RecordStays ==
    ASSUME IInv, RecordKept, [Next]_all
    PROVE  RecordKept'
<1>1. Editions
  BY DEF IInv
<1>2. ASSUME \A f \in Core : file'[f] = file[f]
      PROVE  RecordKept'
  BY <1>2 DEF RecordKept, Written
<1>3. ASSUME NEW allow \in BOOLEAN, Summarize(allow) \/ Plot
      PROVE  \A f \in Core : file'[f] = file[f]
  BY <1>1, <1>3 DEF Summarize, Plot, Editions, Core, Files
<1>4. ASSUME NEW f \in PartlySigned, EditRest(f)
      PROVE  RecordKept'
  <2>1. /\ f \in Core /\ f \in Files /\ Typed(file[f])
    BY <1>1, <1>4 DEF PartlySigned, Core, Files, Editions
  <2>2. file[f] = [body |-> file[f].body, rest |-> file[f].rest,
                   fits |-> file[f].fits, cites |-> file[f].cites]
    BY <2>1 DEF Typed
  <2>3. /\ file'[f].body = file[f].body /\ file'[f].cites = file[f].cites
        /\ \A g \in Core \ {f} : file'[g] = file[g]
    BY <1>1, <1>4, <2>1, <2>2 DEF EditRest, Editions, Files
  <2> QED BY <2>3 DEF RecordKept, Written
<1>5. ASSUME NEW c \in Changes, Edit(c)
      PROVE  RecordKept'
  <2>1. c.of \in Files
    BY ChangesAssumption
  <2>2. Typed(file[c.of]) /\ Written(c.of)
    BY <1>1, <1>5, <2>1 DEF Edit, Editions
  <2>3. PICK new : /\ file' = [file EXCEPT ![c.of] = new]
                   /\ Typed(new) /\ new.body = file[c.of].body + 1 /\ new.rest = file[c.of].rest
    BY <1>1, <1>5, <2>1, EditIs
  <2>4. \A g \in Core : file'[g] = IF g = c.of THEN new ELSE file[g]
    BY <1>1, <2>3 DEF Editions, Files
  <2>5. new.body # 0 /\ new.body # 1
    BY <2>2, <2>3 DEF Typed, Written
  <2> QED BY <2>4, <2>5 DEF RecordKept, Written
<1>6. ASSUME NEW p \in Publishers, Publishes(p)
      PROVE  file' = file
  BY <1>6, PublishingReads DEF bundle
<1> QED
  <2>1. \/ file' = file
        \/ \E allow \in BOOLEAN : Summarize(allow)
        \/ Plot
        \/ \E p \in Publishers : Publishes(p)
        \/ \E f \in PartlySigned : EditRest(f)
        \/ \E c \in Changes : Edit(c)
    BY DEF Next, Rest, all, bundle, Publishes
  <2> QED BY <1>2, <1>3, <1>4, <1>5, <1>6, <2>1

\* What was read before a step is before it and after it, and what was copied
\* of files that do not differ from it now did not differ from it then.
LEMMA ReadStays ==
    ASSUME IInv, [Next]_all, NEW read, NEW fs \in SUBSET Files, Before(read, fs)
    PROVE  \A f \in fs : /\ Typed(read[f]) /\ Grown(read[f], file'[f])
                         /\ file'[f] = read[f] => file[f] = read[f]
<1> SUFFICES ASSUME NEW f \in fs
             PROVE  /\ Typed(read[f]) /\ Grown(read[f], file'[f])
                    /\ file'[f] = read[f] => file[f] = read[f]
  OBVIOUS
<1>1. Typed(file[f]) /\ Typed(file'[f]) /\ Grown(file[f], file'[f])
  BY NextKeeps DEF IInv, Editions, Grows, Typed
<1>2. Typed(read[f]) /\ Grown(read[f], file[f])
  BY DEF Before
<1> QED BY <1>1, <1>2, GrowsOn

\* A published bundle stays what it is.
LEMMA FoundedStays ==
    ASSUME [Next]_all, target.present, NEW read, Founded(read)
    PROVE  /\ target'.present
           /\ read["COMPLETE"].body = 1 =>
                 target'.bundle.status = "complete" /\ \A f \in Core : read[f].body = 1
<1>1. target' = target
  BY PublishedStays
<1> QED BY <1>1 DEF Founded

\* A publisher's draft stays what it is while others take steps.
LEMMA DraftStays ==
    ASSUME IInv, [Next]_all, NEW p \in Publishers, Drafted(p),
           desk'[p] = desk[p], draft'[p] = draft[p], desk[p] \in {"verifying", "copying"}
    PROVE  Drafted(p)'
<1> DEFINE read == draft[p].verified
           copies == draft[p].copies
<1>1. /\ target.present /\ Founded(read)
      /\ draft[p] = [verified |-> read, copies |-> copies]
      /\ desk[p] = "verifying" => Before(read, Core) /\ copies = Unread
      /\ desk[p] = "copying" => /\ Before(read, Files) /\ Borne(read)
                                /\ copies = [f \in Files |-> copies[f]]
                                /\ Taken(copies, read, {f \in Published : copies[f].body # 0})
  BY DEF Drafted
<1>2. /\ target'.present
      /\ read["COMPLETE"].body = 1 =>
            target'.bundle.status = "complete" /\ \A f \in Core : read[f].body = 1
  BY <1>1, FoundedStays
<1>3. desk[p] = "verifying" => \A f \in Core : Typed(read[f]) /\ Grown(read[f], file'[f])
  BY <1>1, ReadStays DEF Files
<1>4. desk[p] = "copying" =>
         \A f \in Files : /\ Typed(read[f]) /\ Grown(read[f], file'[f])
                          /\ file'[f] = read[f] => file[f] = read[f]
  BY <1>1, ReadStays
<1>5. Published \subseteq Files
  BY DEF Published, Files, Core
<1>6. desk[p] = "copying" =>
         \A f \in {g \in Published : copies[g].body # 0} : file'[f] = read[f] => copies[f] = read[f]
  BY <1>1, <1>4, <1>5 DEF Taken
<1>7. draft'[p].verified = read /\ draft'[p].copies = copies
  OBVIOUS
<1> HIDE DEF read, copies
<1>8. /\ draft'[p] = [verified |-> draft'[p].verified, copies |-> draft'[p].copies]
      /\ Founded(draft[p].verified)'
      /\ desk'[p] = "verifying" => Before(draft[p].verified, Core)' /\ draft'[p].copies = Unread
  BY <1>1, <1>2, <1>3, <1>7 DEF Founded, Before
<1>9. desk'[p] = "copying" =>
         /\ Before(draft[p].verified, Files)' /\ Borne(draft[p].verified)'
         /\ draft'[p].copies = [f \in Files |-> draft'[p].copies[f]]
         /\ Taken(draft[p].copies, draft[p].verified, {f \in Published : draft[p].copies[f].body # 0})'
  BY <1>1, <1>4, <1>6, <1>7 DEF Before, Borne, Taken
<1> QED BY <1>2, <1>8, <1>9 DEF Drafted, Unread, Unwritten

\* So does the snapshot.
LEMMA SnapshotStays ==
    ASSUME IInv, SnapshotInv, [Next]_all, snapshot.present, snapshot' = snapshot
    PROVE  /\ target'.present /\ Founded(snapshot.verified)' /\ Borne(snapshot.verified)'
           /\ Before(snapshot.verified, Files)'
           /\ Taken(snapshot.copies, snapshot.verified, Published)'
<1>1. /\ target.present /\ Founded(snapshot.verified) /\ Borne(snapshot.verified)
      /\ Before(snapshot.verified, Files)
      /\ Taken(snapshot.copies, snapshot.verified, Published)
  BY DEF SnapshotInv
<1>2. target'.present /\ Founded(snapshot.verified)'
  BY <1>1, FoundedStays DEF Founded
<1>3. \A f \in Files :
         /\ Typed(snapshot.verified[f]) /\ Grown(snapshot.verified[f], file'[f])
         /\ file'[f] = snapshot.verified[f] => file[f] = snapshot.verified[f]
  BY <1>1, ReadStays
<1>4. Published \subseteq Files
  BY DEF Published, Files, Core
<1> QED BY <1>1, <1>2, <1>3, <1>4 DEF Borne, Before, Taken

LEMMA InitSnapshot == EvidenceInit => SnapshotInv
<1> SUFFICES ASSUME EvidenceInit PROVE SnapshotInv
  OBVIOUS
<1>1. /\ file = [f \in Files |-> IF f \in Core THEN AsWritten([g \in Cites[f] |-> 1])
                                               ELSE Unwritten]
      /\ desk = [p \in Publishers |-> "idle"] /\ draft = [p \in Publishers |-> Absent]
      /\ snapshot = Absent
  BY DEF EvidenceInit
<1>2. \A f \in Core : file[f] = AsWritten([g \in Cites[f] |-> 1])
  BY <1>1 DEF Files
<1>3. \A cites : AsWritten(cites).body = 1 /\ AsWritten(cites).cites = cites
  BY DEF AsWritten
<1>4. RecordKept
  <2> SUFFICES ASSUME NEW f \in Core
               PROVE  /\ file[f].body # 0
                      /\ \A g \in Cites[f] : file[f].cites[g] = 1
    BY DEF RecordKept, Written
  <2>1. PICK cites : cites = [g \in Cites[f] |-> 1]
    OBVIOUS
  <2> QED BY <1>2, <1>3, <2>1
<1> QED BY <1>1, <1>4 DEF SnapshotInv, Absent

\* What a publisher reads of the record and finds to hold is founded, and is
\* what is there.
LEMMA VerifyRecordKeeps ==
    ASSUME IInv, RecordKept, NEW p \in Publishers, VerifyRecord(p),
           draft = [q \in Publishers |-> draft[q]], desk = [q \in Publishers |-> desk[q]],
           desk'[p] \in {"verifying", "copying"}
    PROVE  Drafted(p)'
<1>1. PICK read : read = Reading(Unread, Core)
  OBVIOUS
<1>2. /\ Settled /\ RecordHolds(read)
      /\ desk' = [desk EXCEPT ![p] = "verifying"]
      /\ draft' = [draft EXCEPT ![p] = [verified |-> read, copies |-> Unread]]
      /\ file' = file /\ target' = target
  BY <1>1 DEF VerifyRecord, Refuse, vars, bundle
<1>3. \A f \in Core : f \in Files /\ read[f] = file[f]
  BY <1>1 DEF Reading, Files
<1>4. Founded(read)
  BY <1>2, <1>3, RecordFounded
<1>5. \A f \in Core : Typed(read[f]) /\ Grown(read[f], file[f])
  BY <1>3 DEF IInv, Editions, Grown
<1>6. /\ draft'[p] = [verified |-> read, copies |-> Unread] /\ desk'[p] = "verifying"
      /\ draft'[p].verified = read /\ draft'[p].copies = Unread
      /\ target.present
  BY <1>2 DEF Settled
<1>7. Founded(draft[p].verified)' /\ Before(draft[p].verified, Core)'
  BY <1>2, <1>4, <1>5, <1>6 DEF Founded, Before
<1> QED BY <1>2, <1>6, <1>7 DEF Drafted, Unread, Unwritten

\* Reading the reports leaves what was read of the record as it was.
LEMMA VerifyReportsKeeps ==
    ASSUME IInv, NEW p \in Publishers, VerifyReports(p), Drafted(p),
           draft = [q \in Publishers |-> draft[q]], desk = [q \in Publishers |-> desk[q]],
           desk'[p] \in {"verifying", "copying"}
    PROVE  Drafted(p)'
<1>1. PICK read : read = Reading(draft[p].verified, Reports)
  OBVIOUS
<1>2. /\ desk[p] = "verifying" /\ ReportsHold(read)
      /\ desk' = [desk EXCEPT ![p] = "copying"]
      /\ draft' = [draft EXCEPT ![p].verified = read]
      /\ file' = file /\ target' = target
  BY <1>1 DEF VerifyReports, Refuse, vars, bundle
<1>3. /\ target.present /\ Founded(draft[p].verified) /\ Before(draft[p].verified, Core)
      /\ draft[p] = [verified |-> draft[p].verified, copies |-> draft[p].copies]
      /\ draft[p].copies = Unread
  BY <1>2 DEF Drafted
<1>4. /\ read = [f \in Files |-> read[f]]
      /\ \A f \in Reports : f \in Files /\ read[f] = file[f]
      /\ \A f \in Core : f \in Files /\ read[f] = draft[p].verified[f]
  BY <1>1 DEF Reading, Files, Core, Reports
<1>5. /\ draft'[p] = [verified |-> read, copies |-> Unread] /\ desk'[p] = "copying"
  BY <1>2, <1>3
<1>6. draft'[p].verified = read /\ draft'[p].copies = Unread
  BY <1>5
<1>7. \A f \in Files : Typed(read[f]) /\ Grown(read[f], file[f])
  <2>1. \A f \in Core : Typed(read[f]) /\ Grown(read[f], file[f])
    BY <1>3, <1>4 DEF Before
  <2>2. \A f \in Reports : Typed(read[f]) /\ Grown(read[f], file[f])
    BY <1>4 DEF IInv, Editions, Grown
  <2> QED BY <2>1, <2>2 DEF Files
<1>8. "COMPLETE" \in Core
  BY DEF Core
<1>9. Founded(read)
  BY <1>3, <1>4, <1>8 DEF Founded
<1>10. Borne(read)
  BY <1>2 DEF ReportsHold, BearsOut, Borne
<1>11. /\ Founded(draft[p].verified)' /\ Borne(draft[p].verified)'
       /\ Before(draft[p].verified, Files)'
  BY <1>2, <1>6, <1>7, <1>9, <1>10 DEF Founded, Before, Borne
<1>12. Unread = [f \in Files |-> Unread[f]] /\ \A f \in Files : Unread[f].body = 0
  BY DEF Unread, Unwritten
<1>13. Taken(Unread, read, {f \in Published : Unread[f].body # 0})'
  BY <1>12 DEF Taken, Published, Files, Core
<1> QED
  <2>1. /\ draft'[p] = [verified |-> draft'[p].verified, copies |-> draft'[p].copies]
        /\ draft'[p].copies = [f \in Files |-> draft'[p].copies[f]]
    BY <1>5, <1>6, <1>12
  <2>2. Taken(draft[p].copies, draft[p].verified, {f \in Published : draft[p].copies[f].body # 0})'
    BY <1>6, <1>13 DEF Taken, Unread, Unwritten
  <2> QED BY <1>2, <1>3, <1>5, <1>11, <2>1, <2>2 DEF Drafted

\* A file is copied as it is.
LEMMA CopyKeeps ==
    ASSUME NEW p \in Publishers, NEW f \in Published, Copy(p, f), Drafted(p),
           draft = [q \in Publishers |-> draft[q]], desk = [q \in Publishers |-> desk[q]],
           desk'[p] \in {"verifying", "copying"}
    PROVE  Drafted(p)'
<1>1. PICK read, copies : read = draft[p].verified /\ copies = draft[p].copies
  OBVIOUS
<1>2. /\ desk[p] = "copying" /\ desk' = desk /\ file' = file /\ target' = target
      /\ draft' = [draft EXCEPT ![p].copies[f] = file[f]]
  BY DEF Copy, Refuse, vars, bundle
<1>3. /\ target.present /\ Founded(read)
      /\ draft[p] = [verified |-> read, copies |-> copies]
      /\ Before(read, Files) /\ Borne(read) /\ copies = [g \in Files |-> copies[g]]
      /\ Taken(copies, read, {g \in Published : copies[g].body # 0})
  BY <1>1, <1>2 DEF Drafted
<1>4. PICK new : new = [copies EXCEPT ![f] = file[f]]
  OBVIOUS
<1>5. draft'[p] = [verified |-> read, copies |-> new]
  BY <1>1, <1>2, <1>3, <1>4
<1>6. draft'[p].verified = read /\ draft'[p].copies = new
  BY <1>5
<1>7. f \in Files
  BY DEF Published, Files, Core
<1>8. /\ new = [g \in Files |-> new[g]]
      /\ \A g \in Files : new[g] = IF g = f THEN file[f] ELSE copies[g]
  BY <1>3, <1>4, <1>7
<1>9. Published \subseteq Files
  BY DEF Published, Files, Core
<1>10. \A g \in {h \in Published : new[h].body # 0} : file[g] = read[g] => new[g] = read[g]
  BY <1>3, <1>8, <1>9 DEF Taken
<1>11. /\ Founded(draft[p].verified)' /\ Borne(draft[p].verified)'
       /\ Before(draft[p].verified, Files)'
  BY <1>2, <1>3, <1>6 DEF Founded, Before, Borne
<1>12. Taken(draft[p].copies, draft[p].verified, {g \in Published : draft[p].copies[g].body # 0})'
  BY <1>2, <1>6, <1>10 DEF Taken
<1>13. /\ draft'[p] = [verified |-> draft'[p].verified, copies |-> draft'[p].copies]
       /\ draft'[p].copies = [g \in Files |-> draft'[p].copies[g]]
  BY <1>5, <1>6, <1>8
<1> QED BY <1>2, <1>3, <1>11, <1>12, <1>13 DEF Drafted

\* The rename makes a draft with every copy the snapshot.
LEMMA SnapshotPromoted ==
    ASSUME NEW p \in Publishers, PromoteSnapshot(p), Drafted(p), ~snapshot.present
    PROVE  /\ target'.present /\ Founded(snapshot.verified)' /\ Borne(snapshot.verified)'
           /\ Before(snapshot.verified, Files)'
           /\ Taken(snapshot.copies, snapshot.verified, Published)'
<1>1. PICK read, copies : read = draft[p].verified /\ copies = draft[p].copies
  OBVIOUS
<1>2. /\ desk[p] = "copying" /\ file' = file /\ target' = target
      /\ \A f \in Published : copies[f].body # 0
      /\ snapshot' = [present |-> TRUE, by |-> p, verified |-> read, copies |-> copies]
  BY <1>1 DEF PromoteSnapshot, Copied, vars, bundle
<1>3. /\ target.present /\ Founded(read) /\ Before(read, Files) /\ Borne(read)
      /\ Taken(copies, read, {f \in Published : copies[f].body # 0})
  BY <1>1, <1>2 DEF Drafted
<1>4. \A f \in Published : file[f] = read[f] => copies[f] = read[f]
  BY <1>2, <1>3 DEF Taken
<1>5. snapshot'.verified = read /\ snapshot'.copies = copies
  BY <1>2
<1> QED BY <1>2, <1>3, <1>4, <1>5 DEF Founded, Borne, Before, Taken

\* Every step keeps the drafts and the snapshot founded.
LEMMA NextSnapshot ==
    ASSUME IInv, SnapshotInv, [Next]_all
    PROVE  SnapshotInv'
<1>1. RecordKept'
  BY RecordStays DEF SnapshotInv
<1>2. /\ desk = [p \in Publishers |-> desk[p]] /\ draft = [p \in Publishers |-> draft[p]]
      /\ \A p \in Publishers : desk[p] \in {"verifying", "copying"} => Drafted(p)
      /\ RecordKept
  BY DEF SnapshotInv
<1> DEFINE Tables == /\ desk' = [q \in Publishers |-> desk'[q]]
                     /\ draft' = [q \in Publishers |-> draft'[q]]
           Drafts == \A q \in Publishers : desk'[q] \in {"verifying", "copying"} => Drafted(q)'
           Stored == snapshot'.present =>
                        /\ target'.present /\ Founded(snapshot.verified)'
                        /\ Borne(snapshot.verified)' /\ Before(snapshot.verified, Files)'
                        /\ Taken(snapshot.copies, snapshot.verified, Published)'
<1>3. snapshot' = snapshot => Stored
  BY SnapshotStays
<1>4. ASSUME desk' = desk, draft' = draft, snapshot' = snapshot
      PROVE  Tables /\ Drafts /\ Stored
  BY <1>2, <1>3, <1>4, DraftStays
<1>5. ASSUME NEW p \in Publishers, Publishes(p)
      PROVE  Tables /\ Drafts /\ Stored
  <2>1. /\ Tables
        /\ \A q \in Publishers \ {p} : desk'[q] = desk[q] /\ draft'[q] = draft[q]
    BY <1>2, <1>5 DEF Publishes, VerifyRecord, VerifyReports, Refuse, Copy, PromoteSnapshot,
                      KillPublisher
  <2>2. CASE VerifyRecord(p)
    <3>1. snapshot' = snapshot
      BY <2>2 DEF VerifyRecord
    <3>2. desk'[p] \in {"verifying", "copying"} => Drafted(p)'
      BY <1>2, <2>2, VerifyRecordKeeps
    <3> QED BY <1>2, <1>3, <2>1, <3>1, <3>2, DraftStays
  <2>3. CASE VerifyReports(p)
    <3>1. snapshot' = snapshot /\ desk[p] = "verifying"
      BY <2>3 DEF VerifyReports
    <3>2. desk'[p] \in {"verifying", "copying"} => Drafted(p)'
      BY <1>2, <2>3, <3>1, VerifyReportsKeeps
    <3> QED BY <1>2, <1>3, <2>1, <3>1, <3>2, DraftStays
  <2>4. CASE \E f \in Published : Copy(p, f)
    <3>1. snapshot' = snapshot /\ desk[p] = "copying"
      BY <2>4 DEF Copy
    <3>2. desk'[p] \in {"verifying", "copying"} => Drafted(p)'
      BY <1>2, <2>4, <3>1, CopyKeeps
    <3> QED BY <1>2, <1>3, <2>1, <3>1, <3>2, DraftStays
  <2>5. CASE PromoteSnapshot(p)
    <3>1. /\ desk[p] = "copying" /\ desk'[p] \notin {"verifying", "copying"}
          /\ snapshot.present => snapshot' = snapshot
      BY <1>2, <2>5 DEF PromoteSnapshot
    <3>2. ~snapshot.present => Stored
      BY <1>2, <2>5, <3>1, SnapshotPromoted
    <3> QED BY <1>2, <1>3, <2>1, <3>1, <3>2, DraftStays
  <2>6. CASE KillPublisher(p)
    <3>1. snapshot' = snapshot /\ desk'[p] \notin {"verifying", "copying"}
      BY <1>2, <2>6 DEF KillPublisher
    <3> QED BY <1>2, <1>3, <2>1, <3>1, DraftStays
  <2> QED BY <1>5, <2>2, <2>3, <2>4, <2>5, <2>6 DEF Publishes
<1>6. Tables /\ Drafts /\ Stored
  <2>1. \/ desk' = desk /\ draft' = draft /\ snapshot' = snapshot
        \/ \E p \in Publishers : Publishes(p)
    BY DEF Next, Publishes, Summarize, Plot, EditRest, Edit, Rest, all, evidence
  <2> QED BY <1>4, <1>5, <2>1
<1> QED BY <1>1, <1>6 DEF SnapshotInv

\* COMPLETE is the root of what a snapshot was verified to be, and what was
\* copied is that in every file that did not change since, whatever else was
\* edited, when, and however often.
THEOREM SnapshotIsFaithful == Spec => []SnapshotVerified
<1>1. DealInv /\ SnapshotInv => SnapshotVerified
  <2> SUFFICES ASSUME DealInv, SnapshotInv, snapshot.present PROVE SnapshotVerified
    BY DEF SnapshotVerified
  <2>1. PICK verified, copies : verified = snapshot.verified /\ copies = snapshot.copies
    OBVIOUS
  <2>2. PICK Same : Same = {f \in Published : file[f] = verified[f]}
    OBVIOUS
  <2>3. /\ target.present /\ Founded(verified) /\ Borne(verified)
        /\ Taken(copies, verified, Published)
    BY <2>1 DEF SnapshotInv
  <2>4. \A f \in Same : copies[f] = verified[f]
    BY <2>2, <2>3 DEF Taken
  <2>5. ASSUME verified["COMPLETE"].body = 1
        PROVE  /\ \A f \in Core : verified[f].body = 1
               /\ \A c \in Cells : result[c] # "failure"
               /\ \A f \in Core \cap Same : copies[f].body = 1
    <3>1. target.bundle.status = "complete" /\ \A f \in Core : verified[f].body = 1
      BY <2>3, <2>5 DEF Founded
    <3>2. Range(target.bundle.failures) = {c \in Cells : result[c] = "failure"}
          /\ target.bundle.failures = << >>
      BY <2>3, <3>1 DEF DealInv, Bundled, WholeBundle
    <3>3. Range(<< >>) = {}
      BY DEF Range
    <3>4. \A c \in Cells : result[c] # "failure"
      BY <3>2, <3>3
    <3> QED BY <2>4, <3>1, <3>4
  <2>6. \A f \in Reports \cap Same :
           \A g \in Cites[f] \cap Same : copies[f].cites[g] = copies[g].body
    BY <2>3, <2>4 DEF Borne
  <2> QED BY <2>1, <2>2, <2>4, <2>5, <2>6 DEF SnapshotVerified
<1> QED BY <1>1, InitDeal, NextDeals, InitSnapshot, NextSnapshot, Invariance, PTL DEF Spec

-----------------------------------------------------------------------------
(* What a comparison compares.                                             *)

\* A summary is of the published bundle, which stays.
SummaryInv == summary # Absent => target.present /\ summary = SummaryOf(target.bundle)

\* The summary is made when the bundle is there.
LEMMA NextSummary ==
    ASSUME SummaryInv, [Next]_all
    PROVE  SummaryInv'
<1>1. target.present => target' = target
  BY PublishedStays
<1>2. ASSUME summary' = summary, result' = result
      PROVE  SummaryInv'
  <2> SUFFICES ASSUME summary' # Absent
               PROVE  (target.present /\ summary = SummaryOf(target.bundle))'
    BY DEF SummaryInv, Absent
  <2>1. target.present /\ summary = SummaryOf(target.bundle) /\ target' = target
    BY <1>1, <1>2 DEF SummaryInv
  <2>2. Estimates(target.bundle.runs)' = Estimates(target.bundle.runs)
    BY <1>2, <2>1 DEF Estimates, RowsOf, Measured
  <2>3. Comparisons(target.bundle.runs)' = Comparisons(target.bundle.runs)
    BY <1>2, <2>1 DEF Comparisons, Comparison, Candidates, Pairs, RowsOf, Measured,
       Replications, Precedes
  <2> QED BY <1>2, <2>1, <2>2, <2>3 DEF SummaryOf
<1>3. ASSUME NEW allow \in BOOLEAN, Summarize(allow)
      PROVE  SummaryInv'
  <2>1. target' = target /\ result' = result /\ target.present
        /\ summary' \in {SummaryOf(target.bundle), Absent}
    BY <1>3 DEF Summarize, Settled, vars
  <2>2. SummaryOf(target.bundle)' = SummaryOf(target.bundle)
    BY <2>1 DEF SummaryOf, Estimates, Comparisons, Comparison, Candidates, Pairs, RowsOf,
       Measured, Replications, Precedes
  <2> QED BY <2>1, <2>2 DEF SummaryInv, Absent
<1>4. ASSUME NEW p \in Publishers, Publishes(p)
      PROVE  summary' = summary /\ result' = result
  BY <1>4, PublishingReads DEF bundle, vars
<1> QED
  <2>1. \/ summary' = summary /\ result' = result
        \/ \E allow \in BOOLEAN : Summarize(allow)
        \/ \E p \in Publishers : Publishes(p)
    BY DEF Next, Publishes, Plot, EditRest, Edit, Rest, all, vars, bundle
  <2> QED BY <1>2, <1>3, <1>4, <2>1

\* The same cells meet only once in the pairs of a stratum and a candidate.
LEMMA PairsMeetOnce ==
    ASSUME NEW rows, Range(rows) \subseteq Cells, NEW f, NEW v \in Nat \ Reference,
           NEW a \in Pairs(f, v, rows), NEW b \in Pairs(f, v, rows)
    PROVE  /\ Group(a[1]) = Group(a[2]) /\ a[1] # a[2]
           /\ a[1] = b[1] \/ a[2] = b[2] \/ a[1].replication = b[1].replication => a = b
<1>1. /\ a = <<a[1], a[2]>> /\ b = <<b[1], b[2]>>
      /\ a[1] \in Cells /\ a[2] \in Cells /\ b[1] \in Cells /\ b[2] \in Cells
      /\ a[1].variant \in Reference /\ b[1].variant \in Reference
      /\ a[2].variant = v /\ b[2].variant = v
      /\ a[1].factors = f /\ a[2].factors = f /\ b[1].factors = f /\ b[2].factors = f
      /\ a[1].replication = a[2].replication /\ b[1].replication = b[2].replication
  BY DEF Pairs
<1>2. a[1].variant = b[1].variant
  BY <1>1, ReferenceAssumption
<1>3. a[1].replication = b[1].replication => a = b
  <2>1. a[1].replication = b[1].replication => a[1] = b[1]
    BY <1>1, <1>2, Identified
  <2>2. a[1].replication = b[1].replication => a[2] = b[2]
    BY <1>1, Identified
  <2> QED BY <1>1, <2>1, <2>2
<1>4. a[1] # a[2] /\ Group(a[1]) = Group(a[2])
  BY <1>1 DEF Group
<1>5. a[1] = b[1] \/ a[2] = b[2] => a[1].replication = b[1].replication
  BY <1>1
<1> QED BY <1>3, <1>4, <1>5

\* The replications a comparison is without: one of the two runs failed there,
\* or has no value.
Without(f, v) == {r \in Replications : \E c \in Cells :
                     /\ c.factors = f /\ c.replication = r
                     /\ c.variant \in Reference \cup {v}
                     /\ result[c] \in {"failure", "valueless"}}

\* The pairs with two values.
Valued(f, v, rows) == {pair \in Pairs(f, v, rows) : Range(pair) = Measured(Range(pair))}

\* A pair has two values in every other replication.
LEMMA ValuedPairs ==
    ASSUME NEW rows, Range(rows) = {c \in Cells : result[c] # "failure"},
           NEW candidate \in Cells, candidate.variant \notin Reference
    PROVE  LET f == candidate.factors
               v == candidate.variant
           IN Cardinality(Replications) - Cardinality(Valued(f, v, rows))
                 = Cardinality(Without(f, v))
<1> DEFINE f == candidate.factors
           v == candidate.variant
           W == Valued(f, v, rows)
           Bad == Without(f, v)
           Good == Replications \ Bad
           at == [pair \in W |-> pair[1].replication]
<1>1. v \in Nat \ Reference /\ Range(rows) \subseteq Cells
  BY Identified
<1>2. ASSUME NEW pair \in W
      PROVE  /\ pair \in Pairs(f, v, rows)
             /\ pair[1] \in Range(rows) /\ pair[2] \in Range(rows)
             /\ pair[1].variant \in Reference /\ pair[2].variant = v
             /\ pair[1].factors = f /\ pair[2].factors = f
             /\ pair[1].replication = pair[2].replication
             /\ result[pair[1]] # "valueless" /\ result[pair[2]] # "valueless"
  <2>1. /\ pair \in Pairs(f, v, rows) /\ Range(pair) = Measured(Range(pair))
    BY DEF Valued
  <2>2. /\ pair \in Range(rows) \X Range(rows)
        /\ pair[1].variant \in Reference /\ pair[2].variant = v
        /\ pair[1].factors = f /\ pair[2].factors = f
        /\ pair[1].replication = pair[2].replication
    BY <2>1 DEF Pairs
  <2>3. pair[1] \in Range(pair) /\ pair[2] \in Range(pair)
    BY <2>2 DEF Range
  <2>4. result[pair[1]] # "valueless" /\ result[pair[2]] # "valueless"
    BY <2>1, <2>3 DEF Measured
  <2> QED BY <2>1, <2>2, <2>4
<1>3. ASSUME NEW pair \in W
      PROVE  at[pair] \in Good
  <2>1. pair[1].replication \in Replications
    BY <1>1, <1>2 DEF Replications
  <2>2. ASSUME NEW c \in Cells, c.factors = f, c.replication = pair[1].replication,
               c.variant \in Reference \cup {v}
        PROVE  result[c] \notin {"failure", "valueless"}
    <3>1. CASE c.variant \in Reference
      <4>1. c.variant = pair[1].variant
        BY <1>1, <1>2, <2>2, <3>1, ReferenceAssumption
      <4>2. c = pair[1]
        BY <1>1, <1>2, <2>2, <4>1, Identified
      <4> QED BY <1>2, <4>2
    <3>2. CASE c.variant = v
      <4>1. c = pair[2]
        BY <1>1, <1>2, <2>2, <3>2, Identified
      <4> QED BY <1>2, <4>1
    <3> QED BY <2>2, <3>1, <3>2
  <2>3. pair[1].replication \notin Bad
    BY <2>2 DEF Without
  <2> QED BY <2>1, <2>3
<1>4. ASSUME NEW a \in W, NEW b \in W, at[a] = at[b]
      PROVE  a = b
  BY <1>1, <1>2, <1>4, PairsMeetOnce
<1>5. ASSUME NEW r \in Good
      PROVE  \E pair \in W : at[pair] = r
  <2>1. PICK e \in Cells : e.replication = r
    BY DEF Replications
  <2>2. PICK d \in Cells : d.variant \in Reference /\ d.factors = f
    BY ReferenceAssumption
  <2>3. PICK e1 \in Cells : e1.variant = d.variant /\ e1.replication = r
    BY <2>1, PlanAssumption
  <2>4. PICK e2 \in Cells : e2.variant = v /\ e2.replication = r
    BY <2>1, PlanAssumption
  <2>5. e1.factors = f /\ e2.factors = f
    BY <2>2, <2>3, <2>4, PlanAssumption
  <2>6. result[e1] \notin {"failure", "valueless"} /\ result[e2] \notin {"failure", "valueless"}
    BY <2>2, <2>3, <2>4, <2>5 DEF Without
  <2>7. e1 \in Range(rows) /\ e2 \in Range(rows)
    BY <2>6
  <2> DEFINE pair == <<e1, e2>>
  <2>8. pair \in Pairs(f, v, rows)
    BY <2>2, <2>3, <2>4, <2>5, <2>7 DEF Pairs
  <2>9. Range(pair) = {e1, e2}
    BY DEF Range
  <2>10. pair \in W
    BY <2>6, <2>8, <2>9 DEF Valued, Measured
  <2> QED BY <2>3, <2>10
<1>6. IsFiniteSet(Replications)
  <2>1. IsFiniteSet(Cells)
    <3>1. Len(Plan) \in 0..Len(Plan)
      BY PlanLists
    <3> QED BY <3>1, FirstCells
  <2> DEFINE g == [c \in Cells |-> c.replication]
  <2>2. g \in Surjection(Cells, Replications)
    <3>1. g \in [Cells -> Replications] /\ \A r \in Replications : \E c \in Cells : g[c] = r
      BY DEF Replications
    <3> HIDE DEF g
    <3> QED BY <3>1, Fun_IsSurj
  <2> QED BY <2>1, <2>2, FS_Surjection
<1> HIDE DEF W, Bad
<1>7. at \in Bijection(W, Good)
  <2>1. at \in [W -> Good]
    BY <1>3
  <2>2. \A a, b \in W : at[a] = at[b] => a = b
    BY <1>4
  <2>3. \A r \in Good : \E pair \in W : at[pair] = r
    BY <1>5
  <2> HIDE DEF at, Good
  <2> QED BY <2>1, <2>2, <2>3, Fun_IsBij
<1>8. Bad \subseteq Replications
  BY DEF Bad, Without
<1>9. IsFiniteSet(Good) /\ IsFiniteSet(Bad)
  BY <1>6, <1>8, FS_Subset
<1>10. Cardinality(W) = Cardinality(Good)
  <2>1. at \in Injection(W, Good) /\ at \in Surjection(W, Good)
    BY <1>7, Fun_BijectionProperties
  <2> QED BY <1>9, <2>1, FS_Injection
<1>11. Cardinality(Replications) = Cardinality(Good) + Cardinality(Bad) - 0
  <2>1. Good \cup Bad = Replications /\ Good \cap Bad = {}
    BY <1>8
  <2>2. Cardinality({}) = 0
    BY FS_EmptySet
  <2> HIDE DEF Good
  <2> QED BY <1>9, <2>1, <2>2, FS_Union
<1>12. Cardinality(Good) \in Nat /\ Cardinality(Bad) \in Nat
  BY <1>9, FS_CardinalityType
<1>13. Cardinality(Replications) - Cardinality(W) = Cardinality(Bad)
  BY <1>10, <1>11, <1>12
<1> QED BY <1>13 DEF W, Bad

\* The summary of a whole bundle pairs like with like and leaves no run out.
LEMMA SummaryOfWhole ==
    ASSUME NEW b, Bundled(b), NEW s, s = SummaryOf(b)
    PROVE  /\ \A k \in s.comparisons :
                 /\ \A p, q \in k.pairs :
                       /\ Group(p[1]) = Group(p[2]) /\ p[1] # p[2]
                       /\ p # q => p[1] # q[1] /\ p[2] # q[2]
                 /\ k.expected - k.valid = Cardinality(Without(k.stratum, k.candidate))
           /\ UNION {e.sources : e \in s.estimates} = {c \in Cells : result[c] # "failure"}
           /\ \A e, g \in s.estimates : e # g => e.sources \cap g.sources = {}
           /\ s.partial <=> \E c \in Cells : result[c] = "failure"
<1> DEFINE rows == b.runs
<1>1. Range(rows) = {c \in Cells : result[c] # "failure"} /\ Range(rows) \subseteq Cells
  BY DEF Bundled, WholeBundle
<1>2. /\ s.estimates = Estimates(rows) /\ s.comparisons = Comparisons(rows)
      /\ s.partial = (b.status # "complete")
  BY DEF SummaryOf
<1>3. s.partial <=> \E c \in Cells : result[c] = "failure"
  <2>1. /\ Range(b.failures) = {c \in Cells : result[c] = "failure"}
        /\ b.status = "complete" <=> b.failures = << >>
        /\ b.failures \in Seq(Cells)
    BY DEF Bundled, WholeBundle
  <2>2. b.failures = << >> <=> Range(b.failures) = {}
    <3>1. b.failures # << >> => 1 \in DOMAIN b.failures
      BY <2>1
    <3>2. 1 \in DOMAIN b.failures => b.failures[1] \in Range(b.failures)
      BY DEF Range
    <3>3. Range(<< >>) = {}
      BY DEF Range
    <3> QED BY <3>1, <3>2, <3>3
  <2> QED BY <1>2, <2>1, <2>2
<1> HIDE DEF rows
<1>4. ASSUME NEW k \in Comparisons(rows)
      PROVE  /\ \A p, q \in k.pairs :
                   /\ Group(p[1]) = Group(p[2]) /\ p[1] # p[2]
                   /\ p # q => p[1] # q[1] /\ p[2] # q[2]
             /\ k.expected - k.valid = Cardinality(Without(k.stratum, k.candidate))
  <2>1. PICK c \in Candidates(rows) : k = Comparison(c.factors, c.variant, rows)
    BY DEF Comparisons
  <2>2. c \in Cells /\ c.variant \notin Reference /\ c.variant \in Nat
    BY <2>1, Identified DEF Candidates
  <2>3. /\ k.stratum = c.factors /\ k.candidate = c.variant
        /\ k.expected = Cardinality(Replications)
        /\ k.valid = Cardinality(Valued(c.factors, c.variant, rows))
        /\ k.pairs = Pairs(c.factors, c.variant, rows)
    BY <2>1 DEF Comparison, Valued
  <2>4. k.expected - k.valid = Cardinality(Without(k.stratum, k.candidate))
    BY <1>1, <2>2, <2>3, ValuedPairs
  <2>5. ASSUME NEW p \in k.pairs, NEW q \in k.pairs
        PROVE  /\ Group(p[1]) = Group(p[2]) /\ p[1] # p[2]
               /\ p # q => p[1] # q[1] /\ p[2] # q[2]
    BY <1>1, <2>2, <2>3, PairsMeetOnce
  <2> QED BY <2>4, <2>5
<1>5. ASSUME NEW e \in Estimates(rows)
      PROVE  \E c \in Range(rows) : /\ e.sources = RowsOf(c.variant, rows)
                                    /\ e.variant = c.variant
                                    /\ e = [variant |-> c.variant,
                                            total   |-> Cardinality(RowsOf(c.variant, rows)),
                                            valid   |-> Cardinality(Measured(RowsOf(c.variant, rows))),
                                            sources |-> RowsOf(c.variant, rows)]
  BY DEF Estimates
<1>6. UNION {e.sources : e \in Estimates(rows)} = Range(rows)
  <2>1. \A e \in Estimates(rows) : e.sources \subseteq Range(rows)
    BY <1>5 DEF RowsOf
  <2>2. ASSUME NEW c \in Range(rows)
        PROVE  \E e \in Estimates(rows) : c \in e.sources
    <3> DEFINE e == [variant |-> c.variant,
                     total   |-> Cardinality(RowsOf(c.variant, rows)),
                     valid   |-> Cardinality(Measured(RowsOf(c.variant, rows))),
                     sources |-> RowsOf(c.variant, rows)]
    <3>1. e \in Estimates(rows)
      BY DEF Estimates
    <3>2. c \in e.sources
      BY DEF RowsOf
    <3> QED BY <3>1, <3>2
  <2> QED BY <2>1, <2>2
<1>7. ASSUME NEW e \in Estimates(rows), NEW g \in Estimates(rows), e # g
      PROVE  e.sources \cap g.sources = {}
  <2>1. SUFFICES ASSUME NEW x \in e.sources, x \in g.sources
                 PROVE  FALSE
    OBVIOUS
  <2>2. PICK c \in Range(rows) : /\ e.sources = RowsOf(c.variant, rows)
                                 /\ e = [variant |-> c.variant,
                                         total   |-> Cardinality(RowsOf(c.variant, rows)),
                                         valid   |-> Cardinality(Measured(RowsOf(c.variant, rows))),
                                         sources |-> RowsOf(c.variant, rows)]
    BY <1>5
  <2>3. PICK d \in Range(rows) : /\ g.sources = RowsOf(d.variant, rows)
                                 /\ g = [variant |-> d.variant,
                                         total   |-> Cardinality(RowsOf(d.variant, rows)),
                                         valid   |-> Cardinality(Measured(RowsOf(d.variant, rows))),
                                         sources |-> RowsOf(d.variant, rows)]
    BY <1>5
  <2>4. c.variant = d.variant
    BY <2>1, <2>2, <2>3 DEF RowsOf
  <2> QED BY <1>7, <2>2, <2>3, <2>4
<1> QED BY <1>1, <1>2, <1>3, <1>4, <1>6, <1>7

\* Comparisons are fair for any design, also of a partial bundle, and whatever
\* happens to the files afterwards.
THEOREM ComparisonsAreFair == Spec => []ComparesLikeWithLike
<1>1. DealInv /\ SummaryInv => ComparesLikeWithLike
  <2>1. SUFFICES ASSUME DealInv, SummaryInv, summary # Absent PROVE ComparesLikeWithLike
    BY DEF ComparesLikeWithLike
  <2>2. Bundled(target.bundle) /\ summary = SummaryOf(target.bundle)
    BY <2>1 DEF DealInv, SummaryInv
  <2>3. /\ \A k \in summary.comparisons :
              /\ \A p, q \in k.pairs :
                    /\ Group(p[1]) = Group(p[2]) /\ p[1] # p[2]
                    /\ p # q => p[1] # q[1] /\ p[2] # q[2]
              /\ k.expected - k.valid = Cardinality(Without(k.stratum, k.candidate))
        /\ UNION {e.sources : e \in summary.estimates} = {c \in Cells : result[c] # "failure"}
        /\ \A e, g \in summary.estimates : e # g => e.sources \cap g.sources = {}
        /\ summary.partial <=> \E c \in Cells : result[c] = "failure"
    BY <2>2, SummaryOfWhole
  <2> QED BY <2>3 DEF ComparesLikeWithLike, Without
<1>2. EvidenceInit => SummaryInv
  BY DEF EvidenceInit, SummaryInv
<1> QED BY <1>1, <1>2, InitDeal, NextDeals, NextSummary, Invariance, PTL DEF Spec

===============================================================================
