----------------------------- MODULE SumsProofs -----------------------------
(***************************************************************************)
(* Facts about Sum and SumOver, for sums of any length.  Each is proved by *)
(* its least counterexample: among the lengths at which the fact fails     *)
(* there would be a least one, positive, and the fact at the length before *)
(* it yields the fact there.                                               *)
(***************************************************************************)
EXTENDS Sums, TLAPS, WellFoundedInduction, FiniteSetTheorems

\* A nonempty set of naturals has a least member.
LEMMA LeastNumber ==
    ASSUME NEW T, T \subseteq Nat, T # {}
    PROVE  \E m \in T : \A k \in T : ~(k < m)
<1>1. IsWellFoundedOn(OpToRel(<, Nat), Nat)
  BY NatLessThanWellFounded
<1>2. PICK m \in T : \A y \in T : ~(<<y, m>> \in OpToRel(<, Nat))
  BY <1>1, WFMin
<1>3. \A k \in T : <<k, m>> \in OpToRel(<, Nat) <=> k < m
  BY DEF OpToRel
<1> QED BY <1>2, <1>3

-----------------------------------------------------------------------------
(* The recursive definition defines what it says.                          *)

IsPartialSums(s, f, n) ==
    s = [i \in 0..n |-> IF i = 0 THEN 0 ELSE s[i - 1] + f[i]]

\* Some function satisfies the recursion equation, whatever the length.
LEMMA PartialSumsExist ==
    ASSUME NEW f, NEW n \in Nat
    PROVE  \E s : IsPartialSums(s, f, n)
<1> DEFINE T == {k \in Nat : ~ \E s : IsPartialSums(s, f, k)}
<1> SUFFICES ASSUME n \in T PROVE FALSE
  OBVIOUS
<1>1. PICK m \in T : \A k \in T : ~(k < m)
  BY LeastNumber
<1>2. m # 0
  <2>1. IsPartialSums([i \in 0..0 |-> 0], f, 0)
    BY DEF IsPartialSums
  <2> QED BY <2>1
<1>3. m - 1 \in Nat /\ m - 1 \notin T
  BY <1>1, <1>2
<1>4. PICK s : IsPartialSums(s, f, m - 1)
  BY <1>3
<1> DEFINE t == [i \in 0..m |-> IF i = m THEN s[m - 1] + f[m] ELSE s[i]]
<1>5. IsPartialSums(t, f, m)
  <2>1. \A i \in 0..m : t[i] = IF i = 0 THEN 0 ELSE t[i - 1] + f[i]
    BY <1>3, <1>4 DEF IsPartialSums
  <2> HIDE DEF t
  <2>2. t = [i \in 0..m |-> t[i]]
    BY DEF t
  <2> QED BY <2>1, <2>2 DEF IsPartialSums
<1> QED BY <1>5

\* PartialSums satisfies its own recursion equation.
LEMMA PartialSumsDef ==
    ASSUME NEW f, NEW n \in Nat
    PROVE  /\ PartialSums(f, n)[0] = 0
           /\ \A i \in 1..n : PartialSums(f, n)[i] = PartialSums(f, n)[i - 1] + f[i]
<1>1. PICK s : IsPartialSums(s, f, n)
  BY PartialSumsExist
<1>2. IsPartialSums(PartialSums(f, n), f, n)
  BY <1>1, Zenon DEF PartialSums, IsPartialSums
<1>3. ASSUME NEW r, IsPartialSums(r, f, n)
      PROVE  r[0] = 0 /\ \A i \in 1..n : r[i] = r[i - 1] + f[i]
  BY <1>3 DEF IsPartialSums
<1> QED BY <1>2, <1>3

\* Sums of different lengths share their partial sums.
LEMMA PartialSumsPrefix ==
    ASSUME NEW f, NEW n \in Nat, NEW k \in 0..n
    PROVE  PartialSums(f, n)[k] = Sum(f, k)
<1> DEFINE T == {i \in Nat : i <= n /\ PartialSums(f, n)[i] # Sum(f, i)}
<1> SUFFICES ASSUME k \in T PROVE FALSE
  OBVIOUS
<1>1. PICK m \in T : \A i \in T : ~(i < m)
  BY LeastNumber
<1>2. CASE m = 0
  BY <1>1, <1>2, PartialSumsDef DEF Sum
<1>3. CASE m # 0
  <2>1. m - 1 \in Nat /\ m - 1 \notin T /\ m \in 1..n
    BY <1>1, <1>3
  <2>2. PartialSums(f, n)[m - 1] = Sum(f, m - 1)
    BY <2>1
  <2>3. PartialSums(f, n)[m] = Sum(f, m - 1) + f[m]
    BY <2>1, <2>2, PartialSumsDef
  <2>. DEFINE U == {i \in Nat : i < m /\ PartialSums(f, m)[i] # Sum(f, i)}
  <2>4. U = {}
    <3> SUFFICES ASSUME U # {} PROVE FALSE
      OBVIOUS
    <3>1. PICK j \in U : \A i \in U : ~(i < j)
      BY LeastNumber
    <3>2. CASE j = 0
      BY <3>1, <3>2, PartialSumsDef DEF Sum
    <3>3. CASE j # 0
      <4>1. j - 1 \in Nat /\ j - 1 \notin U /\ j \in 1..m /\ j \in 1..n /\ j \notin T /\ j - 1 \notin T
        BY <1>1, <2>1, <3>1, <3>3
      <4>2. PartialSums(f, m)[j] = Sum(f, j - 1) + f[j]
        BY <4>1, PartialSumsDef
      <4>3. PartialSums(f, n)[j] = Sum(f, j - 1) + f[j]
        BY <4>1, PartialSumsDef
      <4> QED BY <4>1, <4>2, <4>3
    <3> QED BY <3>2, <3>3
  <2>5. Sum(f, m) = Sum(f, m - 1) + f[m]
    BY <2>1, <2>4, PartialSumsDef DEF Sum
  <2> QED BY <2>3, <2>5
<1> QED BY <1>2, <1>3

\* A sum of no terms, and of one more term.
LEMMA SumStep ==
    ASSUME NEW f
    PROVE  /\ Sum(f, 0) = 0
           /\ \A n \in Nat : n # 0 => Sum(f, n) = Sum(f, n - 1) + f[n]
<1>1. Sum(f, 0) = 0
  BY PartialSumsDef DEF Sum
<1>2. ASSUME NEW n \in Nat, n # 0
      PROVE  Sum(f, n) = Sum(f, n - 1) + f[n]
  <2>1. n \in 1..n /\ n - 1 \in 0..n
    BY <1>2
  <2> QED BY <2>1, PartialSumsDef, PartialSumsPrefix DEF Sum
<1> QED BY <1>1, <1>2

-----------------------------------------------------------------------------
(* Facts about sums.                                                       *)

\* A sum of integers is an integer.
LEMMA SumInt ==
    ASSUME NEW f, NEW n \in Nat, \A i \in 1..n : f[i] \in Int
    PROVE  Sum(f, n) \in Int
<1> DEFINE T == {k \in Nat : k <= n /\ Sum(f, k) \notin Int}
<1> SUFFICES ASSUME n \in T PROVE FALSE
  OBVIOUS
<1>1. PICK m \in T : \A k \in T : ~(k < m)
  BY LeastNumber
<1>2. m # 0
  BY <1>1, SumStep
<1>3. m - 1 \in Nat /\ m - 1 \notin T /\ m \in 1..n
  BY <1>1, <1>2
<1> QED BY <1>1, <1>2, <1>3, SumStep

\* Sums of functions that are added term by term add up.
LEMMA SumAdd ==
    ASSUME NEW f, NEW g, NEW h, NEW n \in Nat,
           \A i \in 1..n : f[i] \in Int /\ g[i] \in Int /\ h[i] = f[i] + g[i]
    PROVE  Sum(h, n) = Sum(f, n) + Sum(g, n)
<1> DEFINE T == {k \in Nat : k <= n /\ Sum(h, k) # Sum(f, k) + Sum(g, k)}
<1> SUFFICES ASSUME n \in T PROVE FALSE
  OBVIOUS
<1>1. PICK m \in T : \A k \in T : ~(k < m)
  BY LeastNumber
<1>2. m # 0
  BY <1>1, SumStep
<1>3. m - 1 \in Nat /\ m - 1 \notin T /\ m \in 1..n
  BY <1>1, <1>2
<1>4. Sum(f, m - 1) \in Int /\ Sum(g, m - 1) \in Int
  BY <1>3, SumInt
<1>5. /\ Sum(f, m) = Sum(f, m - 1) + f[m]
      /\ Sum(g, m) = Sum(g, m - 1) + g[m]
      /\ Sum(h, m) = Sum(h, m - 1) + h[m]
  BY <1>2, SumStep
<1> QED BY <1>1, <1>3, <1>4, <1>5

\* A sum is monotone in its terms.
LEMMA SumMonotone ==
    ASSUME NEW f, NEW g, NEW n \in Nat,
           \A i \in 1..n : f[i] \in Int /\ g[i] \in Int /\ f[i] <= g[i]
    PROVE  Sum(f, n) <= Sum(g, n)
<1> DEFINE T == {k \in Nat : k <= n /\ ~(Sum(f, k) <= Sum(g, k))}
<1> SUFFICES ASSUME n \in T PROVE FALSE
  OBVIOUS
<1>1. PICK m \in T : \A k \in T : ~(k < m)
  BY LeastNumber
<1>2. m # 0
  BY <1>1, SumStep
<1>3. m - 1 \in Nat /\ m - 1 \notin T /\ m \in 1..n
  BY <1>1, <1>2
<1>4. Sum(f, m - 1) \in Int /\ Sum(g, m - 1) \in Int
  BY <1>3, SumInt
<1>5. Sum(f, m) = Sum(f, m - 1) + f[m] /\ Sum(g, m) = Sum(g, m - 1) + g[m]
  BY <1>2, SumStep
<1> QED BY <1>1, <1>3, <1>4, <1>5

\* A sum depends on its terms only.
LEMMA SumSame ==
    ASSUME NEW f, NEW g, NEW n \in Nat,
           \A i \in 1..n : f[i] \in Int /\ f[i] = g[i]
    PROVE  Sum(f, n) = Sum(g, n)
<1>1. Sum(f, n) \in Int /\ Sum(g, n) \in Int
  BY SumInt
<1>2. Sum(f, n) <= Sum(g, n) /\ Sum(g, n) <= Sum(f, n)
  BY SumMonotone
<1> QED BY <1>1, <1>2

\* A sum of zeros is zero.
LEMMA SumZero ==
    ASSUME NEW f, NEW n \in Nat, \A i \in 1..n : f[i] = 0
    PROVE  Sum(f, n) = 0
<1>1. \A i \in 1..n : f[i] = f[i] + f[i]
  OBVIOUS
<1>2. Sum(f, n) \in Int /\ Sum(f, n) = Sum(f, n) + Sum(f, n)
  BY <1>1, SumInt, SumAdd
<1>3. ASSUME NEW x \in Int, x = x + x
      PROVE  x = 0
  BY <1>3
<1> QED BY <1>2, <1>3

\* A sum of naturals is a natural.
LEMMA SumNat ==
    ASSUME NEW f, NEW n \in Nat, \A i \in 1..n : f[i] \in Nat
    PROVE  Sum(f, n) \in Nat
<1> DEFINE zero == [i \in 1..n |-> 0]
<1>1. Sum(zero, n) = 0
  BY SumZero
<1>2. Sum(zero, n) <= Sum(f, n)
  BY SumMonotone
<1>3. Sum(f, n) \in Int
  BY SumInt
<1> QED BY <1>1, <1>2, <1>3

\* A sum with one term that may differ from zero is that term.
LEMMA SumSingle ==
    ASSUME NEW f, NEW n \in Nat, NEW k \in 1..n, f[k] \in Int,
           \A i \in 1..n : i # k => f[i] = 0
    PROVE  Sum(f, n) = f[k]
<1> DEFINE T == {m \in Nat : m <= n /\ Sum(f, m) # IF k <= m THEN f[k] ELSE 0}
<1> SUFFICES ASSUME n \in T PROVE FALSE
  OBVIOUS
<1>1. PICK m \in T : \A j \in T : ~(j < m)
  BY LeastNumber
<1>2. m # 0
  BY <1>1, SumStep
<1>3. m - 1 \in Nat /\ m - 1 \notin T /\ m \in 1..n
  BY <1>1, <1>2
<1>4. Sum(f, m) = Sum(f, m - 1) + f[m]
  BY <1>2, SumStep
<1> QED BY <1>1, <1>3, <1>4

\* Natural products distribute over sums.
LEMMA ProductOfSum ==
    \A a, b, c \in Nat : a * (b + c) = a * b + a * c /\ a * b \in Nat /\ a * c \in Nat
OBVIOUS

\* Sums in a ratio that bounds the ratio of their terms.
LEMMA SumsInRatio ==
    ASSUME NEW f, NEW g, NEW n \in Nat, NEW x \in Nat, NEW y \in Nat,
           \A i \in 1..n : f[i] \in Nat /\ g[i] \in Nat /\ x * f[i] <= y * g[i]
    PROVE  x * Sum(f, n) <= y * Sum(g, n)
<1> DEFINE T == {k \in Nat : k <= n /\ ~(x * Sum(f, k) <= y * Sum(g, k))}
<1> SUFFICES ASSUME n \in T PROVE FALSE
  OBVIOUS
<1>1. PICK m \in T : \A k \in T : ~(k < m)
  BY LeastNumber
<1>2. m # 0
  <2>1. Sum(f, 0) = 0 /\ Sum(g, 0) = 0
    BY SumStep
  <2> QED BY <1>1, <2>1
<1>3. m - 1 \in Nat /\ m - 1 \notin T /\ m \in 1..n /\ m - 1 <= n
  BY <1>1, <1>2
<1>4. Sum(f, m - 1) \in Nat /\ Sum(g, m - 1) \in Nat
  BY <1>3, SumNat
<1>5. Sum(f, m) = Sum(f, m - 1) + f[m] /\ Sum(g, m) = Sum(g, m - 1) + g[m]
  BY <1>2, SumStep
<1>6. x * Sum(f, m - 1) <= y * Sum(g, m - 1)
  BY <1>3
<1>7. f[m] \in Nat /\ g[m] \in Nat /\ x * f[m] <= y * g[m]
  BY <1>3
<1>8. ASSUME NEW a \in Nat, NEW b \in Nat, NEW p \in Nat, NEW q \in Nat,
             x * a <= y * p, x * b <= y * q
      PROVE  x * (a + b) <= y * (p + q)
  <2>1. x * (a + b) = x * a + x * b /\ y * (p + q) = y * p + y * q
    BY ProductOfSum
  <2>2. x * a \in Nat /\ x * b \in Nat /\ y * p \in Nat /\ y * q \in Nat
    BY ProductOfSum
  <2> QED BY <1>8, <2>1, <2>2
<1>9. x * Sum(f, m) <= y * Sum(g, m)
  BY <1>4, <1>5, <1>6, <1>7, <1>8, Zenon
<1> QED BY <1>1, <1>9

-----------------------------------------------------------------------------
(* Sums over finite sets.  The definition takes the members one by one, in *)
(* an order of its choice; the facts below do not depend on it.            *)

\* The member that is taken next.
Taken(T) == CHOOSE x \in T : TRUE

\* A table s of the sums of f over the subsets of S.
SumsOf(f, S, s) ==
    [T \in SUBSET S |-> IF T = {} THEN 0 ELSE f[Taken(T)] + s[T \ {Taken(T)}]]

IsSums(f, S, s) == s = SumsOf(f, S, s)

\* Up to a size of the subsets.
RightUpTo(f, S, s, n) ==
    \A T \in SUBSET S : Cardinality(T) <= n => s[T] = SumsOf(f, S, s)[T]

\* What is left when a member is taken is smaller.
LEMMA NextLeaves ==
    ASSUME NEW S, IsFiniteSet(S), NEW T \in SUBSET S, T # {}
    PROVE  /\ Taken(T) \in T /\ T \ {Taken(T)} \in SUBSET S
           /\ IsFiniteSet(T) /\ Cardinality(T) \in Nat /\ Cardinality(T) > 0
           /\ Cardinality(T \ {Taken(T)}) = Cardinality(T) - 1
<1>1. Taken(T) \in T
  BY DEF Taken
<1>2. IsFiniteSet(T)
  BY FS_Subset
<1>3. Cardinality(T) \in Nat /\ Cardinality(T) # 0
  BY <1>2, FS_CardinalityType, FS_EmptySet
<1>4. Cardinality(T \ {Taken(T)}) = Cardinality(T) - 1
  BY <1>1, <1>2, FS_RemoveElement
<1> QED BY <1>1, <1>2, <1>3, <1>4

\* Tables that are right exist.
LEMMA SumsExist ==
    ASSUME NEW f, NEW S, IsFiniteSet(S)
    PROVE  \E s : IsSums(f, S, s)
<1>1. \A n \in Nat : \E s : RightUpTo(f, S, s, n)
  <2> DEFINE C == {n \in Nat : ~ \E s : RightUpTo(f, S, s, n)}
  <2> SUFFICES ASSUME C # {} PROVE FALSE
    OBVIOUS
  <2>1. PICK m \in C : \A k \in C : ~(k < m)
    BY LeastNumber
  <2>2. m # 0
    <3> DEFINE z == [T \in SUBSET S |-> 0]
    <3>1. ASSUME NEW T \in SUBSET S, Cardinality(T) <= 0
          PROVE  T = {}
      <4>1. T # {} => Cardinality(T) \in Nat /\ Cardinality(T) > 0
        BY NextLeaves
      <4> QED BY <3>1, <4>1
    <3>2. RightUpTo(f, S, z, 0)
      BY <3>1 DEF RightUpTo, SumsOf
    <3> QED BY <3>2
  <2>3. PICK s : RightUpTo(f, S, s, m - 1)
    <3>1. m - 1 \in Nat /\ m - 1 \notin C
      BY <2>1, <2>2
    <3> QED BY <3>1
  <2> DEFINE t == SumsOf(f, S, s)
  <2>4. RightUpTo(f, S, t, m)
    <3> SUFFICES ASSUME NEW T \in SUBSET S, Cardinality(T) <= m
                 PROVE  t[T] = SumsOf(f, S, t)[T]
      BY DEF RightUpTo
    <3>1. CASE T = {}
      BY <3>1 DEF SumsOf
    <3>2. CASE T # {}
      <4> DEFINE U == T \ {Taken(T)}
      <4>1. U \in SUBSET S /\ Cardinality(U) <= m - 1
        BY <2>1, <3>2, NextLeaves
      <4>2. s[U] = t[U]
        BY <2>3, <4>1 DEF RightUpTo
      <4>3. t[T] = f[Taken(T)] + s[U]
        BY <3>2 DEF SumsOf
      <4>4. SumsOf(f, S, t)[T] = f[Taken(T)] + t[U]
        BY <3>2 DEF SumsOf
      <4> QED BY <4>2, <4>3, <4>4
    <3> QED BY <3>1, <3>2
  <2> QED BY <2>1, <2>4
<1>2. Cardinality(S) \in Nat /\ \A T \in SUBSET S : Cardinality(T) <= Cardinality(S)
  BY FS_CardinalityType, FS_Subset
<1>3. PICK s : RightUpTo(f, S, s, Cardinality(S))
  BY <1>1, <1>2
<1> DEFINE t == SumsOf(f, S, s)
<1>4. \A T \in SUBSET S : s[T] = t[T]
  BY <1>2, <1>3 DEF RightUpTo
<1>5. \A T \in SUBSET S : T # {} => s[T \ {Taken(T)}] = t[T \ {Taken(T)}]
  BY <1>4, NextLeaves
<1>6. t = SumsOf(f, S, t)
  BY <1>5 DEF SumsOf
<1> QED BY <1>6 DEF IsSums

\* They agree on the sets that they share.
LEMMA SumsAgree ==
    ASSUME NEW f, NEW S, IsFiniteSet(S), NEW R \in SUBSET S,
           NEW s, IsSums(f, S, s), NEW t, IsSums(f, R, t)
    PROVE  \A T \in SUBSET R : s[T] = t[T]
<1> DEFINE C == {n \in Nat : \E T \in SUBSET R : Cardinality(T) = n /\ s[T] # t[T]}
<1>1. C = {}
  <2> SUFFICES ASSUME C # {} PROVE FALSE
    OBVIOUS
  <2>1. PICK m \in C : \A k \in C : ~(k < m)
    BY LeastNumber
  <2>2. PICK T \in SUBSET R : Cardinality(T) = m /\ s[T] # t[T]
    BY <2>1
  <2>3. s[T] = SumsOf(f, S, s)[T] /\ t[T] = SumsOf(f, R, t)[T] /\ T \in SUBSET S
    BY DEF IsSums
  <2>4. CASE T = {}
    BY <2>2, <2>3, <2>4 DEF SumsOf
  <2>5. CASE T # {}
    <3> DEFINE U == T \ {Taken(T)}
    <3>1. U \in SUBSET R /\ m \in Nat /\ Cardinality(U) = m - 1 /\ m > 0
      BY <2>2, <2>3, <2>5, NextLeaves
    <3>2. m - 1 \in Nat /\ m - 1 \notin C
      BY <2>1, <3>1
    <3>3. s[U] = t[U]
      BY <3>1, <3>2
    <3>4. s[T] = f[Taken(T)] + s[U] /\ t[T] = f[Taken(T)] + t[U]
      BY <2>3, <2>5 DEF SumsOf
    <3> QED BY <2>2, <3>3, <3>4
  <2> QED BY <2>4, <2>5
<1> SUFFICES ASSUME NEW T \in SUBSET R
             PROVE  s[T] = t[T]
  OBVIOUS
<1>2. Cardinality(T) \in Nat
  BY FS_Subset, FS_CardinalityType
<1> QED BY <1>1, <1>2

\* The sum over a set from the sum over what is left when a member is taken.
LEMMA SumOverTaken ==
    ASSUME NEW f, NEW S, IsFiniteSet(S)
    PROVE  /\ SumOver(f, {}) = 0
           /\ S # {} => SumOver(f, S) = f[Taken(S)] + SumOver(f, S \ {Taken(S)})
<1>1. ASSUME NEW R, IsFiniteSet(R)
      PROVE  \E s : IsSums(f, R, s) /\ SumOver(f, R) = s[R]
  <2> DEFINE s == CHOOSE s : IsSums(f, R, s)
  <2>1. SumOver(f, R) = s[R]
    BY Zenon DEF SumOver, Functional!SumFunctionOnSet, Functional!FoldFunctionOnSet,
                 Functional!MapThenFoldSet, IsSums, SumsOf, Taken
  <2>2. IsSums(f, R, s)
    <3>1. \E t : IsSums(f, R, t)
      BY <1>1, SumsExist
    <3> QED BY <3>1
  <2> QED BY <2>1, <2>2
<1>2. SumOver(f, {}) = 0
  <2>1. PICK s : IsSums(f, {}, s) /\ SumOver(f, {}) = s[{}]
    BY <1>1, FS_EmptySet
  <2>2. s[{}] = SumsOf(f, {}, s)[{}] /\ {} \in SUBSET {}
    BY <2>1 DEF IsSums
  <2> QED BY <2>1, <2>2 DEF SumsOf
<1>3. ASSUME S # {}
      PROVE  SumOver(f, S) = f[Taken(S)] + SumOver(f, S \ {Taken(S)})
  <2> DEFINE R == S \ {Taken(S)}
  <2>1. PICK s : IsSums(f, S, s) /\ SumOver(f, S) = s[S]
    BY <1>1
  <2>2. PICK t : IsSums(f, R, t) /\ SumOver(f, R) = t[R]
    BY <1>1, FS_Subset
  <2>3. s[R] = t[R]
    BY <2>1, <2>2, SumsAgree
  <2>4. s[S] = SumsOf(f, S, s)[S]
    BY <2>1 DEF IsSums
  <2>5. s[S] = f[Taken(S)] + s[R]
    BY <1>3, <2>4 DEF SumsOf
  <2> QED BY <2>1, <2>2, <2>3, <2>5
<1> QED BY <1>2, <1>3

\* Sums of integers and of naturals.
LEMMA SumOverInt ==
    ASSUME NEW f, NEW S, IsFiniteSet(S), \A x \in S : f[x] \in Int
    PROVE  /\ SumOver(f, S) \in Int
           /\ (\A x \in S : f[x] \in Nat) => SumOver(f, S) \in Nat
<1> DEFINE Good(T) == /\ SumOver(f, T) \in Int
                      /\ (\A x \in S : f[x] \in Nat) => SumOver(f, T) \in Nat
           C == {n \in Nat : \E T \in SUBSET S : Cardinality(T) = n /\ ~Good(T)}
<1>1. C = {}
  <2> SUFFICES ASSUME C # {} PROVE FALSE
    OBVIOUS
  <2>1. PICK m \in C : \A k \in C : ~(k < m)
    BY LeastNumber
  <2>2. PICK T \in SUBSET S : Cardinality(T) = m /\ ~Good(T)
    BY <2>1
  <2>3. IsFiniteSet(T)
    BY FS_Subset
  <2>9. SumOver(f, {}) = 0
    BY SumOverTaken
  <2>4. T # {}
    BY <2>2, <2>9
  <2> DEFINE U == T \ {Taken(T)}
  <2>5. U \in SUBSET S /\ Cardinality(U) = m - 1 /\ m - 1 \in Nat /\ Taken(T) \in S
    <3>1. Taken(T) \in T /\ Cardinality(T) \in Nat /\ Cardinality(T) > 0
          /\ Cardinality(U) = Cardinality(T) - 1
      BY <2>4, NextLeaves
    <3> QED BY <2>2, <3>1
  <2>6. m - 1 \notin C
    BY <2>1
  <2>7. Good(U)
    BY <2>5, <2>6
  <2>8. SumOver(f, T) = f[Taken(T)] + SumOver(f, U)
    BY <2>3, <2>4, SumOverTaken
  <2> QED BY <2>2, <2>5, <2>7, <2>8
<1>2. Cardinality(S) \in Nat /\ S \in SUBSET S
  BY FS_CardinalityType
<1> QED BY <1>1, <1>2

\* Any member may be taken first.
LEMMA SumOverAny ==
    ASSUME NEW f, NEW S, IsFiniteSet(S), \A x \in S : f[x] \in Int
    PROVE  \A x \in S : SumOver(f, S) = f[x] + SumOver(f, S \ {x})
<1> DEFINE Good(T) == \A x \in T : SumOver(f, T) = f[x] + SumOver(f, T \ {x})
           C == {n \in Nat : \E T \in SUBSET S : Cardinality(T) = n /\ ~Good(T)}
<1>1. C = {}
  <2> SUFFICES ASSUME C # {} PROVE FALSE
    OBVIOUS
  <2>1. PICK m \in C : \A k \in C : ~(k < m)
    BY LeastNumber
  <2>2. PICK T \in SUBSET S : Cardinality(T) = m /\ ~Good(T)
    BY <2>1
  <2>3. PICK x \in T : SumOver(f, T) # f[x] + SumOver(f, T \ {x})
    BY <2>2
  <2> DEFINE y == Taken(T)
             U == T \ {y}
             V == T \ {x}
             W == T \ {x, y}
  <2>4. /\ IsFiniteSet(T) /\ IsFiniteSet(U) /\ IsFiniteSet(V) /\ IsFiniteSet(W)
    BY FS_Subset
  <2>5. y \in T /\ Cardinality(U) = m - 1 /\ m - 1 \in Nat /\ U \in SUBSET S
    BY <2>2, <2>3, NextLeaves
  <2>6. SumOver(f, T) = f[y] + SumOver(f, U)
    BY <2>3, <2>4, SumOverTaken
  <2>7. x # y
    BY <2>3, <2>6
  <2>8. Cardinality(V) = m - 1
    BY <2>2, <2>3, <2>4, FS_RemoveElement
  <2>9. m - 1 \notin C
    BY <2>1, <2>5
  <2>10. Good(U) /\ Good(V)
    BY <2>5, <2>8, <2>9
  <2>11. /\ SumOver(f, U) = f[x] + SumOver(f, U \ {x})
         /\ SumOver(f, V) = f[y] + SumOver(f, V \ {y})
    BY <2>5, <2>7, <2>10
  <2>12. U \ {x} = W /\ V \ {y} = W
    OBVIOUS
  <2>13. f[x] \in Int /\ f[y] \in Int /\ SumOver(f, W) \in Int
    BY <2>4, <2>5, SumOverInt
  <2> HIDE DEF y, U, V, W
  <2>14. SumOver(f, T) = f[x] + SumOver(f, V)
    BY <2>6, <2>11, <2>12, <2>13
  <2> QED BY <2>3, <2>14 DEF V
<1>2. Cardinality(S) \in Nat /\ S \in SUBSET S
  BY FS_CardinalityType
<1> QED BY <1>1, <1>2

\* A sum with one more term.
LEMMA SumOverOneMore ==
    ASSUME NEW f, NEW S, IsFiniteSet(S), NEW x, x \notin S,
           \A y \in S \cup {x} : f[y] \in Int
    PROVE  SumOver(f, S \cup {x}) = SumOver(f, S) + f[x]
<1>1. IsFiniteSet(S \cup {x})
  BY FS_AddElement
<1>2. SumOver(f, S \cup {x}) = f[x] + SumOver(f, (S \cup {x}) \ {x})
  BY <1>1, SumOverAny
<1>3. (S \cup {x}) \ {x} = S
  OBVIOUS
<1>4. SumOver(f, S) \in Int /\ f[x] \in Int
  BY SumOverInt
<1>5. SumOver(f, (S \cup {x}) \ {x}) = SumOver(f, S)
  BY <1>3, Zenon
<1> QED BY <1>2, <1>4, <1>5

\* The sum over no member.
LEMMA SumOverEmpty ==
    ASSUME NEW f
    PROVE  SumOver(f, {}) = 0
<1> DEFINE S == {}
<1>1. IsFiniteSet(S) /\ S = {}
  BY FS_EmptySet
<1> HIDE DEF S
<1>2. SumOver(f, S) = 0
  BY <1>1, SumOverTaken
<1> QED BY <1>1, <1>2

\* The sum over a single member.
LEMMA SumOverSingle ==
    ASSUME NEW f, NEW x, f[x] \in Int
    PROVE  SumOver(f, {x}) = f[x]
<1>1. SumOver(f, {} \cup {x}) = SumOver(f, {}) + f[x]
  BY FS_EmptySet, SumOverOneMore
<1>2. SumOver(f, {}) = 0
  BY SumOverEmpty
<1>3. {} \cup {x} = {x}
  OBVIOUS
<1> QED BY <1>1, <1>2, <1>3

\* Sums of no greater terms, over no more members, are no greater.
LEMMA SumOverMonotone ==
    ASSUME NEW f, NEW g, NEW S, IsFiniteSet(S),
           \A x \in S : f[x] \in Int /\ g[x] \in Int /\ f[x] <= g[x]
    PROVE  SumOver(f, S) <= SumOver(g, S)
<1> DEFINE Good(T) == SumOver(f, T) <= SumOver(g, T)
           C == {n \in Nat : \E T \in SUBSET S : Cardinality(T) = n /\ ~Good(T)}
<1>1. C = {}
  <2> SUFFICES ASSUME C # {} PROVE FALSE
    OBVIOUS
  <2>1. PICK m \in C : \A k \in C : ~(k < m)
    BY LeastNumber
  <2>2. PICK T \in SUBSET S : Cardinality(T) = m /\ ~Good(T)
    BY <2>1
  <2>3. IsFiniteSet(T)
    BY FS_Subset
  <2>4. T # {}
    <3>1. SumOver(f, {}) = 0 /\ SumOver(g, {}) = 0
      BY SumOverEmpty
    <3> QED BY <2>2, <3>1
  <2> DEFINE y == Taken(T)
             U == T \ {y}
  <2>5. U \in SUBSET S /\ Cardinality(U) = m - 1 /\ m - 1 \in Nat /\ y \in S
    <3>1. y \in T /\ Cardinality(T) \in Nat /\ Cardinality(T) > 0
          /\ Cardinality(U) = Cardinality(T) - 1
      BY <2>4, NextLeaves
    <3> QED BY <2>2, <3>1
  <2>6. m - 1 \notin C
    BY <2>1, <2>5
  <2>7. Good(U)
    BY <2>5, <2>6
  <2>8. /\ SumOver(f, T) = f[y] + SumOver(f, U)
        /\ SumOver(g, T) = g[y] + SumOver(g, U)
    BY <2>3, <2>4, SumOverTaken
  <2>9. IsFiniteSet(U) /\ \A x \in U : f[x] \in Int /\ g[x] \in Int
    BY <2>5, FS_Subset
  <2>10. SumOver(f, U) \in Int /\ SumOver(g, U) \in Int
    BY <2>9, SumOverInt
  <2>11. f[y] \in Int /\ g[y] \in Int /\ f[y] <= g[y]
    BY <2>5
  <2> HIDE DEF y, U
  <2> QED BY <2>2, <2>7, <2>8, <2>10, <2>11
<1>2. Cardinality(S) \in Nat /\ S \in SUBSET S
  BY FS_CardinalityType
<1> QED BY <1>1, <1>2

\* Of equal terms they are equal.
LEMMA SumOverSame ==
    ASSUME NEW f, NEW g, NEW S, IsFiniteSet(S),
           \A x \in S : f[x] \in Int /\ f[x] = g[x]
    PROVE  SumOver(f, S) = SumOver(g, S)
<1>1. SumOver(f, S) \in Int /\ SumOver(g, S) \in Int
  BY SumOverInt
<1>2. SumOver(f, S) <= SumOver(g, S) /\ SumOver(g, S) <= SumOver(f, S)
  BY SumOverMonotone
<1> QED BY <1>1, <1>2

\* The sum over two parts that have nothing in common.
LEMMA SumOverParts ==
    ASSUME NEW f, NEW S, IsFiniteSet(S), NEW R, IsFiniteSet(R), S \cap R = {},
           \A x \in S \cup R : f[x] \in Int
    PROVE  SumOver(f, S \cup R) = SumOver(f, S) + SumOver(f, R)
<1> DEFINE Good(T) == SumOver(f, S \cup T) = SumOver(f, S) + SumOver(f, T)
           C == {n \in Nat : \E T \in SUBSET R : Cardinality(T) = n /\ ~Good(T)}
<1>0. SumOver(f, S) \in Int
  BY SumOverInt
<1>1. C = {}
  <2> SUFFICES ASSUME C # {} PROVE FALSE
    OBVIOUS
  <2>1. PICK m \in C : \A k \in C : ~(k < m)
    BY LeastNumber
  <2>2. PICK T \in SUBSET R : Cardinality(T) = m /\ ~Good(T)
    BY <2>1
  <2>3. IsFiniteSet(T)
    BY FS_Subset
  <2>4. T # {}
    <3>1. SumOver(f, {}) = 0 /\ S \cup {} = S
      BY SumOverEmpty
    <3>2. SumOver(f, S) = SumOver(f, S) + 0
      BY <1>0
    <3> QED BY <2>2, <3>1, <3>2
  <2> DEFINE y == Taken(T)
             U == T \ {y}
  <2>5. U \in SUBSET R /\ Cardinality(U) = m - 1 /\ m - 1 \in Nat /\ y \in T
    <3>1. y \in T /\ Cardinality(T) \in Nat /\ Cardinality(T) > 0
          /\ Cardinality(U) = Cardinality(T) - 1
      BY <2>4, NextLeaves
    <3> QED BY <2>2, <3>1
  <2>6. m - 1 \notin C
    <3>1. m \in Nat
      BY <2>1
    <3> HIDE DEF C
    <3> QED BY <2>1, <3>1
  <2>7. SumOver(f, S \cup U) = SumOver(f, S) + SumOver(f, U)
    BY <2>5, <2>6
  <2>8. SumOver(f, T) = f[y] + SumOver(f, U)
    BY <2>3, <2>4, SumOverTaken
  <2>9. IsFiniteSet(U) /\ IsFiniteSet(S \cup U) /\ y \notin S \cup U
        /\ (S \cup U) \cup {y} = S \cup T /\ f[y] \in Int
    <3>1. IsFiniteSet(U)
      BY <2>5, FS_Subset
    <3>2. IsFiniteSet(S \cup U)
      BY <3>1, FS_Union
    <3>3. y \notin S \cup U /\ (S \cup U) \cup {y} = S \cup T /\ f[y] \in Int
      BY <2>5
    <3> QED BY <3>1, <3>2, <3>3
  <2>10. SumOver(f, U) \in Int
    BY <2>5, <2>9, SumOverInt
  <2>11. SumOver(f, (S \cup U) \cup {y}) = SumOver(f, S \cup U) + f[y]
    <3>1. \A x \in (S \cup U) \cup {y} : f[x] \in Int
      BY <2>5
    <3> HIDE DEF y, U
    <3> QED BY <2>9, <3>1, SumOverOneMore
  <2>12. SumOver(f, S \cup T) = SumOver(f, S \cup U) + f[y]
    BY <2>9, <2>11
  <2> HIDE DEF y, U
  <2> QED BY <1>0, <2>2, <2>7, <2>8, <2>9, <2>10, <2>12
<1>2. Cardinality(R) \in Nat /\ R \in SUBSET R
  BY FS_CardinalityType
<1> QED BY <1>1, <1>2

\* Naturals sum to no more over a part.
LEMMA SumOverPart ==
    ASSUME NEW f, NEW S, IsFiniteSet(S), NEW R \in SUBSET S, \A x \in S : f[x] \in Nat
    PROVE  SumOver(f, R) <= SumOver(f, S)
<1>1. IsFiniteSet(R) /\ IsFiniteSet(S \ R)
  BY FS_Subset
<1>2. R \cup (S \ R) = S /\ R \cap (S \ R) = {}
  OBVIOUS
<1>3. SumOver(f, R \cup (S \ R)) = SumOver(f, R) + SumOver(f, S \ R)
  BY <1>1, <1>2, SumOverParts
<1>4. SumOver(f, R) \in Nat /\ SumOver(f, S \ R) \in Nat
  BY <1>1, SumOverInt
<1>5. SumOver(f, R \cup (S \ R)) = SumOver(f, S)
  BY <1>2, Zenon
<1> QED BY <1>3, <1>4, <1>5

\* The sum over a range of numbers.
LEMMA SumOverRange ==
    ASSUME NEW f, NEW n \in Nat, \A i \in 1..n : f[i] \in Int
    PROVE  SumOver(f, 1..n) = Sum(f, n)
<1> DEFINE C == {k \in Nat : k <= n /\ SumOver(f, 1..k) # Sum(f, k)}
<1> SUFFICES ASSUME n \in C PROVE FALSE
  OBVIOUS
<1>1. PICK m \in C : \A k \in C : ~(k < m)
  BY LeastNumber
<1>2. m # 0
  <2>1. SumOver(f, {}) = 0 /\ Sum(f, 0) = 0 /\ 1..0 = {}
    BY SumOverEmpty, SumStep
  <2> QED BY <1>1, <2>1
<1>3. m - 1 \in Nat /\ m - 1 \notin C /\ m - 1 <= n /\ m \in 1..n
  BY <1>1, <1>2
<1>4. SumOver(f, 1..(m - 1)) = Sum(f, m - 1)
  BY <1>3
<1>5. 1..m = (1..(m - 1)) \cup {m} /\ m \notin 1..(m - 1)
  BY <1>3
<1>6. SumOver(f, (1..(m - 1)) \cup {m}) = SumOver(f, 1..(m - 1)) + f[m]
  <2>1. IsFiniteSet(1..(m - 1))
    BY <1>3, FS_Interval
  <2>2. \A i \in (1..(m - 1)) \cup {m} : f[i] \in Int
    BY <1>3
  <2> QED BY <1>5, <2>1, <2>2, SumOverOneMore
<1>7. Sum(f, m) = Sum(f, m - 1) + f[m]
  BY <1>2, SumStep
<1> QED BY <1>1, <1>4, <1>5, <1>6, <1>7

-----------------------------------------------------------------------------
(* Induction over sets of good numbers and of good parts.                  *)

\* What holds at zero, and at the next of each number where it holds.
LEMMA UpInduction ==
    ASSUME NEW G, NEW n \in Nat, 0 \in G, \A k \in 0..(n - 1) : k \in G => k + 1 \in G
    PROVE  n \in G
<1> DEFINE C == {k \in Nat : k <= n /\ k \notin G}
<1> SUFFICES ASSUME n \in C PROVE FALSE
  OBVIOUS
<1>1. PICK m \in C : \A k \in C : ~(k < m)
  BY LeastNumber
<1>2. m \in Nat /\ m <= n /\ m \notin G /\ m # 0
  BY <1>1
<1>3. m - 1 \in 0..(n - 1) /\ (m - 1) + 1 = m
  BY <1>2
<1>4. m - 1 \in G
  BY <1>1, <1>2, <1>3
<1> QED BY <1>2, <1>3, <1>4

\* What holds of the empty part, and of each part with one more member.
LEMMA PartInduction ==
    ASSUME NEW S, IsFiniteSet(S), NEW G, {} \in G,
           \A T \in SUBSET S : \A x \in S \ T : T \in G => T \cup {x} \in G
    PROVE  S \in G
<1> DEFINE C == {n \in Nat : \E T \in SUBSET S : Cardinality(T) = n /\ T \notin G}
<1> SUFFICES ASSUME S \notin G PROVE FALSE
  OBVIOUS
<1>1. C # {}
  BY FS_CardinalityType
<1>2. PICK m \in C : \A k \in C : ~(k < m)
  BY <1>1, LeastNumber
<1>3. PICK T \in SUBSET S : Cardinality(T) = m /\ T \notin G
  BY <1>2
<1>4. m \in Nat /\ T # {}
  BY <1>2, <1>3
<1>5. PICK x, U : x \in T /\ U = T \ {x} /\ Cardinality(U) = m - 1 /\ m > 0
  BY <1>3, <1>4, NextLeaves
<1>6. U \in SUBSET S /\ x \in S \ U /\ U \cup {x} = T
  BY <1>5
<1>7. U \in G
  <2>1. m - 1 \in Nat /\ m - 1 < m
    BY <1>4, <1>5
  <2>2. m - 1 \notin C
    <3> HIDE DEF C
    <3> QED BY <1>2, <2>1
  <2> QED BY <1>5, <1>6, <2>1, <2>2
<1> QED BY <1>3, <1>6, <1>7

\* Products with zero.
LEMMA TimesZero == \A c \in Int : 0 * c = 0 /\ c * 0 = 0
OBVIOUS

\* Products with one more.
LEMMA OneMoreTimes ==
    \A n, c \in Int : (n + 1) * c = n * c + c /\ n * c \in Int
OBVIOUS

\* Squares of naturals.
LEMMA SquareNat == \A a \in Nat : a * a \in Nat
OBVIOUS

\* The step of Cauchy and Schwarz.
LEMMA OneMoreSquare ==
    ASSUME NEW n \in Nat, NEW s \in Nat, NEW t \in Nat, NEW a \in Nat,
           s * s <= n * t, n = 0 => s = 0
    PROVE  (s + a) * (s + a) <= (n + 1) * (t + a * a)
<1>1. /\ (s + a) * (s + a) = s * s + 2 * (s * a) + a * a
      /\ (n + 1) * (t + a * a) = n * t + n * (a * a) + t + a * a
      /\ s * s \in Nat /\ s * a \in Nat /\ a * a \in Nat /\ n * t \in Nat
      /\ n * (a * a) \in Nat
  OBVIOUS
<1>2. 2 * (s * a) <= t + n * (a * a)
  <2>1. CASE n = 0
    BY <1>1, <2>1
  <2>2. CASE n > 0
    <3> DEFINE d == s - n * a
    <3>1. 0 <= d * d
      OBVIOUS
    <3>2. d * d = s * s - n * (2 * (s * a)) + n * (n * (a * a))
      OBVIOUS
    <3>3. n * (2 * (s * a)) <= n * t + n * (n * (a * a))
      BY <1>1, <3>1, <3>2
    <3>4. n * t + n * (n * (a * a)) = n * (t + n * (a * a))
      OBVIOUS
    <3>5. \A x, y \in Int : n * x <= n * y => x <= y
      BY <2>2
    <3> QED BY <1>1, <3>3, <3>4, <3>5
  <2> QED BY <2>1, <2>2
<1> QED BY <1>1, <1>2

\* Terms that do not exceed a bound.
LEMMA SumOverBounded ==
    ASSUME NEW f, NEW S, IsFiniteSet(S), NEW c \in Int,
           \A x \in S : f[x] \in Int /\ f[x] <= c
    PROVE  SumOver(f, S) <= Cardinality(S) * c
<1> DEFINE G == {T \in SUBSET S : SumOver(f, T) <= Cardinality(T) * c}
<1>1. {} \in G
  <2>1. Cardinality({}) = 0 /\ 0 * c = 0
    BY FS_EmptySet, TimesZero
  <2> QED BY <2>1, SumOverEmpty
<1>2. ASSUME NEW T \in SUBSET S, NEW x \in S \ T, T \in G
      PROVE  T \cup {x} \in G
  <2>1. IsFiniteSet(T) /\ Cardinality(T) \in Nat
        /\ Cardinality(T \cup {x}) = Cardinality(T) + 1
    BY FS_Subset, FS_AddElement, FS_CardinalityType
  <2>2. SumOver(f, T \cup {x}) = SumOver(f, T) + f[x] /\ SumOver(f, T) \in Int
    BY <2>1, SumOverOneMore, SumOverInt
  <2>3. (Cardinality(T) + 1) * c = Cardinality(T) * c + c /\ Cardinality(T) * c \in Int
    <3>1. Cardinality(T) \in Int
      BY <2>1
    <3> QED BY <3>1, OneMoreTimes, Zenon
  <2>4. SumOver(f, T) <= Cardinality(T) * c /\ f[x] \in Int /\ f[x] <= c
    BY <1>2
  <2>5. SumOver(f, T \cup {x}) <= Cardinality(T \cup {x}) * c
    BY <2>1, <2>2, <2>3, <2>4
  <2> QED BY <2>5
<1> HIDE DEF G
<1>3. S \in G
  BY <1>1, <1>2, PartInduction
<1> QED BY <1>3 DEF G

\* The inequality of Cauchy and Schwarz with ones: the square of a sum is at
\* most the number of terms times the sum of their squares.
LEMMA SquareOfSum ==
    ASSUME NEW f, NEW q, NEW S, IsFiniteSet(S),
           \A x \in S : f[x] \in Nat /\ q[x] = f[x] * f[x]
    PROVE  SumOver(f, S) * SumOver(f, S) <= Cardinality(S) * SumOver(q, S)
<1> DEFINE G == {T \in SUBSET S :
                    SumOver(f, T) * SumOver(f, T) <= Cardinality(T) * SumOver(q, T)}
<1>0. \A x \in S : q[x] \in Nat
  BY SquareNat
<1>1. {} \in G
  <2>1. Cardinality({}) = 0
    BY FS_EmptySet
  <2> QED BY <2>1, SumOverEmpty
<1>2. ASSUME NEW T \in SUBSET S, NEW x \in S \ T, T \in G
      PROVE  T \cup {x} \in G
  <2> DEFINE n == Cardinality(T)
             s == SumOver(f, T)
             t == SumOver(q, T)
  <2>1. IsFiniteSet(T) /\ n \in Nat /\ Cardinality(T \cup {x}) = n + 1
    BY FS_Subset, FS_AddElement, FS_CardinalityType
  <2>2. SumOver(f, T \cup {x}) = s + f[x] /\ SumOver(q, T \cup {x}) = t + q[x]
    BY <1>0, <2>1, SumOverOneMore
  <2>3. s \in Nat /\ t \in Nat
    BY <1>0, <2>1, SumOverInt
  <2>4. s * s <= n * t /\ f[x] \in Nat /\ q[x] = f[x] * f[x]
    BY <1>2
  <2>5. n = 0 => s = 0
    <3>1. n = 0 => T = {}
      BY <2>1, FS_EmptySet
    <3> QED BY <3>1, SumOverEmpty
  <2> HIDE DEF n, s, t
  <2>6. (s + f[x]) * (s + f[x]) <= (n + 1) * (t + f[x] * f[x])
    BY <2>1, <2>3, <2>4, <2>5, OneMoreSquare
  <2> QED BY <2>1, <2>2, <2>4, <2>6
<1> HIDE DEF G
<1>3. S \in G
  BY <1>1, <1>2, PartInduction
<1> QED BY <1>3 DEF G

\* A sum put together from those of the members that share a unit.
LEMMA SumByUnits ==
    ASSUME NEW f, NEW n \in Nat, NEW U, IsFiniteSet(U), NEW unit,
           \A i \in 1..n : f[i] \in Int /\ unit[i] \in U
    PROVE  SumOver([u \in U |-> Sum([i \in 1..n |-> IF unit[i] = u THEN f[i] ELSE 0], n)], U)
               = Sum(f, n)
<1> DEFINE Part(u) == [i \in 1..n |-> IF unit[i] = u THEN f[i] ELSE 0]
           Upto(k) == [u \in U |-> Sum(Part(u), k)]
           G == {k \in 0..n : SumOver(Upto(k), U) = Sum(f, k)}
<1>1. 0 \in G
  <2>1. ASSUME NEW u \in U
        PROVE  Upto(0)[u] = 0
    <3>1. Upto(0)[u] = Sum(Part(u), 0)
      OBVIOUS
    <3> QED BY <3>1, SumStep
  <2>2. SumOver(Upto(0), U) <= Cardinality(U) * 0 /\ SumOver(Upto(0), U) \in Nat
    <3> HIDE DEF Upto
    <3> QED BY <2>1, SumOverBounded, SumOverInt
  <2>3. Cardinality(U) * 0 = 0
    BY FS_CardinalityType
  <2>4. Sum(f, 0) = 0
    BY SumStep
  <2> HIDE DEF Upto
  <2> QED BY <2>2, <2>3, <2>4
<1>2. ASSUME NEW k \in 0..(n - 1), k \in G
      PROVE  k + 1 \in G
  <2> DEFINE v == unit[k + 1]
             W == U \ {v}
  <2>1. k + 1 \in 1..n /\ k \in Nat /\ k + 1 \in Nat /\ k + 1 # 0 /\ (k + 1) - 1 = k
        /\ k \in 0..n /\ k + 1 \in 0..n
    OBVIOUS
  <2>2. v \in U /\ f[k + 1] \in Int /\ IsFiniteSet(W)
    BY <2>1, FS_Subset
  <2>3. ASSUME NEW u \in U
        PROVE  /\ Upto(k)[u] \in Int
               /\ Upto(k + 1)[u] = Upto(k)[u] + (IF u = v THEN f[k + 1] ELSE 0)
    <3>1. Sum(Part(u), k + 1) = Sum(Part(u), k) + Part(u)[k + 1]
      BY <2>1, SumStep
    <3>2. Part(u)[k + 1] = IF u = v THEN f[k + 1] ELSE 0
      BY <2>1
    <3>3. Sum(Part(u), k) \in Int
      <4>1. \A i \in 1..k : Part(u)[i] \in Int
        BY <2>1
      <4> HIDE DEF Part
      <4> QED BY <2>1, <4>1, SumInt
    <3> HIDE DEF Part
    <3> QED BY <3>1, <3>2, <3>3
  <2> HIDE DEF Upto
  <2>4. \A u \in U : Upto(k)[u] \in Int /\ Upto(k + 1)[u] \in Int
    BY <2>2, <2>3
  <2>5. /\ SumOver(Upto(k), U) = Upto(k)[v] + SumOver(Upto(k), W)
        /\ SumOver(Upto(k + 1), U) = Upto(k + 1)[v] + SumOver(Upto(k + 1), W)
    BY <2>2, <2>4, SumOverAny
  <2>6. SumOver(Upto(k + 1), W) = SumOver(Upto(k), W)
    <3>1. \A u \in W : Upto(k)[u] \in Int /\ Upto(k)[u] = Upto(k + 1)[u]
      BY <2>3
    <3> HIDE DEF W
    <3> QED BY <2>2, <3>1, SumOverSame
  <2>7. SumOver(Upto(k), W) \in Int
    BY <2>2, <2>4, SumOverInt
  <2>8. Sum(f, k + 1) = Sum(f, k) + f[k + 1]
    BY <2>1, SumStep
  <2>9. Upto(k + 1)[v] = Upto(k)[v] + f[k + 1] /\ Upto(k)[v] \in Int
    BY <2>2, <2>3
  <2>10. SumOver(Upto(k), U) = Sum(f, k)
    BY <1>2
  <2> HIDE DEF v, W
  <2>11. SumOver(Upto(k + 1), U) = Sum(f, k + 1)
    BY <2>2, <2>5, <2>6, <2>7, <2>8, <2>9, <2>10
  <2> QED BY <2>1, <2>11
<1> HIDE DEF G
<1>3. n \in G
  BY <1>1, <1>2, UpInduction
<1> QED BY <1>3 DEF G
=============================================================================
