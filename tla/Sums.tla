-------------------------------- MODULE Sums --------------------------------
(***************************************************************************)
(* Sums of a function over 1..n, written as a recursive function so that   *)
(* the proof modules can reason about it, and over a set.  The program's   *)
(* sum(...) expressions over packets and bearers are values of Sum, those  *)
(* over records and groups values of SumOver.                              *)
(***************************************************************************)
EXTENDS Integers

\* The community modules, under a name of their own.
Functional == INSTANCE Functions

\* The sequence of partial sums 0, f[1], f[1] + f[2], ... up to n terms.
PartialSums(f, n) ==
    LET s[i \in 0..n] == IF i = 0 THEN 0 ELSE s[i - 1] + f[i]
    IN  s

Sum(f, n) == PartialSums(f, n)[n]

\* The sum of f over the finite set S.
SumOver(f, S) == Functional!SumFunctionOnSet(f, S)
=============================================================================
