------------------------------ MODULE MCKernel ------------------------------
(* A small instance of Kernel for TLC. *)
EXTENDS Kernel

MCKinds == {"a", "b"}

\* Two ticks, two phases, two sequence numbers, and one key that two kinds
\* of event share.
MCEvents ==
    {[tick |-> 0, phase |-> 10, entity |-> 1, seq |-> 0, kind |-> "a"],
     [tick |-> 0, phase |-> 60, entity |-> 1, seq |-> 0, kind |-> "a"],
     [tick |-> 0, phase |-> 60, entity |-> 1, seq |-> 0, kind |-> "b"],
     [tick |-> 1, phase |-> 10, entity |-> 1, seq |-> 1, kind |-> "a"],
     [tick |-> 1, phase |-> 10, entity |-> 2, seq |-> 0, kind |-> "a"]}
=============================================================================
