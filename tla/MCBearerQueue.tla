---------------------------- MODULE MCBearerQueue ----------------------------
(* Small instances of BearerQueue for TLC. *)
EXTENDS BearerQueue

\* A packet of two bits and one of one bit that can expire, and one of one bit
\* that cannot; together they overflow both bounds.
MCPayload == [p \in 1..NumPackets |-> IF p = 2 THEN 2 ELSE 1]
MCDeadline == [p \in 1..NumPackets |-> IF p = 1 THEN 2 ELSE IF p = 2 THEN 1 ELSE NoTick]
=============================================================================
