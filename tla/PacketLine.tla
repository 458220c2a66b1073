----------------------------- MODULE PacketLine -----------------------------
(***************************************************************************)
(* What a bearer queue promises, without its bookkeeping: packets join a   *)
(* line in order or are refused, bits leave from the head of the line, and *)
(* a packet ends once, completed exactly when its last bit has left.       *)
(* BearerQueue implements it with cached counters, reservations that are   *)
(* realised later than they were planned, and commands that raise.         *)
(***************************************************************************)
EXTENDS Integers

CONSTANTS
    Packets,
    Payload   \* Payload[p]: bits of packet p, at least one

VARIABLES
    fate,  \* "absent", "active" while in the line, or how the packet ended
    left,  \* bits not yet sent
    rank   \* order of the packets in the line
vars == <<fate, left, rank>>

Lost == {"overflow_drop", "deadline_expired", "phy_failure", "censored_at_stop"}
Line == {p \in Packets : fate[p] = "active"}

Init ==
    /\ fate = [p \in Packets |-> "absent"]
    /\ left = [p \in Packets |-> 0]
    /\ rank = [p \in Packets |-> 0]

\* p joins at the tail.
Admit(p) ==
    /\ fate[p] = "absent"
    /\ fate' = [fate EXCEPT ![p] = "active"]
    /\ left' = [left EXCEPT ![p] = Payload[p]]
    /\ rank' = [rank EXCEPT ![p] = rank'[p]]
    /\ \A o \in Line : rank[o] < rank'[p]

Refuse(p) ==
    /\ fate[p] = "absent"
    /\ fate' = [fate EXCEPT ![p] = "overflow_drop"]
    /\ left' = [left EXCEPT ![p] = Payload[p]]
    /\ rank' = [rank EXCEPT ![p] = rank'[p]]

\* Bits leave p only if every packet before p in the line leaves it too.
Transmit ==
    /\ left' = [p \in Packets |-> left'[p]]
    /\ \A p \in Packets : left'[p] # left[p] =>
          /\ p \in Line
          /\ left'[p] \in 0..left[p]
          /\ \A o \in Line : rank[o] < rank[p] => left'[o] = 0
    /\ fate' = [p \in Packets |->
          IF p \in Line /\ left'[p] = 0 THEN "completed" ELSE fate[p]]
    /\ UNCHANGED rank

\* Packets give up their place, wherever they stand, with the bits they had.
Remove ==
    /\ fate' = [p \in Packets |-> fate'[p]]
    /\ \A p \in Packets : fate'[p] # fate[p] => p \in Line /\ fate'[p] \in Lost
    /\ UNCHANGED <<left, rank>>

Next ==
    \/ \E p \in Packets : Admit(p) \/ Refuse(p)
    \/ Transmit
    \/ Remove

Spec == Init /\ [][Next]_vars
=============================================================================
