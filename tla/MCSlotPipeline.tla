--------------------------- MODULE MCSlotPipeline ---------------------------
(* Small instances of SlotPipeline for TLC. *)
EXTENDS SlotPipeline

\* UE 1 has bearers 1 and 2, UE 2 bearer 3, both in cell 1; UE 3 has bearer 4
\* in cell 2.
MCUeOf   == <<1, 1, 2, 3>>
MCCellOf == <<1, 1, 2>>

\* Packets 1 and 3 are of bearer 1, the others of a bearer each: the order of
\* packets is not the order of bearers.
MCBearerOf == <<1, 2, 1, 3, 4>>
MCPayload  == <<2, 2, 1, 1, 1>>

\* Bearer 1's deadlines fall on slot boundaries and between, bearer 4's in
\* the slot after.
MCBudget   == <<2, NoBudget, NoBudget, 3>>
MCProfile  == <<1, 1, 2, 1>>

\* UEs 1 and 3 carry a bit per PRB; UE 2 needs both PRBs for one bit.
MCCapacity ==
    <<[n \in 0..2 |-> n], [n \in 0..2 |-> IF n = 2 THEN 1 ELSE 0], [n \in 0..2 |-> n]>>
=============================================================================
