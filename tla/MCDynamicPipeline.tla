-------------------------- MODULE MCDynamicPipeline --------------------------
(* A small instance of DynamicPipeline for TLC. *)
EXTENDS DynamicPipeline

\* A UE that moves between two cells and one that stands near cell 2; the
\* first has two bearers, one with deadlines.
MCUeOf     == <<1, 1, 2>>
MCBearerOf == <<1, 2, 3>>
MCPayload  == <<700, 900, 300>>
MCBudget   == <<5, NoBudget, NoBudget>>
MCProfile  == <<1, 2, 1>>

\* UE 1 crosses its range and turns within every update.
MCStart == <<[x |-> 2, v |-> 1], [x |-> 1, v |-> 0]>>

\* Cell 1 is near position 0, cell 2 near position 3; its beams do not cover
\* position 0.
MCPathLevel == <<[x \in 0..3 |-> 9 - 2 * x],
                 [x \in 0..3 |-> CASE x = 0 -> 2 [] x = 1 -> 4 [] x = 2 -> 7 [] x = 3 -> 8]>>
MCBeamGain  == <<[x \in 0..3 |-> {0, 1}], [x \in 0..3 |-> IF x = 0 THEN {0} ELSE {0, 1}]>>

\* UE 2 loses both cells for two slots and then regains cell 2 only; cell 1 is
\* blocked for UE 1 while it may be pending.
MCBlockages == {[ue |-> 2, cell |-> 1, start |-> 2, end |-> 12, loss |-> 8],
                [ue |-> 2, cell |-> 2, start |-> 2, end |-> 6, loss |-> 5],
                [ue |-> 2, cell |-> 2, start |-> 4, end |-> 8, loss |-> 1],
                [ue |-> 1, cell |-> 1, start |-> 6, end |-> 7, loss |-> 5]}

\* UE 1 may fade on cell 2; UE 2 does not fade.
MCFades == <<{<<0, 0>>, <<0, 5>>}, {<<0, 0>>}>>
=============================================================================
