------------------------ MODULE MCTrafficMechanics ------------------------
(* Three bearers with a source of each type, packets of two bits, and grants *)
(* that share a tick, miss the slots, follow the stop or name nobody.        *)
EXTENDS TrafficMechanics

MCUeOf     == <<1, 1, 1>>
MCBearerOf == <<1, 2, 3, 1, 2, 3, 1, 2, 2>>
MCPayload  == <<2, 2, 1, 1, 2, 2, 2, 1, 1>>
MCBudget   == <<3, 2, NoBudget>>
MCSources  ==
    <<[type |-> "periodic", interval |-> 3, offset |-> 0],
      [type |-> "poisson", mean |-> 1],
      [type |-> "bounded_uniform", minimum |-> 2, maximum |-> 3]>>
MCSizes == <<"constant", "discrete_uniform", "discrete_uniform">>

G(b, t, n) == [bearer |-> b, tick |-> t, capacity |-> n]
MCGrants ==
    {<<g, h>> : g, h \in {G(b, t, n) : b \in 1..2, t \in {4, 6}, n \in {1, 3}}}
    \cup {<<G(1, 2, 0), G(2, 4, 2), G(1, 4, 1), G(1, 8, 3), G(2, 4, 1)>>,
          <<G(3, 4, 1), G(3, 6, 1), G(3, 6, 1), G(2, 6, 1)>>,
          <<G(1, 3, 1)>>, <<G(1, 10, 1)>>, <<G(4, 2, 1)>>}
===========================================================================
