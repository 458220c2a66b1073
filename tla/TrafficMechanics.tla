-------------------------- MODULE TrafficMechanics --------------------------
(***************************************************************************)
(* The traffic run (traffic/simulation.py): each bearer's source generates *)
(* its packets before the run (traffic/sources.py), from random streams    *)
(* that have one owner each (experiments/seeds.py), and the queues are     *)
(* served by grants given in advance instead of a scheduler.               *)
(***************************************************************************)
EXTENDS PacketPipeline

\* The community module, under a name of its own.
Extrema == INSTANCE FiniteSetsExt

CONSTANTS
    SourceOf,  \* SourceOf[b]: the traffic source of bearer b's profile
    Sizes,     \* Sizes[b]: "constant" or "discrete_uniform"
    Grants,    \* what service_grants may be: a set of sequences of grants
    MaxDraw    \* bound: the largest interval a Poisson source draws

\* config/normalize.py: intervals are positive, an offset may be 0.
PeriodicSources == [type : {"periodic"}, interval : Nat \ {0}, offset : Nat]
PoissonSources  == [type : {"poisson"}, mean : Nat \ {0}]
UniformSources  == {s \in [type : {"bounded_uniform"}, minimum : Nat \ {0}, maximum : Nat] :
                       s.minimum <= s.maximum}
ASSUME SourceAssumption ==
    /\ \A b \in Bearers : SourceOf[b] \in PeriodicSources \cup PoissonSources \cup UniformSources
    /\ Sizes \in [Bearers -> {"constant", "discrete_uniform"}]
    /\ \A g \in Grants : g \in Seq([bearer : Nat, tick : Nat, capacity : Nat])
    /\ MaxDraw \in Nat

VARIABLES
    grants,   \* service_grants
    source,   \* the bearer whose source is at work, past the last when all did
    clock,    \* tick of its next packet, NoTick before the first is drawn
    streams   \* semantic paths the registry has issued
trafficVars == <<pipeline, grants, source, clock, streams>>
inputs == <<grants, source, clock, streams>>

TrafficInit ==
    /\ arrives = [p \in Packets |-> NoTick]
    /\ queues = [b \in Bearers |-> EmptyQueue]
    /\ heap = {} /\ trace = << >> /\ now = 0
    /\ mode = "generating"
    /\ grants \in Grants
    /\ source = 1 /\ clock = NoTick /\ streams = {}

\* An exception before kernel.run.
Refuse ==
    /\ mode' = "refused"
    /\ UNCHANGED <<arrives, queues, heap, trace, now, grants, source, clock, streams>>
-----------------------------------------------------------------------------
(* Generation.                                                             *)

\* Mutant of StreamsOf: a path that does not name the bearer.
StreamsShared(b) ==
    {<<"interarrival">> : s \in {SourceOf[b]} \ PeriodicSources}

\* The paths build_traffic_generator acquires.
StreamsOf(b) ==
    (IF SourceOf[b].type = "periodic" THEN {} ELSE {<<b, "interarrival">>})
    \cup (IF Sizes[b] = "constant" THEN {} ELSE {<<b, "packet-size">>})

\* next_interval_ns.  A Poisson draw that rounds to 0 becomes one tick; a
\* uniform draw is rounded within its bounds, which are whole ticks.
Intervals(b) ==
    CASE SourceOf[b].type = "periodic" -> {SourceOf[b].interval}
      [] SourceOf[b].type = "poisson"  -> {IF draw > 0 THEN draw ELSE 1 : draw \in 0..MaxDraw}
      [] SourceOf[b].type = "bounded_uniform" -> SourceOf[b].minimum..SourceOf[b].maximum

FirstIntervals(b) ==
    IF SourceOf[b].type = "periodic" THEN {SourceOf[b].offset} ELSE Intervals(b)

\* Mutant of Due: the generation stop is inclusive.
DueInclusive == clock <= MeasureEnd

\* The next packet is still to be generated.
Due == clock < MeasureEnd

Unused(b) == {p \in Packets : BearerOf[p] = b /\ arrives[p] = NoTick}

\* build_traffic_generator, and the first interval: a stream that has an
\* owner is not issued again.
Open ==
    /\ mode = "generating" /\ source \in Bearers /\ clock = NoTick
    /\ \/ StreamsOf(source) \cap streams # {} /\ Refuse
       \/ /\ StreamsOf(source) \cap streams = {}
          /\ streams' = streams \cup StreamsOf(source)
          /\ clock' \in FirstIntervals(source)
          /\ UNCHANGED <<pipeline, grants, source>>

\* One turn of the loop of TrafficGenerator.packets.  The packets a bearer has
\* in the model stand for MAX_PACKETS_PER_BEARER.
Emit ==
    /\ mode = "generating" /\ source \in Bearers
    /\ clock # NoTick /\ Due
    /\ \/ Unused(source) = {} /\ Refuse
       \/ /\ Unused(source) # {}
          /\ arrives' = [arrives EXCEPT ![Extrema!Min(Unused(source))] = clock]
          /\ \E interval \in Intervals(source) :
                /\ clock' = clock + interval
                /\ mode' = IF interval > 0 THEN mode ELSE "refused"
          /\ UNCHANGED <<queues, heap, trace, now, grants, source, streams>>

\* The source has passed the generation stop; the next bearer's turn.
Close ==
    /\ mode = "generating" /\ source \in Bearers
    /\ clock # NoTick /\ ~Due
    /\ source' = source + 1 /\ clock' = NoTick
    /\ UNCHANGED <<pipeline, grants, streams>>
-----------------------------------------------------------------------------
(* Grants.                                                                 *)

\* _schedule_service_grants raises.
BadGrant(g) == g.bearer \notin Bearers \/ g.tick > Stop \/ g.tick % Slot # 0

GrantedBits(b, t) ==
    Sum([k \in DOMAIN grants |->
            IF grants[k].bearer = b /\ grants[k].tick = t THEN grants[k].capacity ELSE 0],
        Len(grants))
GrantKeys == {<<grants[k].tick, grants[k].bearer>> : k \in DOMAIN grants}

GrantEvent(t, b, capacity) ==
    EventOf(t, ServicePhase, b, 0, "service_completion", 0,
            [NoWork EXCEPT !.plan = {capacity}])

\* Mutant of GrantEvents: a key keeps the last of its grants.
GrantEventsLast ==
    {GrantEvent(grants[k].tick, grants[k].bearer, grants[k].capacity) :
        k \in {k \in DOMAIN grants : \A j \in k + 1..Len(grants) :
                  <<grants[j].tick, grants[j].bearer>> # <<grants[k].tick, grants[k].bearer>>}}

\* Grants of one bearer at one tick are one event.
GrantEvents == {GrantEvent(key[1], key[2], GrantedBits(key[2], key[1])) : key \in GrantKeys}

\* The schedule is complete; kernel.run begins.
Begin ==
    /\ mode = "generating" /\ source \notin Bearers
    /\ \/ (\E k \in DOMAIN grants : BadGrant(grants[k])) /\ Refuse
       \/ /\ \A k \in DOMAIN grants : ~BadGrant(grants[k])
          /\ heap' = TrafficEvents(Bearers) \cup GrantEvents
          /\ mode' = "running"
          /\ UNCHANGED <<arrives, queues, trace, now, inputs>>

\* _service_handler: immediate service of the queue.
GrantHandler(e) ==
    /\ Pop(e, "service_completion")
    /\ LET capacity == CHOOSE n \in e.work.plan : TRUE
       IN  IF ServeRaises(queues[e.entity], e.tick, capacity)
           THEN Abort(e)
           ELSE /\ queues' = [queues EXCEPT ![e.entity] = Serve(@, e.tick, capacity)]
                /\ Done(e, {})

TrafficNext ==
    \/ Open \/ Emit \/ Close \/ Begin
    \/ /\ \/ \E e \in heap : ArrivalHandler(e) \/ DeadlineHandler(e)
                             \/ GrantHandler(e) \/ CensorHandler(e)
          \/ Finish
       /\ UNCHANGED inputs

\* One loop in one thread, as in SlotPipeline.
TrafficSpec == TrafficInit /\ [][TrafficNext]_trafficVars /\ WF_trafficVars(TrafficNext)
-----------------------------------------------------------------------------
(* Properties.                                                             *)

Generated == {p \in Packets : arrives[p] # NoTick}

\* A valid configuration is never refused, except for the safety budget of a
\* source or a grant that cannot be applied, and the run never fails: streams
\* do not collide, no interval is zero, every key is scheduled once, and no
\* service finds a packet past its deadline.
\* (build_traffic_generator, packets, _schedule_service_grants, run)
RefusesOnlyBadInput ==
    /\ mode = "refused" =>
          \/ source \in Bearers /\ Unused(source) = {}
          \/ \E k \in DOMAIN grants : BadGrant(grants[k])
    /\ NeverFails
    /\ \A e, h \in heap : Key(e) = Key(h) => e = h

\* When the run begins, each source has filled the time up to the generation
\* stop, no further, with packets in strict time order and never further
\* apart than its longest interval: what the slot pipelines assume of traffic.
\* (TrafficGenerator.packets)
SourcesFillTheWindow ==
    mode \in {"running", "done"} => \A b \in Bearers :
        LET mine == {p \in Generated : BearerOf[p] = b}
            longest == Extrema!Max(Intervals(b) \cup FirstIntervals(b))
            ends == {arrives[p] : p \in mine}
        IN  /\ \A p \in mine : arrives[p] < MeasureEnd
            /\ \A p, o \in mine : p < o => arrives[p] < arrives[o]
            /\ \A t \in {0} \cup ends :
                  t + longest < MeasureEnd =>
                      \E s \in ends : s > t \/ (t = 0 /\ s = 0)

\* No granted bit is lost: what a packet that expired or was censored could
\* still have had was all given to its bearer's packets.
\* (_schedule_service_grants, _service_handler, BearerQueue.apply)
GrantsUsed ==
    mode = "done" => \A p \in Generated :
        LET b == BearerOf[p]
            q == queues[b]
            usable == Sum([t \in 1..Stop |->
                              IF arrives[p] < t /\ t <= q.terminal[p]
                              THEN GrantedBits(b, t) ELSE 0], Stop)
        IN  q.cause[p] \in {"deadline_expired", "censored_at_stop"} => q.served >= usable

\* The program ends: it refuses its input, or the run returns and every
\* generated packet has ended.
Ends == <>(\/ mode = "refused"
           \/ /\ mode = "done"
              /\ \A p \in Generated : queues[BearerOf[p]].cause[p] \in Terminal)
=============================================================================
