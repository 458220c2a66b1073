-------------------------------- MODULE Kpis --------------------------------
(***************************************************************************)
(* The KPI report of a finished run (metrics/kpis.py): pure reductions of  *)
(* the final packet states and of the interval records.  Rates are left as *)
(* their numerators, which every group divides by the same duration, and   *)
(* ratios as a numerator and a denominator.                                *)
(***************************************************************************)
EXTENDS SlotService

CONSTANT ProfileOf  \* ProfileOf[b]: traffic profile (application) of bearer b

ASSUME ProfileAssumption == ProfileOf \in [Bearers -> Nat]

-----------------------------------------------------------------------------
(* _build_groups: the sets of bearers that are reported on.  A UE counts   *)
(* for the cell that serves it at the end of the run.                      *)

BearersOfUes(us) == {b \in Bearers : UeOf[b] \in us}

Groups(serving) ==
    {Bearers}
    \cup {BearersOfUes({u \in Ues : serving[u] = c}) : c \in Cells}
    \cup {{b \in Bearers : ProfileOf[b] = a} : a \in {ProfileOf[b] : b \in Bearers}}
    \cup {BearersOfUes({u}) : u \in Ues}
    \cup {{b} : b \in Bearers}

-----------------------------------------------------------------------------
(* Packets: the measurement cohort of a group of bearers.                  *)

CohortOf(bs) == {p \in Packets : BearerOf[p] \in bs /\ arrives[p] >= MeasureStart}

StateOf(p) ==
    LET q == queues[BearerOf[p]]
    IN  [cause |-> q.cause[p], first |-> q.first[p], terminal |-> q.terminal[p],
         remaining |-> q.remaining[p]]

Ended(bs, cause) == {p \in CohortOf(bs) : StateOf(p).cause = cause}

OfferedBits(bs) == SumOver(Payload, CohortOf(bs))
GoodputBits(bs) == SumOver(Payload, Ended(bs, "completed"))

DeadlineBearing(bs) == {p \in CohortOf(bs) : DeadlineTick[p] # NoTick}

\* Mutant of DeadlineSuccesses: completion at the deadline is not in time.
DeadlineSuccessesStrict(bs) ==
    {p \in DeadlineBearing(bs) :
        StateOf(p).cause = "completed" /\ StateOf(p).terminal < DeadlineTick[p]}

DeadlineSuccesses(bs) ==
    {p \in DeadlineBearing(bs) :
        StateOf(p).cause = "completed" /\ StateOf(p).terminal <= DeadlineTick[p]}

\* Numerators and denominators of the outcome ratios.
Outcomes(bs) ==
    [delivery |-> <<Cardinality(Ended(bs, "completed")), Cardinality(CohortOf(bs))>>,
     success  |-> <<Cardinality(DeadlineSuccesses(bs)), Cardinality(DeadlineBearing(bs))>>,
     overflow |-> <<Cardinality(Ended(bs, "overflow_drop")), Cardinality(CohortOf(bs))>>,
     expired  |-> <<Cardinality(Ended(bs, "deadline_expired") \cap DeadlineBearing(bs)),
                    Cardinality(DeadlineBearing(bs))>>,
     censored |-> <<Cardinality(Ended(bs, "censored_at_stop")), Cardinality(CohortOf(bs))>>]

-----------------------------------------------------------------------------
(* Delays of the completed packets.                                        *)

QueueingDelay(p) == StateOf(p).first - arrives[p]
ServiceSpan(p)   == StateOf(p).terminal - StateOf(p).first
SystemDelay(p)   == StateOf(p).terminal - arrives[p]

\* The members of ps before p in the order of their values, and among equals
\* of their numbers; and ps in that order.
Preceding(p, value, ps) == {o \in ps : value[o] < value[p] \/ (value[o] = value[p] /\ o < p)}
InOrderOf(value, ps) ==
    [i \in 1..Cardinality(ps) |->
        CHOOSE p \in ps : Cardinality(Preceding(p, value, ps)) = i - 1]

\* The delays of the completed packets, sorted.
DelaysOf(Delay(_), bs) ==
    LET ps == InOrderOf([p \in Packets |-> Delay(p)], Ended(bs, "completed"))
    IN  [i \in DOMAIN ps |-> Delay(ps[i])]

\* _type7_quantile, times 100: between the two samples around the position.
Percentile(values, percent) ==
    LET position == (Len(values) - 1) * percent
        lower    == position \div 100 + 1
        fraction == position % 100
    IN  IF fraction = 0 THEN 100 * values[lower]
        ELSE 100 * values[lower] + fraction * (values[lower + 1] - values[lower])

\* Sum of the absolute differences of successive delays, by completion.
JitterSum(b) ==
    LET ps == InOrderOf([p \in Packets |-> StateOf(p).terminal], Ended({b}, "completed"))
        Difference(i) == SystemDelay(ps[i]) - SystemDelay(ps[i - 1])
    IN  SumOver([i \in 2..Len(ps) |-> IF Difference(i) < 0 THEN -Difference(i)
                                      ELSE Difference(i)], 2..Len(ps))

-----------------------------------------------------------------------------
(* Service and resources, from the intervals.                              *)

InWindow(t) == MeasureStart <= t /\ t < MeasureEnd

\* A slot's service counts when it completes, its PRBs when it starts.
CompletedIn(cells) == {i \in intervals : i.cell \in cells /\ InWindow(i.end)}
StartedIn(cells)   == {i \in intervals : i.cell \in cells /\ InWindow(i.start)}

ServedOver(is, bs) ==
    SumOver([i \in is |-> SumOver(i.served, bs)], is)

ServedTo(i, u) == Sum([b \in Bearers |-> IF UeOf[b] = u THEN i.served[b] ELSE 0], NumBearers)

\* The PRBs of a slot that carried nothing.
WastedPrbs(i) == SumOver(i.prbs, {u \in Ues : ServedTo(i, u) = 0})

Resources(cells) ==
    LET is == StartedIn(cells)
    IN  [available |-> Prbs * Cardinality(is),
         allocated |-> SumOver([i \in is |-> SumOver(i.prbs, Ues)], is),
         wasted    |-> SumOver([i \in is |-> WastedPrbs(i)], is),
         eligible  |-> SumOver([i \in is |-> Cardinality(i.eligible)], is),
         outage    |-> SumOver([i \in is |-> Cardinality(i.outage)], is),
         scheduled |-> SumOver([i \in is |-> SumOver(i.capacity, Ues)], is),
         served    |-> ServedOver(CompletedIn(cells), Bearers)]

\* Jain's index over the UEs that were offered anything, as a fraction.
ActiveUes(us) == {u \in us : OfferedBits(BearersOfUes({u})) > 0}
Jain(us) ==
    LET rate  == [u \in Ues |-> GoodputBits(BearersOfUes({u}))]
        total == SumOver(rate, ActiveUes(us))
    IN  <<total * total,
          Cardinality(ActiveUes(us))
              * SumOver([u \in Ues |-> rate[u] * rate[u]], ActiveUes(us))>>

-----------------------------------------------------------------------------
(* Properties of the report.                                               *)

Percentiles(Delay(_), bs) ==
    LET values == DelaysOf(Delay, bs)
    IN  [median |-> Percentile(values, 50), p95 |-> Percentile(values, 95),
         p99 |-> Percentile(values, 99)]

\* The outcome ratios account for every packet of the cohort once: each
\* ended in one of the four ways reported, and a deadline-bearing packet is
\* a success exactly when it was delivered.
OutcomesAccounted(bs) ==
    LET o == Outcomes(bs)
    IN  /\ o.delivery[1] + o.overflow[1] + o.expired[1] + o.censored[1] = o.delivery[2]
        /\ o.success[1] = Cardinality(Ended(bs, "completed") \cap DeadlineBearing(bs))

\* A delay is queueing and then whole slots of service, at least one.
DelaysInSlots(bs) ==
    \A p \in Ended(bs, "completed") :
        /\ QueueingDelay(p) >= 0
        /\ ServiceSpan(p) >= Slot /\ ServiceSpan(p) % Slot = 0

\* No percentile exceeds a deadline budget, successive delays differ by no
\* more than the budget less a slot, and Jain's index is at most one.
PacketReport(serving) ==
    \A bs \in Groups(serving) :
        /\ OutcomesAccounted(bs)
        /\ DelaysInSlots(bs)
        /\ Ended(bs, "completed") # {} =>
              LET all == Percentiles(SystemDelay, bs)
              IN  /\ all.median <= all.p95 /\ all.p95 <= all.p99
                  /\ \A b \in bs : bs = {b} /\ Budget[b] # NoBudget =>
                        /\ all.p99 <= 100 * Budget[b]
                        /\ JitterSum(b) <=
                              (Cardinality(Ended(bs, "completed")) - 1) * (Budget[b] - Slot)
        /\ LET j == Jain({UeOf[b] : b \in bs}) IN j[1] <= j[2]

\* A slot serves a UE no more than the capacity committed to it, and nothing
\* without PRBs.
ServiceWithinCapacity ==
    \A i \in intervals, u \in Ues :
        ServedTo(i, u) <= i.capacity[u] /\ (i.prbs[u] = 0 => ServedTo(i, u) = 0)

\* The interval records agree with the queues: over the run each bearer's
\* intervals carry the bits its queue served; the warm-up, the window and the
\* drain make up the whole.
ServiceReport ==
    LET before == {i \in intervals : i.end < MeasureStart}
        after  == {i \in intervals : i.end >= MeasureEnd}
    IN  /\ \A b \in Bearers :
              /\ ServedOver(intervals, {b}) = queues[b].served
              /\ queues[b].served =
                    ServedOver(before, {b}) + ServedOver(CompletedIn(Cells), {b})
                    + ServedOver(after, {b})
        /\ ServiceWithinCapacity
        /\ LET r == Resources(Cells)
           IN  r.wasted <= r.allocated /\ r.allocated <= r.available
               /\ r.outage <= r.eligible
               /\ ServedOver(StartedIn(Cells), Bearers) <= r.scheduled
=============================================================================
