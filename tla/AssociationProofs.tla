-------------------------- MODULE AssociationProofs --------------------------
(***************************************************************************)
(* Proofs about Association, for any number of cells, any measurements and *)
(* any configured times and thresholds.                                    *)
(*                                                                         *)
(* The machines keep one timer each; the properties speak of how long      *)
(* conditions have held.  The invariant relates the two: a machine's timer *)
(* is the observer's where they measure the same thing (availability), and *)
(* bounds it where they do not (the pending candidate and the entered      *)
(* best neighbour).                                                        *)
(***************************************************************************)
EXTENDS Association, SumsProofs, FiniteSetTheorems, SequenceTheorems

Times == Nat \cup {Never}

\* The assumptions on the constants, with what is used of them.
LEMMA Settings ==
    /\ Enter \in Int /\ Leave \in Int /\ Leave <= Enter
    /\ TimeToTrigger \in Nat /\ Interruption \in Nat /\ PingPongWindow \in Nat
    /\ OutageDwell \in Nat /\ RecoveryDwell \in Nat
    /\ NumCells \in Nat /\ NumCells # 0 /\ Levels \subseteq Int
    /\ OutageThreshold \in Int /\ RecoveryThreshold \in Int
    /\ RecoveryThreshold > OutageThreshold /\ Sinrs \subseteq Int
<1>1. Offset \in Int /\ Hysteresis \in Nat
  BY TimersAssumption
<1>2. Enter \in Int /\ Leave \in Int /\ Leave <= Enter
  BY <1>1 DEF Enter, Leave
<1> QED BY <1>2, TimersAssumption, AssociationAssumption

\* How long something has held is since now at the latest, since a moment
\* before if it held before, and not at all if it does not hold.
LEMMA SinceBounded ==
    ASSUME NEW since \in Times, NEW t \in Nat, since < t, NEW holds \in BOOLEAN
    PROVE  /\ Since(since, holds, t) \in Times
           /\ Since(since, holds, t) <= t
           /\ holds <=> Since(since, holds, t) # Never
BY DEF Since, Times, Never

-----------------------------------------------------------------------------
(* Availability.                                                           *)

AvailabilityInv ==
    /\ tick \in Times
    /\ av \in AvailabilityStates
    /\ low \in Times /\ low <= tick
    /\ high \in Times /\ high <= tick
    /\ ~av.outage => av.outageSince = low
    /\ av.outage => av.recoverySince = high
    /\ DwellPrompt

\* Nothing has been observed before the first tick.
LEMMA AvailabilityInit == Init => AvailabilityInv
BY Settings DEF Init, AvailabilityInv, AvailabilityStates, Settled, Times, Never, DwellPrompt

\* Whatever is measured, the timers stay those of the observer, and a
\* transition takes place exactly when one of them reaches its dwell.
LEMMA AvailabilityStep ==
    ASSUME AvailabilityInv, NEW t \in Nat, t = tick + 1, tick' = t,
           NEW sinr \in Sinrs, UpdateAvailability(t, sinr)
    PROVE  /\ AvailabilityInv'
           /\ ~av.outage /\ av'.outage => low' # Never /\ tick' - low' >= OutageDwell
           /\ av.outage /\ ~av'.outage => high' # Never /\ tick' - high' >= RecoveryDwell
<1> DEFINE isLow == sinr <= OutageThreshold
           isHigh == sinr >= RecoveryThreshold
<1>1. /\ isLow \in BOOLEAN /\ isHigh \in BOOLEAN /\ ~(isLow /\ isHigh)
      /\ OutageDwell \in Nat /\ RecoveryDwell \in Nat
  BY Settings
<1>2. /\ av' = NextAvailability(av, t, isLow, isHigh)
      /\ low' = Since(low, isLow, t)
      /\ high' = Since(high, isHigh, t)
  BY DEF UpdateAvailability
<1> HIDE DEF isLow, isHigh
<1>3. /\ low \in Times /\ low < t /\ high \in Times /\ high < t
      /\ av \in AvailabilityStates /\ av.outage \in BOOLEAN
  BY DEF AvailabilityInv, Times, Never, AvailabilityStates
<1>4. /\ low' \in Times /\ low' <= t /\ (isLow <=> low' # Never)
      /\ high' \in Times /\ high' <= t /\ (isHigh <=> high' # Never)
  BY <1>1, <1>2, <1>3, SinceBounded
<1>5. CASE EntersOutage(av, t, isLow)
  <2>1. ~av.outage /\ isLow /\ t - low' >= OutageDwell
    BY <1>2, <1>5 DEF EntersOutage, OutageTimer, AvailabilityInv
  <2>2. av' = Settled(TRUE)
    BY <1>2, <1>5 DEF NextAvailability
  <2>3. high' = Never
    BY <1>1, <1>4, <2>1
  <2> QED BY <1>4, <2>1, <2>2, <2>3
          DEF Settled, AvailabilityInv, AvailabilityStates, DwellPrompt, Times
<1>6. CASE ~EntersOutage(av, t, isLow) /\ LeavesOutage(av, t, isHigh)
  <2>1. av.outage /\ isHigh /\ t - high' >= RecoveryDwell
    BY <1>2, <1>6 DEF LeavesOutage, RecoveryTimer, AvailabilityInv
  <2>2. av' = Settled(FALSE)
    BY <1>2, <1>6 DEF NextAvailability
  <2>3. low' = Never
    BY <1>1, <1>4, <2>1
  <2> QED BY <1>4, <2>1, <2>2, <2>3
          DEF Settled, AvailabilityInv, AvailabilityStates, DwellPrompt, Times
<1>7. CASE ~EntersOutage(av, t, isLow) /\ ~LeavesOutage(av, t, isHigh)
  <2>1. CASE av.outage
    <3>1. av' = [av EXCEPT !.recoverySince = high']
      BY <1>2, <1>7, <2>1 DEF NextAvailability, RecoveryTimer, AvailabilityInv
    <3>2. RecoveryTimer(av, t, isHigh) = high'
      BY <1>2, <2>1 DEF RecoveryTimer, AvailabilityInv
    <3>3. isHigh => ~(t - high' >= RecoveryDwell)
      BY <1>7, <2>1, <3>2 DEF LeavesOutage
    <3>4. isHigh => t - high' < RecoveryDwell
      BY <1>1, <1>4, <3>3 DEF Times, Never
    <3> QED BY <1>3, <1>4, <2>1, <3>1, <3>4
            DEF AvailabilityInv, AvailabilityStates, DwellPrompt, Times
  <2>2. CASE ~av.outage
    <3>1. av' = [av EXCEPT !.outageSince = low']
      BY <1>2, <1>7, <2>2 DEF NextAvailability, OutageTimer, AvailabilityInv
    <3>2. OutageTimer(av, t, isLow) = low'
      BY <1>2, <2>2 DEF OutageTimer, AvailabilityInv
    <3>3. isLow => ~(t - low' >= OutageDwell)
      BY <1>7, <2>2, <3>2 DEF EntersOutage
    <3>4. isLow => t - low' < OutageDwell
      BY <1>1, <1>4, <3>3 DEF Times, Never
    <3> QED BY <1>3, <1>4, <2>2, <3>1, <3>4
            DEF AvailabilityInv, AvailabilityStates, DwellPrompt, Times
  <2> QED BY <2>1, <2>2
<1> QED BY <1>5, <1>6, <1>7

-----------------------------------------------------------------------------
(* The strongest cell.                                                     *)

\* Ties go by number, so that any cells have one that is strongest: else
\* there would be a least number up to which they have none, and taking it
\* away would leave cells that have one.
LEMMA StrongestExists ==
    ASSUME NEW m \in [Cells -> Levels], NEW cells \in SUBSET Cells, cells # {}
    PROVE  /\ Strongest(m, cells) \in cells
           /\ \A d \in cells : m[d] <= m[Strongest(m, cells)]
<1> DEFINE Beats(c, d) == m[c] > m[d] \/ (m[c] = m[d] /\ c < d)
           UpTo(k) == {c \in cells : c <= k}
           Wins(c, k) == c \in UpTo(k) /\ \A d \in UpTo(k) \ {c} : Beats(c, d)
           Fails == {k \in Nat : UpTo(k) # {} /\ ~\E c \in UpTo(k) : Wins(c, k)}
<1>1. \A c \in Cells : m[c] \in Int /\ c \in Nat /\ c # 0 /\ c <= NumCells
  <2> SUFFICES ASSUME NEW c \in Cells PROVE m[c] \in Int /\ c \in Nat /\ c # 0 /\ c <= NumCells
    OBVIOUS
  <2>1. m[c] \in Levels
    OBVIOUS
  <2>2. c \in 1..NumCells /\ NumCells \in Nat
    BY Settings DEF Cells
  <2>3. c \in Nat /\ c # 0 /\ c <= NumCells
    BY <2>2
  <2>4. m[c] \in Int
    BY <2>1, AssociationAssumption
  <2> QED BY <2>3, <2>4
<1>2. Fails = {}
  <2> SUFFICES ASSUME Fails # {} PROVE FALSE
    OBVIOUS
  <2>1. Fails \subseteq Nat
    OBVIOUS
  <2>2. PICK k \in Fails : \A j \in Fails : ~(j < k)
    <3> HIDE DEF Fails
    <3> QED BY <2>1, LeastNumber
  <2>3. k \in Nat /\ UpTo(k) # {} /\ ~\E c \in UpTo(k) : Wins(c, k)
    BY <2>2
  <2>4. k # 0 /\ k - 1 \in Nat /\ k - 1 < k
    BY <1>1, <2>3
  <2>5. k - 1 \notin Fails
    BY <2>2, <2>4
  <2>6. \A c : c \in UpTo(k) <=> c \in UpTo(k - 1) \/ (c \in cells /\ c = k)
    <3> SUFFICES ASSUME NEW c
                 PROVE  c \in UpTo(k) <=> c \in UpTo(k - 1) \/ (c \in cells /\ c = k)
      OBVIOUS
    <3>1. CASE c \notin cells
      BY <3>1
    <3>2. CASE c \in cells
      <4>1. c \in Nat /\ k \in Nat
        BY <1>1, <2>3, <3>2
      <4>2. c <= k <=> c <= k - 1 \/ c = k
        BY <4>1
      <4> QED BY <3>2, <4>2
    <3> QED BY <3>1, <3>2
  <2>7. CASE UpTo(k - 1) = {}
    <3>1. k \in cells /\ UpTo(k) = {k}
      BY <2>3, <2>6, <2>7
    <3>2. Wins(k, k)
      BY <3>1
    <3> QED BY <2>3, <3>1, <3>2
  <2>8. CASE UpTo(k - 1) # {}
    <3>1. PICK c \in UpTo(k - 1) : Wins(c, k - 1)
      BY <2>4, <2>5, <2>8
    <3>2. c \in UpTo(k) /\ c \in Cells /\ c < k /\ \A d \in UpTo(k - 1) \ {c} : Beats(c, d)
      BY <1>1, <2>3, <2>6, <3>1
    <3>3. CASE k \notin cells \/ Beats(c, k)
      <4>1. Wins(c, k)
        <5> HIDE DEF Beats, UpTo
        <5> QED BY <2>6, <3>2, <3>3
      <4> QED BY <2>3, <3>2, <4>1
    <3>4. CASE k \in cells /\ ~Beats(c, k)
      <4>1. m[k] > m[c] /\ k \in UpTo(k)
        BY <1>1, <2>3, <2>6, <3>2, <3>4
      <4>2. ASSUME NEW d \in UpTo(k) \ {k}
            PROVE  Beats(k, d)
        <5>1. d \in UpTo(k - 1) /\ d \in Cells
          BY <2>6, <4>2
        <5>2. m[c] >= m[d]
          BY <1>1, <3>2, <5>1
        <5> QED BY <1>1, <3>2, <3>4, <4>1, <5>1, <5>2
      <4>3. Wins(k, k)
        BY <4>1, <4>2
      <4> QED BY <2>3, <4>1, <4>3
    <3> QED BY <3>3, <3>4
  <2> QED BY <2>7, <2>8
<1>3. UpTo(NumCells) = cells /\ NumCells \in Nat
  BY <1>1, Settings
<1>4. \E c \in cells : \A d \in cells \ {c} : Beats(c, d)
  BY <1>2, <1>3
<1>5. /\ Strongest(m, cells) \in cells
      /\ \A d \in cells \ {Strongest(m, cells)} : Beats(Strongest(m, cells), d)
  BY <1>4 DEF Strongest
<1> QED BY <1>1, <1>5

\* What the machine sees of the neighbours while c serves: the best of them
\* stands for all where it is compared with a threshold.
LEMMA BestSeen ==
    ASSUME NEW h \in HandoverStates(Cells), NEW m \in [Cells -> Levels], h.serving # NoCell
    PROVE  LET n == Best(h, m) IN
           /\ Neighbours(h, m) = {} <=> NumCells = 1
           /\ Neighbours(h, m) # {} =>
                /\ n \in Cells /\ n # h.serving /\ n \in Neighbours(h, m)
                /\ Delta(h, m, n) \in Int
                /\ (\E c \in Neighbours(h, m) : Delta(h, m, c) >= Leave)
                        <=> Delta(h, m, n) >= Leave
<1> DEFINE n == Best(h, m)
<1>1. h.serving \in Cells /\ DOMAIN m = Cells /\ NoCell \notin Cells
  BY DEF HandoverStates, NoCell, Cells
<1>2. Neighbours(h, m) = Cells \ {h.serving}
  BY <1>1 DEF Neighbours
<1>3. Neighbours(h, m) = {} <=> NumCells = 1
  <2>1. NumCells \in Nat /\ NumCells # 0
    BY Settings
  <2>2. CASE NumCells = 1
    BY <1>1, <1>2, <2>2 DEF Cells
  <2>3. CASE NumCells # 1
    <3>1. 1 \in Cells /\ 2 \in Cells
      BY <2>1, <2>3 DEF Cells
    <3> QED BY <1>2, <2>3, <3>1
  <2> QED BY <2>2, <2>3
<1>4. ASSUME Neighbours(h, m) # {}
      PROVE  /\ n \in Neighbours(h, m)
             /\ \A c \in Neighbours(h, m) : m[c] <= m[n]
  <2>1. Neighbours(h, m) \in SUBSET Cells
    BY <1>2
  <2>2. n = Strongest(m, Neighbours(h, m))
    BY DEF Best
  <2> HIDE DEF n
  <2> QED BY <1>4, <2>1, <2>2, StrongestExists
<1>5. \A c \in Cells : m[c] \in Int
  <2> SUFFICES ASSUME NEW c \in Cells PROVE m[c] \in Int
    OBVIOUS
  <2>1. m[c] \in Levels
    OBVIOUS
  <2> QED BY <2>1, AssociationAssumption
<1>6. ASSUME Neighbours(h, m) # {}
      PROVE  /\ n \in Cells /\ n # h.serving /\ n \in Neighbours(h, m)
             /\ Delta(h, m, n) \in Int
             /\ (\E c \in Neighbours(h, m) : Delta(h, m, c) >= Leave)
                     <=> Delta(h, m, n) >= Leave
  <2>1. n \in Cells /\ n # h.serving /\ n \in Neighbours(h, m)
    BY <1>2, <1>4, <1>6
  <2> HIDE DEF n
  <2>2. Delta(h, m, n) \in Int
    BY <1>1, <1>5, <2>1 DEF Delta
  <2>3. \A c \in Neighbours(h, m) : Delta(h, m, c) >= Leave => Delta(h, m, n) >= Leave
    BY <1>1, <1>2, <1>4, <1>5, <1>6, <2>1, Settings DEF Delta
  <2> QED BY <2>1, <2>2, <2>3
<1> QED BY <1>3, <1>6

-----------------------------------------------------------------------------
(* Handovers.                                                              *)

MoveRecords == [tick : Nat, from : Cells, to : Cells, entered : Times, above : Times]

HandoverTypes ==
    /\ tick \in Times
    /\ ho \in HandoverStates(Cells)
    /\ moves \in Seq(MoveRecords)
    /\ entered \in [Cells -> Times]
    /\ best \in [Cells -> Times]
    /\ above \in Times /\ above <= tick
    /\ \A c \in Cells : best[c] <= tick

\* The state holds the latest of the moves.
LastMoveHeld ==
    /\ tick = Never => ho = ServedBy(NoCell) /\ moves = <<>>
    /\ tick # Never => ho.serving # NoCell
    /\ moves = <<>> => ho.last = Never /\ ho.previous = NoCell /\ ho.until = 0
    /\ moves # <<>> =>
         /\ ho.last = moves[Len(moves)].tick
         /\ ho.previous = moves[Len(moves)].from
         /\ ho.serving = moves[Len(moves)].to
         /\ ho.until = ho.last + Interruption
    /\ ho.last <= tick
    /\ \A i \in Moves : moves[i].tick <= ho.last

\* A pending candidate waits since the last move at the earliest, and all
\* the while some neighbour has been above the leave threshold.
PendingWitnessed ==
    /\ ho.pending = NoCell => ho.since = Never
    /\ ho.pending # NoCell =>
        /\ ho.pending # ho.serving
        /\ ho.since \in Nat /\ ho.since <= tick /\ ho.since > ho.last
        /\ above # Never /\ above <= ho.since

\* A neighbour that has been the entered best has been pending longer.
BestIsPending ==
    \A c \in Cells : best[c] # Never => ho.pending = c /\ ho.since <= best[c]

HandoverInv ==
    /\ HandoverTypes /\ LastMoveHeld /\ PendingWitnessed /\ BestIsPending
    /\ NeverHasty /\ NeverLate /\ CountsHistory

\* Nothing has happened before the first tick.
LEMMA HandoverInit == Init => HandoverInv
<1> SUFFICES ASSUME Init PROVE HandoverInv
  OBVIOUS
<1>1. Moves = {}
  BY DEF Init, Moves
<1>2. Len(moves) = 0 /\ moves \in Seq(MoveRecords)
  BY EmptySeq DEF Init
<1>3. HandoverTypes
  BY <1>2 DEF Init, HandoverTypes, HandoverStates, ServedBy, Times, Never, NoCell
<1>4. {i \in Moves \ {1} : /\ moves[i].to = moves[i - 1].from
                           /\ moves[i].tick - moves[i - 1].tick <= PingPongWindow} = {}
  BY <1>1
<1>5. CountsHistory
  BY <1>2, <1>4, FS_EmptySet DEF Init, CountsHistory, ServedBy
<1> QED BY <1>1, <1>3, <1>5
        DEF Init, HandoverInv, LastMoveHeld, PendingWitnessed, BestIsPending,
            NeverHasty, NeverLate, ServedBy, NoCell, Never

\* The first tick only fills in who serves.
LEMMA AssociateKeeps ==
    ASSUME HandoverInv, NEW t \in Nat, t = tick + 1, tick' = t,
           NEW m \in [Cells -> Levels], Associate(t, m)
    PROVE  HandoverInv'
<1>1. tick = Never /\ ho = ServedBy(NoCell) /\ moves = <<>>
  BY DEF HandoverInv, LastMoveHeld, Associate
<1> DEFINE c == Strongest(m, Cells)
<1>2. c \in Cells
  <2>1. 1 \in Cells
    BY AssociationAssumption DEF Cells
  <2>2. Cells # {} /\ Cells \in SUBSET Cells
    BY <2>1
  <2> HIDE DEF c
  <2> QED BY <2>2, StrongestExists DEF c
<1>3. ho' = ServedBy(c) /\ moves' = moves /\ entered' = entered
      /\ best' = best /\ above' = above
  BY DEF Associate
<1> HIDE DEF c
<1>4. Moves' = {} /\ Moves = {}
  BY <1>1, <1>3 DEF Moves
<1>5. HandoverTypes'
  BY <1>1, <1>2, <1>3 DEF HandoverInv, HandoverTypes, HandoverStates, ServedBy, Times, Never
<1>6. LastMoveHeld' /\ PendingWitnessed'
  BY <1>1, <1>2, <1>3, <1>4 DEF LastMoveHeld, PendingWitnessed, ServedBy, Never, NoCell, Cells
<1>7. BestIsPending' /\ NeverLate'
  <2>1. \A d \in Cells : best[d] = Never
    BY <1>1 DEF HandoverInv, BestIsPending, ServedBy, NoCell, Cells
  <2> QED BY <1>3, <2>1 DEF BestIsPending, NeverLate
<1>8. NeverHasty'
  BY <1>4 DEF NeverHasty
<1>9. CountsHistory'
  BY <1>1, <1>3, <1>4 DEF HandoverInv, CountsHistory, ServedBy
<1> QED BY <1>5, <1>6, <1>7, <1>8, <1>9 DEF HandoverInv

\* While no handover takes place, the candidate is only set, kept or
\* dropped, and the wait of one that is set again goes on.
LEMMA StayKeeps ==
    ASSUME HandoverInv, NEW t \in Nat, t = tick + 1, tick' = t,
           NEW m \in [Cells -> Levels], Stay(t, m)
    PROVE  HandoverInv'
<1> DEFINE n == Best(ho, m)
           D == Delta(ho, m, n)
           N == Neighbours(ho, m)
           since == PendingSince(ho, t, n)
<1>1. /\ ho \in HandoverStates(Cells) /\ ho.serving # NoCell
      /\ Enter \in Int /\ Leave \in Int /\ Leave <= Enter /\ TimeToTrigger \in Nat
  BY Settings DEF HandoverInv, HandoverTypes, Stay
<1>2. /\ N = {} <=> NumCells = 1
      /\ N # {} => /\ n \in Cells /\ n # ho.serving /\ n \in N /\ D \in Int
                   /\ (\E c \in N : Delta(ho, m, c) >= Leave) <=> D >= Leave
  BY <1>1, BestSeen
<1>3. /\ ho' = NextHandover(ho, t, m) /\ moves' = moves
      /\ N # {} => ~Triggered(ho, t, m)
  BY <1>2, AssociationAssumption DEF Stay
<1>4. /\ entered' = [c \in Cells |-> EnteredAt(t, m, c)]
      /\ best' = [c \in Cells |-> BestAt(t, m, c)]
      /\ above' = Since(above, N # {} /\ D >= Leave, t)
  <2>1. (\E c \in N : Delta(ho, m, c) >= Leave) <=> N # {} /\ D >= Leave
    BY <1>2
  <2> HIDE DEF n, D
  <2> QED BY <2>1 DEF Stay, Observe, AboveAt
<1>5. \A c \in Cells : best'[c] = Since(best[c], N # {} /\ c = n /\ D > Enter, t)
  BY <1>2, <1>4 DEF BestAt, Entered
<1>6. /\ Entered(ho, m) <=> D > Enter
      /\ Left(ho, m) <=> ~(D > Enter) /\ D < Leave
      /\ Triggered(ho, t, m) <=> D > Enter /\ t - since >= TimeToTrigger
      /\ since = IF ho.pending = n THEN ho.since ELSE t
  BY DEF Entered, Left, Triggered, PendingSince
<1>7. \/ N = {} /\ ho' = ho
      \/ N # {} /\ D > Enter /\ ho' = [ho EXCEPT !.pending = n, !.since = since]
      \/ /\ N # {} /\ ~(D > Enter) /\ D < Leave
         /\ ho' = [ho EXCEPT !.pending = NoCell, !.since = Never]
      \/ N # {} /\ ~(D > Enter) /\ ~(D < Leave) /\ ho' = ho
  BY <1>3, <1>6 DEF NextHandover, Waiting, Cancelled
<1>8. ASSUME NEW c \in Cells PROVE EnteredAt(t, m, c) \in Times
  BY DEF EnteredAt, HandoverInv, HandoverTypes, Times
<1> HIDE DEF n, D, N, since
<1>9. /\ tick \in Times /\ tick < t /\ above \in Times /\ above <= tick
      /\ ho.pending = NoCell \/ ho.pending \in Cells
      /\ ho.since \in Times /\ ho.last \in Times /\ ho.last <= tick
      /\ \A c \in Cells : best[c] \in Times /\ best[c] <= tick
  BY DEF HandoverInv, HandoverTypes, LastMoveHeld, HandoverStates, Times, Never
<1>10. PendingWitnessed /\ BestIsPending /\ NeverLate
  BY DEF HandoverInv
<1>11. above' \in Times /\ above' <= t /\ (N # {} /\ D >= Leave => above' # Never)
       /\ (above # Never /\ N # {} /\ D >= Leave => above' = above)
  BY <1>4, <1>9 DEF Since, Times, Never
<1>12. \A c \in Cells : best'[c] \in Times /\ best'[c] <= t
                        /\ (best'[c] # Never => N # {} /\ c = n /\ D > Enter)
                        /\ (best[c] # Never /\ best'[c] # Never => best'[c] = best[c])
                        /\ (best[c] = Never /\ best'[c] # Never => best'[c] = t)
  BY <1>5, <1>9 DEF Since, Times, Never
<1>13. N = {} => ho.pending = NoCell
  <2>1. N = {} => Cells = {1} /\ ho.serving = 1
    BY <1>1, <1>2 DEF Cells, HandoverStates
  <2> QED BY <1>9, <1>10, <2>1 DEF PendingWitnessed
<1>14. N # {} => n \in Cells /\ n # ho.serving /\ n # NoCell /\ D \in Int
  BY <1>2 DEF Cells, NoCell
<1>15. (since \in Nat /\ since <= t /\ since > ho.last) \/ ~(N # {} /\ D > Enter)
  BY <1>6, <1>9, <1>10, <1>14 DEF PendingWitnessed, Times, Never
<1>16. HandoverTypes'
  <2>1. ho' \in HandoverStates(Cells)
    BY <1>1, <1>7, <1>14, <1>15 DEF HandoverStates
  <2>2. entered' \in [Cells -> Times]
    BY <1>4, <1>8
  <2>3. best' \in [Cells -> Times]
    BY <1>4, <1>12
  <2>4. moves' \in Seq(MoveRecords)
    BY <1>3 DEF HandoverInv, HandoverTypes
  <2> QED BY <1>11, <1>12, <2>1, <2>2, <2>3, <2>4 DEF HandoverTypes, Times
<1>17. /\ ho'.serving = ho.serving /\ ho'.last = ho.last /\ ho'.previous = ho.previous
       /\ ho'.until = ho.until /\ ho'.count = ho.count /\ ho'.pingPong = ho.pingPong
  BY <1>1, <1>7 DEF HandoverStates
<1>18. LastMoveHeld'
  <2>1. LastMoveHeld
    BY DEF HandoverInv
  <2> QED BY <1>1, <1>3, <1>9, <1>17, <2>1 DEF LastMoveHeld, Moves, Times, Never
<1>19. PendingWitnessed'
  <2>0. ho'.pending = NoCell => ho'.since = Never
    <3>1. CASE N # {} /\ D > Enter
      BY <1>1, <1>7, <1>14, <3>1 DEF HandoverStates
    <3>2. CASE ~(N # {} /\ D > Enter)
      BY <1>1, <1>7, <1>10, <3>2 DEF PendingWitnessed, HandoverStates
    <3> QED BY <3>1, <3>2
  <2> SUFFICES ASSUME ho'.pending # NoCell PROVE PendingWitnessed'
    BY <2>0 DEF PendingWitnessed
  <2>1. N # {} /\ D >= Leave
    <3>1. N # {}
      BY <1>7, <1>13
    <3>2. ~(~(D > Enter) /\ D < Leave)
      <4>1. ASSUME ~(D > Enter) /\ D < Leave PROVE ho'.pending = NoCell
        BY <1>1, <1>7, <1>14, <3>1, <4>1 DEF HandoverStates
      <4> QED BY <4>1
    <3> QED BY <1>1, <1>14, <3>1, <3>2
  <2>2. above' # Never /\ above' <= t /\ (above # Never => above' = above)
    BY <1>11, <2>1
  <2>3. CASE D > Enter
    <3>1. ho'.pending = n /\ ho'.since = since
      BY <1>1, <1>7, <2>1, <2>3 DEF HandoverStates
    <3>2. since \in Nat /\ since <= t /\ since > ho.last
      BY <1>15, <2>1, <2>3
    <3>3. above' <= since
      <4>1. CASE ho.pending = n
        BY <1>6, <1>10, <1>14, <2>1, <2>2, <4>1 DEF PendingWitnessed
      <4>2. CASE ho.pending # n
        BY <1>6, <2>2, <4>2
      <4> QED BY <4>1, <4>2
    <3> QED BY <1>14, <1>17, <2>1, <2>2, <3>1, <3>2, <3>3 DEF PendingWitnessed
  <2>4. CASE ~(D > Enter)
    <3>1. ho' = ho
      BY <1>1, <1>7, <1>14, <2>1, <2>4 DEF HandoverStates
    <3> QED BY <1>9, <1>10, <2>2, <3>1 DEF PendingWitnessed, Times, Never
  <2> QED BY <2>3, <2>4
<1>20. BestIsPending'
  <2> SUFFICES ASSUME NEW c \in Cells, best'[c] # Never
               PROVE  ho'.pending = c /\ ho'.since <= best'[c]
    BY DEF BestIsPending
  <2>1. N # {} /\ c = n /\ D > Enter
    BY <1>12
  <2>2. ho'.pending = c /\ ho'.since = since
    BY <1>1, <1>7, <2>1 DEF HandoverStates
  <2>3. CASE best[c] # Never
    BY <1>6, <1>10, <1>12, <2>1, <2>2, <2>3 DEF BestIsPending
  <2>4. CASE best[c] = Never
    BY <1>12, <1>15, <2>1, <2>2, <2>4
  <2> QED BY <2>3, <2>4
<1>21. NeverLate'
  <2> SUFFICES ASSUME NEW c \in Cells, best'[c] # Never
               PROVE  t - best'[c] < TimeToTrigger
    BY DEF NeverLate
  <2>1. N # {} /\ c = n /\ D > Enter /\ best'[c] \in Times
    BY <1>12
  <2>2. ho'.since = since /\ since \in Nat
    BY <1>1, <1>7, <1>15, <2>1 DEF HandoverStates
  <2>3. since <= best'[c] /\ t - since < TimeToTrigger
    BY <1>1, <1>3, <1>6, <1>20, <2>1, <2>2 DEF BestIsPending
  <2>4. best'[c] \in Nat
    BY <2>1 DEF Times
  <2> QED BY <1>1, <2>2, <2>3, <2>4
<1>22. NeverHasty' /\ CountsHistory'
  BY <1>3, <1>17 DEF HandoverInv, NeverHasty, CountsHistory, Moves
<1> QED BY <1>16, <1>18, <1>19, <1>20, <1>21, <1>22 DEF HandoverInv

\* A handover appends a move, later by more than the time to trigger than
\* the one before, and leaves nothing pending.
LEMMA ExecuteKeeps ==
    ASSUME HandoverInv, NEW t \in Nat, t = tick + 1, tick' = t,
           NEW m \in [Cells -> Levels], Execute(t, m)
    PROVE  HandoverInv'
<1> DEFINE n == Best(ho, m)
           D == Delta(ho, m, n)
           since == PendingSince(ho, t, n)
           enteredAt == EnteredAt(t, m, n)
           aboveAt == AboveAt(t, m)
           move == [tick |-> t, from |-> ho.serving, to |-> n,
                    entered |-> enteredAt, above |-> aboveAt]
           Back(s) == {i \in DOMAIN s \ {1} : /\ s[i].to = s[i - 1].from
                                              /\ s[i].tick - s[i - 1].tick <= PingPongWindow}
<1>1. /\ ho \in HandoverStates(Cells) /\ ho.serving # NoCell /\ NumCells > 1
      /\ Enter \in Int /\ Leave \in Int /\ Leave <= Enter /\ TimeToTrigger \in Nat
      /\ Interruption \in Nat /\ PingPongWindow \in Nat
  BY Settings DEF HandoverInv, HandoverTypes, Execute
<1>2. /\ Neighbours(ho, m) # {}
      /\ n \in Cells /\ n # ho.serving /\ n # NoCell /\ D \in Int
      /\ (\E c \in Neighbours(ho, m) : Delta(ho, m, c) >= Leave) <=> D >= Leave
  BY <1>1, BestSeen DEF NoCell, Cells
<1>3. D > Enter /\ t - since >= TimeToTrigger
  BY DEF Execute, Triggered, Entered
<1>4. ho' = HandedOver(ho, t, n)
  BY <1>2 DEF Execute, NextHandover
<1>5. moves' = Append(moves, move)
  BY DEF Execute
<1>6. aboveAt = Since(above, TRUE, t)
  <2>1. (\E c \in Neighbours(ho, m) : Delta(ho, m, c) >= Leave) <=> TRUE
    BY <1>1, <1>2, <1>3
  <2> HIDE DEF n, D
  <2> QED BY <2>1 DEF AboveAt
<1>7. enteredAt \in Times
  BY <1>2 DEF EnteredAt, HandoverInv, HandoverTypes, Times
<1>8. since = IF ho.pending = n THEN ho.since ELSE t
  BY DEF PendingSince
<1>9. /\ entered' = [c \in Cells |-> Never]
      /\ best' = [c \in Cells |-> Never]
      /\ above' = Never
  BY DEF Execute
<1> HIDE DEF n, D, since, enteredAt, aboveAt
<1>10. /\ tick \in Times /\ tick < t /\ above \in Times /\ above <= tick
       /\ ho.last \in Times /\ ho.last <= tick /\ moves \in Seq(MoveRecords)
       /\ ho.serving \in Cells /\ ho.count \in Nat /\ ho.pingPong \in Nat
  BY <1>1 DEF HandoverInv, HandoverTypes, LastMoveHeld, HandoverStates, Times, Never
<1>11. PendingWitnessed /\ LastMoveHeld /\ NeverHasty /\ CountsHistory
  BY DEF HandoverInv
<1>12. since \in Nat /\ since <= t /\ since > ho.last
       /\ aboveAt \in Nat /\ aboveAt <= since
  <2>1. CASE ho.pending = n
    <3>1. since = ho.since /\ aboveAt = above
      BY <1>2, <1>6, <1>8, <1>11, <2>1 DEF PendingWitnessed, Since
    <3> QED BY <1>2, <1>10, <1>11, <2>1, <3>1 DEF PendingWitnessed, Times
  <2>2. CASE ho.pending # n
    BY <1>6, <1>8, <1>10, <2>2 DEF Since, Times, Never
  <2> QED BY <2>1, <2>2
<1>13. move \in MoveRecords /\ move.tick = t /\ move.to = n /\ move.from = ho.serving
       /\ move.above = aboveAt
  BY <1>2, <1>7, <1>10, <1>12 DEF MoveRecords, Times
<1> HIDE DEF move
<1> DEFINE len == Len(moves)
<1>14. /\ len \in Nat /\ Moves = 1..len
       /\ moves' \in Seq(MoveRecords) /\ moves' # <<>> /\ Len(moves') = len + 1
       /\ Moves' = 1..(len + 1)
       /\ \A i \in 1..len : moves'[i] = moves[i]
       /\ moves'[len + 1] = move
       /\ moves = <<>> <=> len = 0
  BY <1>5, <1>10, <1>13, LenProperties, EmptySeq, AppendProperties DEF Moves
<1>15. \A i \in 1..len : moves[i] \in MoveRecords /\ moves[i].tick \in Nat
  <2> SUFFICES ASSUME NEW i \in 1..len
               PROVE  moves[i] \in MoveRecords /\ moves[i].tick \in Nat
    OBVIOUS
  <2>1. moves[i] \in MoveRecords
    BY <1>10, ElementOfSeq
  <2> QED BY <2>1 DEF MoveRecords
<1> HIDE DEF len
<1>16. /\ ho'.serving = n /\ ho'.pending = NoCell /\ ho'.since = Never
       /\ ho'.previous = ho.serving /\ ho'.last = t /\ ho'.until = t + Interruption
       /\ ho'.count = ho.count + 1
       /\ ho'.pingPong = IF Returns(ho, t, n) THEN ho.pingPong + 1 ELSE ho.pingPong
  BY <1>4 DEF HandedOver
<1>17. HandoverTypes'
  <2>1. ho' \in HandoverStates(Cells)
    BY <1>1, <1>2, <1>4, <1>10 DEF HandedOver, HandoverStates
  <2>2. entered' \in [Cells -> Times] /\ best' \in [Cells -> Times] /\ above' \in Times
    BY <1>9 DEF Times
  <2>3. above' <= t /\ \A c \in Cells : best'[c] <= t
    BY <1>9 DEF Never
  <2> QED BY <1>14, <2>1, <2>2, <2>3 DEF HandoverTypes, Times
<1>18. LastMoveHeld'
  <2>1. \A i \in 1..(len + 1) : moves'[i].tick <= t
    <3> SUFFICES ASSUME NEW i \in 1..(len + 1) PROVE moves'[i].tick <= t
      OBVIOUS
    <3>1. CASE i = len + 1
      BY <1>13, <1>14, <3>1
    <3>2. CASE i # len + 1
      <4>1. i \in 1..len
        BY <1>14, <3>2
      <4>2. moves'[i] = moves[i] /\ moves[i].tick \in Nat /\ moves[i].tick <= ho.last
        BY <1>11, <1>14, <1>15, <4>1 DEF LastMoveHeld
      <4> QED BY <1>10, <4>2 DEF Times, Never
    <3> QED BY <3>1, <3>2
  <2> QED BY <1>2, <1>13, <1>14, <1>16, <2>1 DEF LastMoveHeld, Never
<1>19. PendingWitnessed' /\ BestIsPending' /\ NeverLate'
  BY <1>9, <1>16 DEF PendingWitnessed, BestIsPending, NeverLate
<1>20. NeverHasty'
  <2> SUFFICES ASSUME NEW i \in 1..(len + 1)
               PROVE  /\ moves'[i].above # Never
                      /\ moves'[i].tick - moves'[i].above >= TimeToTrigger
                      /\ i > 1 => moves'[i].tick - moves'[i - 1].tick > TimeToTrigger
    BY <1>14 DEF NeverHasty
  <2>1. CASE i = len + 1
    <3>1. moves'[i].above # Never /\ moves'[i].tick - moves'[i].above >= TimeToTrigger
      BY <1>1, <1>3, <1>12, <1>13, <1>14, <2>1 DEF Never
    <3>2. ASSUME i > 1
          PROVE  moves'[i - 1].tick = ho.last /\ ho.last \in Nat
      <4>1. len # 0 /\ len \in 1..len /\ i - 1 = len
        BY <1>14, <2>1, <3>2
      <4>2. moves'[i - 1] = moves[len] /\ moves[len].tick \in Nat /\ moves # <<>>
        BY <1>14, <1>15, <4>1
      <4> QED BY <1>11, <4>2 DEF LastMoveHeld, len
    <3>3. i > 1 => moves'[i].tick - moves'[i - 1].tick > TimeToTrigger
      BY <1>1, <1>3, <1>12, <1>13, <1>14, <2>1, <3>2
    <3> QED BY <3>1, <3>3
  <2>2. CASE i # len + 1
    <3>1. i \in 1..len /\ (i > 1 => i - 1 \in 1..len)
      BY <1>14, <2>2
    <3> QED BY <1>11, <1>14, <3>1 DEF NeverHasty
  <2> QED BY <2>1, <2>2
<1>21. CountsHistory'
  <2>1. /\ ho.count = len /\ ho.pingPong = Cardinality(Back(moves))
        /\ DOMAIN moves = 1..len /\ DOMAIN moves' = 1..(len + 1)
    BY <1>11, <1>14 DEF CountsHistory, Moves, len
  <2>2. IsFiniteSet(Back(moves)) /\ len + 1 \notin Back(moves)
    <3>1. IsFiniteSet(1..len) /\ Back(moves) \in SUBSET (1..len) /\ len + 1 \notin 1..len
      BY <1>14, <2>1, FS_Interval
    <3> QED BY <3>1, FS_Subset
  <2>3. ASSUME NEW i \in 1..len
        PROVE  i \in Back(moves') <=> i \in Back(moves)
    BY <1>14, <2>1, <2>3
  <2>4. len + 1 \in Back(moves') <=> Returns(ho, t, n)
    <3>1. CASE len = 0
      <4>1. ho.last = Never
        BY <1>11, <1>14, <3>1 DEF LastMoveHeld
      <4> QED BY <2>1, <3>1, <4>1 DEF Returns
    <3>2. CASE len # 0
      <4>1. /\ len \in 1..len /\ len + 1 \in 1..(len + 1) /\ len + 1 # 1
            /\ (len + 1) - 1 = len /\ moves'[len] = moves[len]
        BY <1>14, <3>2
      <4>2. ho.last = moves[len].tick /\ ho.previous = moves[len].from /\ ho.last # Never
        BY <1>11, <1>14, <1>15, <3>2, <4>1 DEF LastMoveHeld, len, Never
      <4> QED BY <1>13, <1>14, <2>1, <4>1, <4>2 DEF Returns
    <3> QED BY <3>1, <3>2
  <2>5. Back(moves') = IF Returns(ho, t, n) THEN Back(moves) \cup {len + 1} ELSE Back(moves)
    <3>1. Back(moves) \subseteq 1..len /\ Back(moves') \subseteq 1..(len + 1)
      BY <2>1
    <3>2. \A i : i \in 1..(len + 1) <=> i \in 1..len \/ i = len + 1
      BY <1>14
    <3> HIDE DEF Back
    <3> QED BY <2>2, <2>3, <2>4, <3>1, <3>2
  <2>6. Cardinality(Back(moves')) = ho'.pingPong
    <3> HIDE DEF Back
    <3>1. Cardinality(Back(moves) \cup {len + 1}) = Cardinality(Back(moves)) + 1
      BY <2>2, FS_AddElement
    <3>2. CASE Returns(ho, t, n)
      BY <1>16, <2>1, <2>5, <3>1, <3>2
    <3>3. CASE ~Returns(ho, t, n)
      BY <1>16, <2>1, <2>5, <3>3
    <3> QED BY <3>2, <3>3
  <2>7. ho'.count = Len(moves')
    BY <1>14, <1>16, <2>1
  <2> QED BY <2>6, <2>7 DEF CountsHistory, Moves
<1> QED BY <1>17, <1>18, <1>19, <1>20, <1>21 DEF HandoverInv

-----------------------------------------------------------------------------
(* The machines together.                                                  *)

AssociationInv ==
    HandoverInv /\ AvailabilityInv /\ available \in BOOLEAN /\ OfferedWhenReachable

\* What the scheduler reads is computed from the state the handover left.
LEMMA OfferedStep ==
    ASSUME HandoverInv', NEW t \in Nat, tick' = t,
           NEW sinr \in Sinrs, UpdateAvailability(t, sinr)
    PROVE  available' \in BOOLEAN /\ OfferedWhenReachable'
<1>1. available' = (~av'.outage /\ t >= ho'.until)
  BY DEF UpdateAvailability, Reachable
<1>2. LastMoveHeld' /\ moves' \in Seq(MoveRecords) /\ Interruption \in Nat
  BY Settings DEF HandoverInv, HandoverTypes
<1>3. Moves' = 1..Len(moves') /\ Len(moves') \in Nat
  BY <1>2, LenProperties DEF Moves
<1>4. t >= ho'.until <=> \A i \in Moves' : t >= moves'[i].tick + Interruption
  <2>1. CASE moves' = <<>>
    <3>1. Moves' = {}
      BY <2>1 DEF Moves
    <3> QED BY <1>2, <2>1, <3>1 DEF LastMoveHeld
  <2>2. CASE moves' # <<>>
    <3>1. Len(moves') \in Moves'
      BY <1>2, <1>3, <2>2, EmptySeq
    <3>2. \A i \in Moves' : moves'[i].tick \in Nat
      <4> SUFFICES ASSUME NEW i \in Moves' PROVE moves'[i].tick \in Nat
        OBVIOUS
      <4>1. moves'[i] \in MoveRecords
        BY <1>2, <1>3, ElementOfSeq
      <4> QED BY <4>1 DEF MoveRecords
    <3>3. /\ ho'.last = moves'[Len(moves')].tick /\ ho'.until = ho'.last + Interruption
          /\ \A i \in Moves' : moves'[i].tick <= ho'.last
      BY <1>2, <2>2 DEF LastMoveHeld
    <3>4. ho'.last \in Nat
      BY <3>1, <3>2, <3>3
    <3> QED BY <1>2, <3>1, <3>2, <3>3, <3>4
  <2> QED BY <2>1, <2>2
<1> QED BY <1>1, <1>4 DEF OfferedWhenReachable

\* Every step of the system keeps the invariant, and outages are entered and
\* left on full dwells only.
LEMMA NextKeeps ==
    ASSUME AssociationInv, [Next]_vars
    PROVE  /\ AssociationInv'
           /\ ~av.outage /\ av'.outage => low' # Never /\ tick' - low' >= OutageDwell
           /\ av.outage /\ ~av'.outage => high' # Never /\ tick' - high' >= RecoveryDwell
<1>1. CASE Next
  <2>1. PICK t \in 0..Stop, m \in [Cells -> Levels], sinr \in Sinrs :
           /\ NextTick(t)
           /\ Associate(t, m) \/ Execute(t, m) \/ Stay(t, m)
           /\ UpdateAvailability(t, sinr)
    BY <1>1 DEF Next
  <2>2. t \in Nat /\ t = tick + 1 /\ tick' = t
    BY <2>1, AssociationAssumption DEF NextTick
  <2>3. HandoverInv'
    BY <2>1, <2>2, AssociateKeeps, ExecuteKeeps, StayKeeps DEF AssociationInv
  <2>4. available' \in BOOLEAN /\ OfferedWhenReachable'
    BY <2>1, <2>2, <2>3, OfferedStep
  <2> QED BY <2>1, <2>2, <2>3, <2>4, AvailabilityStep DEF AssociationInv
<1>2. CASE UNCHANGED vars
  BY <1>2 DEF AssociationInv, HandoverInv, HandoverTypes, LastMoveHeld, PendingWitnessed,
              BestIsPending, NeverHasty, NeverLate, CountsHistory, Moves, AvailabilityInv,
              DwellPrompt, OfferedWhenReachable, vars
<1> QED BY <1>1, <1>2

\* The machines' timers stay in step with what an observer has seen.
THEOREM Invariance == Spec => []AssociationInv
<1>1. Init => AssociationInv
  BY HandoverInit, AvailabilityInit DEF Init, AssociationInv, OfferedWhenReachable
<1>2. AssociationInv /\ [Next]_vars => AssociationInv'
  BY NextKeeps
<1> QED BY <1>1, <1>2, PTL DEF Spec

\* The states of both machines keep their types, and a candidate is pending
\* exactly while its waiting time runs.
THEOREM AssociationTypes == Spec => []TypeOK
<1>1. AssociationInv => TypeOK
  <2> SUFFICES ASSUME AssociationInv PROVE TypeOK
    OBVIOUS
  <2>1. HandoverTypes /\ LastMoveHeld /\ PendingWitnessed /\ AvailabilityInv
        /\ available \in BOOLEAN
    BY DEF AssociationInv, HandoverInv
  <2>2. ASSUME NEW i \in Moves PROVE moves[i].tick \in 0..tick
    <3>1. moves[i] \in MoveRecords
      BY <2>1, <2>2, LenProperties, ElementOfSeq DEF Moves, HandoverTypes
    <3>2. moves[i].tick \in Nat /\ moves[i].tick <= ho.last /\ ho.last <= tick
      BY <2>1, <3>1 DEF MoveRecords, LastMoveHeld
    <3>3. ho.last \in Int /\ tick \in Int
      BY <2>1 DEF HandoverTypes, HandoverStates, Times, Never
    <3> QED BY <3>2, <3>3
  <2>3. /\ tick \in Nat \cup {Never} /\ ho \in HandoverStates(Cells)
        /\ ho.pending = NoCell <=> ho.since = Never
        /\ ho.pending = NoCell \/ ho.pending # ho.serving
        /\ av \in AvailabilityStates
    BY <2>1 DEF HandoverTypes, PendingWitnessed, AvailabilityInv, Times, Never
  <2> QED BY <2>1, <2>2, <2>3 DEF TypeOK
<1> QED BY <1>1, Invariance, PTL

\* Handovers are at least the time to trigger apart and never without a
\* neighbour that was above the leave threshold for as long.
THEOREM HandoversNeverHasty == Spec => []NeverHasty
<1>1. AssociationInv => NeverHasty
  BY DEF AssociationInv, HandoverInv
<1> QED BY <1>1, Invariance, PTL

\* No neighbour is the entered best for the time to trigger untaken.
THEOREM HandoversNeverLate == Spec => []NeverLate
<1>1. AssociationInv => NeverLate
  BY DEF AssociationInv, HandoverInv
<1> QED BY <1>1, Invariance, PTL

\* The counters of handovers and of ping-pongs are those of the history.
THEOREM CountersCountHistory == Spec => []CountsHistory
<1>1. AssociationInv => CountsHistory
  BY DEF AssociationInv, HandoverInv
<1> QED BY <1>1, Invariance, PTL

\* No full dwell passes without the transition.
THEOREM DwellsArePrompt == Spec => []DwellPrompt
<1>1. AssociationInv => DwellPrompt
  BY DEF AssociationInv, AvailabilityInv
<1> QED BY <1>1, Invariance, PTL

\* The scheduler is offered exactly the UEs that are reachable.
THEOREM OffersAreReachable == Spec => []OfferedWhenReachable
<1>1. AssociationInv => OfferedWhenReachable
  BY DEF AssociationInv
<1> QED BY <1>1, Invariance, PTL

\* No outage begins or ends before its full dwell.
THEOREM DwellsAreComplete == Spec => DwellComplete
<1>1. AssociationInv /\ [Next]_vars =>
        [/\ ~av.outage /\ av'.outage => low' # Never /\ tick' - low' >= OutageDwell
         /\ av.outage /\ ~av'.outage => high' # Never /\ tick' - high' >= RecoveryDwell]_vars
  BY NextKeeps
<1> QED BY <1>1, Invariance, PTL DEF Spec, DwellComplete
==============================================================================
