------------------------------- MODULE Kernel -------------------------------
(***************************************************************************)
(* DeterministicKernel (kernel/engine.py): a priority queue of events in   *)
(* the order (tick, phase, entity, sequence), a run loop that dispatches   *)
(* each to its handler and schedules the follow-ups the handler returns.   *)
(*                                                                         *)
(* Handlers are the environment: one may return any short sequence of      *)
(* follow-ups, acceptable or not, or raise.  An exception leaves run() at  *)
(* once, with what the loop had already done, and the kernel object can    *)
(* still be used: schedule() and run() may be called again.  No handler of *)
(* the program calls schedule() or run() itself, so while run() is in      *)
(* progress events are added as follow-ups only.                           *)
(***************************************************************************)
EXTENDS Integers, Sequences, FiniteSets

CONSTANTS
    Events,        \* every event that may be scheduled
    Kinds,         \* event kinds that handlers are registered for
    MaxUntil,      \* bound: last stop tick passed to run()
    MaxFollowups   \* bound: follow-ups one handler returns

\* ScheduledEvent.__post_init__; entity keys stand by their lexical rank.
Event == [tick : Nat, phase : Nat, entity : Nat, seq : Nat, kind : Kinds]

ASSUME KernelAssumption ==
    /\ Events \subseteq Event
    /\ MaxUntil \in Nat
    /\ MaxFollowups \in Nat

VARIABLES
    heap,      \* _heap: events scheduled and not yet popped
    known,     \* _known_event_ids
    handlers,  \* _handlers: kinds with a handler
    trace,     \* _trace: events processed, in order
    last,      \* _last_key: the last event dispatched, <<>> before the first
    now,       \* current_tick
    until,     \* argument of the run() in progress, -1 outside run()
    lost       \* history: events popped whose handler raised or was missing
vars == <<heap, known, handlers, trace, last, now, until, lost>>

\* order_key compares as a Python tuple does.
Before(a, b) ==
    \/ a.tick < b.tick
    \/ a.tick = b.tick /\ a.phase < b.phase
    \/ a.tick = b.tick /\ a.phase = b.phase /\ a.entity < b.entity
    \/ a.tick = b.tick /\ a.phase = b.phase /\ a.entity = b.entity /\ a.seq < b.seq

SameKey(a, b) == a = [b EXCEPT !.kind = a.kind]

Running == until # -1

Init ==
    /\ heap = {} /\ known = {} /\ handlers = {} /\ lost = {}
    /\ trace = <<>> /\ last = <<>>
    /\ now = 0 /\ until = -1

\* Mutants of Acceptable: an event may precede the last one dispatched, lie
\* in the past, or be scheduled a second time.
AcceptableBehind(e, c, l, ids, pending) ==
    e.tick >= c /\ e \notin ids /\ \A h \in pending : ~SameKey(h, e)
AcceptablePast(e, c, l, ids, pending) ==
    /\ l # <<>> => Before(l[1], e)
    /\ e \notin ids
    /\ \A h \in pending : ~SameKey(h, e)
AcceptableAgain(e, c, l, ids, pending) ==
    /\ e.tick >= c
    /\ l # <<>> => Before(l[1], e)
    /\ \A h \in pending : ~SameKey(h, e)

\* The checks of schedule(), against a clock c, a last event l and what is
\* already known and pending.  An event's id is a digest of key and kind.
Acceptable(e, c, l, ids, pending) ==
    /\ e.tick >= c
    /\ l # <<>> => Before(l[1], e)
    /\ e \notin ids
    /\ \A h \in pending : ~SameKey(h, e)

-----------------------------------------------------------------------------
RegisterHandler(k) ==
    /\ ~Running
    /\ k \notin handlers
    /\ handlers' = handlers \cup {k}
    /\ UNCHANGED <<heap, known, trace, last, now, until, lost>>

Schedule(e) ==
    /\ ~Running
    /\ Acceptable(e, now, last, known, heap)
    /\ heap' = heap \cup {e}
    /\ known' = known \cup {e}
    /\ UNCHANGED <<handlers, trace, last, now, until, lost>>

StartRun(stop) ==
    /\ ~Running
    /\ stop >= now
    /\ until' = stop
    /\ UNCHANGED <<heap, known, handlers, trace, last, now, lost>>

\* heappop, for an event the loop still has to run.
IsNext(e) ==
    /\ Running
    /\ e \in heap
    /\ \A h \in heap \ {e} : Before(e, h)
    /\ e.tick <= until

\* The event is popped before the handler is looked up.
DispatchUnhandled(e) ==
    /\ IsNext(e)
    /\ e.kind \notin handlers
    /\ heap' = heap \ {e}
    /\ lost' = lost \cup {e}
    /\ until' = -1
    /\ UNCHANGED <<known, handlers, trace, last, now>>

HandlerRaises(e) ==
    /\ IsNext(e)
    /\ e.kind \in handlers
    /\ heap' = heap \ {e}
    /\ now' = e.tick /\ last' = <<e>>
    /\ lost' = lost \cup {e}
    /\ until' = -1
    /\ UNCHANGED <<known, handlers, trace>>

\* Whether schedule() accepts follow-up i once it has accepted those before.
AcceptedAfter(e, followups, i) ==
    LET earlier == {followups[j] : j \in 1..(i - 1)}
    IN  Acceptable(followups[i], e.tick, <<e>>, known \cup earlier,
                   (heap \ {e}) \cup earlier)

\* How many of the follow-ups schedule() accepts, in order, before it raises.
AcceptedPrefix(e, followups) ==
    CHOOSE n \in 0..Len(followups) :
        /\ \A i \in 1..n : AcceptedAfter(e, followups, i)
        /\ n < Len(followups) => ~AcceptedAfter(e, followups, n + 1)

\* A follow-up that schedule() rejects ends run(), after the event has been
\* traced and the follow-ups before it have been scheduled.
Dispatch(e, followups) ==
    /\ IsNext(e)
    /\ e.kind \in handlers
    /\ LET n   == AcceptedPrefix(e, followups)
           new == {followups[i] : i \in 1..n}
       IN  /\ heap' = (heap \ {e}) \cup new
           /\ known' = known \cup new
           /\ until' = IF n < Len(followups) THEN -1 ELSE until
    /\ now' = e.tick /\ last' = <<e>>
    /\ trace' = Append(trace, e)
    /\ UNCHANGED <<handlers, lost>>

\* Mutant of FinishRun: the stop tick is exclusive.
FinishBeforeStop ==
    /\ Running
    /\ \A h \in heap : h.tick >= until
    /\ now' = until
    /\ until' = -1
    /\ UNCHANGED <<heap, known, handlers, trace, last, lost>>

FinishRun ==
    /\ Running
    /\ \A h \in heap : h.tick > until
    /\ now' = until
    /\ until' = -1
    /\ UNCHANGED <<heap, known, handlers, trace, last, lost>>

Followups == UNION {[1..n -> Events] : n \in 0..MaxFollowups}

Next ==
    \/ \E k \in Kinds : RegisterHandler(k)
    \/ \E e \in Events : Schedule(e)
    \/ \E stop \in 0..MaxUntil : StartRun(stop)
    \/ \E e \in heap : DispatchUnhandled(e)
    \/ \E e \in heap : HandlerRaises(e)
    \/ \E e \in heap, f \in Followups : Dispatch(e, f)
    \/ FinishRun

Spec == Init /\ [][Next]_vars

-----------------------------------------------------------------------------
(* Properties.                                                             *)

Processed == {trace[i] : i \in DOMAIN trace}

TypeOK ==
    /\ heap \subseteq Events /\ known \subseteq Events /\ lost \subseteq Events
    /\ handlers \subseteq Kinds
    /\ trace \in Seq(Events)
    /\ last = <<>> \/ last \in [1..1 -> Events]
    /\ now \in Nat
    /\ until \in Nat \cup {-1}

\* The trace is strictly increasing in the complete order of ADR-0001,
\* across follow-ups, failed handlers and successive calls of run(): it is a
\* function of the set of events and not of the order they were scheduled in
\* (TIME-004).
TraceOrdered ==
    \A i, j \in DOMAIN trace : i < j => Before(trace[i], trace[j])

\* Nothing pending lies behind the clock or behind what was dispatched: the
\* "non-monotonic output" check of run() can never fire (TIME-009).
PendingAhead ==
    \A h \in heap : h.tick >= now /\ (last # <<>> => Before(last[1], h))

\* An accepted event is pending, processed or, when its handler raised,
\* lost, and only one of these; none is processed that was not accepted.
ExactlyOnce ==
    /\ known = heap \cup Processed \cup lost
    /\ heap \cap Processed = {} /\ heap \cap lost = {} /\ Processed \cap lost = {}
    /\ \A i, j \in DOMAIN trace : trace[i] = trace[j] => i = j

\* When run() returns, every accepted event up to its stop tick has been
\* dispatched, those scheduled by handlers during the run included.
RunReachesStop ==
    [][Running /\ ~Running' /\ now' = until /\ trace' = trace /\ lost' = lost
       => \A e \in known : e.tick <= until => e \in Processed \cup lost]_vars
=============================================================================
