------------------------------ MODULE Correlate ------------------------------
(***************************************************************************)
(* The correlator of internal/correlate/correlate.go: ingesters (Buses)    *)
(* call Emit, which stamps an event and offers it to a bounded channel     *)
(* without blocking; one goroutine, Run, folds the events into traces and  *)
(* flushes them into a ring that ServeHTTP copies.                         *)
(*                                                                         *)
(* Time is counted in periods of Run's 250 ms ticker.  An event's Bus,     *)
(* Kind, Key and Detail are abstracted to a number that tells events       *)
(* apart; the name of a trace (acc.root) is that of its first event.       *)
(***************************************************************************)
EXTENDS Integers, Sequences

CONSTANTS
    Buses,      \* the goroutines that call Emit
    Cap,        \* capacity of the channel (1024)
    Window,     \* largest gap for an event to join the active trace (3 s)
    Idle,       \* the active trace is flushed after this much quiet (3 s)
    Warmup,     \* follow-only bursts are ignored for this long (15 s)
    MinChurn,   \* a churn trace with fewer events is dropped (3)
    RingMax,    \* traces kept (50)
    MaxEvents,  \* bound of the model: events emitted
    LastEmit,   \* bound of the model: no event is stamped after this time
    Horizon     \* bound of the model: the clock stops here, its ticks do not

ASSUME CorrelateAssumption ==
    /\ Cap \in Nat \ {0} /\ RingMax \in Nat \ {0}
    /\ Window \in Nat /\ Idle \in Nat /\ Warmup \in Nat /\ MinChurn \in Nat
    /\ MaxEvents \in Nat /\ LastEmit \in Nat /\ Horizon \in Nat

VARIABLES
    now,        \* the wall clock
    tick,       \* tick.C: a channel of capacity one
    running,    \* Run has executed its first statement
    started,    \* Correlator.started
    emitted,    \* events stamped so far; numbers the events
    pending,    \* per bus: the event stamped but not yet offered, if any
    ch,         \* Correlator.ch
    active,     \* Run's active accumulator; no events stands for nil
    ring,       \* Correlator.ring
    seq         \* Correlator.seq

vars == <<now, tick, running, started, emitted, pending, ch, active, ring, seq>>

Event == [id : Nat, root : BOOLEAN, ts : Nat]
Acc   == [start : Nat, last : Nat, churn : BOOLEAN, events : Seq(Event)]
Span  == [off : Int, id : Nat, root : BOOLEAN]
Trace == [id : Nat, churn : BOOLEAN, start : Nat, span : Int, spans : Seq(Span)]

NoTrace == [start |-> 0, last |-> 0, churn |-> FALSE, events |-> <<>>]
IsActive == active.events # <<>>

Init ==
    /\ now = 0 /\ tick = <<>>
    /\ running = FALSE /\ started = 0
    /\ emitted = 0
    /\ pending = [b \in Buses |-> <<>>]
    /\ ch = <<>>
    /\ active = NoTrace
    /\ ring = <<>> /\ seq = 0
-----------------------------------------------------------------------------
(* Time.  The ticker drops a tick its reader has not made room for.        *)
Clock ==
    /\ now' = IF now < Horizon THEN now + 1 ELSE Horizon
    /\ tick' = IF running /\ tick = <<>> THEN <<now'>> ELSE tick
    /\ UNCHANGED <<running, started, emitted, pending, ch, active, ring, seq>>

(* Emit evaluates time.Now() as an operand of the send ...                 *)
Stamp(b, root) ==
    /\ pending[b] = <<>>
    /\ emitted < MaxEvents /\ now <= LastEmit
    /\ emitted' = emitted + 1
    /\ pending' = [pending EXCEPT ![b] = <<[id |-> emitted + 1, root |-> root, ts |-> now]>>]
    /\ UNCHANGED <<now, tick, running, started, ch, active, ring, seq>>

(* ... and then sends, or drops the event when the buffer is full.         *)
Send(b) ==
    /\ pending[b] # <<>>
    /\ ch' = IF Len(ch) < Cap THEN Append(ch, Head(pending[b])) ELSE ch
    /\ pending' = [pending EXCEPT ![b] = <<>>]
    /\ UNCHANGED <<now, tick, running, started, emitted, active, ring, seq>>
-----------------------------------------------------------------------------
(* flush: a churn trace with too few events is dropped, any other trace    *)
(* takes the next number and enters the ring, which keeps the newest.      *)
DiscardsShort(a) == Len(a.events) < MinChurn    \* a fault: roots count as churn
Discards(a) == a.churn /\ Len(a.events) < MinChurn

TraceOf(a, n) ==
    [id |-> n, churn |-> a.churn, start |-> a.start, span |-> a.last - a.start,
     spans |-> [i \in 1..Len(a.events) |->
                   [off |-> a.events[i].ts - a.start,
                    id |-> a.events[i].id, root |-> a.events[i].root]]]

Newest(s) == IF Len(s) > RingMax THEN SubSeq(s, Len(s) - RingMax + 1, Len(s)) ELSE s

FlushNumbersAll ==              \* a fault: the number is taken before the check
    /\ seq' = seq + 1
    /\ ring' = IF Discards(active) THEN ring
               ELSE Newest(Append(ring, TraceOf(active, seq + 1)))
Flush ==
    \/ /\ Discards(active)
       /\ UNCHANGED <<ring, seq>>
    \/ /\ ~Discards(active)
       /\ seq' = seq + 1
       /\ ring' = Newest(Append(ring, TraceOf(active, seq + 1)))

(* Run, case e := <-c.ch.                                                  *)
Expired(e) == IsActive /\ e.ts - active.last > Window
WarmingUp  == now - started < Warmup

OpenedEarly(e) ==               \* a fault: the last event is set back by a window
    [start |-> e.ts, last |-> e.ts - Window, churn |-> ~e.root, events |-> <<e>>]
Opened(e) == [start |-> e.ts, last |-> e.ts, churn |-> ~e.root, events |-> <<e>>]
JoinedKeepsLast(e) == [active EXCEPT !.events = Append(@, e)]  \* a fault: last is stale
Joined(e) == [active EXCEPT !.last = e.ts, !.events = Append(@, e)]

Receive ==
    /\ running /\ ch # <<>>
    /\ ch' = Tail(ch)
    /\ UNCHANGED <<now, tick, running, started, emitted, pending>>

Join ==
    /\ Receive
    /\ IsActive /\ ~Expired(Head(ch))
    /\ active' = Joined(Head(ch))
    /\ UNCHANGED <<ring, seq>>

Begin ==
    /\ Receive
    /\ \/ Expired(Head(ch)) /\ Flush
       \/ ~IsActive /\ UNCHANGED <<ring, seq>>
    /\ LET ignored == ~Head(ch).root /\ WarmingUp IN
       \/ ignored /\ active' = NoTrace
       \/ ~ignored /\ active' = Opened(Head(ch))

(* Run, case now := <-tick.C, with the time at which the tick fired.       *)
OnTickKeeps ==                  \* a fault: the flushed trace stays active
    /\ running /\ tick # <<>>
    /\ tick' = <<>>
    /\ IF IsActive /\ Head(tick) - active.last > Idle THEN Flush ELSE UNCHANGED <<ring, seq>>
    /\ UNCHANGED <<now, running, started, emitted, pending, ch, active>>
OnTick ==
    /\ running /\ tick # <<>>
    /\ tick' = <<>>
    /\ \/ /\ IsActive /\ Head(tick) - active.last > Idle
          /\ Flush
          /\ active' = NoTrace
       \/ /\ ~(IsActive /\ Head(tick) - active.last > Idle)
          /\ UNCHANGED <<active, ring, seq>>
    /\ UNCHANGED <<now, running, started, emitted, pending, ch>>

(* main starts Run in a goroutine of its own: ingesters may emit before it.*)
Start ==
    /\ ~running
    /\ running' = TRUE /\ started' = now
    /\ UNCHANGED <<now, tick, emitted, pending, ch, active, ring, seq>>

RunStep == Start \/ Join \/ Begin \/ OnTick

Next ==
    \/ Clock
    \/ \E b \in Buses : Send(b) \/ \E root \in BOOLEAN : Stamp(b, root)
    \/ RunStep

Spec == Init /\ [][Next]_vars

(* Goroutines are scheduled and the clock goes on; nothing is promised     *)
(* about the environment that makes ingesters call Emit.                   *)
Fairness ==
    /\ \A b \in Buses : WF_vars(Send(b))
    /\ WF_vars(Clock) /\ WF_vars(RunStep)

FairSpec == Spec /\ Fairness
-----------------------------------------------------------------------------
(* Type invariant of the correlator's state.                               *)
TypeOK ==
    /\ now \in Nat /\ tick \in Seq(Nat)
    /\ running \in BOOLEAN /\ started \in Nat
    /\ emitted \in Nat /\ seq \in Nat
    /\ pending \in [Buses -> Seq(Event)]
    /\ ch \in Seq(Event)
    /\ active \in Acc
    /\ ring \in Seq(Trace)

(* The ring holds the newest traces, without a gap: its numbers are the    *)
(* last RingMax (or all) of 1..seq, in order.  A dropped churn trace uses  *)
(* no number (flush, correlate.go:141-167).                                *)
RingIsRecent ==
    /\ Len(ring) = IF seq < RingMax THEN seq ELSE RingMax
    /\ \A i \in 1..Len(ring) : ring[i].id = seq - Len(ring) + i

(* No event of one trace is further than Window after the one before it,   *)
(* the first span is the root at offset zero, and SpanMs is the offset of  *)
(* the last span, even when timestamps of two buses arrive out of order    *)
(* (Run, correlate.go:107-127, and flush).                                 *)
AccCoherent(a) ==
    /\ a.events[1].ts = a.start
    /\ a.events[Len(a.events)].ts = a.last
    /\ \A i \in 1..(Len(a.events) - 1) :
          a.events[i + 1].ts - a.events[i].ts <= Window
TraceCoherent(t) ==
    /\ Len(t.spans) > 0 /\ t.spans[1].off = 0
    /\ t.spans[Len(t.spans)].off = t.span
    /\ \A i \in 1..(Len(t.spans) - 1) :
          t.spans[i + 1].off - t.spans[i].off <= Window
TimelineCoherent ==
    /\ IsActive => AccCoherent(active)
    /\ \A k \in 1..Len(ring) : TraceCoherent(ring[k])

(* An event is in one place only, the channel, the active trace or one     *)
(* published trace, and once: flushing must clear the active trace         *)
(* (correlate.go:107-110 and 129-132).                                     *)
Ids(s) == [i \in 1..Len(s) |-> s[i].id]
Places == <<Ids(ch), Ids(active.events)>> \o [k \in 1..Len(ring) |-> Ids(ring[k].spans)]
NoEventTwice ==
    \A k, l \in DOMAIN Places : \A i \in DOMAIN Places[k], j \in DOMAIN Places[l] :
        Places[k][i] = Places[l][j] => k = l /\ i = j

(* Every event that a trace opened by a root event has taken is published  *)
(* in the end, the root itself and what joined it: the tick flushes the    *)
(* trace even if no other event ever arrives (correlate.go:128-132), and   *)
(* flush keeps it however short it is (correlate.go:141).                  *)
TakenByRoot(n) == ~active.churn /\ \E i \in 1..Len(active.events) : active.events[i].id = n
Published(n) == \E k \in 1..Len(ring) : \E i \in 1..Len(ring[k].spans) : ring[k].spans[i].id = n
RootTracePublished == \A n \in 1..MaxEvents : TakenByRoot(n) ~> Published(n)
=============================================================================
