--------------------------- MODULE Correlate_proofs ---------------------------
(***************************************************************************)
(* Proofs about Correlate, for every set of buses, every capacity of the   *)
(* channel and of the ring, every window, and any number of events.        *)
(***************************************************************************)
EXTENDS Correlate, SequenceTheorems, TLAPS

(* The ring's cut c.ring[len(c.ring)-c.max:] keeps the last RingMax.       *)
LEMMA NewestProperties ==
  ASSUME NEW S, NEW s \in Seq(S), RingMax \in Nat \ {0}
  PROVE  /\ Newest(s) \in Seq(S)
         /\ Len(Newest(s)) = IF Len(s) > RingMax THEN RingMax ELSE Len(s)
         /\ \A i \in 1..Len(Newest(s)) :
               Newest(s)[i] = s[Len(s) - Len(Newest(s)) + i]
<1>1. CASE Len(s) > RingMax
  <2> DEFINE m == Len(s) - RingMax + 1
  <2>1. Newest(s) = SubSeq(s, m, Len(s))
    BY <1>1 DEF Newest
  <2>2. m \in 1..Len(s) /\ Len(s) \in Int
    BY <1>1
  <2>3. \A i \in m..Len(s) : s[i] \in S
    BY <2>2
  <2>4. /\ SubSeq(s, m, Len(s)) \in Seq(S)
        /\ Len(SubSeq(s, m, Len(s))) = RingMax
        /\ \A i \in 1..(Len(s) - m + 1) : SubSeq(s, m, Len(s))[i] = s[m + i - 1]
    BY <2>2, <2>3, SubSeqProperties
  <2> QED BY <1>1, <2>1, <2>4
<1>2. CASE ~(Len(s) > RingMax)
  BY <1>2 DEF Newest
<1> QED BY <1>1, <1>2

(* The trace made of an accumulator has one span per event.                *)
LEMMA TraceOfType ==
  ASSUME NEW a \in Acc, NEW n \in Nat
  PROVE  /\ TraceOf(a, n) \in Trace
         /\ TraceOf(a, n).id = n
         /\ TraceOf(a, n).span = a.last - a.start
         /\ Len(TraceOf(a, n).spans) = Len(a.events)
         /\ \A i \in 1..Len(a.events) :
               TraceOf(a, n).spans[i].off = a.events[i].ts - a.start
<1> DEFINE spans == [i \in 1..Len(a.events) |->
                        [off |-> a.events[i].ts - a.start,
                         id |-> a.events[i].id, root |-> a.events[i].root]]
<1>1. /\ a.events \in Seq(Event) /\ a.start \in Nat /\ a.last \in Nat
      /\ a.churn \in BOOLEAN /\ Len(a.events) \in Nat
  BY DEF Acc
<1>2. \A i \in 1..Len(a.events) : spans[i] \in Span
  <2>1. TAKE i \in 1..Len(a.events)
  <2>2. a.events[i] \in Event
    BY <1>1, ElementOfSeq
  <2> QED BY <1>1, <2>2 DEF Event, Span
<1>3. spans \in Seq(Span) /\ Len(spans) = Len(a.events)
  <2>1. spans \in [1..Len(a.events) -> Span]
    BY <1>2
  <2> HIDE DEF spans
  <2> QED BY <1>1, <2>1
<1>4. \A i \in 1..Len(a.events) : spans[i].off = a.events[i].ts - a.start
  OBVIOUS
<1> HIDE DEF spans
<1>5. TraceOf(a, n) = [id |-> n, churn |-> a.churn, start |-> a.start,
                       span |-> a.last - a.start, spans |-> spans]
  BY DEF TraceOf, spans
<1> QED BY <1>1, <1>3, <1>4, <1>5 DEF Trace

(* What flush does to the ring and its numbers.                            *)
LEMMA FlushEffect ==
  ASSUME RingMax \in Nat \ {0}, TypeOK, Flush
  PROVE  \/ ring' = ring /\ seq' = seq
         \/ /\ seq' = seq + 1
            /\ ring' = Newest(Append(ring, TraceOf(active, seq + 1)))
  BY DEF Flush

(* A flush keeps the ring a sequence of traces (correlate.go:137-168).     *)
LEMMA FlushType ==
  ASSUME RingMax \in Nat \ {0}, TypeOK, Flush
  PROVE  ring' \in Seq(Trace) /\ seq' \in Nat
<1>1. TraceOf(active, seq + 1) \in Trace
  BY TraceOfType DEF TypeOK
<1>2. Append(ring, TraceOf(active, seq + 1)) \in Seq(Trace)
  BY <1>1 DEF TypeOK
<1>3. Newest(Append(ring, TraceOf(active, seq + 1))) \in Seq(Trace)
  BY <1>2, NewestProperties
<1>4. CASE ring' = ring /\ seq' = seq
  BY <1>4 DEF TypeOK
<1>5. CASE seq' = seq + 1 /\ ring' = Newest(Append(ring, TraceOf(active, seq + 1)))
  BY <1>3, <1>5 DEF TypeOK
<1> QED BY <1>4, <1>5, FlushEffect

-----------------------------------------------------------------------------
(* The type invariant, for every value of the constants.                   *)
THEOREM TypeCorrect == Spec => []TypeOK
<1> USE CorrelateAssumption DEF CorrelateAssumption
<1>1. Init => TypeOK
  <2> SUFFICES ASSUME Init PROVE TypeOK
    OBVIOUS
  <2>1. NoTrace \in Acc
    BY EmptySeq DEF NoTrace, Acc
  <2>2. /\ tick \in Seq(Nat) /\ ch \in Seq(Event) /\ ring \in Seq(Trace)
        /\ pending \in [Buses -> Seq(Event)]
    BY EmptySeq DEF Init
  <2> QED BY <2>1, <2>2 DEF Init, TypeOK
<1>2. TypeOK /\ [Next]_vars => TypeOK'
  <2> SUFFICES ASSUME TypeOK, [Next]_vars PROVE TypeOK'
    OBVIOUS
  <2> USE DEF TypeOK
  <2>0. NoTrace \in Acc
    BY EmptySeq DEF NoTrace, Acc
  <2>1. CASE Clock
    <3>1. now' \in Nat
      BY <2>1 DEF Clock
    <3>2. tick' \in Seq(Nat)
      BY <2>1, <3>1 DEF Clock
    <3> QED BY <2>1, <3>1, <3>2 DEF Clock
  <2>2. ASSUME NEW b \in Buses, NEW root \in BOOLEAN, Stamp(b, root) PROVE TypeOK'
    <3> DEFINE e == [id |-> emitted + 1, root |-> root, ts |-> now]
    <3>1. <<e>> \in Seq(Event)
      BY DEF Event
    <3>2. pending' = [pending EXCEPT ![b] = <<e>>]
      BY <2>2 DEF Stamp
    <3> HIDE DEF e
    <3>3. pending' \in [Buses -> Seq(Event)]
      BY <3>1, <3>2
    <3> QED BY <2>2, <3>3 DEF Stamp
  <2>3. ASSUME NEW b \in Buses, Send(b) PROVE TypeOK'
    <3>1. Head(pending[b]) \in Event
      BY <2>3 DEF Send
    <3>2. ch' \in Seq(Event)
      BY <2>3, <3>1 DEF Send
    <3>3. pending' \in [Buses -> Seq(Event)]
      BY <2>3, EmptySeq DEF Send
    <3> QED BY <2>3, <3>2, <3>3 DEF Send
  <2>4. ASSUME Receive
        PROVE  /\ ch' \in Seq(Event) /\ Head(ch) \in Event
               /\ Joined(Head(ch)) \in Acc /\ Opened(Head(ch)) \in Acc
               /\ UNCHANGED <<now, tick, running, started, emitted, pending>>
    <3>1. ch' \in Seq(Event) /\ Head(ch) \in Event
      BY <2>4, HeadTailProperties DEF Receive
    <3>2. Append(active.events, Head(ch)) \in Seq(Event) /\ <<Head(ch)>> \in Seq(Event)
      BY <3>1 DEF Acc
    <3>3. Joined(Head(ch)) \in Acc
      BY <3>1, <3>2 DEF Joined, Acc, Event
    <3>4. Opened(Head(ch)) \in Acc
      BY <3>1, <3>2 DEF Opened, Acc, Event
    <3> QED BY <2>4, <3>1, <3>3, <3>4 DEF Receive
  <2>5. CASE Join
    BY <2>4, <2>5 DEF Join
  <2>6. CASE Begin
    <3>1. active' \in Acc
      BY <2>0, <2>4, <2>6 DEF Begin
    <3>2. ring' \in Seq(Trace) /\ seq' \in Nat
      BY <2>6, FlushType DEF Begin
    <3> QED BY <2>4, <2>6, <3>1, <3>2 DEF Begin
  <2>7. CASE OnTick
    <3>1. active' \in Acc
      BY <2>0, <2>7 DEF OnTick
    <3>2. ring' \in Seq(Trace) /\ seq' \in Nat
      BY <2>7, FlushType DEF OnTick
    <3> QED BY <2>7, <3>1, <3>2, EmptySeq DEF OnTick
  <2>8. CASE Start
    BY <2>8 DEF Start
  <2>9. CASE UNCHANGED vars
    BY <2>9 DEF vars
  <2> QED
    BY <2>1, <2>2, <2>3, <2>5, <2>6, <2>7, <2>8, <2>9 DEF Next, RunStep
<1> QED BY <1>1, <1>2, PTL DEF Spec

-----------------------------------------------------------------------------
(* Flushing keeps the ring the newest traces, numbered without a gap.      *)
LEMMA FlushKeepsRingRecent ==
  ASSUME RingMax \in Nat \ {0}, TypeOK, RingIsRecent, Flush
  PROVE  RingIsRecent'
<1> DEFINE t == TraceOf(active, seq + 1)
           s == Append(ring, t)
<1>1. CASE ring' = ring /\ seq' = seq
  BY <1>1 DEF RingIsRecent
<1>2. CASE seq' = seq + 1 /\ ring' = Newest(s)
  <2>1. t \in Trace /\ t.id = seq + 1
    BY TraceOfType DEF TypeOK
  <2> HIDE DEF t
  <2>2. /\ s \in Seq(Trace) /\ Len(s) = Len(ring) + 1 /\ Len(s) \in Nat
        /\ \A i \in 1..Len(ring) : s[i] = ring[i]
        /\ s[Len(ring) + 1] = t
    BY <2>1 DEF TypeOK
  <2>3. \A i \in 1..Len(s) : s[i].id = seq' - Len(s) + i
    <3>1. TAKE i \in 1..Len(s)
    <3>2. CASE i = Len(s)
      BY <1>2, <2>1, <2>2, <3>2 DEF TypeOK
    <3>3. CASE i # Len(s)
      <4>1. i \in 1..Len(ring)
        BY <2>2, <3>3
      <4>2. s[i].id = seq - Len(ring) + i
        BY <2>2, <4>1 DEF RingIsRecent
      <4> QED BY <1>2, <2>2, <4>2 DEF TypeOK
    <3> QED BY <3>2, <3>3
  <2> HIDE DEF s
  <2>4. /\ ring' \in Seq(Trace)
        /\ Len(ring') = IF Len(s) > RingMax THEN RingMax ELSE Len(s)
        /\ \A i \in 1..Len(ring') : ring'[i] = s[Len(s) - Len(ring') + i]
    BY <1>2, <2>2, NewestProperties, ZenonT(60)
  <2>5. Len(ring') = IF seq' < RingMax THEN seq' ELSE RingMax
    BY <1>2, <2>2, <2>4 DEF RingIsRecent, TypeOK
  <2>6. ASSUME NEW i \in 1..Len(ring')
        PROVE  ring'[i].id = seq' - Len(ring') + i
    <3>1. Len(s) - Len(ring') + i \in 1..Len(s) /\ Len(ring') \in Nat /\ Len(ring') <= Len(s)
      BY <2>2, <2>4
    <3>2. s[Len(s) - Len(ring') + i].id = seq' - Len(s) + (Len(s) - Len(ring') + i)
      BY <2>3, <3>1
    <3>3. ring'[i] = s[Len(s) - Len(ring') + i]
      BY <2>4
    <3>4. seq' \in Nat
      BY <1>2 DEF TypeOK
    <3>5. seq' - Len(s) + (Len(s) - Len(ring') + i) = seq' - Len(ring') + i
      BY <2>2, <3>1, <3>4
    <3> QED BY <3>2, <3>3, <3>5
  <2> QED BY <2>5, <2>6 DEF RingIsRecent
<1> QED BY <1>1, <1>2, FlushEffect

(* The ring holds the newest traces, numbered up to seq without a gap.     *)
THEOREM RingRecent == Spec => []RingIsRecent
<1> USE CorrelateAssumption DEF CorrelateAssumption
<1>1. Init => RingIsRecent
  BY DEF Init, RingIsRecent
<1>2. TypeOK /\ RingIsRecent /\ [Next]_vars => RingIsRecent'
  <2> SUFFICES ASSUME TypeOK, RingIsRecent, [Next]_vars PROVE RingIsRecent'
    OBVIOUS
  <2>1. CASE UNCHANGED <<ring, seq>>
    BY <2>1 DEF RingIsRecent
  <2>2. CASE Begin
    BY <2>1, <2>2, FlushKeepsRingRecent DEF Begin
  <2>3. CASE OnTick
    BY <2>1, <2>3, FlushKeepsRingRecent DEF OnTick
  <2> QED
    BY <2>1, <2>2, <2>3 DEF Next, RunStep, Clock, Stamp, Send, Join, Start, vars
<1> QED BY <1>1, <1>2, TypeCorrect, PTL DEF Spec

-----------------------------------------------------------------------------
(* A coherent accumulator makes a coherent trace.                          *)
LEMMA CoherentTrace ==
  ASSUME Window \in Nat, NEW a \in Acc, a.events # <<>>, AccCoherent(a), NEW n \in Nat
  PROVE  TraceCoherent(TraceOf(a, n))
<1> DEFINE t == TraceOf(a, n)
           len == Len(a.events)
<1>1. /\ len \in Nat /\ len > 0 /\ a.start \in Nat /\ a.last \in Nat
      /\ \A i \in 1..len : a.events[i].ts \in Nat
  <2>1. a.events \in Seq(Event) /\ a.start \in Nat /\ a.last \in Nat
    BY DEF Acc
  <2>2. len \in Nat /\ len > 0
    BY <2>1, EmptySeq
  <2>3. ASSUME NEW i \in 1..len PROVE a.events[i].ts \in Nat
    <3>1. a.events[i] \in Event
      BY <2>1, ElementOfSeq
    <3> QED BY <3>1 DEF Event
  <2> QED BY <2>1, <2>2, <2>3
<1>2. /\ t.span = a.last - a.start /\ Len(t.spans) = len
      /\ \A i \in 1..len : t.spans[i].off = a.events[i].ts - a.start
  BY TraceOfType
<1>3. /\ a.events[1].ts = a.start /\ a.events[len].ts = a.last
      /\ \A i \in 1..(len - 1) : a.events[i + 1].ts - a.events[i].ts <= Window
  BY DEF AccCoherent
<1> HIDE DEF t, len
<1>4. t.spans[1].off = 0 /\ t.spans[len].off = t.span
  BY <1>1, <1>2, <1>3
<1>5. ASSUME NEW i \in 1..(len - 1)
      PROVE  t.spans[i + 1].off - t.spans[i].off <= Window
  <2>1. i \in 1..len /\ i + 1 \in 1..len
    BY <1>1
  <2>2. /\ t.spans[i].off = a.events[i].ts - a.start
        /\ t.spans[i + 1].off = a.events[i + 1].ts - a.start
        /\ a.events[i].ts \in Nat /\ a.events[i + 1].ts \in Nat
    BY <1>1, <1>2, <2>1
  <2>3. a.events[i + 1].ts - a.events[i].ts <= Window
    BY <1>3
  <2> QED BY <1>1, <2>2, <2>3
<1>6. TraceCoherent(t)
  BY <1>1, <1>2, <1>4, <1>5 DEF TraceCoherent
<1> QED BY <1>6 DEF t

(* So a flush only adds a coherent trace to the ring and drops the oldest. *)
LEMMA FlushKeepsTracesCoherent ==
  ASSUME RingMax \in Nat \ {0}, Window \in Nat, TypeOK, TimelineCoherent, IsActive, Flush
  PROVE  \A k \in 1..Len(ring') : TraceCoherent(ring'[k])
<1> DEFINE t == TraceOf(active, seq + 1)
           s == Append(ring, t)
<1>1. CASE ring' = ring /\ seq' = seq
  BY <1>1 DEF TimelineCoherent
<1>2. CASE seq' = seq + 1 /\ ring' = Newest(s)
  <2>1. TraceCoherent(t) /\ t \in Trace
    BY CoherentTrace, TraceOfType DEF TypeOK, TimelineCoherent, IsActive
  <2> HIDE DEF t
  <2>2. /\ s \in Seq(Trace) /\ Len(s) = Len(ring) + 1 /\ Len(s) \in Nat
        /\ \A i \in 1..Len(ring) : s[i] = ring[i]
        /\ s[Len(ring) + 1] = t
    BY <2>1 DEF TypeOK
  <2>3. \A k \in 1..Len(s) : TraceCoherent(s[k])
    <3>1. TAKE k \in 1..Len(s)
    <3>2. k \in 1..Len(ring) \/ k = Len(ring) + 1
      BY <2>2
    <3> QED BY <2>1, <2>2, <3>2 DEF TimelineCoherent
  <2> HIDE DEF s
  <2>4. /\ Len(ring') <= Len(s) /\ Len(ring') \in Nat
        /\ \A i \in 1..Len(ring') : ring'[i] = s[Len(s) - Len(ring') + i]
    <3>1. Len(ring') = IF Len(s) > RingMax THEN RingMax ELSE Len(s)
      BY <1>2, <2>2, NewestProperties, ZenonT(60)
    <3>2. \A i \in 1..Len(ring') : ring'[i] = s[Len(s) - Len(ring') + i]
      BY <1>2, <2>2, NewestProperties, ZenonT(60)
    <3>3. Len(s) \in Nat
      BY <2>2
    <3>4. Len(ring') <= Len(s) /\ Len(ring') \in Nat
      BY <3>1, <3>3
    <3> QED BY <3>2, <3>4
  <2>5. ASSUME NEW k \in 1..Len(ring') PROVE TraceCoherent(ring'[k])
    <3>1. Len(s) - Len(ring') + k \in 1..Len(s)
      BY <2>2, <2>4
    <3> QED BY <2>3, <2>4, <3>1
  <2> QED BY <2>5
<1> QED BY <1>1, <1>2, FlushEffect

(* Joining an event that has not expired, and opening a trace, keep the    *)
(* accumulator coherent.                                                   *)
LEMMA JoinedCoherent ==
  ASSUME Window \in Nat, active \in Acc, IsActive, AccCoherent(active),
         NEW e \in Event, ~Expired(e)
  PROVE  AccCoherent(Joined(e))
<1> DEFINE len == Len(active.events)
           a == Joined(e)
<1>1. /\ active.events \in Seq(Event) /\ active.last \in Nat /\ e.ts \in Nat
      /\ len \in Nat /\ len > 0
  BY EmptySeq DEF Acc, IsActive, Event
<1>2. /\ a.start = active.start /\ a.last = e.ts
      /\ a.events = Append(active.events, e)
  BY DEF Joined, Acc
<1> HIDE DEF a
<1>3. /\ Len(a.events) = len + 1 /\ a.events[len + 1] = e
      /\ \A i \in 1..len : a.events[i] = active.events[i]
  BY <1>1, <1>2
<1>4. /\ active.events[1].ts = active.start /\ active.events[len].ts = active.last
      /\ \A i \in 1..(len - 1) :
            active.events[i + 1].ts - active.events[i].ts <= Window
  BY DEF AccCoherent
<1>5. e.ts - active.last <= Window
  BY <1>1 DEF Expired
<1> HIDE DEF len
<1>6. ASSUME NEW i \in 1..len
      PROVE  a.events[i + 1].ts - a.events[i].ts <= Window
  <2>1. CASE i = len
    BY <1>1, <1>3, <1>4, <1>5, <2>1
  <2>2. CASE i # len
    <3>1. i \in 1..(len - 1) /\ i + 1 \in 1..len
      BY <1>1, <2>2
    <3>2. a.events[i + 1] = active.events[i + 1] /\ a.events[i] = active.events[i]
      BY <1>3, <3>1
    <3> QED BY <1>4, <3>1, <3>2
  <2> QED BY <2>1, <2>2
<1>7. a.events[1].ts = a.start /\ a.events[Len(a.events)].ts = a.last
  BY <1>1, <1>2, <1>3, <1>4
<1>8. Len(a.events) - 1 = len
  BY <1>1, <1>3
<1>9. AccCoherent(a)
  BY <1>6, <1>7, <1>8 DEF AccCoherent
<1> QED BY <1>9 DEF a

(* A trace is opened with one event, which is its whole span.              *)
LEMMA OpenedCoherent ==
  ASSUME NEW e PROVE AccCoherent(Opened(e))
  BY DEF AccCoherent, Opened

(* Within a trace no gap exceeds the window, offsets start at zero and end *)
(* at SpanMs, whatever the order in which timestamps arrive.               *)
THEOREM TimelinesCoherent == Spec => []TimelineCoherent
<1> USE CorrelateAssumption DEF CorrelateAssumption
<1>1. Init => TimelineCoherent
  BY DEF Init, TimelineCoherent, NoTrace, IsActive
<1>2. TypeOK /\ TimelineCoherent /\ [Next]_vars => TimelineCoherent'
  <2> SUFFICES ASSUME TypeOK, TimelineCoherent, [Next]_vars PROVE TimelineCoherent'
    OBVIOUS
  <2>1. CASE UNCHANGED <<active, ring>>
    BY <2>1 DEF TimelineCoherent, IsActive
  <2>2. ASSUME Receive PROVE Head(ch) \in Event
    BY <2>2, HeadTailProperties DEF Receive, TypeOK
  <2>3. CASE Join
    <3>1. AccCoherent(Joined(Head(ch)))
      BY <2>2, <2>3, JoinedCoherent DEF Join, TypeOK, TimelineCoherent
    <3>2. AccCoherent(active')
      BY <2>3, <3>1 DEF Join
    <3> QED BY <2>3, <3>2 DEF Join, TimelineCoherent
  <2>4. CASE Begin
    <3>1. \A k \in 1..Len(ring') : TraceCoherent(ring'[k])
      BY <2>4, FlushKeepsTracesCoherent DEF Begin, Expired, TimelineCoherent
    <3>2. active' = NoTrace \/ active' = Opened(Head(ch))
      BY <2>4 DEF Begin
    <3>3. active' = NoTrace => ~IsActive'
      BY DEF NoTrace, IsActive
    <3>4. active' = Opened(Head(ch)) => AccCoherent(active')
      BY OpenedCoherent
    <3> QED BY <3>1, <3>2, <3>3, <3>4 DEF TimelineCoherent
  <2>5. CASE OnTick
    <3>1. CASE UNCHANGED <<active, ring, seq>>
      BY <2>1, <3>1
    <3>2. CASE IsActive /\ Flush /\ active' = NoTrace
      <4>1. \A k \in 1..Len(ring') : TraceCoherent(ring'[k])
        BY <3>2, FlushKeepsTracesCoherent
      <4>2. ~IsActive'
        BY <3>2 DEF NoTrace, IsActive
      <4> QED BY <4>1, <4>2 DEF TimelineCoherent
    <3> QED BY <2>5, <3>1, <3>2 DEF OnTick
  <2> QED
    BY <2>1, <2>3, <2>4, <2>5 DEF Next, RunStep, Clock, Stamp, Send, Start, vars
<1> QED BY <1>1, <1>2, TypeCorrect, PTL DEF Spec

-----------------------------------------------------------------------------
(* Where events are.  The strengthening of NoEventTwice also counts the    *)
(* events that Emit has stamped and not yet sent: the numbers of what was  *)
(* sent and of what is still to be sent are apart, and none is beyond the  *)
(* last that was given.                                                    *)
IdsOf(s) == {s[i].id : i \in 1..Len(s)}
Distinct(s) == \A i, j \in 1..Len(s) : s[i].id = s[j].id => i = j
Sent == IdsOf(ch) \cup IdsOf(active.events)
        \cup UNION {IdsOf(ring[k].spans) : k \in 1..Len(ring)}

SentApart ==
    /\ Distinct(ch) /\ Distinct(active.events)
    /\ IdsOf(ch) \cap IdsOf(active.events) = {}
    /\ \A k \in 1..Len(ring) :
          /\ Distinct(ring[k].spans)
          /\ IdsOf(ring[k].spans) \cap (IdsOf(ch) \cup IdsOf(active.events)) = {}
          /\ \A m \in 1..Len(ring) \ {k} : IdsOf(ring[k].spans) \cap IdsOf(ring[m].spans) = {}
PendingApart ==
    /\ Sent \subseteq 1..emitted
    /\ \A b \in Buses :
          /\ Len(pending[b]) <= 1
          /\ IdsOf(pending[b]) \subseteq (1..emitted) \ Sent
          /\ \A c \in Buses \ {b} : IdsOf(pending[b]) \cap IdsOf(pending[c]) = {}

(* The channel, a trace in the making and Emit's own event change by one   *)
(* event at a time.                                                        *)
LEMMA AppendIds ==
  ASSUME NEW s \in Seq(Event), NEW e \in Event
  PROVE  /\ IdsOf(Append(s, e)) = IdsOf(s) \cup {e.id}
         /\ Distinct(s) /\ e.id \notin IdsOf(s) => Distinct(Append(s, e))
<1>1. /\ Len(Append(s, e)) = Len(s) + 1 /\ Len(s) \in Nat
      /\ \A i \in 1..Len(s) : Append(s, e)[i] = s[i]
      /\ Append(s, e)[Len(s) + 1] = e
  BY AppendProperties, LenProperties
<1> DEFINE t == Append(s, e)
<1>2. t[Len(s) + 1] = e /\ Len(t) = Len(s) + 1 /\ \A i \in 1..Len(s) : t[i] = s[i]
  BY <1>1
<1> HIDE DEF t
<1>3. IdsOf(t) = IdsOf(s) \cup {e.id}
  <2>1. ASSUME NEW i \in 1..Len(t) PROVE t[i].id \in IdsOf(s) \cup {e.id}
    <3>1. i \in 1..Len(s) \/ i = Len(s) + 1
      BY <1>1, <1>2
    <3> QED BY <1>2, <3>1 DEF IdsOf
  <2>2. Len(s) + 1 \in 1..Len(t) /\ 1..Len(s) \subseteq 1..Len(t)
    BY <1>1, <1>2
  <2> QED BY <1>2, <2>1, <2>2 DEF IdsOf
<1>4. Distinct(s) /\ e.id \notin IdsOf(s) => Distinct(t)
  <2> SUFFICES ASSUME Distinct(s), e.id \notin IdsOf(s), NEW i \in 1..Len(t), NEW j \in 1..Len(t),
                      t[i].id = t[j].id
               PROVE  i = j
    BY DEF Distinct
  <2>1. i \in 1..Len(s) \/ i = Len(s) + 1
    BY <1>1, <1>2
  <2>2. j \in 1..Len(s) \/ j = Len(s) + 1
    BY <1>1, <1>2
  <2> QED BY <1>2, <2>1, <2>2 DEF Distinct, IdsOf
<1> QED BY <1>3, <1>4 DEF t

(* Receiving the first event of a queue takes its id out of the queue.     *)
LEMMA TailIds ==
  ASSUME NEW s \in Seq(Event), s # <<>>
  PROVE  /\ IdsOf(Tail(s)) \subseteq IdsOf(s) /\ Head(s).id \in IdsOf(s)
         /\ Distinct(s) => Distinct(Tail(s)) /\ Head(s).id \notin IdsOf(Tail(s))
<1> DEFINE t == Tail(s)
<1>1. /\ Len(t) = Len(s) - 1 /\ Len(s) \in Nat /\ Len(s) > 0 /\ Head(s) = s[1]
      /\ \A i \in 1..Len(t) : t[i] = s[i + 1]
  BY HeadTailProperties, LenProperties, EmptySeq
<1> HIDE DEF t
<1>2. \A i \in 1..Len(t) : i + 1 \in 1..Len(s) /\ i + 1 # 1
  BY <1>1
<1>3. 1 \in 1..Len(s)
  BY <1>1
<1>4. IdsOf(t) \subseteq IdsOf(s) /\ Head(s).id \in IdsOf(s)
  BY <1>1, <1>2, <1>3 DEF IdsOf
<1>5. ASSUME Distinct(s) PROVE Distinct(t)
  <2> SUFFICES ASSUME NEW i \in 1..Len(t), NEW j \in 1..Len(t), t[i].id = t[j].id PROVE i = j
    BY DEF Distinct
  <2>1. i + 1 = j + 1
    BY <1>1, <1>2, <1>5 DEF Distinct
  <2> QED BY <2>1, <1>1
<1>6. ASSUME Distinct(s) PROVE Head(s).id \notin IdsOf(t)
  BY <1>1, <1>2, <1>3, <1>6 DEF Distinct, IdsOf
<1> QED BY <1>4, <1>5, <1>6 DEF t

(* The ids of no event and of one, which an opened trace has.              *)
LEMMA SmallIds ==
  /\ IdsOf(<<>>) = {} /\ Distinct(<<>>)
  /\ \A e : IdsOf(<<e>>) = {e.id} /\ Distinct(<<e>>)
  BY DEF IdsOf, Distinct

(* A trace has the events of its accumulator (correlate.go:150-158).       *)
LEMMA TraceIds ==
  ASSUME NEW a \in Acc, NEW n \in Nat
  PROVE  /\ IdsOf(TraceOf(a, n).spans) = IdsOf(a.events)
         /\ Distinct(a.events) => Distinct(TraceOf(a, n).spans)
<1>1. Len(TraceOf(a, n).spans) = Len(a.events)
  BY TraceOfType
<1>2. \A i \in 1..Len(a.events) : TraceOf(a, n).spans[i].id = a.events[i].id
  BY DEF TraceOf
<1> QED BY <1>1, <1>2 DEF IdsOf, Distinct

(* Flush moves traces towards the front of the ring, and what is new in it *)
(* is the active trace, at its end.                                        *)
LEMMA FlushRing ==
  ASSUME RingMax \in Nat \ {0}, TypeOK, Flush
  PROVE  \E d \in Nat : \A k \in 1..Len(ring') :
            \/ k + d \in 1..Len(ring) /\ ring'[k] = ring[k + d]
            \/ k + d = Len(ring) + 1 /\ ring'[k] = TraceOf(active, seq + 1)
<1> DEFINE t == TraceOf(active, seq + 1)
           s == Append(ring, t)
<1>0. ring \in Seq(Trace) /\ Len(ring) \in Nat
  BY DEF TypeOK
<1>1. CASE ring' = ring /\ seq' = seq
  <2>1. \A k \in 1..Len(ring') : k + 0 \in 1..Len(ring) /\ ring'[k] = ring[k + 0]
    BY <1>0, <1>1
  <2> QED BY <2>1
<1>2. CASE seq' = seq + 1 /\ ring' = Newest(s)
  <2>1. t \in Trace
    BY TraceOfType DEF TypeOK
  <2> HIDE DEF t
  <2>2. /\ s \in Seq(Trace) /\ Len(s) = Len(ring) + 1 /\ Len(s) \in Nat
        /\ \A i \in 1..Len(ring) : s[i] = ring[i]
        /\ s[Len(ring) + 1] = t
    BY <1>0, <2>1
  <2> HIDE DEF s
  <2>3. /\ Len(ring') <= Len(s) /\ Len(ring') \in Nat
        /\ \A i \in 1..Len(ring') : ring'[i] = s[Len(s) - Len(ring') + i]
    <3>1. Len(ring') = IF Len(s) > RingMax THEN RingMax ELSE Len(s)
      BY <1>2, <2>2, NewestProperties
    <3>2. \A i \in 1..Len(ring') : ring'[i] = s[Len(s) - Len(ring') + i]
      BY <1>2, <2>2, NewestProperties
    <3>3. Len(ring') <= Len(s) /\ Len(ring') \in Nat
      BY <2>2, <3>1
    <3> QED BY <3>2, <3>3
  <2> DEFINE d == Len(s) - Len(ring')
  <2>4. d \in Nat
    BY <2>2, <2>3
  <2>5. ASSUME NEW k \in 1..Len(ring')
        PROVE  \/ k + d \in 1..Len(ring) /\ ring'[k] = ring[k + d]
               \/ k + d = Len(ring) + 1 /\ ring'[k] = t
    <3>1. d + k = k + d /\ (k + d \in 1..Len(ring) \/ k + d = Len(ring) + 1)
      <4>1. /\ k \in Nat /\ k >= 1 /\ k <= Len(ring')
            /\ Len(ring) \in Nat /\ Len(ring') \in Nat /\ Len(s) = Len(ring) + 1
              /\ Len(ring') <= Len(s)
        BY <1>0, <2>2, <2>3
      <4> QED BY <4>1
    <3>2. ring'[k] = s[k + d]
      BY <2>3, <3>1
    <3> QED BY <2>2, <3>1, <3>2
  <2> QED BY <2>4, <2>5 DEF t
<1> QED BY <1>1, <1>2, FlushEffect

(* After a flush the ring holds no event it did not hold, but for those of *)
(* the active trace, and each of them once.                                *)
LEMMA FlushApart ==
  ASSUME RingMax \in Nat \ {0}, TypeOK, SentApart, Flush
  PROVE  \A k \in 1..Len(ring') :
            /\ Distinct(ring'[k].spans)
            /\ IdsOf(ring'[k].spans) \cap IdsOf(ch) = {}
            /\ IdsOf(ring'[k].spans) \subseteq Sent
            /\ \A m \in 1..Len(ring') \ {k} : IdsOf(ring'[k].spans) \cap IdsOf(ring'[m].spans) = {}
<1>1. PICK d \in Nat : \A k \in 1..Len(ring') :
         \/ k + d \in 1..Len(ring) /\ ring'[k] = ring[k + d]
         \/ k + d = Len(ring) + 1 /\ ring'[k] = TraceOf(active, seq + 1)
  BY FlushRing
<1> DEFINE t == TraceOf(active, seq + 1)
<1>2. IdsOf(t.spans) = IdsOf(active.events) /\ Distinct(t.spans)
  BY TraceIds DEF SentApart, TypeOK
<1> HIDE DEF t
<1>3. ASSUME NEW k \in 1..Len(ring')
      PROVE  /\ Distinct(ring'[k].spans)
             /\ IdsOf(ring'[k].spans) \cap IdsOf(ch) = {}
             /\ IdsOf(ring'[k].spans) \subseteq Sent
  <2>1. CASE k + d \in 1..Len(ring) /\ ring'[k] = ring[k + d]
    BY <2>1 DEF SentApart, Sent
  <2>2. CASE ring'[k] = t
    BY <1>2, <2>2 DEF SentApart, Sent
  <2> QED BY <1>1, <2>1, <2>2 DEF t
<1>4. ASSUME NEW k \in 1..Len(ring'), NEW m \in 1..Len(ring') \ {k}
      PROVE  IdsOf(ring'[k].spans) \cap IdsOf(ring'[m].spans) = {}
  <2>0. k + d # m + d /\ Len(ring) \in Nat
    BY DEF TypeOK
  <2>1. CASE k + d \in 1..Len(ring) /\ m + d \in 1..Len(ring)
    <3>1. ring'[k] = ring[k + d] /\ ring'[m] = ring[m + d]
      BY <1>1, <2>0, <2>1
    <3> QED BY <2>0, <2>1, <3>1 DEF SentApart
  <2>2. CASE k + d \in 1..Len(ring) /\ ring'[k] = ring[k + d] /\ ring'[m] = t
    BY <1>2, <2>2 DEF SentApart
  <2>3. CASE m + d \in 1..Len(ring) /\ ring'[m] = ring[m + d] /\ ring'[k] = t
    BY <1>2, <2>3 DEF SentApart
  <2> QED BY <1>1, <2>0, <2>1, <2>2, <2>3 DEF t
<1> QED BY <1>3, <1>4

(* Emit gives each event a number of its own and sends it once; Run moves  *)
(* it from the channel to the active trace and from there to the ring.     *)
LEMMA ApartStep ==
  RingMax \in Nat \ {0} /\ TypeOK /\ SentApart /\ PendingApart /\ [Next]_vars
  => SentApart' /\ PendingApart'
<1> SUFFICES ASSUME RingMax \in Nat \ {0}, TypeOK, SentApart, PendingApart, [Next]_vars
             PROVE  SentApart' /\ PendingApart'
  OBVIOUS
<1>1. ASSUME UNCHANGED <<emitted, pending>>, Sent' \subseteq Sent PROVE PendingApart'
  BY <1>1 DEF PendingApart
<1>2. CASE UNCHANGED <<ch, active, ring, emitted, pending>>
  <2>1. SentApart' /\ Sent' = Sent
    BY <1>2 DEF SentApart, Sent
  <2> QED BY <1>1, <1>2, <2>1
<1>3. ASSUME NEW b \in Buses, NEW root \in BOOLEAN, Stamp(b, root)
      PROVE  SentApart' /\ PendingApart'
  <2> DEFINE e == [id |-> emitted + 1, root |-> root, ts |-> now]
  <2>1. SentApart' /\ Sent' = Sent
    BY <1>3 DEF Stamp, SentApart, Sent
  <2>2. e.id = emitted + 1 /\ pending' = [pending EXCEPT ![b] = <<e>>] /\ emitted' = emitted + 1
    BY <1>3 DEF Stamp
  <2> HIDE DEF e
  <2>3. /\ IdsOf(pending'[b]) = {emitted + 1} /\ Len(pending'[b]) = 1
        /\ \A c \in Buses \ {b} : pending'[c] = pending[c]
    BY <2>2, SmallIds DEF TypeOK
  <2>4. emitted \in Nat /\ emitted + 1 \notin 1..emitted /\ 1..emitted \subseteq 1..emitted + 1
        /\ emitted + 1 \in 1..emitted + 1
    BY DEF TypeOK
  <2>5. PendingApart'
    <3>1. Sent' \subseteq 1..emitted'
      BY <2>1, <2>2, <2>4 DEF PendingApart
    <3>2. ASSUME NEW c \in Buses
          PROVE  Len(pending'[c]) <= 1 /\ IdsOf(pending'[c]) \subseteq (1..emitted') \ Sent'
      <4>1. CASE c = b
        BY <2>1, <2>2, <2>3, <2>4, <4>1 DEF PendingApart
      <4>2. CASE c # b
        BY <2>1, <2>2, <2>3, <2>4, <4>2 DEF PendingApart
      <4> QED BY <4>1, <4>2
    <3>3. \A c \in Buses \ {b} : emitted + 1 \notin IdsOf(pending[c])
      BY <2>4 DEF PendingApart
    <3>4. ASSUME NEW c \in Buses, NEW d \in Buses \ {c}
          PROVE  IdsOf(pending'[c]) \cap IdsOf(pending'[d]) = {}
      <4>1. CASE c # b /\ d # b
        BY <2>3, <4>1 DEF PendingApart
      <4>2. CASE c = b \/ d = b
        BY <2>3, <3>3, <4>2
      <4> QED BY <4>1, <4>2
    <3> QED BY <3>1, <3>2, <3>4 DEF PendingApart
  <2> QED BY <2>1, <2>5
<1>4. ASSUME NEW b \in Buses, Send(b) PROVE SentApart' /\ PendingApart'
  <2> DEFINE e == Head(pending[b])
  <2>1. e \in Event /\ e.id \in IdsOf(pending[b])
    BY <1>4, TailIds, HeadTailProperties DEF Send, TypeOK
  <2>2. e.id \in 1..emitted /\ e.id \notin Sent
        /\ \A c \in Buses \ {b} : e.id \notin IdsOf(pending[c])
    BY <2>1 DEF PendingApart
  <2>3. /\ UNCHANGED <<active, ring, emitted>>
        /\ pending' = [pending EXCEPT ![b] = <<>>]
        /\ ch' = ch \/ ch' = Append(ch, e)
    BY <1>4 DEF Send
  <2> HIDE DEF e
  <2>4. IdsOf(ch') \subseteq IdsOf(ch) \cup {e.id} /\ Distinct(ch')
    BY <2>1, <2>2, <2>3, AppendIds DEF SentApart, Sent, TypeOK
  <2>5. Sent' \subseteq Sent \cup {e.id}
    BY <2>3, <2>4 DEF Sent
  <2>6. SentApart'
    <3>1. /\ e.id \notin IdsOf(active.events)
          /\ \A k \in 1..Len(ring) : e.id \notin IdsOf(ring[k].spans)
      BY <2>2 DEF Sent
    <3> QED BY <2>3, <2>4, <3>1 DEF SentApart
  <2>7. pending'[b] = <<>> /\ \A c \in Buses \ {b} : pending'[c] = pending[c]
    BY <2>3 DEF TypeOK
  <2>8. PendingApart'
    <3>1. Sent' \subseteq 1..emitted'
      BY <2>2, <2>3, <2>5 DEF PendingApart
    <3>2. IdsOf(pending'[b]) = {} /\ Len(pending'[b]) = 0
      BY <2>7, SmallIds, EmptySeq
    <3>3. ASSUME NEW c \in Buses
          PROVE  Len(pending'[c]) <= 1 /\ IdsOf(pending'[c]) \subseteq (1..emitted') \ Sent'
      <4>1. CASE c = b
        BY <3>2, <4>1
      <4>2. CASE c # b
        BY <2>2, <2>3, <2>5, <2>7, <4>2 DEF PendingApart
      <4> QED BY <4>1, <4>2
    <3>4. ASSUME NEW c \in Buses, NEW d \in Buses \ {c}
          PROVE  IdsOf(pending'[c]) \cap IdsOf(pending'[d]) = {}
      BY <2>7, <3>2 DEF PendingApart
    <3> QED BY <3>1, <3>3, <3>4 DEF PendingApart
  <2> QED BY <2>6, <2>8
<1>5. ASSUME Receive
      PROVE  /\ Head(ch) \in Event /\ Head(ch).id \in IdsOf(ch)
             /\ IdsOf(ch') \subseteq IdsOf(ch) \ {Head(ch).id} /\ Distinct(ch')
             /\ UNCHANGED <<emitted, pending>>
  <2>1. ch \in Seq(Event) /\ ch # <<>> /\ ch' = Tail(ch) /\ UNCHANGED <<emitted, pending>>
    BY <1>5 DEF Receive, TypeOK
  <2> QED BY <2>1, TailIds, HeadTailProperties DEF SentApart
<1>6. CASE Join
  <2> DEFINE e == Head(ch)
  <2>1. /\ e \in Event /\ e.id \in IdsOf(ch) /\ UNCHANGED <<emitted, pending, ring>>
        /\ IdsOf(ch') \subseteq IdsOf(ch) \ {e.id} /\ Distinct(ch')
    BY <1>5, <1>6 DEF Join
  <2>2. active'.events = Append(active.events, e) /\ active.events \in Seq(Event)
    BY <1>6 DEF Join, Joined, TypeOK, Acc
  <2> HIDE DEF e
  <2>3. IdsOf(active'.events) = IdsOf(active.events) \cup {e.id} /\ Distinct(active'.events)
    BY <2>1, <2>2, AppendIds DEF SentApart
  <2>4. SentApart'
    BY <2>1, <2>3, ZenonT(60) DEF SentApart
  <2>5. Sent' \subseteq Sent
    BY <2>1, <2>3 DEF Sent
  <2> QED BY <1>1, <2>1, <2>4, <2>5
<1>7. ASSUME Flush \/ UNCHANGED ring
      PROVE  \A k \in 1..Len(ring') :
                /\ Distinct(ring'[k].spans)
                /\ IdsOf(ring'[k].spans) \cap IdsOf(ch) = {}
                /\ IdsOf(ring'[k].spans) \subseteq Sent
                /\ \A m \in 1..Len(ring') \ {k} :
                      IdsOf(ring'[k].spans) \cap IdsOf(ring'[m].spans) = {}
  <2>1. CASE UNCHANGED ring
    BY <2>1 DEF SentApart, Sent
  <2> QED BY <1>7, <2>1, FlushApart
<1>8. CASE Begin
  <2> DEFINE e == Head(ch)
  <2>1. /\ e \in Event /\ e.id \in IdsOf(ch) /\ UNCHANGED <<emitted, pending>>
        /\ IdsOf(ch') \subseteq IdsOf(ch) \ {e.id} /\ Distinct(ch')
    BY <1>5, <1>8 DEF Begin
  <2>2. Flush \/ UNCHANGED ring
    BY <1>8 DEF Begin
  <2>3. active'.events = <<>> \/ active'.events = <<e>>
    BY <1>8 DEF Begin, NoTrace, Opened
  <2> HIDE DEF e
  <2>4. IdsOf(active'.events) \subseteq {e.id} /\ Distinct(active'.events)
    BY <2>3, SmallIds
  <2>5. SentApart'
    BY <1>7, <2>1, <2>2, <2>4 DEF SentApart
  <2>6. Sent' \subseteq Sent
    BY <1>7, <2>1, <2>2, <2>4 DEF Sent
  <2> QED BY <1>1, <2>1, <2>5, <2>6
<1>9. CASE OnTick
  <2>1. UNCHANGED <<ch, emitted, pending>>
    BY <1>9 DEF OnTick
  <2>2. CASE Flush /\ active' = NoTrace
    <3>1. IdsOf(active'.events) = {} /\ Distinct(active'.events)
      BY <2>2, SmallIds DEF NoTrace
    <3>2. SentApart'
      BY <1>7, <2>1, <2>2, <3>1 DEF SentApart
    <3>3. Sent' \subseteq Sent
      BY <1>7, <2>1, <2>2, <3>1 DEF Sent
    <3> QED BY <1>1, <2>1, <3>2, <3>3
  <2> QED BY <1>2, <1>9, <2>1, <2>2 DEF OnTick
<1> QED
  BY <1>2, <1>3, <1>4, <1>6, <1>8, <1>9 DEF Next, RunStep, Clock, Start, vars

(* The places are the channel, the active trace and the traces of the ring.*)
LEMMA PlacesAre ==
  ASSUME TypeOK
  PROVE  /\ DOMAIN Places = 1..(2 + Len(ring)) /\ Len(ring) \in Nat
         /\ Places[1] = Ids(ch) /\ Places[2] = Ids(active.events)
         /\ \A k \in 1..Len(ring) : Places[k + 2] = Ids(ring[k].spans)
<1> DEFINE hand == <<Ids(ch), Ids(active.events)>>
           old  == [k \in 1..Len(ring) |-> Ids(ring[k].spans)]
           S    == {Ids(ch), Ids(active.events)} \cup {Ids(ring[k].spans) : k \in 1..Len(ring)}
<1>1. Len(ring) \in Nat
  BY DEF TypeOK
<1>2. hand \in Seq(S) /\ Len(hand) = 2 /\ hand[1] = Ids(ch) /\ hand[2] = Ids(active.events)
  OBVIOUS
<1>3. old \in Seq(S) /\ Len(old) = Len(ring)
  <2>1. old \in [1..Len(ring) -> S]
    OBVIOUS
  <2> HIDE DEF old, S
  <2> QED BY <1>1, <2>1
<1>4. \A k \in 1..Len(ring) : old[k] = Ids(ring[k].spans)
  OBVIOUS
<1> HIDE DEF hand, old, S
<1>5. /\ hand \o old \in Seq(S) /\ Len(hand \o old) = 2 + Len(ring)
      /\ \A i \in 1..(2 + Len(ring)) :
            (hand \o old)[i] = IF i <= 2 THEN hand[i] ELSE old[i - 2]
  <2>1. /\ hand \o old \in Seq(S) /\ Len(hand \o old) = Len(hand) + Len(old)
        /\ \A i \in 1..(Len(hand) + Len(old)) :
              (hand \o old)[i] = IF i <= Len(hand) THEN hand[i] ELSE old[i - Len(hand)]
    BY <1>2, <1>3, ConcatProperties
  <2> QED BY <1>2, <1>3, <2>1
<1>6. Places = hand \o old
  BY DEF Places, hand, old
<1>7. DOMAIN Places = 1..(2 + Len(ring))
  BY <1>5, <1>6, LenProperties
<1>8. Places[1] = Ids(ch) /\ Places[2] = Ids(active.events)
  BY <1>1, <1>2, <1>5, <1>6
<1>9. ASSUME NEW k \in 1..Len(ring) PROVE Places[k + 2] = Ids(ring[k].spans)
  <2>1. k + 2 \in 1..(2 + Len(ring)) /\ ~(k + 2 <= 2) /\ (k + 2) - 2 = k
    BY <1>1
  <2> QED BY <1>4, <1>5, <1>6, <2>1
<1> QED BY <1>1, <1>7, <1>8, <1>9

(* Whatever Emit drops and flush discards or cuts off the ring, no event   *)
(* is in the channel, the active trace and the published traces more than  *)
(* once: flushing always clears the active trace (correlate.go:107-110 and *)
(* 129-132).                                                               *)
THEOREM EventsInOnePlace == Spec => []NoEventTwice
<1>1. Init => SentApart /\ PendingApart
  BY SmallIds DEF Init, NoTrace, SentApart, PendingApart, Sent
<1>2. TypeOK /\ SentApart => NoEventTwice
  <2> SUFFICES ASSUME TypeOK, SentApart,
                      NEW k \in DOMAIN Places, NEW l \in DOMAIN Places,
                      NEW i \in DOMAIN Places[k], NEW j \in DOMAIN Places[l],
                      Places[k][i] = Places[l][j]
               PROVE  k = l /\ i = j
    BY DEF NoEventTwice
  <2> DEFINE at(p) == IF p = 1 THEN ch ELSE IF p = 2 THEN active.events ELSE ring[p - 2].spans
  <2>1. ASSUME NEW p \in DOMAIN Places
        PROVE  Places[p] = Ids(at(p)) /\ (p = 1 \/ p = 2 \/ p - 2 \in 1..Len(ring))
    BY PlacesAre
  <2>2. /\ i \in 1..Len(at(k)) /\ Places[k][i] = at(k)[i].id
        /\ j \in 1..Len(at(l)) /\ Places[l][j] = at(l)[j].id
    BY <2>1, SMTT(30) DEF Ids
  <2>3. at(k)[i].id \in IdsOf(at(k)) /\ at(k)[i].id \in IdsOf(at(l))
    BY <2>2 DEF IdsOf
  <2>4. k = l
    <3>1. IdsOf(at(k)) \cap IdsOf(at(l)) # {}
      BY <2>3
    <3>2. /\ k \in 1..(2 + Len(ring)) /\ l \in 1..(2 + Len(ring)) /\ Len(ring) \in Nat
          /\ k = 1 \/ k = 2 \/ k - 2 \in 1..Len(ring)
          /\ l = 1 \/ l = 2 \/ l - 2 \in 1..Len(ring)
      BY <2>1, PlacesAre
    <3>3. CASE k \in {1, 2} /\ l \in {1, 2}
      BY <3>1, <3>3 DEF SentApart
    <3>4. CASE k \in {1, 2} /\ l \notin {1, 2}
      BY <3>1, <3>2, <3>4 DEF SentApart
    <3>5. CASE k \notin {1, 2} /\ l \in {1, 2}
      BY <3>1, <3>2, <3>5 DEF SentApart
    <3>6. CASE k \notin {1, 2} /\ l \notin {1, 2}
      <4>1. k - 2 = l - 2
        BY <3>1, <3>2, <3>6 DEF SentApart
      <4> QED BY <3>2, <4>1
    <3> QED BY <3>3, <3>4, <3>5, <3>6
  <2>5. Distinct(at(k))
    BY <2>1 DEF SentApart
  <2> QED BY <2>2, <2>4, <2>5 DEF Distinct
<1>3. RingMax \in Nat \ {0}
  BY CorrelateAssumption DEF CorrelateAssumption
<1> QED BY <1>1, <1>2, <1>3, TypeCorrect, ApartStep, PTL DEF Spec
=============================================================================
