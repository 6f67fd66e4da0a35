--------------------------- MODULE TraceAggregator ----------------------------
(***************************************************************************)
(* cmd/trace-aggregator/main.go: every node's correlator serves a ring of  *)
(* finished traces; the aggregator reads the rings one after another,      *)
(* clusters what it got by start time into distributed traces and exports  *)
(* each to Tempo under an id made of its start, its link and its roots.    *)
(* Nodes publish late and in any order, rings overflow, a node or Tempo    *)
(* may fail to answer.                                                     *)
(*                                                                         *)
(* A trace is [node, start, root, offs]: offs are the offsets of its spans *)
(* in milliseconds, one of which has Ms units of the clock that start is   *)
(* read from.  A root names the ends of a link ("pe1-p1": <<pe1, p1>>), or *)
(* has another number of parts when it is not about one.  The hash that    *)
(* makes an id a trace_id is taken to be injective.                        *)
(***************************************************************************)
EXTENDS Integers, FiniteSets, FiniteSetsExt, SequencesExt

CONSTANTS
    Nodes,      \* INVENTORY
    Schedules,  \* what the correlators may publish: per node a sequence of traces
    Window,     \* WINDOW, in units of the clock
    Ms,         \* units of the clock in a millisecond
    RingMax,    \* traces a correlator keeps
    MaxFaults   \* bound of the model: requests that fail

Traces(n) == UNION {ToSet(s[n]) : s \in Schedules}
IsTrace(t) == t.node \in Nodes /\ t.start \in Int /\ t.offs \in Seq(Int) /\ t.offs # <<>>

ASSUME AggregatorAssumption ==
    /\ Window \in Nat /\ Ms \in Nat \ {0} /\ RingMax \in Nat \ {0} /\ MaxFaults \in Nat
    /\ \A s \in Schedules : DOMAIN s = Nodes /\ \A n \in Nodes : s[n] \in Seq(Traces(n))
    /\ \A n \in Nodes : \A t \in Traces(n) : IsTrace(t) /\ t.node = n

VARIABLES
    todo,       \* per node: the traces its correlator is still to publish
    rings,      \* per node: Correlator.ring
    left,       \* the nodes build is still to fetch from
    all,        \* build's all
    dt,         \* the distributed traces of this round, as /dtraces serves them
    next,       \* index in dt of the one loop exports next, 0 while it builds
    pushed,     \* ids already exported
    faults,     \* requests failed so far
    stored,     \* history: per id, how often Tempo stored it
    unsure,     \* history: per id, how often a stored POST was taken for failed
    answered    \* history: traces of a distributed trace whose POST was answered

vars == <<todo, rings, left, all, dt, next, pushed, faults, stored, unsure, answered>>

Init ==
    /\ todo \in Schedules
    /\ rings = [n \in Nodes |-> <<>>]
    /\ left = Nodes /\ all = {} /\ dt = <<>> /\ next = 0
    /\ pushed = {} /\ faults = 0
    /\ stored = [id \in {} |-> 0] /\ unsure = [id \in {} |-> 0] /\ answered = {}
-----------------------------------------------------------------------------
(* A correlator flushes a trace into its ring.                             *)
KeepAll(ring) == ring           \* a fault: the ring is not cut
Keep(ring) == SubSeq(ring, IF Len(ring) > RingMax THEN Len(ring) - RingMax + 1 ELSE 1, Len(ring))
Publish(n) ==
    /\ todo[n] # <<>>
    /\ rings' = [rings EXCEPT ![n] = Keep(Append(@, Head(todo[n])))]
    /\ todo' = [todo EXCEPT ![n] = Tail(@)]
    /\ UNCHANGED <<left, all, dt, next, pushed, faults, stored, unsure, answered>>

(* build, first loop: one node, in the order of a map.  An answer that     *)
(* fails or cannot be read counts as no traces.                            *)
Fetch(n) ==
    /\ next = 0 /\ n \in left
    /\ left' = left \ {n}
    /\ all' = all \cup ToSet(rings[n])
    /\ UNCHANGED <<todo, rings, dt, next, pushed, faults, stored, unsure, answered>>
FetchFails(n) ==
    /\ next = 0 /\ n \in left
    /\ faults < MaxFaults /\ faults' = faults + 1
    /\ left' = left \ {n}
    /\ UNCHANGED <<todo, rings, all, dt, next, pushed, stored, unsure, answered>>
-----------------------------------------------------------------------------
(* sort.Slice is not stable and its input comes from a map: traces with    *)
(* one start may end up in any order.                                      *)
Sortings(S) ==
    {s \in SetToSeqs(S) : \A i, j \in DOMAIN s : i < j => s[i].start <= s[j].start}

(* build, second loop: trace i of the sorted ones joins the group that     *)
(* trace j opened.                                                         *)
JoinsPrevious(s, j, i) == s[i].start - s[i - 1].start <= Window     \* a fault
Joins(s, j, i) == s[i].start - s[j].start <= Window
Groups(s) ==
    LET from[j \in DOMAIN s] ==
            LET others == {i \in j + 1..Len(s) : ~Joins(s, j, i)}
            IN IF others = {} THEN <<SubSeq(s, j, Len(s))>>
               ELSE <<SubSeq(s, j, Min(others) - 1)>> \o from[Min(others)]
    IN IF s = <<>> THEN <<>> ELSE from[1]

(* linkKey and the vote: the two ends of a link name it alike; the first   *)
(* of the best in the order of a map wins.                                 *)
NoLink == {}
LinkKey(root) == IF Len(root) = 2 THEN {root[1], root[2]} ELSE NoLink
Votes(g, k) == Cardinality({i \in DOMAIN g : LinkKey(g[i].root) = k})
Links(g) ==
    LET keys == {LinkKey(g[i].root) : i \in DOMAIN g} \ {NoLink}
    IN IF keys = {} THEN {NoLink}
       ELSE {k \in keys : \A j \in keys : Votes(g, j) <= Votes(g, k)}

(* merge: the spans of all traces of a group by absolute time, and their   *)
(* offsets from the first of them.                                         *)
Moments(g) == FlattenSeq([i \in DOMAIN g |->
    [j \in DOMAIN g[i].offs |->
        [node |-> g[i].node, abs |-> g[i].start + g[i].offs[j] * Ms]]])
Position(m, k) == Cardinality(     \* where a sort by time puts the k-th of m
    {j \in DOMAIN m : m[j].abs < m[k].abs \/ (m[j].abs = m[k].abs /\ j <= k)})
Spans(g) ==
    LET m == Moments(g)
    IN [i \in DOMAIN m |-> m[CHOOSE k \in DOMAIN m : Position(m, k) = i]]
StartOfFirst(g) == g[1].start   \* a fault: not the earliest span
StartOf(g) == Spans(g)[1].abs
Offsets(g) == [i \in DOMAIN Moments(g) |-> (Spans(g)[i].abs - StartOf(g)) \div Ms]
SpanMs(g) == Max({0} \cup ToSet(Offsets(g)))

(* A distributed trace is kept as its group and its link; the rest of it,  *)
(* defined above, follows from them.                                       *)
Build ==
    /\ next = 0 /\ left = {}
    /\ \E s \in Sortings(all) :
          LET gs == Groups(s)
          IN \E link \in [DOMAIN gs -> UNION {Links(gs[i]) : i \in DOMAIN gs}] :
                /\ \A i \in DOMAIN gs : link[i] \in Links(gs[i])
                /\ dt' = [i \in DOMAIN gs |-> [group |-> gs[i], link |-> link[i]]]
    /\ next' = 1 /\ all' = {}
    /\ UNCHANGED <<todo, rings, left, pushed, faults, stored, unsure, answered>>
-----------------------------------------------------------------------------
(* pushZipkin: the id, and the exported spans, whose times are computed    *)
(* from the offsets.                                                       *)
Id(d) == [start |-> StartOf(d.group), link |-> d.link,
          roots |-> [i \in DOMAIN d.group |-> <<d.group[i].node, d.group[i].root>>]]
ZipkinTimes(g) == [i \in DOMAIN Offsets(g) |-> StartOf(g) + Offsets(g)[i] * Ms]

Exporting == next \in 1..Len(dt)
Current == dt[next]
Count(f, id) == IF id \in DOMAIN f THEN f[id] ELSE 0
Counted(f, id) == [j \in DOMAIN f \cup {id} |-> IF j = id THEN Count(f, id) + 1 ELSE f[j]]
PushedNever == pushed' = pushed     \* a fault: exported traces are not remembered
PushedNow == pushed' = pushed \cup {Id(Current)}
IsAnswered == answered' = answered \cup ToSet(Current.group)

KnownByStart(id) == \E p \in pushed : p.start = id.start   \* a fault: the roots are left out
Known(id) == id \in pushed
Skip ==
    /\ Exporting /\ Known(Id(Current))
    /\ next' = next + 1
    /\ UNCHANGED <<todo, rings, left, all, dt, pushed, faults, stored, unsure, answered>>
Post ==                         \* Tempo stores the trace and says so
    /\ Exporting /\ ~Known(Id(Current))
    /\ stored' = Counted(stored, Id(Current))
    /\ PushedNow /\ IsAnswered
    /\ next' = next + 1
    /\ UNCHANGED <<todo, rings, left, all, dt, faults, unsure>>
PostRefused ==                  \* any HTTP status marks the trace as pushed
    /\ Exporting /\ ~Known(Id(Current))
    /\ faults < MaxFaults /\ faults' = faults + 1
    /\ PushedNow /\ IsAnswered
    /\ next' = next + 1
    /\ UNCHANGED <<todo, rings, left, all, dt, stored, unsure>>
PostFails ==                    \* no answer, whether Tempo stored it or not
    /\ Exporting /\ ~Known(Id(Current))
    /\ faults < MaxFaults /\ faults' = faults + 1
    /\ \/ UNCHANGED <<stored, unsure>>
       \/ /\ stored' = Counted(stored, Id(Current))
          /\ unsure' = Counted(unsure, Id(Current))
    /\ next' = next + 1
    /\ UNCHANGED <<todo, rings, left, all, dt, pushed, answered>>

(* time.Sleep(interval), and build again.                                  *)
Sleep ==
    /\ next = Len(dt) + 1
    /\ next' = 0 /\ left' = Nodes /\ dt' = <<>>
    /\ UNCHANGED <<todo, rings, all, pushed, faults, stored, unsure, answered>>

Aggregator ==
    \/ \E n \in Nodes : Fetch(n) \/ FetchFails(n)
    \/ Build
    \/ Skip \/ Post \/ PostRefused \/ PostFails
    \/ Sleep

Next == (\E n \in Nodes : Publish(n)) \/ Aggregator

Spec == Init /\ [][Next]_vars
FairSpec == Spec /\ WF_vars(Aggregator)
-----------------------------------------------------------------------------
(* Type invariant: rings keep to their limit, and no distributed trace is  *)
(* empty.                                                                  *)
TypeOK ==
    /\ left \subseteq Nodes /\ next \in 0..Len(dt) + 1
    /\ next > 0 => left = {}
    /\ \A n \in Nodes : rings[n] \in Seq(Traces(n)) /\ Len(rings[n]) <= RingMax
    /\ \A d \in ToSet(dt) : d.group # <<>> /\ SpanMs(d.group) \in Nat /\ StartOf(d.group) \in Int
    /\ faults \in 0..MaxFaults
    /\ \A id \in pushed : DOMAIN id = {"start", "link", "roots"}

(* Two traces that start within the window of one another are one          *)
(* distributed trace (main.go:6-9), unless a trace before them both, out  *)
(* of the reach of the second, has taken the first (main.go:132); and what *)
(* is together was never further apart than the window.                    *)
Together(t, u) == \E d \in ToSet(dt) : {t, u} \subseteq ToSet(d.group)
Clustered == UNION {ToSet(d.group) : d \in ToSet(dt)}
TakenBefore(t, u) == \E a \in Clustered :
    Together(a, t) /\ a.start < t.start /\ u.start - a.start > Window
BurstsTogether ==
    \A t, u \in Clustered : t.start <= u.start =>
        IF u.start - t.start > Window THEN ~Together(t, u)
        ELSE Together(t, u) \/ TakenBefore(t, u)

(* The merged timeline: spans by time, the first at offset zero even when  *)
(* a trace has spans before its start, none exported before it happened's  *)
(* millisecond or after it, and the whole lasts until the last of them     *)
(* (main.go:164-175, 279-300).                                             *)
TimelineMerged ==
    \A d \in ToSet(dt) :
        LET offs  == Offsets(d.group)
            times == ZipkinTimes(d.group)
        IN /\ offs[1] = 0 /\ SpanMs(d.group) = Last(offs)
           /\ \A i \in DOMAIN times :
                 /\ i > 1 => times[i - 1] <= times[i]
                 /\ Spans(d.group)[i].abs - times[i] \in 0..Ms - 1

(* Exported exactly once per trace_id (main.go:264-265): Tempo stores an id *)
(* twice only if it stored it before and the answer was lost.              *)
StoredOnce == \A id \in DOMAIN stored : stored[id] <= 1 + Count(unsure, id)

(* Once the correlators have published, every trace they still keep is     *)
(* exported, however late it came and whatever failed before.              *)
EveryTraceExported == <>[](\A n \in Nodes : ToSet(rings[n]) \subseteq answered)
=============================================================================
