--------------------------- MODULE FPMIngest_proofs ---------------------------
(***************************************************************************)
(* Proofs about FPMIngest, for every set of prefixes, tables, nexthop      *)
(* objects and routes, any number of connections and of changes in zebra.  *)
(***************************************************************************)
EXTENDS FPMIngest, FiniteSetTheorems, TLAPS

Keys == Tables \X Prefixes

(* The two operations on maps.                                             *)
LEMMA WithIs ==
  ASSUME NEW f, NEW x, NEW v
  PROVE  /\ DOMAIN With(f, x, v) = DOMAIN f \cup {x} /\ With(f, x, v)[x] = v
         /\ \A y \in DOMAIN f : y # x => With(f, x, v)[y] = f[y]
BY DEF With

(* Deleting keys from a map.                                               *)
LEMMA WithoutIs ==
  ASSUME NEW f, NEW S
  PROVE  /\ DOMAIN Without(f, S) = DOMAIN f \ S
         /\ \A y \in DOMAIN f \ S : Without(f, S)[y] = f[y]
BY DEF Without

(* NoLabelWithoutHop is invariant by itself: of the two Updates of a route *)
(* (fpm.go:313-326) the first takes labels away or writes both leaves.     *)
THEOREM NoLabelWithoutHopInvariant == Spec => []NoLabelWithoutHop
<1>1. Init => NoLabelWithoutHop
  BY DEF Init, NoLabelWithoutHop
<1>2. ASSUME NoLabelWithoutHop, [Next]_vars PROVE NoLabelWithoutHop'
  <2>1. CASE UNCHANGED <<hop, lbl>>
    BY <1>2, <2>1 DEF NoLabelWithoutHop
  <2>2. ASSUME NEW c \in Conns, DelRoute(c) PROVE NoLabelWithoutHop'
    <3>1. hop' = Without(hop, {Leaf(c)}) /\ lbl' = Without(lbl, {Leaf(c)})
      BY <2>2 DEF DelRoute
    <3>2. DOMAIN hop' = DOMAIN hop \ {Leaf(c)} /\ DOMAIN lbl' = DOMAIN lbl \ {Leaf(c)}
      BY <3>1, WithoutIs
    <3> QED BY <1>2, <3>2 DEF NoLabelWithoutHop
  <2>3. ASSUME NEW c \in Conns, AddLabelled(c) PROVE NoLabelWithoutHop'
    <3>1. PICK r : hop' = With(hop, Leaf(c), r.hop) /\ lbl' = With(lbl, Leaf(c), r.labels)
      BY <2>3 DEF AddLabelled
    <3>2. DOMAIN hop' = DOMAIN hop \cup {Leaf(c)} /\ DOMAIN lbl' = DOMAIN lbl \cup {Leaf(c)}
      BY <3>1, WithIs
    <3> QED BY <1>2, <3>2 DEF NoLabelWithoutHop
  <2>4. ASSUME NEW c \in Conns, AddPlain(c) PROVE NoLabelWithoutHop'
    <3>1. hop' = hop /\ lbl' = Without(lbl, {Leaf(c)})
      BY <2>4 DEF AddPlain
    <3>2. DOMAIN lbl' = DOMAIN lbl \ {Leaf(c)}
      BY <3>1, WithoutIs
    <3> QED BY <1>2, <3>1, <3>2 DEF NoLabelWithoutHop
  <2>5. ASSUME NEW c \in Conns, FinishPlain(c) PROVE NoLabelWithoutHop'
    <3>1. hop' = With(hop, Head(held[c]).leaf, Head(held[c]).hop) /\ lbl' = lbl
      BY <2>5 DEF FinishPlain
    <3>2. DOMAIN hop' = DOMAIN hop \cup {Head(held[c]).leaf}
      BY <3>1 DEF With
    <3> QED BY <1>2, <3>1, <3>2 DEF NoLabelWithoutHop
  <2> QED BY <1>2, <2>1, <2>2, <2>3, <2>4, <2>5 DEF Next, Zebra, ZebraNexthop, ZebraDelNexthop,
             ZebraRoute, ZebraDelRoute, Disconnect, Connect, VRFAppears, VRFRenamed, NewDevice,
             Handler, HandleNexthop, vars, ours
<1> QED BY <1>1, <1>2, PTL DEF Spec

-----------------------------------------------------------------------------
(* The type of what TypeOK leaves open.                                    *)
NexthopMsgs == [op : {"newnh"}, id : NHIds, obj : NHObjs] \cup [op : {"delnh"}, id : NHIds]
RouteMsgs == [op : {"newroute", "delroute"}, key : Keys, rt : Routes]
Messages == NexthopMsgs \cup RouteMsgs

ZebraTyped ==
    /\ DOMAIN nhg \subseteq NHIds /\ IsFiniteSet(DOMAIN nhg)
    /\ \A i \in DOMAIN nhg : nhg[i] \in NHObjs
    /\ DOMAIN fib \subseteq Keys /\ IsFiniteSet(DOMAIN fib)
    /\ \A k \in DOMAIN fib : fib[k] \in Routes
    /\ DOMAIN vrfdev \subseteq Tables \ {Main, Local}
    /\ \A t \in DOMAIN vrfdev : vrfdev[t] \in Names
    /\ up \in BOOLEAN /\ (~up => live < MaxConns)
WireTyped == DOMAIN inq = Conns /\ \A c \in Conns : inq[c] \in Seq(Messages)
HeldTyped ==
    /\ DOMAIN held = Conns
    /\ \A c \in Conns : held[c] # <<>> =>
          held[c] = <<Head(held[c])>> /\ Head(held[c]).leaf[2] \in Prefixes
Typed == TypeOK /\ ZebraTyped /\ WireTyped /\ HeldTyped

(* The forms of zebra's messages.                                          *)
LEMMA MessageIs ==
  ASSUME NEW m \in Messages
  PROVE  /\ m.op \in {"newnh", "delnh", "newroute", "delroute"}
         /\ m.op \in {"newnh", "delnh"} => m.id \in NHIds
         /\ m.op = "newnh" => m.obj \in NHObjs
         /\ m.op \in {"newroute", "delroute"} => m.key \in Keys /\ m.rt \in Routes
<1>1. CASE m \in [op : {"newnh"}, id : NHIds, obj : NHObjs]
  BY <1>1
<1>2. CASE m \in [op : {"delnh"}, id : NHIds]
  BY <1>2
<1>3. CASE m \in RouteMsgs
  BY <1>3 DEF RouteMsgs
<1> QED BY <1>1, <1>2, <1>3 DEF Messages, NexthopMsgs

(* The sequence operations that a wire undergoes.                          *)
LEMMA QueueType ==
  ASSUME NEW S, NEW q \in Seq(S)
  PROVE  /\ \A m \in S : Append(q, m) \in Seq(S)
         /\ \A n \in 0..Len(q) : SubSeq(q, 1, n) \in Seq(S)
         /\ q # <<>> => Head(q) \in S /\ Tail(q) \in Seq(S)
<1>1. \A m \in S : Append(q, m) \in Seq(S)
  OBVIOUS
<1>2. \A n \in 0..Len(q) : SubSeq(q, 1, n) \in Seq(S)
  OBVIOUS
<1>3. q # <<>> => Head(q) \in S /\ Tail(q) \in Seq(S)
  OBVIOUS
<1> QED BY <1>1, <1>2, <1>3

(* The orders of a finite set.                                             *)
LEMMA OrdersAre ==
  ASSUME NEW S, IsFiniteSet(S), NEW s \in Orders(S)
  PROVE  /\ s \in Seq(S) /\ \A n \in 1..Len(s) : s[n] \in S
         /\ \A x \in S : \E n \in 1..Len(s) : s[n] = x
<1> DEFINE c == Cardinality(S)
<1>1. c \in Nat
  BY FS_CardinalityType
<1>2. s \in [1..c -> S] /\ {s[n] : n \in DOMAIN s} = S
  BY DEF Orders
<1> HIDE DEF c
<1>3. s \in Seq(S) /\ Len(s) = c
  BY <1>1, <1>2
<1> QED BY <1>2, <1>3

(* The messages of a dump are finitely many.                               *)
LEMMA FiniteMsgs ==
  ASSUME NEW f, IsFiniteSet(DOMAIN f), NEW D \in SUBSET DOMAIN f
  PROVE  /\ IsFiniteSet({[op |-> "newnh", id |-> i, obj |-> f[i]] : i \in D})
         /\ IsFiniteSet({[op |-> "newroute", key |-> i, rt |-> f[i]] : i \in D})
<1>1. IsFiniteSet(D)
  BY FS_Subset
<1>2. IsFiniteSet({[op |-> "newnh", id |-> i, obj |-> f[i]] : i \in D})
  <2> DEFINE M == {[op |-> "newnh", id |-> i, obj |-> f[i]] : i \in D}
             g == [i \in D |-> [op |-> "newnh", id |-> i, obj |-> f[i]]]
  <2>1. g \in Surjection(D, M)
    BY DEF Surjection
  <2> QED BY <1>1, <2>1, FS_Surjection
<1>3. IsFiniteSet({[op |-> "newroute", key |-> i, rt |-> f[i]] : i \in D})
  <2> DEFINE M == {[op |-> "newroute", key |-> i, rt |-> f[i]] : i \in D}
             g == [i \in D |-> [op |-> "newroute", key |-> i, rt |-> f[i]]]
  <2>1. g \in Surjection(D, M)
    BY DEF Surjection
  <2> QED BY <1>1, <2>1, FS_Surjection
<1> QED BY <1>2, <1>3

(* A dump: first every nexthop object, then every route.                   *)
NewNexthop(i) == [op |-> "newnh", id |-> i, obj |-> nhg[i]]
NewRoute(k) == [op |-> "newroute", key |-> k, rt |-> fib[k]]

(* A dump tells every object before any route, and nothing else.           *)
LEMMA DumpsAre ==
  ASSUME Typed, NEW dump \in Dumps
  PROVE  /\ dump \in Seq(Messages)
         /\ \E N \in 0..Len(dump) :
               /\ \A n \in 1..N : \E i \in DOMAIN nhg : dump[n] = NewNexthop(i)
               /\ \A i \in DOMAIN nhg : \E n \in 1..N : dump[n] = NewNexthop(i)
               /\ \A n \in N + 1..Len(dump) : \E k \in DOMAIN fib : dump[n] = NewRoute(k)
               /\ \A k \in DOMAIN fib : \E n \in N + 1..Len(dump) : dump[n] = NewRoute(k)
<1> DEFINE plain == {i \in DOMAIN nhg : nhg[i].group = <<>>}
           A == {NewNexthop(i) : i \in plain}
           B == {NewNexthop(i) : i \in DOMAIN nhg \ plain}
           C == {NewRoute(k) : k \in DOMAIN fib}
<1>1. IsFiniteSet(A) /\ IsFiniteSet(B) /\ IsFiniteSet(C)
  <2>1. /\ IsFiniteSet({[op |-> "newnh", id |-> i, obj |-> nhg[i]] : i \in plain})
        /\ IsFiniteSet({[op |-> "newnh", id |-> i, obj |-> nhg[i]] : i \in DOMAIN nhg \ plain})
    BY FiniteMsgs DEF Typed, ZebraTyped
  <2>2. IsFiniteSet({[op |-> "newroute", key |-> i, rt |-> fib[i]] : i \in DOMAIN fib})
    BY FiniteMsgs DEF Typed, ZebraTyped
  <2> QED BY <2>1, <2>2 DEF NewNexthop, NewRoute
<1>2. A \subseteq Messages /\ B \subseteq Messages /\ C \subseteq Messages
  <2>1. \A i \in DOMAIN nhg : NewNexthop(i) \in Messages
    BY DEF NewNexthop, Messages, NexthopMsgs, Typed, ZebraTyped
  <2>2. \A k \in DOMAIN fib : NewRoute(k) \in Messages
    BY DEF NewRoute, Messages, RouteMsgs, Typed, ZebraTyped
  <2> QED BY <2>1, <2>2
<1>3. PICK a \in Orders(A), b \in Orders(B), c \in Orders(C) : dump = a \o b \o c
  <2> DEFINE NewNHs(S) == {[op |-> "newnh", id |-> i, obj |-> nhg[i]] : i \in S}
             NewRTs == {[op |-> "newroute", key |-> k, rt |-> fib[k]] : k \in DOMAIN fib}
  <2>1. \E a \in Orders(NewNHs(plain)), b \in Orders(NewNHs(DOMAIN nhg \ plain)),
           c \in Orders(NewRTs) : dump = a \o b \o c
    BY SMTT(30) DEF Dumps
  <2>2. NewNHs(plain) = A /\ NewNHs(DOMAIN nhg \ plain) = B /\ NewRTs = C
    BY DEF NewNexthop, NewRoute
  <2> HIDE DEF A, B, C, plain, NewNHs, NewRTs
  <2> QED BY <2>1, <2>2
<1>4. /\ \A n : n \in A \/ n \in B <=> \E i \in DOMAIN nhg : n = NewNexthop(i)
      /\ \A n : n \in C <=> \E k \in DOMAIN fib : n = NewRoute(k)
  OBVIOUS
<1> HIDE DEF plain, A, B, C
<1>5. /\ a \in Seq(A) /\ \A n \in 1..Len(a) : a[n] \in A
      /\ \A x \in A : \E n \in 1..Len(a) : a[n] = x
  BY <1>1, OrdersAre
<1>6. /\ b \in Seq(B) /\ \A n \in 1..Len(b) : b[n] \in B
      /\ \A x \in B : \E n \in 1..Len(b) : b[n] = x
  BY <1>1, OrdersAre
<1>7. /\ c \in Seq(C) /\ \A n \in 1..Len(c) : c[n] \in C
      /\ \A x \in C : \E n \in 1..Len(c) : c[n] = x
  BY <1>1, OrdersAre
<1>8. a \in Seq(Messages) /\ b \in Seq(Messages) /\ c \in Seq(Messages)
  BY <1>2, <1>5, <1>6, <1>7
<1> DEFINE N == Len(a) + Len(b)
<1>9. /\ dump \in Seq(Messages) /\ Len(dump) = Len(a) + Len(b) + Len(c)
      /\ Len(a) \in Nat /\ Len(b) \in Nat /\ Len(c) \in Nat
      /\ \A n \in 1..Len(a) : dump[n] = a[n]
      /\ \A n \in 1..Len(b) : dump[Len(a) + n] = b[n]
      /\ \A n \in 1..Len(c) : dump[N + n] = c[n]
  BY <1>3, <1>8
<1>10. ASSUME NEW n \in 1..N PROVE \E i \in DOMAIN nhg : dump[n] = NewNexthop(i)
  <2>1. CASE n \in 1..Len(a)
    BY <1>4, <1>5, <1>9, <2>1
  <2>2. CASE n \notin 1..Len(a)
    <3>1. n - Len(a) \in 1..Len(b) /\ dump[n] = b[n - Len(a)]
      BY <1>9, <2>2
    <3> QED BY <1>4, <1>6, <3>1
  <2> QED BY <2>1, <2>2
<1>11. ASSUME NEW i \in DOMAIN nhg PROVE \E n \in 1..N : dump[n] = NewNexthop(i)
  <2>1. CASE NewNexthop(i) \in A
    <3>1. PICK n \in 1..Len(a) : a[n] = NewNexthop(i)
      BY <1>5, <2>1
    <3>2. n \in 1..N /\ dump[n] = NewNexthop(i)
      BY <1>9, <3>1
    <3> QED BY <3>2
  <2>2. CASE NewNexthop(i) \in B
    <3>1. PICK n \in 1..Len(b) : b[n] = NewNexthop(i)
      BY <1>6, <2>2
    <3>2. Len(a) + n \in 1..N /\ dump[Len(a) + n] = NewNexthop(i)
      BY <1>9, <3>1
    <3> QED BY <3>2
  <2> QED BY <1>4, <2>1, <2>2
<1>12. ASSUME NEW n \in N + 1..Len(dump) PROVE \E k \in DOMAIN fib : dump[n] = NewRoute(k)
  <2>1. n - N \in 1..Len(c) /\ dump[n] = c[n - N]
    <3>1. n - N \in 1..Len(c) /\ N + (n - N) = n
      BY <1>9
    <3> QED BY <1>9, <3>1
  <2> QED BY <1>4, <1>7, <2>1
<1>13. ASSUME NEW k \in DOMAIN fib PROVE \E n \in N + 1..Len(dump) : dump[n] = NewRoute(k)
  <2>1. PICK n \in 1..Len(c) : c[n] = NewRoute(k)
    BY <1>4, <1>7
  <2>2. N + n \in N + 1..Len(dump) /\ dump[N + n] = NewRoute(k)
    BY <1>9, <2>1
  <2> QED BY <2>2
<1>14. N \in 0..Len(dump)
  BY <1>9
<1> HIDE DEF N
<1> QED BY <1>9, <1>10, <1>11, <1>12, <1>13, <1>14

(* What a step may do to the wire: a message is appended, some are taken   *)
(* off either end, or a dump is put on a new connection.                   *)
LEMMA SendType ==
  ASSUME Typed, NEW m \in Messages, Send(m)
  PROVE  WireTyped'
<1>1. CASE up
  <2>1. inq' = [inq EXCEPT ![live] = Append(inq[live], m)]
    BY <1>1 DEF Send
  <2>2. Append(inq[live], m) \in Seq(Messages)
    BY QueueType DEF Typed, TypeOK, WireTyped
  <2> QED BY <2>1, <2>2 DEF Typed, TypeOK, WireTyped
<1>2. CASE ~up
  BY <1>2 DEF Send, Typed, WireTyped
<1> QED BY <1>1, <1>2

(* The types are kept when zebra changes an object or a route: its maps    *)
(* stay maps of objects and routes, and what it sends describes them.      *)
LEMMA NexthopType ==
  ASSUME Typed, ZebraNexthop \/ ZebraDelNexthop
  PROVE  Typed'
<1>1. CASE ZebraNexthop
  <2>1. PICK i \in NHIds, o \in NHObjs :
               nhg' = With(nhg, i, o) /\ Send([op |-> "newnh", id |-> i, obj |-> o])
    BY <1>1 DEF ZebraNexthop
  <2>2. UNCHANGED <<fib, vrfdev, live, up, held, nh, vmap, hop, lbl>>
    BY <1>1 DEF ZebraNexthop, ours
  <2>3. [op |-> "newnh", id |-> i, obj |-> o] \in Messages
    BY DEF Messages, NexthopMsgs
  <2>4. WireTyped'
    BY <2>1, <2>3, SendType
  <2>5. DOMAIN nhg' = DOMAIN nhg \cup {i} /\ \A j \in DOMAIN nhg' : nhg'[j] \in NHObjs
    BY <2>1 DEF With, Typed, ZebraTyped
  <2>6. DOMAIN nhg' \subseteq NHIds /\ IsFiniteSet(DOMAIN nhg')
    BY <2>5, FS_AddElement DEF Typed, ZebraTyped
  <2> QED BY <2>2, <2>4, <2>5, <2>6 DEF Typed, TypeOK, ZebraTyped, HeldTyped
<1>2. CASE ZebraDelNexthop
  <2>1. PICK i \in DOMAIN nhg :
               nhg' = Without(nhg, {i}) /\ Send([op |-> "delnh", id |-> i])
    BY <1>2 DEF ZebraDelNexthop
  <2>2. UNCHANGED <<fib, vrfdev, live, up, held, nh, vmap, hop, lbl>>
    BY <1>2 DEF ZebraDelNexthop, ours
  <2>3. [op |-> "delnh", id |-> i] \in Messages
    BY DEF Messages, NexthopMsgs, Typed, ZebraTyped
  <2>4. WireTyped'
    BY <2>1, <2>3, SendType
  <2>5. DOMAIN nhg' = DOMAIN nhg \ {i} /\ \A j \in DOMAIN nhg' : nhg'[j] \in NHObjs
    BY <2>1 DEF Without, Typed, ZebraTyped
  <2>6. DOMAIN nhg' \subseteq NHIds /\ IsFiniteSet(DOMAIN nhg')
    BY <2>5, FS_Subset DEF Typed, ZebraTyped
  <2> QED BY <2>2, <2>4, <2>5, <2>6 DEF Typed, TypeOK, ZebraTyped, HeldTyped
<1> QED BY <1>1, <1>2

(* A route is added, replaced or deleted.                                  *)
LEMMA RouteType ==
  ASSUME Typed, ZebraRoute \/ ZebraDelRoute
  PROVE  Typed'
<1>1. CASE ZebraRoute
  <2>1. PICK k \in Keys, r \in Routes :
               fib' = With(fib, k, r) /\ Send([op |-> "newroute", key |-> k, rt |-> r])
    BY <1>1 DEF ZebraRoute, Keys
  <2>2. UNCHANGED <<nhg, vrfdev, live, up, held, nh, vmap, hop, lbl>>
    BY <1>1 DEF ZebraRoute, ours
  <2>3. [op |-> "newroute", key |-> k, rt |-> r] \in Messages
    BY DEF Messages, RouteMsgs
  <2>4. WireTyped'
    BY <2>1, <2>3, SendType
  <2>5. DOMAIN fib' = DOMAIN fib \cup {k} /\ \A j \in DOMAIN fib' : fib'[j] \in Routes
    BY <2>1 DEF With, Typed, ZebraTyped
  <2>6. DOMAIN fib' \subseteq Keys /\ IsFiniteSet(DOMAIN fib')
    BY <2>5, FS_AddElement DEF Typed, ZebraTyped
  <2> QED BY <2>2, <2>4, <2>5, <2>6 DEF Typed, TypeOK, ZebraTyped, HeldTyped
<1>2. CASE ZebraDelRoute
  <2>1. PICK k \in DOMAIN fib :
               fib' = Without(fib, {k}) /\ Send([op |-> "delroute", key |-> k, rt |-> fib[k]])
    BY <1>2 DEF ZebraDelRoute
  <2>2. UNCHANGED <<nhg, vrfdev, live, up, held, nh, vmap, hop, lbl>>
    BY <1>2 DEF ZebraDelRoute, ours
  <2>3. [op |-> "delroute", key |-> k, rt |-> fib[k]] \in Messages
    BY DEF Messages, RouteMsgs, Typed, ZebraTyped
  <2>4. WireTyped'
    BY <2>1, <2>3, SendType
  <2>5. DOMAIN fib' = DOMAIN fib \ {k} /\ \A j \in DOMAIN fib' : fib'[j] \in Routes
    BY <2>1 DEF Without, Typed, ZebraTyped
  <2>6. DOMAIN fib' \subseteq Keys /\ IsFiniteSet(DOMAIN fib')
    BY <2>5, FS_Subset DEF Typed, ZebraTyped
  <2> QED BY <2>2, <2>4, <2>5, <2>6 DEF Typed, TypeOK, ZebraTyped, HeldTyped
<1> QED BY <1>1, <1>2

(* The connection breaks, or zebra dials again: the number of the last     *)
(* connection stays in range because the bound is in the guard.            *)
LEMMA DialType ==
  ASSUME Typed, Disconnect \/ Connect
  PROVE  Typed'
<1>1. CASE Disconnect
  <2>1. PICK n \in 0..Len(inq[live]) : inq' = [inq EXCEPT ![live] = SubSeq(@, 1, n)]
    BY <1>1 DEF Disconnect
  <2>2. /\ live < MaxConns /\ up' = FALSE
        /\ UNCHANGED <<nhg, fib, vrfdev, live, held, nh, vmap, hop, lbl>>
    BY <1>1 DEF Disconnect, ours
  <2>3. SubSeq(inq[live], 1, n) \in Seq(Messages)
    BY QueueType DEF Typed, TypeOK, WireTyped
  <2>4. WireTyped'
    BY <2>1, <2>3 DEF Typed, TypeOK, WireTyped
  <2> QED BY <2>2, <2>4 DEF Typed, TypeOK, ZebraTyped, HeldTyped
<1>2. CASE Connect
  <2>1. PICK dump \in Dumps : inq' = [inq EXCEPT ![live + 1] = dump]
    BY <1>2 DEF Connect
  <2>2. /\ ~up /\ up' = TRUE /\ live' = live + 1
        /\ UNCHANGED <<nhg, fib, vrfdev, held, nh, vmap, hop, lbl>>
    BY <1>2 DEF Connect, ours
  <2>3. dump \in Seq(Messages)
    BY DumpsAre
  <2>4. WireTyped'
    BY <2>1, <2>3 DEF Typed, WireTyped
  <2>5. live + 1 \in Conns
    BY <2>2, FPMAssumption DEF Typed, TypeOK, ZebraTyped, Conns
  <2> QED BY <2>2, <2>4, <2>5 DEF Typed, TypeOK, ZebraTyped, HeldTyped
<1> QED BY <1>1, <1>2

(* The kernel gives a VRF device to a table that is not the main one.      *)
LEMMA DeviceType ==
  ASSUME Typed, VRFAppears \/ VRFRenamed
  PROVE  Typed'
<1>1. PICK t \in Tables \ {Main, Local}, n \in Names : NewDevice(t, n)
  BY DEF VRFAppears, VRFRenamed, Typed, ZebraTyped
<1>2. vrfdev' = With(vrfdev, t, n)
  BY <1>1 DEF NewDevice
<1>3. UNCHANGED <<nhg, fib, live, up, inq, held, nh, vmap, hop, lbl>>
  BY <1>1 DEF NewDevice, ours
<1>4. DOMAIN vrfdev' = DOMAIN vrfdev \cup {t} /\ \A u \in DOMAIN vrfdev' : vrfdev'[u] \in Names
  BY <1>2 DEF With, Typed, ZebraTyped
<1>5. ZebraTyped'
  BY <1>3, <1>4 DEF Typed, ZebraTyped
<1> QED BY <1>3, <1>5 DEF Typed, TypeOK, WireTyped, HeldTyped

(* A handler takes the first message of its connection.                    *)
LEMMA TakeType ==
  ASSUME Typed, NEW c \in Conns, Take(c)
  PROVE  Next1(c) \in Messages /\ WireTyped'
<1>1. held[c] = <<>> /\ inq[c] # <<>> /\ inq' = [inq EXCEPT ![c] = Tail(inq[c])]
  BY DEF Take
<1>2. Head(inq[c]) \in Messages /\ Tail(inq[c]) \in Seq(Messages)
  BY <1>1, QueueType DEF Typed, WireTyped
<1> QED BY <1>1, <1>2 DEF Next1, Typed, WireTyped

(* handleNexthop keeps objects under ids that are not 0.                   *)
LEMMA HandleNexthopType ==
  ASSUME Typed, NEW c \in Conns, HandleNexthop(c)
  PROVE  Typed'
<1> DEFINE m == Next1(c)
<1>1. Take(c) /\ m.op \in {"newnh", "delnh"}
  BY DEF HandleNexthop
<1>2. m \in Messages /\ WireTyped'
  BY <1>1, TakeType
<1>3. m.id \in NHIds /\ (m.op = "newnh" => m.obj \in NHObjs)
  BY <1>1, <1>2, MessageIs
<1>4. \/ nh' = nh
      \/ m.id # 0 /\ m.op = "newnh" /\ nh' = With(nh, m.id, m.obj)
      \/ nh' = Without(nh, {m.id})
  BY <1>1 DEF HandleNexthop
<1>5. UNCHANGED <<nhg, fib, vrfdev, live, up, held, vmap, hop, lbl>>
  BY DEF HandleNexthop, zebraVars, kernel
<1>6. DOMAIN nh' \subseteq NHIds \ {0} /\ \A i \in DOMAIN nh' : nh'[i] \in NHObjs
  <2>1. CASE nh' = nh
    BY <2>1 DEF Typed, TypeOK
  <2>2. CASE m.id # 0 /\ m.op = "newnh" /\ nh' = With(nh, m.id, m.obj)
    BY <1>3, <2>2 DEF With, Typed, TypeOK
  <2>3. CASE nh' = Without(nh, {m.id})
    BY <2>3 DEF Without, Typed, TypeOK
  <2> QED BY <1>4, <2>1, <2>2, <2>3
<1> QED BY <1>2, <1>5, <1>6 DEF Typed, TypeOK, ZebraTyped, HeldTyped

(* A handler of a route names its leaf after a prefix, with a map that is  *)
(* the resolver's or the kernel's.                                         *)
LEMMA BeginRouteType ==
  ASSUME Typed, NEW c \in Conns, NEW op \in {"newroute", "delroute"}, NEW kind,
         BeginRoute(c, op, kind)
  PROVE  /\ Next1(c) \in Messages /\ Next1(c).op = op
         /\ Next1(c).key \in Keys /\ Next1(c).rt \in Routes
         /\ Leaf(c)[2] \in Prefixes
         /\ WireTyped' /\ ZebraTyped' /\ live' = live /\ nh' = nh
         /\ DOMAIN vmap' \subseteq Tables \ {Main, Local} /\ \A t \in DOMAIN vmap' : vmap'[t] \in Names
<1>1. Take(c) /\ Next1(c).op = op /\ vmap' = MapAfter(Next1(c).key[1])
  BY DEF BeginRoute
<1>2. UNCHANGED <<nhg, fib, vrfdev, live, up, nh>>
  BY DEF BeginRoute, kernel
<1>3. Next1(c) \in Messages /\ WireTyped'
  BY <1>1, TakeType
<1>4. Next1(c).key \in Keys /\ Next1(c).rt \in Routes
  BY <1>1, <1>3, MessageIs
<1>5. Leaf(c)[2] \in Prefixes
  BY <1>4 DEF Leaf, Keys
<1>6. vmap' = vrfdev \/ vmap' = vmap
  BY <1>1 DEF MapAfter
<1>7. DOMAIN vmap' \subseteq Tables \ {Main, Local} /\ \A t \in DOMAIN vmap' : vmap'[t] \in Names
  BY <1>6 DEF Typed, TypeOK, ZebraTyped
<1>8. ZebraTyped'
  BY <1>2 DEF Typed, ZebraTyped
<1> QED BY <1>1, <1>2, <1>3, <1>4, <1>5, <1>7, <1>8

(* The steps of handleRoute.                                               *)
LEMMA HandleRouteType ==
  ASSUME Typed, NEW c \in Conns,
         DelRoute(c) \/ AddLabelled(c) \/ AddPlain(c) \/ FinishPlain(c)
  PROVE  Typed'
<1>1. CASE DelRoute(c)
  <2>1. BeginRoute(c, "delroute", "route-del") /\ held' = held
    BY <1>1 DEF DelRoute
  <2>2. hop' = Without(hop, {Leaf(c)}) /\ lbl' = Without(lbl, {Leaf(c)})
    BY <1>1 DEF DelRoute
  <2>3. /\ WireTyped' /\ ZebraTyped' /\ live' = live /\ nh' = nh
        /\ DOMAIN vmap' \subseteq Tables \ {Main, Local} /\ \A t \in DOMAIN vmap' : vmap'[t] \in Names
    BY <2>1, BeginRouteType
  <2>4. /\ DOMAIN hop' \subseteq DOMAIN hop /\ DOMAIN lbl' \subseteq DOMAIN lbl
        /\ \A k \in DOMAIN lbl' : lbl'[k] = lbl[k]
    BY <2>2 DEF Without
  <2> QED BY <2>1, <2>3, <2>4 DEF Typed, TypeOK, HeldTyped
<1>2. CASE AddLabelled(c)
  <2>1. BeginRoute(c, "newroute", "route-add") /\ held' = held
    BY <1>2 DEF AddLabelled
  <2>2. PICK r : /\ hop' = With(hop, Leaf(c), r.hop) /\ lbl' = With(lbl, Leaf(c), r.labels)
                 /\ r.labels # <<>>
    BY <1>2 DEF AddLabelled
  <2>3. /\ WireTyped' /\ ZebraTyped' /\ live' = live /\ nh' = nh /\ Leaf(c)[2] \in Prefixes
        /\ DOMAIN vmap' \subseteq Tables \ {Main, Local} /\ \A t \in DOMAIN vmap' : vmap'[t] \in Names
    BY <2>1, BeginRouteType
  <2>4. /\ DOMAIN hop' = DOMAIN hop \cup {Leaf(c)} /\ DOMAIN lbl' = DOMAIN lbl \cup {Leaf(c)}
        /\ \A k \in DOMAIN lbl' : lbl'[k] = lbl[k] \/ lbl'[k] = r.labels
        /\ \A k \in DOMAIN lbl' : k \notin DOMAIN lbl => lbl'[k] = r.labels
    BY <2>2 DEF With
  <2>5. \A k \in DOMAIN hop' \cup DOMAIN lbl' : k[2] \in Prefixes
    BY <2>3, <2>4 DEF Typed, TypeOK
  <2>6. \A k \in DOMAIN lbl' : lbl'[k] # <<>>
    BY <2>2, <2>4 DEF Typed, TypeOK
  <2> QED BY <2>1, <2>3, <2>5, <2>6 DEF Typed, TypeOK, HeldTyped
<1>3. CASE AddPlain(c)
  <2>1. BeginRoute(c, "newroute", "route-add") /\ hop' = hop /\ lbl' = Without(lbl, {Leaf(c)})
    BY <1>3 DEF AddPlain
  <2>2. PICK h : held' = [held EXCEPT ![c] = <<[leaf |-> Leaf(c), hop |-> h]>>]
    BY <1>3 DEF AddPlain
  <2>3. /\ WireTyped' /\ ZebraTyped' /\ live' = live /\ nh' = nh /\ Leaf(c)[2] \in Prefixes
        /\ DOMAIN vmap' \subseteq Tables \ {Main, Local} /\ \A t \in DOMAIN vmap' : vmap'[t] \in Names
    BY <2>1, BeginRouteType
  <2>4. DOMAIN lbl' \subseteq DOMAIN lbl /\ \A k \in DOMAIN lbl' : lbl'[k] = lbl[k]
    BY <2>1 DEF Without
  <2> DEFINE h1 == [leaf |-> Leaf(c), hop |-> h]
  <2>5. /\ DOMAIN held' = Conns /\ held'[c] = <<h1>>
        /\ \A d \in Conns : d # c => held'[d] = held[d]
    BY <2>2 DEF Typed, HeldTyped
  <2>6. Head(<<h1>>) = h1 /\ Len(<<h1>>) = 1 /\ h1.leaf[2] \in Prefixes
    BY <2>3
  <2> HIDE DEF h1
  <2>7. HeldTyped'
    BY <2>5, <2>6 DEF Typed, HeldTyped
  <2>8. ASSUME NEW d \in Conns PROVE Len(held'[d]) <= 1
    <3>1. CASE d = c
      BY <2>5, <2>6, <3>1
    <3>2. CASE d # c
      <4>1. held'[d] = held[d] /\ Len(held[d]) <= 1
        BY <2>5, <3>2 DEF Typed, TypeOK
      <4> QED BY <4>1
    <3> QED BY <3>1, <3>2
  <2> QED BY <2>1, <2>3, <2>4, <2>7, <2>8 DEF Typed, TypeOK
<1>4. CASE FinishPlain(c)
  <2>1. /\ held[c] # <<>> /\ held' = [held EXCEPT ![c] = <<>>]
        /\ hop' = With(hop, Head(held[c]).leaf, Head(held[c]).hop)
    BY <1>4 DEF FinishPlain
  <2>2. UNCHANGED <<nhg, fib, vrfdev, live, up, inq, nh, vmap, lbl>>
    BY <1>4 DEF FinishPlain, zebraVars, kernel
  <2>3. Head(held[c]).leaf[2] \in Prefixes
    BY <2>1 DEF Typed, HeldTyped
  <2>4. DOMAIN hop' = DOMAIN hop \cup {Head(held[c]).leaf}
    BY <2>1 DEF With
  <2>5. \A k \in DOMAIN hop' \cup DOMAIN lbl' : k[2] \in Prefixes
    BY <2>2, <2>3, <2>4 DEF Typed, TypeOK
  <2>6. DOMAIN held' = Conns /\ \A d \in Conns : held'[d] = held[d] \/ held'[d] = <<>>
    BY <2>1 DEF Typed, HeldTyped
  <2>7. HeldTyped' /\ \A d \in Conns : Len(held'[d]) <= 1
    BY <2>6 DEF Typed, TypeOK, HeldTyped
  <2> QED BY <2>2, <2>5, <2>7 DEF Typed, TypeOK, ZebraTyped, WireTyped
<1> QED BY <1>1, <1>2, <1>3, <1>4

(* Every step keeps the types.                                             *)
LEMMA TypeStep ==
  ASSUME Typed, [Next]_vars
  PROVE  Typed'
<1>1. CASE UNCHANGED vars
  BY <1>1 DEF vars, zebraVars, kernel, ours, Typed, TypeOK, ZebraTyped, WireTyped, HeldTyped
<1>2. ASSUME NEW c \in Conns, Handler(c) PROVE Typed'
  BY <1>2, HandleNexthopType, HandleRouteType DEF Handler
<1>3. CASE Zebra
  BY <1>3, NexthopType, RouteType, DialType, DeviceType DEF Zebra
<1> QED BY <1>1, <1>2, <1>3 DEF Next

(* TypeOK, with the types of zebra's maps, of the wire and of the Updates  *)
(* that are still due.                                                     *)
THEOREM TypeCorrect == Spec => [](TypeOK /\ ZebraTyped /\ WireTyped /\ HeldTyped)
<1>1. Init => Typed
  <2> SUFFICES ASSUME Init PROVE Typed
    OBVIOUS
  <2>1. live \in Conns /\ live = 1 /\ up = TRUE
    BY FPMAssumption DEF Init, Conns
  <2>2. DOMAIN vrfdev \subseteq Tables \ {Main, Local} /\ \A t \in DOMAIN vrfdev : vrfdev[t] \in Names
    BY DEF Init
  <2>3. DOMAIN NoMap = {} /\ IsFiniteSet({})
    BY FS_EmptySet DEF NoMap
  <2>4. WireTyped /\ HeldTyped /\ \A c \in Conns : Len(held[c]) <= 1
    BY DEF Init, WireTyped, HeldTyped
  <2>5. /\ DOMAIN nhg = {} /\ DOMAIN fib = {} /\ DOMAIN nh = {} /\ vmap = vrfdev
        /\ DOMAIN hop = {} /\ DOMAIN lbl = {}
    BY <2>3 DEF Init
  <2>6. TypeOK
    BY <2>1, <2>2, <2>4, <2>5 DEF TypeOK
  <2>7. ZebraTyped
    BY <2>1, <2>2, <2>3, <2>5 DEF ZebraTyped
  <2> QED BY <2>4, <2>6, <2>7 DEF Typed
<1>2. Typed /\ [Next]_vars => Typed'
  BY TypeStep
<1>3. Spec => []Typed
  BY <1>1, <1>2, PTL DEF Spec
<1> QED BY <1>3, PTL DEF Typed

-----------------------------------------------------------------------------
(* The five objects that resolveNH looks at (fpm.go:205-226), one by one:  *)
(* its recursive function exists, since each level needs only the one      *)
(* below.                                                                  *)
Level0 == [i \in NHIds |-> Unresolved]
Level(m) == Followed(m, Followed(m, Followed(m, Followed(m, Followed(m, Level0)))))

(* resolveNH looks at five objects: its recursion unfolded.                *)
LEMMA ResolveIs ==
  ASSUME NEW m, NEW id
  PROVE  ResolveNH(m, id) = Level(m)[id]
<1> DEFINE Body(f) == [n \in 0..5 |-> IF n = 0 THEN Level0 ELSE Followed(m, f[n - 1])]
           follow == CHOOSE f : f = Body(f)
           l1 == Followed(m, Level0)
           l2 == Followed(m, l1)
           l3 == Followed(m, l2)
           l4 == Followed(m, l3)
           l5 == Followed(m, l4)
           w == [n \in 0..5 |-> IF n = 0 THEN Level0 ELSE IF n = 1 THEN l1 ELSE IF n = 2 THEN l2
                                ELSE IF n = 3 THEN l3 ELSE IF n = 4 THEN l4 ELSE l5]
<1>1. ResolveNH(m, id) = follow[5][id]
  BY DEF ResolveNH, Level0
<1>2. w = Body(w)
  <2> HIDE DEF l1, l2, l3, l4, l5
  <2>1. /\ w[0] = Level0 /\ w[1] = l1 /\ w[2] = l2 /\ w[3] = l3 /\ w[4] = l4
    OBVIOUS
  <2>2. /\ l1 = Followed(m, w[0]) /\ l2 = Followed(m, w[1]) /\ l3 = Followed(m, w[2])
        /\ l4 = Followed(m, w[3]) /\ l5 = Followed(m, w[4])
    BY <2>1 DEF l1, l2, l3, l4, l5
  <2> DEFINE g(n) == IF n = 0 THEN Level0 ELSE IF n = 1 THEN l1 ELSE IF n = 2 THEN l2
                     ELSE IF n = 3 THEN l3 ELSE IF n = 4 THEN l4 ELSE l5
             h(n) == IF n = 0 THEN Level0 ELSE Followed(m, w[n - 1])
  <2>3. ASSUME NEW n \in 0..5 PROVE g(n) = h(n)
    <3> HIDE DEF w
    <3>1. n = 0 \/ n = 1 \/ n = 2 \/ n = 3 \/ n = 4 \/ n = 5
      OBVIOUS
    <3> QED BY <3>1, <2>2
  <2>4. w = [n \in 0..5 |-> g(n)] /\ Body(w) = [n \in 0..5 |-> h(n)]
    OBVIOUS
  <2> HIDE DEF g, h, w, Body
  <2> QED BY <2>3, <2>4
<1>3. follow = Body(follow)
  <2> HIDE DEF w, Body
  <2> QED BY <1>2
<1> HIDE DEF follow, w
<1>4. /\ follow[0] = Level0 /\ follow[1] = Followed(m, follow[0])
      /\ follow[2] = Followed(m, follow[1]) /\ follow[3] = Followed(m, follow[2])
      /\ follow[4] = Followed(m, follow[3]) /\ follow[5] = Followed(m, follow[4])
  <2>1. \A n \in 0..5 : follow[n] = IF n = 0 THEN Level0 ELSE Followed(m, follow[n - 1])
    BY <1>3
  <2> QED BY <2>1
<1> QED BY <1>1, <1>4 DEF Level

(* Two maps that agree on ids which lead to no others.                     *)
AgreeOn(D, m1, m2) ==
    /\ D \subseteq NHIds /\ D \subseteq DOMAIN m1 /\ D \subseteq DOMAIN m2
    /\ \A i \in D : /\ m1[i] = m2[i] /\ m2[i] \in NHObjs
                    /\ \A j \in DOMAIN m2[i].group : m2[i].group[j] \in D

(* One step of resolveNH finds the same in maps that agree.                *)
LEMMA FollowedSame ==
  ASSUME NEW D, NEW m1, NEW m2, AgreeOn(D, m1, m2), NEW p1, NEW p2, \A i \in D : p1[i] = p2[i]
  PROVE  \A i \in D : Followed(m1, p1)[i] = Followed(m2, p2)[i]
<1> SUFFICES ASSUME NEW i \in D PROVE Followed(m1, p1)[i] = Followed(m2, p2)[i]
  OBVIOUS
<1>1. i \in NHIds /\ i \in DOMAIN m1 /\ i \in DOMAIN m2 /\ m1[i] = m2[i]
  BY DEF AgreeOn
<1> DEFINE o == m2[i]
<1>2. o.group # <<>> => p1[Head(o.group)] = p2[Head(o.group)]
  <2>1. o \in NHObjs /\ \A j \in DOMAIN o.group : o.group[j] \in D
    BY DEF AgreeOn
  <2> HIDE DEF o
  <2>2. o.group \in Seq(NHIds)
    BY <2>1, FPMAssumption
  <2>3. o.group # <<>> => 1 \in DOMAIN o.group /\ Head(o.group) = o.group[1]
    BY <2>2
  <2> QED BY <2>1, <2>3
<1>3. /\ Followed(m1, p1)[i] = CASE o.bh -> [Unresolved EXCEPT !.bh = TRUE]
              [] ~o.bh /\ (o.gw # NoGw \/ o.oif) ->
                   [gw |-> o.gw, bh |-> FALSE, labels |-> o.labels]
              [] ~o.bh /\ o.gw = NoGw /\ ~o.oif /\ o.group # <<>> ->
                   p1[Head(o.group)]
              [] OTHER -> Unresolved
      /\ Followed(m2, p2)[i] = CASE o.bh -> [Unresolved EXCEPT !.bh = TRUE]
              [] ~o.bh /\ (o.gw # NoGw \/ o.oif) ->
                   [gw |-> o.gw, bh |-> FALSE, labels |-> o.labels]
              [] ~o.bh /\ o.gw = NoGw /\ ~o.oif /\ o.group # <<>> ->
                   p2[Head(o.group)]
              [] OTHER -> Unresolved
  BY <1>1 DEF Followed
<1> HIDE DEF o
<1> QED BY <1>2, <1>3

(* So do all five steps, and with them what a route resolves to.           *)
LEMMA SameResolution ==
  ASSUME NEW D, NEW m1, NEW m2, AgreeOn(D, m1, m2), NEW rt, rt.nhid \in D \cup {0}
  PROVE  Resolution(rt, m1) = Resolution(rt, m2)
<1>1. \A i \in D : Level(m1)[i] = Level(m2)[i]
  <2> DEFINE a1 == Followed(m1, Level0) b1 == Followed(m2, Level0)
             a2 == Followed(m1, a1)     b2 == Followed(m2, b1)
             a3 == Followed(m1, a2)     b3 == Followed(m2, b2)
             a4 == Followed(m1, a3)     b4 == Followed(m2, b3)
  <2>1. \A i \in D : a1[i] = b1[i]
    BY FollowedSame
  <2> HIDE DEF a1, b1
  <2>2. \A i \in D : a2[i] = b2[i]
    BY <2>1, FollowedSame
  <2> HIDE DEF a2, b2
  <2>3. \A i \in D : a3[i] = b3[i]
    BY <2>2, FollowedSame
  <2> HIDE DEF a3, b3
  <2>4. \A i \in D : a4[i] = b4[i]
    BY <2>3, FollowedSame
  <2> HIDE DEF a4, b4
  <2>5. \A i \in D : Followed(m1, a4)[i] = Followed(m2, b4)[i]
    BY <2>4, FollowedSame
  <2> QED BY <2>5 DEF Level, a1, a2, a3, a4, b1, b2, b3, b4
<1>2. rt.nhid # 0 => ResolveNH(m1, rt.nhid) = ResolveNH(m2, rt.nhid)
  BY <1>1, ResolveIs
<1> QED BY <1>2 DEF Resolution

-----------------------------------------------------------------------------
(* What the nexthop map of the ingester becomes as it applies the messages *)
(* of a queue one after another.                                           *)
Apply(m, msg) ==
    IF msg.op = "newnh" THEN With(m, msg.id, msg.obj)
    ELSE IF msg.op = "delnh" THEN Without(m, {msg.id}) ELSE m
Course(W, q, m) == W[0] = m /\ \A n \in 1..Len(q) : W[n] = Apply(W[n - 1], q[n])

(* Of a route, the messages of a queue that are about it.                  *)
About(m, k) == IsRoute(m) /\ m.key = k
NoneFor(q, k) == \A n \in 1..Len(q) : ~About(q[n], k)
LastFor(q, k, n) == About(q[n], k) /\ \A j \in n + 1..Len(q) : ~About(q[j], k)

(* An empty queue changes nothing.                                         *)
LEMMA NothingWaits ==
  ASSUME NEW m
  PROVE  /\ Course([n \in {0} |-> m], <<>>, m)
         /\ \A k : NoneFor(<<>>, k)
BY DEF Course, NoneFor

(* A message is appended.                                                  *)
LEMMA CourseAppend ==
  ASSUME NEW S, NEW q \in Seq(S), NEW msg \in S, NEW W, NEW m, Course(W, q, m)
  PROVE  \E V : /\ Course(V, Append(q, msg), m)
                /\ \A n \in 0..Len(q) : V[n] = W[n]
                /\ V[Len(Append(q, msg))] = Apply(W[Len(q)], msg)
<1> DEFINE a == Append(q, msg)
           L == Len(q)
           V == [n \in 0..L + 1 |-> IF n = L + 1 THEN Apply(W[L], msg) ELSE W[n]]
<1>1. /\ L \in Nat /\ Len(a) = L + 1 /\ a[L + 1] = msg
      /\ \A n \in 1..L : a[n] = q[n]
  OBVIOUS
<1> HIDE DEF a, L
<1>2. V[L + 1] = Apply(W[L], msg) /\ \A n \in 0..L : V[n] = W[n]
  BY <1>1
<1> HIDE DEF V
<1>3. Course(V, a, m)
  <2>1. V[0] = m
    BY <1>1, <1>2 DEF Course
  <2>2. ASSUME NEW n \in 1..Len(a) PROVE V[n] = Apply(V[n - 1], a[n])
    <3>1. CASE n = L + 1
      <4>1. V[n - 1] = W[L]
        <5>1. n - 1 = L /\ L \in 0..L
          BY <1>1, <3>1
        <5> QED BY <1>2, <5>1
      <4> QED BY <1>1, <1>2, <3>1, <4>1
    <3>2. CASE n # L + 1
      <4>1. n \in 1..L /\ n \in 0..L /\ n - 1 \in 0..L
        BY <1>1, <3>2
      <4>2. W[n] = Apply(W[n - 1], q[n])
        BY <4>1 DEF Course, L
      <4> QED BY <1>1, <1>2, <4>1, <4>2
    <3> QED BY <3>1, <3>2
  <2> QED BY <2>1, <2>2 DEF Course
<1> QED BY <1>1, <1>2, <1>3 DEF a, L

(* An appended message is the last one about its route.                    *)
LEMMA LastAppend ==
  ASSUME NEW S, NEW q \in Seq(S), NEW msg \in S, NEW k
  PROVE  IF About(msg, k)
         THEN /\ ~NoneFor(Append(q, msg), k)
              /\ \A n \in 1..Len(Append(q, msg)) :
                    LastFor(Append(q, msg), k, n) => n = Len(q) + 1 /\ Append(q, msg)[n] = msg
         ELSE /\ NoneFor(Append(q, msg), k) <=> NoneFor(q, k)
              /\ \A n \in 1..Len(Append(q, msg)) :
                    LastFor(Append(q, msg), k, n) =>
                       n \in 1..Len(q) /\ LastFor(q, k, n) /\ Append(q, msg)[n] = q[n]
<1> DEFINE a == Append(q, msg)
           L == Len(q)
<1>1. /\ L \in Nat /\ Len(a) = L + 1 /\ a[L + 1] = msg
      /\ \A n \in 1..L : a[n] = q[n]
  OBVIOUS
<1> HIDE DEF a, L
<1>2. L + 1 \in 1..Len(a) /\ 1..L \subseteq 1..Len(a)
  BY <1>1
<1>3. CASE About(msg, k)
  <2>1. ~NoneFor(a, k)
    BY <1>1, <1>2, <1>3 DEF NoneFor
  <2>2. ASSUME NEW n \in 1..Len(a), LastFor(a, k, n), n # L + 1 PROVE FALSE
    <3>1. L + 1 \in n + 1..Len(a)
      BY <1>1, <2>2
    <3> QED BY <1>1, <1>3, <2>2, <3>1 DEF LastFor
  <2> QED BY <1>1, <1>3, <2>1, <2>2 DEF a, L
<1>4. CASE ~About(msg, k)
  <2>1. ASSUME NoneFor(a, k) PROVE NoneFor(q, k)
    BY <1>1, <1>2, <2>1 DEF NoneFor, L
  <2>2. ASSUME NoneFor(q, k), NEW n \in 1..Len(a) PROVE ~About(a[n], k)
    <3>1. n = L + 1 \/ n \in 1..L
      BY <1>1
    <3> QED BY <1>1, <1>4, <2>2, <3>1 DEF NoneFor, L
  <2>3. ASSUME NEW n \in 1..Len(a), LastFor(a, k, n)
        PROVE  n \in 1..L /\ LastFor(q, k, n) /\ a[n] = q[n]
    <3>1. n # L + 1
      BY <1>1, <1>4, <2>3 DEF LastFor
    <3>2. n \in 1..L
      BY <1>1, <3>1
    <3>3. \A j \in n + 1..L : j \in n + 1..Len(a) /\ j \in 1..L
      BY <1>1, <3>2
    <3>4. LastFor(q, k, n)
      BY <1>1, <2>3, <3>2, <3>3 DEF LastFor, L
    <3> QED BY <1>1, <3>2, <3>4
  <2>4. NoneFor(a, k) <=> NoneFor(q, k)
    BY <2>1, <2>2 DEF NoneFor
  <2> QED BY <1>4, <2>3, <2>4 DEF a, L
<1> QED BY <1>3, <1>4

(* The head is taken off.                                                  *)
LEMMA CourseTail ==
  ASSUME NEW S, NEW q \in Seq(S), q # <<>>, NEW W, NEW m, Course(W, q, m)
  PROVE  \E V : /\ Course(V, Tail(q), Apply(m, Head(q)))
                /\ V[Len(Tail(q))] = W[Len(q)]
                /\ \A n \in 0..Len(Tail(q)) : V[n] = W[n + 1]
<1> DEFINE a == Tail(q)
           L == Len(q)
           V == [n \in 0..L - 1 |-> W[n + 1]]
<1>1. /\ L \in Nat /\ L > 0 /\ Len(a) = L - 1 /\ Head(q) = q[1]
      /\ \A n \in 1..L - 1 : a[n] = q[n + 1]
  OBVIOUS
<1> HIDE DEF a, L
<1>2. \A n \in 0..L - 1 : V[n] = W[n + 1]
  OBVIOUS
<1> HIDE DEF V
<1>3. V[0] = Apply(m, Head(q))
  <2>1. 0 \in 0..L - 1 /\ 0 + 1 = 1 /\ 1 \in 1..L /\ 1 - 1 = 0
    BY <1>1
  <2>2. W[1] = Apply(W[0], q[1]) /\ W[0] = m
    BY <2>1 DEF Course, L
  <2> QED BY <1>1, <1>2, <2>1, <2>2
<1>4. ASSUME NEW n \in 1..Len(a) PROVE V[n] = Apply(V[n - 1], a[n])
  <2>1. n \in 1..L - 1 /\ n \in 0..L - 1 /\ n - 1 \in 0..L - 1 /\ n + 1 \in 1..L
        /\ (n - 1) + 1 = n /\ (n + 1) - 1 = n
    BY <1>1
  <2>2. W[n + 1] = Apply(W[n], q[n + 1])
    BY <2>1 DEF Course, L
  <2> QED BY <1>1, <1>2, <2>1, <2>2
<1>5. V[Len(a)] = W[L]
  BY <1>1, <1>2
<1> QED BY <1>1, <1>2, <1>3, <1>4, <1>5 DEF Course, a, L

(* If nothing that is left is about a route, its last message was the      *)
(* head.                                                                   *)
LEMMA LastTail ==
  ASSUME NEW S, NEW q \in Seq(S), q # <<>>, NEW k
  PROVE  /\ ~About(Head(q), k) => (NoneFor(Tail(q), k) <=> NoneFor(q, k))
         /\ NoneFor(Tail(q), k) /\ About(Head(q), k) => LastFor(q, k, 1)
         /\ \A n \in 1..Len(Tail(q)) :
               /\ n + 1 \in 1..Len(q) /\ Tail(q)[n] = q[n + 1]
               /\ LastFor(Tail(q), k, n) => LastFor(q, k, n + 1)
         /\ 1 \in 1..Len(q) /\ Head(q) = q[1]
<1> DEFINE a == Tail(q)
           L == Len(q)
<1>1. /\ L \in Nat /\ L > 0 /\ Len(a) = L - 1 /\ Head(q) = q[1]
      /\ \A n \in 1..L - 1 : a[n] = q[n + 1]
  OBVIOUS
<1> HIDE DEF a, L
<1>2. ASSUME NEW n \in 1..Len(a) PROVE n + 1 \in 1..L /\ a[n] = q[n + 1]
  BY <1>1
<1>3. ASSUME NEW j \in 2..L PROVE j - 1 \in 1..Len(a) /\ a[j - 1] = q[j]
  BY <1>1
<1>4. ASSUME NEW n \in 1..Len(a), LastFor(a, k, n) PROVE LastFor(q, k, n + 1)
  <2>1. ASSUME NEW j \in (n + 1) + 1..L PROVE ~About(q[j], k)
    <3>1. j \in 2..L /\ j - 1 \in n + 1..Len(a)
      BY <1>1
    <3> QED BY <1>3, <1>4, <3>1 DEF LastFor
  <2> QED BY <1>2, <1>4, <2>1 DEF LastFor, L
<1>5. ASSUME ~About(Head(q), k), NoneFor(a, k), NEW j \in 1..L PROVE ~About(q[j], k)
  <2>1. CASE j = 1
    BY <1>1, <1>5, <2>1
  <2>2. CASE j # 1
    <3>1. j \in 2..L
      BY <1>1, <2>2
    <3> QED BY <1>3, <1>5, <3>1 DEF NoneFor
  <2> QED BY <2>1, <2>2
<1>6. NoneFor(q, k) => NoneFor(a, k)
  BY <1>2 DEF NoneFor, L
<1>7. ASSUME NoneFor(a, k), About(Head(q), k) PROVE LastFor(q, k, 1)
  <2>1. ASSUME NEW j \in 1 + 1..L PROVE ~About(q[j], k)
    <3>1. j \in 2..L
      OBVIOUS
    <3> QED BY <1>3, <1>7, <3>1 DEF NoneFor
  <2> QED BY <1>1, <1>7, <2>1 DEF LastFor, L
<1>8. ~About(Head(q), k) => (NoneFor(a, k) <=> NoneFor(q, k))
  BY <1>5, <1>6 DEF NoneFor, L
<1>9. 1 \in 1..L
  BY <1>1
<1> QED BY <1>1, <1>2, <1>4, <1>7, <1>8, <1>9 DEF a, L

(* The end of a queue is lost.                                             *)
LEMMA CourseTake ==
  ASSUME NEW S, NEW q \in Seq(S), NEW n \in 0..Len(q), NEW W, NEW m, Course(W, q, m)
  PROVE  Course(W, SubSeq(q, 1, n), m)
<1>1. Len(SubSeq(q, 1, n)) = n /\ \A j \in 1..n : SubSeq(q, 1, n)[j] = q[j] /\ j \in 1..Len(q)
  OBVIOUS
<1> QED BY <1>1 DEF Course

(* What is lost is about other routes.                                     *)
LEMMA LastTake ==
  ASSUME NEW S, NEW q \in Seq(S), NEW n \in 0..Len(q), NEW k,
         \A j \in n + 1..Len(q) : ~About(q[j], k)
  PROVE  /\ NoneFor(SubSeq(q, 1, n), k) <=> NoneFor(q, k)
         /\ \A j \in 1..Len(SubSeq(q, 1, n)) :
               /\ j \in 1..Len(q) /\ SubSeq(q, 1, n)[j] = q[j]
               /\ LastFor(SubSeq(q, 1, n), k, j) => LastFor(q, k, j)
<1> DEFINE a == SubSeq(q, 1, n)
           L == Len(q)
<1>1. L \in Nat /\ n \in Nat /\ n <= L /\ Len(a) = n /\ \A j \in 1..n : a[j] = q[j] /\ j \in 1..L
  OBVIOUS
<1> HIDE DEF a
<1>2. \A j \in 1..L : j \in 1..n \/ j \in n + 1..L
  BY <1>1
<1>3. NoneFor(a, k) <=> NoneFor(q, k)
  BY <1>1, <1>2 DEF NoneFor
<1>4. ASSUME NEW j \in 1..n, LastFor(a, k, j) PROVE LastFor(q, k, j)
  <2>1. ASSUME NEW x \in j + 1..L PROVE ~About(q[x], k)
    <3>1. (x \in j + 1..n /\ x \in 1..n) \/ x \in n + 1..L
      BY <1>1
    <3> QED BY <1>1, <1>4, <3>1 DEF LastFor
  <2> QED BY <1>1, <1>4, <2>1 DEF LastFor
<1> QED BY <1>1, <1>3, <1>4 DEF a

-----------------------------------------------------------------------------
(* What steps do to the wire.                                              *)
LEMMA SendEffect ==
  ASSUME Typed, NEW m, Send(m)
  PROVE  live \in Conns
         /\ \A c \in Conns : inq'[c] = IF c = live /\ up THEN Append(inq[c], m) ELSE inq[c]
<1>1. CASE up
  <2>1. inq' = [inq EXCEPT ![live] = Append(inq[live], m)]
    BY <1>1 DEF Send
  <2> QED BY <1>1, <2>1 DEF Typed, TypeOK, WireTyped
<1>2. CASE ~up
  BY <1>2 DEF Send, Typed, TypeOK
<1> QED BY <1>1, <1>2

(* A handler disturbs its own connection only, from whose queue it takes   *)
(* nothing or the head, which it applies to the nexthop map.               *)
LEMMA HandlerEffect ==
  ASSUME Typed, 0 \notin NHIds, NEW c \in Conns, Handler(c)
  PROVE  /\ UNCHANGED kernel /\ doubt \subseteq doubt'
         /\ ~Idle(c)
         /\ \A d \in Conns : d # c => inq'[d] = inq[d] /\ held'[d] = held[d]
         /\ \/ FinishPlain(c) /\ inq'[c] = inq[c] /\ nh' = nh
            \/ /\ held[c] = <<>> /\ inq[c] # <<>> /\ inq'[c] = Tail(inq[c])
               /\ nh' = Apply(nh, Head(inq[c]))
<1>1. ASSUME Take(c)
      PROVE  /\ held[c] = <<>> /\ inq[c] # <<>> /\ inq'[c] = Tail(inq[c]) /\ ~Idle(c)
             /\ \A d \in Conns : d # c => inq'[d] = inq[d]
             /\ Head(inq[c]) \in Messages
  <2>1. held[c] = <<>> /\ inq[c] # <<>> /\ inq' = [inq EXCEPT ![c] = Tail(inq[c])]
    BY <1>1 DEF Take
  <2> QED BY <2>1, <1>1, TakeType DEF Typed, WireTyped, Idle, Next1
<1>2. CASE HandleNexthop(c)
  <2>1. Take(c) /\ Next1(c).op \in {"newnh", "delnh"} /\ UNCHANGED <<kernel, doubt, held>>
    BY <1>2 DEF HandleNexthop, zebraVars
  <2>2. Next1(c).id # 0
    BY <1>1, <2>1, MessageIs DEF Next1
  <2>3. nh' = Apply(nh, Head(inq[c]))
    <3>1. CASE Next1(c).op = "newnh"
      <4>1. nh' = With(nh, Next1(c).id, Next1(c).obj)
        BY <1>2, <2>2, <3>1 DEF HandleNexthop
      <4> QED BY <3>1, <4>1 DEF Apply, Next1
    <3>2. CASE Next1(c).op = "delnh"
      <4>1. nh' = Without(nh, {Next1(c).id})
        BY <1>2, <2>2, <3>2 DEF HandleNexthop
      <4> QED BY <3>2, <4>1 DEF Apply, Next1
    <3> QED BY <2>1, <3>1, <3>2
  <2> QED BY <1>1, <2>1, <2>3
<1>3. ASSUME NEW op \in {"newroute", "delroute"}, NEW kind, BeginRoute(c, op, kind)
      PROVE  /\ UNCHANGED kernel /\ doubt \subseteq doubt' /\ Take(c)
             /\ nh' = Apply(nh, Head(inq[c]))
  <2>1. Take(c) /\ Next1(c).op = op /\ UNCHANGED <<kernel, nh>> /\ RecordNames(c)
    BY <1>3 DEF BeginRoute
  <2>2. doubt \subseteq doubt'
    BY <2>1 DEF RecordNames
  <2> QED BY <2>1, <2>2 DEF Apply, Next1
<1>4. CASE DelRoute(c)
  <2>1. BeginRoute(c, "delroute", "route-del") /\ held' = held
    BY <1>4 DEF DelRoute
  <2> QED BY <1>1, <1>3, <2>1
<1>5. CASE AddLabelled(c)
  <2>1. BeginRoute(c, "newroute", "route-add") /\ held' = held
    BY <1>5 DEF AddLabelled
  <2> QED BY <1>1, <1>3, <2>1
<1>6. CASE AddPlain(c)
  <2>1. BeginRoute(c, "newroute", "route-add")
        /\ \E x : held' = [held EXCEPT ![c] = x]
    BY <1>6 DEF AddPlain
  <2>2. \A d \in Conns : d # c => held'[d] = held[d]
    BY <2>1 DEF Typed, HeldTyped
  <2> QED BY <1>1, <1>3, <2>1, <2>2
<1>7. CASE FinishPlain(c)
  <2>1. held[c] # <<>> /\ held' = [held EXCEPT ![c] = <<>>] /\ UNCHANGED <<zebraVars, inq, nh>>
    BY <1>7 DEF FinishPlain
  <2> QED BY <1>7, <2>1 DEF Typed, HeldTyped, Idle, zebraVars
<1> QED BY <1>2, <1>4, <1>5, <1>6, <1>7 DEF Handler

(* Connections that did not overlap: only the last one has work left.      *)
OnlyLive ==
    /\ \A c \in Conns : c > live => Idle(c)
    /\ ~mixed => \A c \in Conns : c # live => Idle(c)

(* OnlyLive is inductive: a connection that begins in time finds the one   *)
(* before it idle.                                                         *)
LEMMA OnlyLiveStep ==
  ASSUME Typed, OnlyLive, 0 \notin NHIds, [Next]_vars
  PROVE  OnlyLive'
<1>1. ASSUME UNCHANGED <<live, mixed, held>>, \A c \in Conns : c # live => inq'[c] = inq[c]
      PROVE  OnlyLive'
  <2>1. live \in Conns
    BY DEF Typed, TypeOK
  <2>2. \A c \in Conns : c # live => (Idle(c)' <=> Idle(c))
    BY <1>1 DEF Idle
  <2>3. \A c \in Conns : c > live => c # live
    BY <2>1 DEF Conns
  <2> QED BY <1>1, <2>2, <2>3 DEF OnlyLive
<1>2. ASSUME NEW m, Send(m), UNCHANGED <<live, mixed, held>> PROVE OnlyLive'
  BY <1>1, <1>2, SendEffect
<1>3. CASE ZebraNexthop \/ ZebraDelNexthop \/ ZebraRoute \/ ZebraDelRoute
  <2>1. (\E m : Send(m)) /\ UNCHANGED <<live, mixed, held>>
    BY <1>3 DEF ZebraNexthop, ZebraDelNexthop, ZebraRoute, ZebraDelRoute, history, ours
  <2> QED BY <1>2, <2>1
<1>4. CASE Disconnect
  <2>1. UNCHANGED <<live, mixed, held>> /\ \E x : inq' = [inq EXCEPT ![live] = x]
    BY <1>4 DEF Disconnect, ours
  <2>2. \A c \in Conns : c # live => inq'[c] = inq[c]
    BY <2>1 DEF Typed, WireTyped
  <2> QED BY <1>1, <2>1, <2>2
<1>5. CASE Connect
  <2>1. /\ live' = live + 1 /\ held' = held /\ mixed' = (mixed \/ ~Idle(live))
        /\ \E x : inq' = [inq EXCEPT ![live + 1] = x]
    BY <1>5 DEF Connect, ours
  <2>2. live \in Conns /\ \A c \in Conns : c # live + 1 => (Idle(c)' <=> Idle(c))
    BY <2>1 DEF Typed, TypeOK, WireTyped, Idle
  <2>3. \A c \in Conns : c > live + 1 => c # live + 1 /\ c > live
    BY <2>2 DEF Conns
  <2>4. ASSUME ~mixed', NEW c \in Conns, c # live + 1 PROVE Idle(c)
    <3>1. ~mixed /\ Idle(live)
      BY <2>1, <2>4
    <3> QED BY <3>1 DEF OnlyLive
  <2> QED BY <2>1, <2>2, <2>3, <2>4 DEF OnlyLive
<1>6. CASE VRFAppears \/ VRFRenamed
  BY <1>1, <1>6 DEF VRFAppears, VRFRenamed, NewDevice, ours
<1>7. ASSUME NEW c \in Conns, Handler(c) PROVE OnlyLive'
  <2>1. UNCHANGED kernel /\ ~Idle(c) /\ \A d \in Conns : d # c => inq'[d] = inq[d] /\ held'[d] = held[d]
    BY <1>7, HandlerEffect
  <2>2. \A d \in Conns : d # c => (Idle(d)' <=> Idle(d))
    BY <2>1 DEF Idle
  <2> QED BY <2>1, <2>2 DEF OnlyLive, kernel
<1>8. CASE UNCHANGED vars
  BY <1>1, <1>8 DEF vars, zebraVars, kernel, ours
<1> QED BY <1>3, <1>4, <1>5, <1>6, <1>7, <1>8 DEF Next, Zebra

(* zebra has every object that a group or a route of it refers to.         *)
Closed ==
    /\ \A i \in DOMAIN nhg : \A j \in DOMAIN nhg[i].group : nhg[i].group[j] \in DOMAIN nhg
    /\ \A k \in DOMAIN fib : fib[k].nhid \in DOMAIN nhg \cup {0}

(* Closed is inductive: zebra deletes no object that is in use.            *)
LEMMA ClosedStep ==
  ASSUME Typed, Closed, [Next]_vars
  PROVE  Closed'
<1>1. CASE ZebraNexthop
  <2>1. PICK i \in NHIds, o \in NHObjs :
               /\ \A j \in DOMAIN o.group : o.group[j] \in DOMAIN nhg \ {i}
               /\ nhg' = With(nhg, i, o)
    BY <1>1 DEF ZebraNexthop
  <2>2. /\ fib' = fib /\ DOMAIN nhg' = DOMAIN nhg \cup {i} /\ nhg'[i] = o
        /\ \A j \in DOMAIN nhg : j # i => nhg'[j] = nhg[j]
    BY <1>1, <2>1 DEF ZebraNexthop, With
  <2> QED BY <2>1, <2>2 DEF Closed
<1>2. CASE ZebraDelNexthop
  <2>1. PICK i \in DOMAIN nhg \ Used : nhg' = Without(nhg, {i})
    BY <1>2 DEF ZebraDelNexthop
  <2>2. /\ fib' = fib /\ DOMAIN nhg' = DOMAIN nhg \ {i}
        /\ \A j \in DOMAIN nhg' : nhg'[j] = nhg[j]
    BY <1>2, <2>1 DEF ZebraDelNexthop, Without
  <2>3. /\ \A k \in DOMAIN fib : fib[k].nhid # i
        /\ \A j \in DOMAIN nhg : \A n \in DOMAIN nhg[j].group : nhg[j].group[n] # i
    BY <2>1 DEF Used
  <2> QED BY <2>2, <2>3 DEF Closed
<1>3. CASE ZebraRoute
  <2>1. PICK k \in Keys, r \in Routes :
               /\ r.nhid = 0 \/ r.nhid \in DOMAIN nhg
               /\ fib' = With(fib, k, r)
    BY <1>3 DEF ZebraRoute, Keys
  <2>2. /\ nhg' = nhg /\ DOMAIN fib' = DOMAIN fib \cup {k} /\ fib'[k] = r
        /\ \A j \in DOMAIN fib : j # k => fib'[j] = fib[j]
    BY <1>3, <2>1 DEF ZebraRoute, With
  <2> QED BY <2>1, <2>2 DEF Closed
<1>4. CASE ZebraDelRoute
  <2>1. nhg' = nhg /\ \E k \in DOMAIN fib : fib' = Without(fib, {k})
    BY <1>4 DEF ZebraDelRoute
  <2>2. DOMAIN fib' \subseteq DOMAIN fib /\ \A k \in DOMAIN fib' : fib'[k] = fib[k]
    BY <2>1 DEF Without
  <2> QED BY <2>1, <2>2 DEF Closed
<1>5. CASE UNCHANGED <<nhg, fib>>
  BY <1>5 DEF Closed
<1>6. ASSUME NEW c \in Conns, Handler(c) PROVE UNCHANGED <<nhg, fib>>
  BY <1>6 DEF Handler, HandleNexthop, DelRoute, AddLabelled, AddPlain, FinishPlain, BeginRoute,
              zebraVars, kernel
<1>7. CASE Disconnect \/ Connect \/ VRFAppears \/ VRFRenamed \/ UNCHANGED vars
  BY <1>5, <1>7 DEF Disconnect, Connect, VRFAppears, VRFRenamed, NewDevice, vars, zebraVars, kernel
<1> QED BY <1>1, <1>2, <1>3, <1>4, <1>5, <1>6, <1>7 DEF Next, Zebra

(* A map that has zebra's objects leads routes where zebra's map does; and *)
(* so does zebra's when an object that nobody uses is gone.                *)
Agree(m, g) == \A i \in DOMAIN g : i \in DOMAIN m /\ m[i] = g[i]

(* With such a map a route resolves as in zebra.                           *)
LEMMA AgreeResolves ==
  ASSUME Typed, Closed, NEW m, Agree(m, nhg), NEW rt, rt.nhid \in DOMAIN nhg \cup {0}
  PROVE  Resolution(rt, m) = Resolution(rt, nhg)
<1>1. AgreeOn(DOMAIN nhg, m, nhg)
  BY DEF AgreeOn, Agree, Closed, Typed, ZebraTyped
<1> QED BY <1>1, SameResolution

(* An object that nobody refers to resolves nothing.                       *)
LEMMA UnusedResolves ==
  ASSUME Typed, Closed, NEW i \in DOMAIN nhg \ Used, nhg' = Without(nhg, {i}), NEW k \in DOMAIN fib
  PROVE  Resolution(fib[k], nhg') = Resolution(fib[k], nhg)
<1> DEFINE D == DOMAIN nhg \ {i}
<1>1. DOMAIN nhg' = D /\ \A j \in D : nhg'[j] = nhg[j]
  BY DEF Without
<1>2. /\ \A x \in DOMAIN fib : fib[x].nhid # i
      /\ \A j \in DOMAIN nhg : \A n \in DOMAIN nhg[j].group : nhg[j].group[n] # i
  BY DEF Used
<1>3. AgreeOn(D, nhg', nhg)
  BY <1>1, <1>2 DEF AgreeOn, Closed, Typed, ZebraTyped
<1>4. fib[k].nhid \in D \cup {0}
  BY <1>2 DEF Closed
<1> QED BY <1>3, <1>4, SameResolution

-----------------------------------------------------------------------------
(* The wire tells the truth.  As long as connections do not overlap, the   *)
(* nexthop map will have all of zebra's objects when the messages on the   *)
(* wire are applied; and the last message about a route that is not in     *)
(* doubt tells of the route as it is now, and finds a nexthop map that     *)
(* leads it where it leads in zebra.  Here f and g are zebra's routes and  *)
(* objects, u says that the connection stands, K are the routes not in     *)
(* doubt.                                                                  *)
TrueOf(msg, k, m, f, g) ==
    IF msg.op = "newroute"
    THEN k \in DOMAIN f /\ msg.rt = f[k] /\ Resolution(f[k], m) = Resolution(f[k], g)
    ELSE k \notin DOMAIN f
TrueCourse(W, q, m, u, f, g, K) ==
    /\ Course(W, q, m)
    /\ u => Agree(W[Len(q)], g)
    /\ \A k \in K : \A n \in 1..Len(q) : LastFor(q, k, n) => TrueOf(q[n], k, W[n - 1], f, g)
WireTrue == ~mixed => \E W : TrueCourse(W, inq[live], nh, up, fib, nhg, Keys \ doubt)

(* The wire stays as it is, and what it says stays true.                   *)
LEMMA TrueKept ==
  ASSUME NEW W, NEW q, NEW m, NEW u, NEW f, NEW g, NEW K, TrueCourse(W, q, m, u, f, g, K),
         NEW u2, NEW f2, NEW g2, NEW K2,
         u2 => u /\ \A x : Agree(x, g) => Agree(x, g2),
         \A k \in K2 : k \in K /\ \A x, y : TrueOf(x, k, y, f, g) => TrueOf(x, k, y, f2, g2)
  PROVE  TrueCourse(W, q, m, u2, f2, g2, K2)
<1>1. u2 => Agree(W[Len(q)], g2)
  BY DEF TrueCourse
<1>2. \A k \in K2 : \A n \in 1..Len(q) : LastFor(q, k, n) => TrueOf(q[n], k, W[n - 1], f2, g2)
  BY DEF TrueCourse
<1> QED BY <1>1, <1>2 DEF TrueCourse

(* A message that is appended is true of its route, if it has one.         *)
LEMMA TrueAppend ==
  ASSUME NEW S, NEW q \in Seq(S), NEW msg \in S,
         NEW W, NEW m, NEW f, NEW g, NEW K, TrueCourse(W, q, m, TRUE, f, g, K),
         NEW f2, NEW g2, NEW K2,
         \A x : Agree(x, g) => Agree(Apply(x, msg), g2),
         \A k \in K2 : About(msg, k) => \A x : Agree(x, g) => TrueOf(msg, k, x, f2, g2),
         \A k \in K2 : ~About(msg, k) =>
             k \in K /\ \A x, y : TrueOf(x, k, y, f, g) => TrueOf(x, k, y, f2, g2)
  PROVE  \E V : TrueCourse(V, Append(q, msg), m, TRUE, f2, g2, K2)
<1> DEFINE a == Append(q, msg)
           L == Len(q)
<1>0. L \in Nat /\ Course(W, q, m) /\ Agree(W[L], g)
  BY DEF TrueCourse
<1>1. PICK V : /\ Course(V, a, m) /\ \A n \in 0..L : V[n] = W[n]
               /\ V[Len(a)] = Apply(W[L], msg)
  BY <1>0, CourseAppend
<1>2. Agree(V[Len(a)], g2)
  BY <1>0, <1>1
<1>3. ASSUME NEW k \in K2, NEW n \in 1..Len(a), LastFor(a, k, n)
      PROVE  TrueOf(a[n], k, V[n - 1], f2, g2)
  <2>1. CASE About(msg, k)
    <3>1. n = L + 1 /\ a[n] = msg
      BY <1>3, <2>1, LastAppend
    <3>2. V[n - 1] = W[L]
      <4>1. n - 1 = L /\ L \in 0..L
        BY <1>0, <3>1
      <4> QED BY <1>1, <4>1
    <3> QED BY <1>0, <2>1, <3>1, <3>2
  <2>2. CASE ~About(msg, k)
    <3>1. n \in 1..L /\ LastFor(q, k, n) /\ a[n] = q[n]
      BY <1>3, <2>2, LastAppend
    <3>2. V[n - 1] = W[n - 1]
      <4>1. n - 1 \in 0..L
        BY <1>0, <3>1
      <4> QED BY <1>1, <4>1
    <3>3. k \in K /\ \A x, y : TrueOf(x, k, y, f, g) => TrueOf(x, k, y, f2, g2)
      BY <2>2
    <3>4. TrueOf(q[n], k, W[n - 1], f, g)
      BY <3>1, <3>3 DEF TrueCourse
    <3>5. TrueOf(q[n], k, W[n - 1], f2, g2)
      BY <3>3, <3>4
    <3> QED BY <3>1, <3>2, <3>5
  <2> QED BY <2>1, <2>2
<1> QED BY <1>1, <1>2, <1>3 DEF TrueCourse

(* The head is applied.                                                    *)
LEMMA TrueTail ==
  ASSUME NEW S, NEW q \in Seq(S), q # <<>>,
         NEW W, NEW m, NEW u, NEW f, NEW g, NEW K, TrueCourse(W, q, m, u, f, g, K)
  PROVE  \E V : TrueCourse(V, Tail(q), Apply(m, Head(q)), u, f, g, K)
<1> DEFINE a == Tail(q)
<1>1. PICK V : /\ Course(V, a, Apply(m, Head(q))) /\ V[Len(a)] = W[Len(q)]
               /\ \A n \in 0..Len(a) : V[n] = W[n + 1]
  BY CourseTail DEF TrueCourse
<1>2. u => Agree(V[Len(a)], g)
  BY <1>1 DEF TrueCourse
<1>3. ASSUME NEW k \in K, NEW n \in 1..Len(a), LastFor(a, k, n)
      PROVE  TrueOf(a[n], k, V[n - 1], f, g)
  <2>1. n + 1 \in 1..Len(q) /\ a[n] = q[n + 1] /\ LastFor(q, k, n + 1)
    BY <1>3, LastTail
  <2>2. TrueOf(q[n + 1], k, W[(n + 1) - 1], f, g)
    BY <2>1 DEF TrueCourse
  <2>3. V[n - 1] = W[(n + 1) - 1]
    <3>1. n - 1 \in 0..Len(a) /\ (n - 1) + 1 = (n + 1) - 1
      OBVIOUS
    <3> QED BY <1>1, <3>1
  <2> QED BY <2>1, <2>2, <2>3
<1> QED BY <1>1, <1>2, <1>3 DEF TrueCourse

(* The end is lost, which puts the routes it was about in doubt.           *)
LEMMA TrueTake ==
  ASSUME NEW S, NEW q \in Seq(S), NEW n \in 0..Len(q),
         NEW W, NEW m, NEW u, NEW f, NEW g, NEW K, TrueCourse(W, q, m, u, f, g, K),
         NEW K2, \A k \in K2 : k \in K /\ \A j \in n + 1..Len(q) : ~About(q[j], k)
  PROVE  TrueCourse(W, SubSeq(q, 1, n), m, FALSE, f, g, K2)
<1> DEFINE a == SubSeq(q, 1, n)
<1>1. Course(W, a, m)
  BY CourseTake DEF TrueCourse
<1>2. ASSUME NEW k \in K2, NEW j \in 1..Len(a), LastFor(a, k, j)
      PROVE  TrueOf(a[j], k, W[j - 1], f, g)
  <2>1. k \in K /\ \A x \in n + 1..Len(q) : ~About(q[x], k)
    OBVIOUS
  <2>2. j \in 1..Len(q) /\ a[j] = q[j] /\ LastFor(q, k, j)
    BY <1>2, <2>1, LastTake, ZenonT(60)
  <2> QED BY <2>1, <2>2 DEF TrueCourse
<1> QED BY <1>1, <1>2 DEF TrueCourse

-----------------------------------------------------------------------------
(* A dump is true: whatever the map was, it has all of zebra's objects     *)
(* when the first route of the dump comes.                                 *)
Heard(dump, n) == {i \in DOMAIN nhg : \E j \in 1..n : dump[j] = NewNexthop(i)}

(* What a dump has told of the objects after its first n messages.         *)
LEMMA HeardGrows ==
  ASSUME NEW S, NEW dump \in Seq(S), NEW n \in 1..Len(dump)
  PROVE  /\ \A i \in DOMAIN nhg : dump[n] = NewNexthop(i) =>
               Heard(dump, n) = Heard(dump, n - 1) \cup {i}
         /\ IsRoute(dump[n]) => Heard(dump, n) = Heard(dump, n - 1)
<1>1. 1..n = (1..n - 1) \cup {n}
  OBVIOUS
<1>2. \A i, j \in DOMAIN nhg : NewNexthop(i) = NewNexthop(j) => i = j
  BY DEF NewNexthop
<1>3. \A i \in DOMAIN nhg : ~IsRoute(NewNexthop(i))
  BY DEF NewNexthop, IsRoute
<1>4. ASSUME NEW i \in DOMAIN nhg, dump[n] = NewNexthop(i)
      PROVE  Heard(dump, n) = Heard(dump, n - 1) \cup {i}
  BY <1>1, <1>2, <1>4 DEF Heard
<1>5. ASSUME IsRoute(dump[n]) PROVE Heard(dump, n) = Heard(dump, n - 1)
  BY <1>1, <1>3, <1>5 DEF Heard
<1> QED BY <1>4, <1>5

(* The objects are told first, so every route of a dump resolves as in     *)
(* zebra.                                                                  *)
LEMMA DumpTrue ==
  ASSUME Typed, Closed, NEW dump \in Dumps, NEW m, NEW K
  PROVE  \E V : TrueCourse(V, dump, m, TRUE, fib, nhg, K)
<1> DEFINE H(n) == Heard(dump, n)
           M(n) == IF H(n) = {} THEN m
                   ELSE [i \in DOMAIN m \cup H(n) |-> IF i \in H(n) THEN nhg[i] ELSE m[i]]
           V == [n \in 0..Len(dump) |-> M(n)]
<1>1. dump \in Seq(Messages)
  BY DumpsAre
<1>2. PICK N \in 0..Len(dump) :
               /\ \A n \in 1..N : \E i \in DOMAIN nhg : dump[n] = NewNexthop(i)
               /\ \A i \in DOMAIN nhg : \E n \in 1..N : dump[n] = NewNexthop(i)
               /\ \A n \in N + 1..Len(dump) : \E k \in DOMAIN fib : dump[n] = NewRoute(k)
               /\ \A k \in DOMAIN fib : \E n \in N + 1..Len(dump) : dump[n] = NewRoute(k)
  BY DumpsAre
<1>3. Len(dump) \in Nat /\ N \in Nat /\ N <= Len(dump)
  BY <1>1, <1>2
<1>4. ASSUME NEW n \in 1..Len(dump)
      PROVE  \/ n \in 1..N /\ \E i \in DOMAIN nhg : dump[n] = NewNexthop(i)
             \/ n \in N + 1..Len(dump) /\ \E k \in DOMAIN fib : dump[n] = NewRoute(k)
  <2>1. n \in 1..N \/ n \in N + 1..Len(dump)
    BY <1>3
  <2> QED BY <1>2, <2>1
<1>5. ASSUME NEW n \in 0..Len(dump), n >= N PROVE H(n) = DOMAIN nhg
  <2>1. \A i \in DOMAIN nhg : \E j \in 1..n : dump[j] = NewNexthop(i)
    <3>1. 1..N \subseteq 1..n
      BY <1>3, <1>5
    <3> QED BY <1>2, <3>1
  <2> QED BY <2>1 DEF Heard
<1>6. \A n \in 0..Len(dump) : V[n] = M(n)
  OBVIOUS
<1> HIDE DEF V, H
<1>7. ASSUME NEW n \in 0..Len(dump), n >= N PROVE Agree(V[n], nhg)
  <2>1. H(n) = DOMAIN nhg
    BY <1>5, <1>7
  <2> QED BY <1>6, <2>1, ZenonT(60) DEF Agree
<1>8. Course(V, dump, m)
  <2>1. V[0] = m
    <3>1. H(0) = {}
      BY DEF H, Heard
    <3>2. M(0) = m
      BY <3>1
    <3> HIDE DEF M
    <3> QED BY <1>3, <1>6, <3>2
  <2>2. ASSUME NEW n \in 1..Len(dump) PROVE V[n] = Apply(V[n - 1], dump[n])
    <3>1. V[n] = M(n) /\ V[n - 1] = M(n - 1)
      <4>1. n \in 0..Len(dump) /\ n - 1 \in 0..Len(dump)
        BY <1>3
      <4> HIDE DEF M
      <4> QED BY <1>6, <4>1
    <3>2. CASE \E i \in DOMAIN nhg : dump[n] = NewNexthop(i)
      <4>1. PICK i \in DOMAIN nhg : dump[n] = NewNexthop(i)
        BY <3>2
      <4>2. H(n) = H(n - 1) \cup {i}
        BY <1>1, <4>1, HeardGrows DEF H
      <4>3. Apply(M(n - 1), dump[n]) = With(M(n - 1), i, nhg[i])
        BY <4>1 DEF Apply, NewNexthop
      <4>4. DOMAIN M(n - 1) = DOMAIN m \cup H(n - 1)
        OBVIOUS
      <4>5. \A y \in DOMAIN m \cup H(n) :
               (IF y = i THEN nhg[i] ELSE M(n - 1)[y]) = IF y \in H(n) THEN nhg[y] ELSE m[y]
        <5>1. \A y \in DOMAIN m \cup H(n - 1) : M(n - 1)[y] = IF y \in H(n - 1) THEN nhg[y] ELSE m[y]
          OBVIOUS
        <5> HIDE DEF M
        <5> QED BY <4>2, <5>1
      <4>6. With(M(n - 1), i, nhg[i])
              = [y \in DOMAIN m \cup H(n) |-> IF y = i THEN nhg[i] ELSE M(n - 1)[y]]
        <5>1. DOMAIN M(n - 1) \cup {i} = DOMAIN m \cup H(n)
          BY <4>2, <4>4
        <5> HIDE DEF M
        <5> QED BY <5>1 DEF With
      <4>7. M(n) = [y \in DOMAIN m \cup H(n) |-> IF y \in H(n) THEN nhg[y] ELSE m[y]]
        BY <4>2
      <4> HIDE DEF M
      <4> QED BY <3>1, <4>3, <4>5, <4>6, <4>7
    <3>3. CASE \E k \in DOMAIN fib : dump[n] = NewRoute(k)
      <4>1. dump[n].op = "newroute" /\ IsRoute(dump[n])
        BY <3>3 DEF NewRoute, IsRoute
      <4>2. H(n) = H(n - 1)
        BY <1>1, <4>1, HeardGrows DEF H
      <4>3. Apply(V[n - 1], dump[n]) = V[n - 1]
        BY <4>1 DEF Apply
      <4> QED BY <3>1, <4>2, <4>3
    <3> QED BY <1>4, <3>2, <3>3
  <2> HIDE DEF M
  <2> QED BY <2>1, <2>2 DEF Course
<1>9. ASSUME NEW k \in K, NEW n \in 1..Len(dump), LastFor(dump, k, n)
      PROVE  TrueOf(dump[n], k, V[n - 1], fib, nhg)
  <2>1. IsRoute(dump[n]) /\ dump[n].key = k
    BY <1>9 DEF LastFor, About
  <2>2. n \in N + 1..Len(dump) /\ \E j \in DOMAIN fib : dump[n] = NewRoute(j)
    <3>1. \A i \in DOMAIN nhg : dump[n] # NewNexthop(i)
      BY <2>1 DEF IsRoute, NewNexthop
    <3> QED BY <1>4, <3>1
  <2>3. k \in DOMAIN fib /\ dump[n].op = "newroute" /\ dump[n].rt = fib[k]
    BY <2>1, <2>2 DEF NewRoute
  <2>4. Agree(V[n - 1], nhg)
    <3>1. n - 1 \in 0..Len(dump) /\ n - 1 >= N
      BY <1>3, <2>2
    <3> QED BY <1>7, <3>1
  <2>5. Resolution(fib[k], V[n - 1]) = Resolution(fib[k], nhg)
    BY <2>3, <2>4, AgreeResolves DEF Closed
  <2> QED BY <2>3, <2>5 DEF TrueOf
<1>10. Agree(V[Len(dump)], nhg)
  BY <1>3, <1>7
<1> QED BY <1>8, <1>9, <1>10 DEF TrueCourse

(* The messages that zebra sends as it changes are true.                   *)
LEMMA WireNexthop ==
  ASSUME Typed, Closed, WireTrue, ZebraNexthop \/ ZebraDelNexthop
  PROVE  WireTrue'
<1> SUFFICES ASSUME ~mixed' PROVE \E V : TrueCourse(V, inq'[live'], nh', up', fib', nhg', Keys \ doubt')
  BY DEF WireTrue, Keys
<1>1. UNCHANGED <<fib, live, up, mixed, nh>>
  BY DEF ZebraNexthop, ZebraDelNexthop, history, ours
<1>2. PICK W : TrueCourse(W, inq[live], nh, up, fib, nhg, Keys \ doubt)
  BY <1>1 DEF WireTrue
<1>3. inq[live] \in Seq(Messages)
  BY DEF Typed, TypeOK, WireTyped
<1>4. ASSUME NEW k, NEW x, NEW y, TrueOf(x, k, y, fib, nhg),
             k \in DOMAIN fib => Resolution(fib[k], nhg') = Resolution(fib[k], nhg)
      PROVE  TrueOf(x, k, y, fib', nhg')
  BY <1>1, <1>4 DEF TrueOf
<1>5. CASE ZebraNexthop
  <2>1. PICK i \in NHIds, o \in NHObjs :
               nhg' = With(nhg, i, o) /\ Send([op |-> "newnh", id |-> i, obj |-> o])
    BY <1>5 DEF ZebraNexthop
  <2> DEFINE msg == [op |-> "newnh", id |-> i, obj |-> o]
  <2>2. doubt' = doubt \cup {k \in DOMAIN fib : Resolution(fib[k], nhg) # Resolution(fib[k], nhg')}
    BY <1>5 DEF ZebraNexthop
  <2>3. msg \in Messages /\ \A k : ~About(msg, k)
    BY DEF Messages, NexthopMsgs, About, IsRoute
  <2>4. \A k \in Keys \ doubt' :
           k \in Keys \ doubt /\ \A x, y : TrueOf(x, k, y, fib, nhg) => TrueOf(x, k, y, fib', nhg')
    BY <1>4, <2>2
  <2>5. inq'[live] = IF up THEN Append(inq[live], msg) ELSE inq[live]
    BY <2>1, SendEffect
  <2>6. CASE ~up
    BY <1>1, <1>2, <2>4, <2>5, <2>6, TrueKept
  <2>7. CASE up
    <3>1. ASSUME NEW x, Agree(x, nhg) PROVE Agree(Apply(x, msg), nhg')
      <4>1. Apply(x, msg) = With(x, i, o)
        BY DEF Apply
      <4>2. DOMAIN nhg' = DOMAIN nhg \cup {i} /\ nhg'[i] = o
            /\ \A j \in DOMAIN nhg : j # i => nhg'[j] = nhg[j]
        BY <2>1 DEF With
      <4>3. DOMAIN With(x, i, o) = DOMAIN x \cup {i} /\ With(x, i, o)[i] = o
            /\ \A j \in DOMAIN x : j # i => With(x, i, o)[j] = x[j]
        BY DEF With
      <4> QED BY <3>1, <4>1, <4>2, <4>3 DEF Agree
    <3>2. TrueCourse(W, inq[live], nh, TRUE, fib, nhg, Keys \ doubt)
      BY <1>2, <2>7 DEF TrueCourse
    <3> HIDE DEF msg
    <3>3. \E V : TrueCourse(V, Append(inq[live], msg), nh, TRUE, fib', nhg', Keys \ doubt')
      BY <1>3, <2>3, <2>4, <3>1, <3>2, TrueAppend
    <3> QED BY <1>1, <2>5, <2>7, <3>3
  <2> QED BY <2>6, <2>7
<1>6. CASE ZebraDelNexthop
  <2>1. PICK i \in DOMAIN nhg \ Used :
               nhg' = Without(nhg, {i}) /\ Send([op |-> "delnh", id |-> i])
    BY <1>6 DEF ZebraDelNexthop
  <2> DEFINE msg == [op |-> "delnh", id |-> i]
  <2>2. doubt' = doubt
    BY <1>6 DEF ZebraDelNexthop, history
  <2>3. msg \in Messages /\ \A k : ~About(msg, k)
    BY DEF Messages, NexthopMsgs, About, IsRoute, Typed, ZebraTyped
  <2>4. \A k \in Keys \ doubt' :
           k \in Keys \ doubt /\ \A x, y : TrueOf(x, k, y, fib, nhg) => TrueOf(x, k, y, fib', nhg')
    BY <1>4, <2>1, <2>2, UnusedResolves
  <2>5. inq'[live] = IF up THEN Append(inq[live], msg) ELSE inq[live]
    BY <2>1, SendEffect
  <2>6. CASE ~up
    BY <1>1, <1>2, <2>4, <2>5, <2>6, TrueKept
  <2>7. CASE up
    <3>1. ASSUME NEW x, Agree(x, nhg) PROVE Agree(Apply(x, msg), nhg')
      <4>1. Apply(x, msg) = Without(x, {i})
        BY DEF Apply
      <4>2. DOMAIN nhg' = DOMAIN nhg \ {i} /\ \A j \in DOMAIN nhg' : nhg'[j] = nhg[j]
        BY <2>1 DEF Without
      <4>3. DOMAIN Without(x, {i}) = DOMAIN x \ {i}
            /\ \A j \in DOMAIN x \ {i} : Without(x, {i})[j] = x[j]
        BY WithoutIs
      <4> QED BY <3>1, <4>1, <4>2, <4>3 DEF Agree
    <3>2. TrueCourse(W, inq[live], nh, TRUE, fib, nhg, Keys \ doubt)
      BY <1>2, <2>7 DEF TrueCourse
    <3> HIDE DEF msg
    <3>3. \E V : TrueCourse(V, Append(inq[live], msg), nh, TRUE, fib', nhg', Keys \ doubt')
      BY <1>3, <2>3, <2>4, <3>1, <3>2, TrueAppend
    <3> QED BY <1>1, <2>5, <2>7, <3>3
  <2> QED BY <2>6, <2>7
<1> QED BY <1>5, <1>6

(* A route that is sent refers to objects that were sent before it.        *)
LEMMA WireRoute ==
  ASSUME Typed, Closed, Closed', WireTrue, ZebraRoute \/ ZebraDelRoute
  PROVE  WireTrue'
<1> SUFFICES ASSUME ~mixed' PROVE \E V : TrueCourse(V, inq'[live'], nh', up', fib', nhg', Keys \ doubt')
  BY DEF WireTrue, Keys
<1>1. UNCHANGED <<nhg, live, up, mixed, nh>>
  BY DEF ZebraRoute, ZebraDelRoute, ours
<1>2. PICK W : TrueCourse(W, inq[live], nh, up, fib, nhg, Keys \ doubt)
  BY <1>1 DEF WireTrue
<1>3. inq[live] \in Seq(Messages)
  BY DEF Typed, TypeOK, WireTyped
<1>4. PICK k \in Keys, msg \in RouteMsgs :
         /\ Send(msg) /\ Told({k}) /\ msg.key = k
         /\ \A j : j # k => (j \in DOMAIN fib' <=> j \in DOMAIN fib)
         /\ \A j \in DOMAIN fib : j # k => fib'[j] = fib[j]
         /\ IF msg.op = "newroute" THEN k \in DOMAIN fib' /\ msg.rt = fib'[k] ELSE k \notin DOMAIN fib'
  <2>1. CASE ZebraRoute
    <3>1. PICK k \in Keys, r \in Routes :
                 /\ fib' = With(fib, k, r)
                 /\ Send([op |-> "newroute", key |-> k, rt |-> r]) /\ Told({k})
      BY <2>1 DEF ZebraRoute, Keys
    <3> DEFINE msg == [op |-> "newroute", key |-> k, rt |-> r]
    <3>2. msg \in RouteMsgs /\ msg.key = k /\ msg.op = "newroute" /\ msg.rt = r
      BY DEF RouteMsgs
    <3>3. DOMAIN fib' = DOMAIN fib \cup {k} /\ fib'[k] = r
          /\ \A j \in DOMAIN fib : j # k => fib'[j] = fib[j]
      BY <3>1 DEF With
    <3>4. Send(msg)
      BY <3>1
    <3> HIDE DEF msg
    <3> QED BY <3>1, <3>2, <3>3, <3>4
  <2>2. CASE ZebraDelRoute
    <3>1. PICK k \in DOMAIN fib :
                 /\ fib' = Without(fib, {k})
                 /\ Send([op |-> "delroute", key |-> k, rt |-> fib[k]]) /\ Told({k})
      BY <2>2 DEF ZebraDelRoute
    <3> DEFINE msg == [op |-> "delroute", key |-> k, rt |-> fib[k]]
    <3>2. msg \in RouteMsgs /\ msg.key = k /\ msg.op = "delroute" /\ k \in Keys
      BY DEF RouteMsgs, Typed, ZebraTyped
    <3>3. DOMAIN fib' = DOMAIN fib \ {k} /\ \A j \in DOMAIN fib : j # k => fib'[j] = fib[j]
      BY <3>1 DEF Without
    <3>4. Send(msg)
      BY <3>1
    <3> HIDE DEF msg
    <3> QED BY <3>1, <3>2, <3>3, <3>4
  <2> QED BY <2>1, <2>2
<1>5. msg \in Messages /\ IsRoute(msg)
  BY DEF Messages, RouteMsgs, IsRoute
<1>6. inq'[live] = IF up THEN Append(inq[live], msg) ELSE inq[live]
  BY <1>4, SendEffect
<1>7. ASSUME NEW j \in Keys \ doubt', j # k
      PROVE  /\ j \in Keys \ doubt
             /\ \A x, y : TrueOf(x, j, y, fib, nhg) => TrueOf(x, j, y, fib', nhg')
  <2>1. j \in Keys \ doubt
    BY <1>4, <1>7 DEF Told
  <2>2. \A x, y : TrueOf(x, j, y, fib, nhg) => TrueOf(x, j, y, fib', nhg')
    BY <1>1, <1>4, <1>7 DEF TrueOf
  <2> QED BY <2>1, <2>2
<1>8. CASE ~up
  <2>1. \A j \in Keys \ doubt' : j # k
    BY <1>4, <1>8 DEF Told
  <2> QED BY <1>1, <1>2, <1>6, <1>7, <1>8, <2>1, TrueKept
<1>9. CASE up
  <2>1. TrueCourse(W, inq[live], nh, TRUE, fib, nhg, Keys \ doubt)
    BY <1>2, <1>9 DEF TrueCourse
  <2>2. \A x : Agree(x, nhg) => Agree(Apply(x, msg), nhg')
    <3>1. \A x : Apply(x, msg) = x
      BY <1>5 DEF Apply, IsRoute
    <3> QED BY <1>1, <3>1
  <2>3. ASSUME NEW j \in Keys \ doubt', About(msg, j), NEW x, Agree(x, nhg)
        PROVE  TrueOf(msg, j, x, fib', nhg')
    <3>1. j = k
      BY <1>4, <2>3 DEF About
    <3>2. k \in DOMAIN fib' => fib'[k].nhid \in DOMAIN nhg \cup {0}
      BY <1>1 DEF Closed
    <3>3. k \in DOMAIN fib' => Resolution(fib'[k], x) = Resolution(fib'[k], nhg)
      BY <2>3, <3>2, AgreeResolves
    <3> QED BY <1>1, <1>4, <3>1, <3>3 DEF TrueOf
  <2>4. \A j \in Keys \ doubt' : ~About(msg, j) =>
           j \in Keys \ doubt /\ \A x, y : TrueOf(x, j, y, fib, nhg) => TrueOf(x, j, y, fib', nhg')
    BY <1>4, <1>5, <1>7 DEF About
  <2>5. \E V : TrueCourse(V, Append(inq[live], msg), nh, TRUE, fib', nhg', Keys \ doubt')
    BY <1>3, <1>5, <2>1, <2>2, <2>3, <2>4, TrueAppend
  <2> QED BY <1>1, <1>6, <1>9, <2>5
<1> QED BY <1>8, <1>9

(* A connection breaks, or zebra dials again; what is lost is in doubt.    *)
LEMMA LostIsDoubted ==
  ASSUME Typed, NEW n \in 0..Len(inq[live]),
         doubt' = doubt \cup RouteKeys(SubSeq(inq[live], n + 1, Len(inq[live])))
  PROVE  \A k \in Keys \ doubt' : k \in Keys \ doubt
             /\ \A j \in n + 1..Len(inq[live]) : ~About(inq[live][j], k)
<1> DEFINE q == inq[live]
           z == SubSeq(q, n + 1, Len(q))
<1>1. q \in Seq(Messages) /\ Len(q) \in Nat
  BY DEF Typed, TypeOK, WireTyped
<1> HIDE DEF q
<1>2. ASSUME NEW j \in n + 1..Len(q) PROVE j - n \in DOMAIN z /\ z[j - n] = q[j]
  <2>1. n \in Nat /\ n <= Len(q)
    BY <1>1 DEF q
  <2>2. Len(z) = Len(q) - n /\ DOMAIN z = 1..Len(q) - n
    BY <1>1, <2>1
  <2>3. j - n \in 1..Len(q) - n
    BY <1>1, <2>1
  <2>4. z[j - n] = q[(n + 1) + (j - n) - 1]
    BY <1>1, <2>1, <2>3
  <2>5. (n + 1) + (j - n) - 1 = j
    BY <2>1
  <2> QED BY <2>2, <2>3, <2>4, <2>5
<1> HIDE DEF z
<1>3. ASSUME NEW k \in Keys \ doubt', NEW j \in n + 1..Len(q) PROVE ~About(q[j], k)
  <2>1. k \notin RouteKeys(z)
    BY DEF q, z
  <2> QED BY <1>2, <2>1 DEF RouteKeys, About
<1> QED BY <1>3 DEF q

(* What is lost is in doubt, and a dump is true of everything it tells.    *)
LEMMA WireDial ==
  ASSUME Typed, Closed, WireTrue, Disconnect \/ Connect
  PROVE  WireTrue'
<1> SUFFICES ASSUME ~mixed' PROVE \E V : TrueCourse(V, inq'[live'], nh', up', fib', nhg', Keys \ doubt')
  BY DEF WireTrue, Keys
<1>1. CASE Disconnect
  <2>1. PICK n \in 0..Len(inq[live]) :
           /\ inq' = [inq EXCEPT ![live] = SubSeq(@, 1, n)]
           /\ doubt' = doubt \cup RouteKeys(SubSeq(inq[live], n + 1, Len(inq[live])))
    BY <1>1 DEF Disconnect
  <2>2. up' = FALSE /\ UNCHANGED <<nhg, fib, live, mixed, nh>>
    BY <1>1 DEF Disconnect, ours
  <2>3. PICK W : TrueCourse(W, inq[live], nh, up, fib, nhg, Keys \ doubt)
    BY <2>2 DEF WireTrue
  <2>4. inq[live] \in Seq(Messages) /\ inq'[live] = SubSeq(inq[live], 1, n)
    BY <2>1 DEF Typed, TypeOK, WireTyped
  <2>5. \A k \in Keys \ doubt' : k \in Keys \ doubt
             /\ \A j \in n + 1..Len(inq[live]) : ~About(inq[live][j], k)
    BY <2>1, LostIsDoubted
  <2>6. TrueCourse(W, SubSeq(inq[live], 1, n), nh, FALSE, fib, nhg, Keys \ doubt')
    BY <2>3, <2>4, <2>5, TrueTake
  <2> QED BY <2>2, <2>4, <2>6
<1>2. CASE Connect
  <2>1. PICK dump \in Dumps : inq' = [inq EXCEPT ![live + 1] = dump]
    BY <1>2 DEF Connect
  <2>2. ~up /\ up' = TRUE /\ live' = live + 1 /\ UNCHANGED <<nhg, fib, nh>>
    BY <1>2 DEF Connect, ours
  <2>3. live + 1 \in Conns
    BY <2>2, FPMAssumption DEF Typed, TypeOK, ZebraTyped, Conns
  <2>4. inq'[live'] = dump
    BY <2>1, <2>2, <2>3 DEF Typed, WireTyped
  <2>5. \E V : TrueCourse(V, dump, nh, TRUE, fib, nhg, Keys \ doubt')
    BY DumpTrue
  <2> QED BY <2>2, <2>4, <2>5
<1> QED BY <1>1, <1>2

(* The handler applies the head, which keeps the rest of the wire true.    *)
LEMMA WireHandler ==
  ASSUME Typed, OnlyLive, WireTrue, 0 \notin NHIds, NEW c \in Conns, Handler(c)
  PROVE  WireTrue'
<1> SUFFICES ASSUME ~mixed' PROVE \E V : TrueCourse(V, inq'[live'], nh', up', fib', nhg', Keys \ doubt')
  BY DEF WireTrue, Keys
<1>1. /\ UNCHANGED kernel /\ doubt \subseteq doubt' /\ ~Idle(c)
      /\ \/ inq'[c] = inq[c] /\ nh' = nh
         \/ /\ inq[c] # <<>> /\ inq'[c] = Tail(inq[c])
            /\ nh' = Apply(nh, Head(inq[c]))
  BY HandlerEffect
<1>2. c = live /\ ~mixed /\ UNCHANGED <<nhg, fib, live, up>>
  BY <1>1 DEF kernel, OnlyLive
<1>3. PICK W : TrueCourse(W, inq[live], nh, up, fib, nhg, Keys \ doubt)
  BY <1>2 DEF WireTrue
<1>4. inq[live] \in Seq(Messages)
  BY DEF Typed, TypeOK, WireTyped
<1>5. \E V : TrueCourse(V, inq'[live], nh', up, fib, nhg, Keys \ doubt)
  <2>1. CASE inq'[c] = inq[c] /\ nh' = nh
    BY <1>2, <1>3, <2>1
  <2>2. CASE inq[c] # <<>> /\ inq'[c] = Tail(inq[c]) /\ nh' = Apply(nh, Head(inq[c]))
    <3>1. \E V : TrueCourse(V, Tail(inq[live]), Apply(nh, Head(inq[live])), up, fib, nhg, Keys \ doubt)
      BY <1>2, <1>3, <1>4, <2>2, TrueTail
    <3> QED BY <1>2, <2>2, <3>1
  <2> QED BY <1>1, <2>1, <2>2
<1>6. PICK V : TrueCourse(V, inq'[live], nh', up, fib, nhg, Keys \ doubt)
  BY <1>5
<1>7. TrueCourse(V, inq'[live], nh', up, fib, nhg, Keys \ doubt')
  BY <1>1, <1>6 DEF TrueCourse
<1> QED BY <1>2, <1>7

(* WireTrue is inductive.                                                  *)
LEMMA WireStep ==
  ASSUME Typed, Closed, OnlyLive, WireTrue, 0 \notin NHIds, [Next]_vars
  PROVE  WireTrue'
<1>1. Closed'
  BY ClosedStep
<1>2. CASE VRFAppears \/ VRFRenamed
  <2>1. UNCHANGED <<nhg, fib, live, up, doubt, mixed, inq, nh>>
    BY <1>2 DEF VRFAppears, VRFRenamed, NewDevice, ours
  <2> QED BY <2>1 DEF WireTrue, Keys
<1>3. CASE UNCHANGED vars
  BY <1>3 DEF vars, zebraVars, kernel, ours, WireTrue, Keys
<1>4. ASSUME NEW c \in Conns, Handler(c) PROVE WireTrue'
  BY <1>4, WireHandler
<1>5. CASE ZebraNexthop \/ ZebraDelNexthop
  BY <1>5, WireNexthop
<1>6. CASE ZebraRoute \/ ZebraDelRoute
  BY <1>1, <1>6, WireRoute
<1>7. CASE Disconnect \/ Connect
  BY <1>7, WireDial
<1> QED BY <1>2, <1>3, <1>4, <1>5, <1>6, <1>7 DEF Next, Zebra

-----------------------------------------------------------------------------
(* Names: two tables never have the same network instance, and what the    *)
(* resolver knows of a table is what the kernel has, unless that changed   *)
(* after it was looked up.                                                 *)
LEMMA NameIsOneToOne ==
  ASSUME NEW m, IsOneToOne(m), NEW t, NEW u, NameIn(m, t) = NameIn(m, u)
  PROVE  t = u
<1>1. CASE Fixed(t)
  <2>1. NameIn(m, t) = <<"fixed", t>>
    BY <1>1 DEF NameIn
  <2>2. CASE Fixed(u)
    BY <2>1, <2>2 DEF NameIn
  <2>3. CASE ~Fixed(u)
    BY <2>1, <2>3 DEF NameIn
  <2> QED BY <2>2, <2>3
<1>2. CASE ~Fixed(t) /\ t \in DOMAIN m
  <2>1. NameIn(m, t) = <<"vrf", m[t]>>
    BY <1>2 DEF NameIn
  <2>2. CASE Fixed(u)
    BY <2>1, <2>2 DEF NameIn
  <2>3. CASE ~Fixed(u) /\ u \in DOMAIN m
    BY <1>2, <2>1, <2>3 DEF NameIn, IsOneToOne
  <2>4. CASE ~Fixed(u) /\ u \notin DOMAIN m
    BY <2>1, <2>4 DEF NameIn
  <2> QED BY <2>2, <2>3, <2>4
<1>3. CASE ~Fixed(t) /\ t \notin DOMAIN m
  <2>1. NameIn(m, t) = <<"table", t>>
    BY <1>3 DEF NameIn
  <2>2. CASE Fixed(u)
    BY <2>1, <2>2 DEF NameIn
  <2>3. CASE ~Fixed(u) /\ u \in DOMAIN m
    BY <2>1, <2>3 DEF NameIn
  <2>4. CASE ~Fixed(u) /\ u \notin DOMAIN m
    BY <2>1, <2>4 DEF NameIn
  <2> QED BY <2>2, <2>3, <2>4
<1> QED BY <1>1, <1>2, <1>3

NamesInv ==
    /\ IsOneToOne(vrfdev) /\ IsOneToOne(vmap)
    /\ \A t \in DOMAIN vmap \ late : t \in DOMAIN vrfdev /\ vmap[t] = vrfdev[t]

(* What handleRoute does until its next hop is written: its leaf apart     *)
(* nothing changes, and the leaf is the one of the route's new name.       *)
RouteHandler(c) == DelRoute(c) \/ AddLabelled(c) \/ AddPlain(c)

(* The common part of the three ways handleRoute goes.                     *)
LEMMA RouteBegins ==
  ASSUME Typed, NEW c \in Conns, RouteHandler(c)
  PROVE  /\ Next1(c) \in Messages /\ Next1(c).key \in Keys /\ IsRoute(Next1(c))
         /\ held[c] = <<>> /\ inq[c] # <<>> /\ inq'[c] = Tail(inq[c])
         /\ UNCHANGED kernel /\ RecordNames(c)
         /\ vmap' = IF Refreshes(Next1(c).key[1]) THEN vrfdev ELSE vmap
         /\ Leaf(c) = <<NameIn(vmap', Next1(c).key[1]), Next1(c).key[2]>>
<1>1. PICK op \in {"newroute", "delroute"} : \E kind : BeginRoute(c, op, kind)
  BY DEF RouteHandler, DelRoute, AddLabelled, AddPlain
<1>2. Next1(c) \in Messages /\ Next1(c).key \in Keys /\ Next1(c).op = op
  BY <1>1, BeginRouteType
<1>3. /\ Take(c) /\ UNCHANGED kernel /\ RecordNames(c) /\ vmap' = MapAfter(Next1(c).key[1])
  BY <1>1 DEF BeginRoute
<1>4. held[c] = <<>> /\ inq[c] # <<>> /\ inq'[c] = Tail(inq[c])
  BY <1>3 DEF Take, Typed, WireTyped
<1>5. Leaf(c) = <<NameIn(vmap', Next1(c).key[1]), Next1(c).key[2]>>
  BY <1>3 DEF Leaf, Name
<1> QED BY <1>2, <1>3, <1>4, <1>5 DEF MapAfter, IsRoute

(* handleRoute writes no leaf but its own.                                 *)
LEMMA RouteWrites ==
  ASSUME Typed, NEW c \in Conns, RouteHandler(c)
  PROVE  /\ \A l : l # Leaf(c) =>
              /\ (l \in DOMAIN hop' <=> l \in DOMAIN hop) /\ (l \in DOMAIN hop => hop'[l] = hop[l])
              /\ (l \in DOMAIN lbl' <=> l \in DOMAIN lbl) /\ (l \in DOMAIN lbl => lbl'[l] = lbl[l])
         /\ \A d \in Conns : d # c => held'[d] = held[d]
         /\ held'[c] = <<>> \/ (held'[c] # <<>> /\ Head(held'[c]).leaf = Leaf(c))
<1> DEFINE l0 == Leaf(c)
<1>1. held[c] = <<>> /\ DOMAIN held = Conns
  BY RouteBegins DEF Typed, HeldTyped
<1>2. ASSUME NEW f, NEW g, g = Without(f, {l0}) \/ (\E v : g = With(f, l0, v)) \/ g = f,
             NEW l, l # l0
      PROVE  (l \in DOMAIN g <=> l \in DOMAIN f) /\ (l \in DOMAIN f => g[l] = f[l])
  <2> HIDE DEF l0
  <2> QED BY <1>2 DEF With, Without
<1>3. CASE DelRoute(c)
  <2>1. hop' = Without(hop, {l0}) /\ lbl' = Without(lbl, {l0}) /\ held' = held
    BY <1>3 DEF DelRoute
  <2> HIDE DEF l0
  <2>2. \A l : l # l0 =>
              /\ (l \in DOMAIN hop' <=> l \in DOMAIN hop) /\ (l \in DOMAIN hop => hop'[l] = hop[l])
              /\ (l \in DOMAIN lbl' <=> l \in DOMAIN lbl) /\ (l \in DOMAIN lbl => lbl'[l] = lbl[l])
    BY <1>2, <2>1
  <2> QED BY <1>1, <2>1, <2>2 DEF l0
<1>4. CASE AddLabelled(c)
  <2>1. (\E v : hop' = With(hop, l0, v)) /\ (\E v : lbl' = With(lbl, l0, v)) /\ held' = held
    BY <1>4 DEF AddLabelled
  <2> HIDE DEF l0
  <2>2. \A l : l # l0 =>
              /\ (l \in DOMAIN hop' <=> l \in DOMAIN hop) /\ (l \in DOMAIN hop => hop'[l] = hop[l])
              /\ (l \in DOMAIN lbl' <=> l \in DOMAIN lbl) /\ (l \in DOMAIN lbl => lbl'[l] = lbl[l])
    BY <1>2, <2>1
  <2> QED BY <1>1, <2>1, <2>2 DEF l0
<1>5. CASE AddPlain(c)
  <2>1. PICK h : held' = [held EXCEPT ![c] = <<[leaf |-> l0, hop |-> h]>>]
    BY <1>5 DEF AddPlain
  <2>2. hop' = hop /\ lbl' = Without(lbl, {l0})
    BY <1>5 DEF AddPlain
  <2> HIDE DEF l0
  <2>3. \A l : l # l0 =>
              /\ (l \in DOMAIN hop' <=> l \in DOMAIN hop) /\ (l \in DOMAIN hop => hop'[l] = hop[l])
              /\ (l \in DOMAIN lbl' <=> l \in DOMAIN lbl) /\ (l \in DOMAIN lbl => lbl'[l] = lbl[l])
    BY <1>2, <2>2
  <2>4. held'[c] = <<[leaf |-> l0, hop |-> h]>> /\ \A d \in Conns : d # c => held'[d] = held[d]
    BY <1>1, <2>1
  <2>5. held'[c] # <<>> /\ Head(held'[c]).leaf = l0
    BY <2>4
  <2> QED BY <2>3, <2>4, <2>5 DEF l0
<1> QED BY <1>3, <1>4, <1>5 DEF RouteHandler

(* Nor does it file or unfile another.                                     *)
LEMMA RouteFiles ==
  ASSUME Typed, NEW c \in Conns, RouteHandler(c)
  PROVE  \A l : l # Leaf(c) => (l \in Filed' <=> l \in Filed)
<1> SUFFICES ASSUME NEW l, l # Leaf(c) PROVE l \in Filed' <=> l \in Filed
  OBVIOUS
<1>1. (l \in DOMAIN hop' <=> l \in DOMAIN hop) /\ (l \in DOMAIN lbl' <=> l \in DOMAIN lbl)
  BY RouteWrites
<1>2. held[c] = <<>>
  BY RouteBegins
<1>3. ASSUME NEW d \in Conns
      PROVE  (held'[d] # <<>> /\ Head(held'[d]).leaf = l) <=> (held[d] # <<>> /\ Head(held[d]).leaf = l)
  BY <1>2, RouteWrites
<1>4. l \in Filed <=> \/ l \in DOMAIN hop \/ l \in DOMAIN lbl
                      \/ \E d \in Conns : held[d] # <<>> /\ Head(held[d]).leaf = l
  BY DEF Filed
<1>5. l \in Filed' <=> \/ l \in DOMAIN hop' \/ l \in DOMAIN lbl'
                       \/ \E d \in Conns : held'[d] # <<>> /\ Head(held'[d]).leaf = l
  BY DEF Filed
<1> QED BY <1>1, <1>3, <1>4, <1>5

(* The second Update moves a leaf from held to the cache.                  *)
LEMMA FinishFiles ==
  ASSUME Typed, NEW c \in Conns, FinishPlain(c)
  PROVE  Filed' = Filed
<1> DEFINE l0 == Head(held[c]).leaf
<1>1. held[c] # <<>> /\ held' = [held EXCEPT ![c] = <<>>] /\ lbl' = lbl
      /\ hop' = With(hop, l0, Head(held[c]).hop)
  BY DEF FinishPlain
<1>2. held'[c] = <<>> /\ \A d \in Conns : d # c => held'[d] = held[d]
  BY <1>1 DEF Typed, HeldTyped
<1>3. DOMAIN hop' = DOMAIN hop \cup {l0}
  BY <1>1 DEF With
<1>4. ASSUME NEW l PROVE l \in Filed' <=> l \in Filed
  <2>1. l \in Filed <=> \/ l \in DOMAIN hop \/ l \in DOMAIN lbl
                        \/ \E d \in Conns : held[d] # <<>> /\ Head(held[d]).leaf = l
    BY DEF Filed
  <2>2. l \in Filed' <=> \/ l \in DOMAIN hop' \/ l \in DOMAIN lbl'
                         \/ \E d \in Conns : held'[d] # <<>> /\ Head(held'[d]).leaf = l
    BY DEF Filed
  <2>3. (\E d \in Conns : held[d] # <<>> /\ Head(held[d]).leaf = l)
           <=> \/ l = l0
               \/ \E d \in Conns : held'[d] # <<>> /\ Head(held'[d]).leaf = l
    BY <1>1, <1>2
  <2> HIDE DEF l0
  <2> QED BY <1>1, <1>3, <2>1, <2>2, <2>3
<1> QED BY <1>4 DEF Filed

(* NamesInv is inductive: the resolver reads all devices at once.          *)
LEMMA NamesStep ==
  ASSUME Typed, NamesInv, [Next]_vars
  PROVE  NamesInv'
<1>1. ASSUME NEW t, NEW n, NewDevice(t, n) PROVE NamesInv'
  <2>1. /\ vrfdev' = With(vrfdev, t, n) /\ IsOneToOne(vrfdev') /\ vmap' = vmap
        /\ late' = IF LookedUp(t) THEN late \cup {t} ELSE late
    BY <1>1 DEF NewDevice, ours
  <2>2. \A u \in DOMAIN vrfdev : u # t => u \in DOMAIN vrfdev' /\ vrfdev'[u] = vrfdev[u]
    BY <2>1 DEF With
  <2>3. \A u \in DOMAIN vmap \ late' : u # t /\ u \in DOMAIN vmap \ late
    BY <2>1 DEF LookedUp
  <2> QED BY <2>1, <2>2, <2>3 DEF NamesInv
<1>2. ASSUME NEW c \in Conns, RouteHandler(c) PROVE NamesInv'
  <2>1. UNCHANGED kernel /\ RecordNames(c)
        /\ vmap' = IF Refreshes(Next1(c).key[1]) THEN vrfdev ELSE vmap
    BY <1>2, RouteBegins
  <2>2. vrfdev' = vrfdev /\ late' = IF Refreshes(Next1(c).key[1]) THEN {} ELSE late
    BY <2>1 DEF kernel, RecordNames
  <2> QED BY <2>1, <2>2 DEF NamesInv
<1>3. CASE UNCHANGED <<vrfdev, vmap, late>>
  BY <1>3 DEF NamesInv
<1> QED BY <1>1, <1>2, <1>3 DEF Next, Zebra, ZebraNexthop, ZebraDelNexthop, ZebraRoute,
        ZebraDelRoute, Disconnect, Connect, VRFAppears, VRFRenamed, Handler, HandleNexthop,
        FinishPlain, RouteHandler, vars, zebraVars, kernel, ours, history

(* Every leaf is filed under the name that the resolver has for a table,   *)
(* or else is recorded as left behind; and no other is recorded.           *)
FiledInv ==
    /\ \A l \in Filed : /\ l = <<l[1], l[2]>> /\ l[2] \in Prefixes
                        /\ l \in orphans \/ \E t \in Tables : l[1] = NameIn(vmap, t)
    /\ orphans \subseteq Filed

(* FiledInv is inductive: what a refresh renames is recorded when it does. *)
LEMMA FiledStep ==
  ASSUME Typed, NamesInv, FiledInv, [Next]_vars
  PROVE  FiledInv'
<1>1. ASSUME NEW c \in Conns, RouteHandler(c) PROVE FiledInv'
  <2> DEFINE k0 == Next1(c).key
             l0 == Leaf(c)
             left == {<<NameIn(vmap, k[1]), k[2]>> : k \in LeftBehind(c)}
  <2>1. /\ k0 \in Keys /\ l0 = <<NameIn(vmap', k0[1]), k0[2]>> /\ RecordNames(c)
        /\ vmap' = IF Refreshes(k0[1]) THEN vrfdev ELSE vmap
    BY <1>1, RouteBegins
  <2>2. orphans' = (orphans \cup left) \ {l0}
    BY <2>1 DEF RecordNames
  <2>3. \A l : l # l0 => (l \in Filed' <=> l \in Filed)
    BY <1>1, RouteFiles
  <2>4. k0[1] \in Tables /\ k0[2] \in Prefixes
    BY <2>1 DEF Keys
  <2>5. left \subseteq Filed
    BY DEF LeftBehind, IsLeft
  <2>6. ASSUME NEW l \in Filed, l # l0, l \notin orphans'
        PROVE  \E t \in Tables : l[1] = NameIn(vmap', t)
    <3>1. l \notin orphans /\ l \notin left
      BY <2>2, <2>6
    <3>2. PICK t \in Tables : l[1] = NameIn(vmap, t)
      BY <3>1 DEF FiledInv
    <3>3. CASE ~Refreshes(k0[1])
      BY <2>1, <3>2, <3>3
    <3>4. CASE Refreshes(k0[1])
      <4> DEFINE k == <<t, l[2]>>
      <4>1. k \in Tables \X Prefixes /\ l = <<NameIn(vmap, k[1]), k[2]>>
        BY <3>2 DEF FiledInv
      <4>2. k \notin LeftBehind(c)
        BY <3>1, <4>1
      <4>3. NameIn(vmap, t) = NameIn(vrfdev, t)
        BY <3>4, <4>1, <4>2 DEF LeftBehind, IsLeft
      <4> QED BY <2>1, <3>2, <3>4, <4>3
    <3> QED BY <3>3, <3>4
  <2> HIDE DEF left, l0
  <2>7. ASSUME NEW l \in Filed'
        PROVE  /\ l = <<l[1], l[2]>> /\ l[2] \in Prefixes
               /\ l \in orphans' \/ \E t \in Tables : l[1] = NameIn(vmap', t)
    <3>1. CASE l = l0
      <4>1. l = <<NameIn(vmap', k0[1]), k0[2]>>
        BY <2>1, <3>1 DEF l0
      <4>2. l[1] = NameIn(vmap', k0[1]) /\ l[2] = k0[2]
        BY <4>1
      <4> QED BY <2>4, <4>1, <4>2
    <3>2. CASE l # l0
      <4>1. l \in Filed
        BY <2>3, <3>2
      <4> QED BY <2>6, <3>2, <4>1 DEF FiledInv, l0
    <3> QED BY <3>1, <3>2
  <2>8. orphans' \subseteq Filed'
    BY <2>2, <2>3, <2>5 DEF FiledInv
  <2> QED BY <2>7, <2>8 DEF FiledInv
<1>2. ASSUME NEW c \in Conns, FinishPlain(c) PROVE FiledInv'
  <2>1. Filed' = Filed /\ UNCHANGED <<orphans, vmap>>
    BY <1>2, FinishFiles DEF FinishPlain, zebraVars
  <2> QED BY <2>1 DEF FiledInv
<1>3. CASE UNCHANGED <<hop, lbl, held, orphans, vmap>>
  <2>1. Filed' = Filed
    BY <1>3 DEF Filed
  <2> QED BY <1>3, <2>1 DEF FiledInv
<1> QED BY <1>1, <1>2, <1>3 DEF Next, Zebra, ZebraNexthop, ZebraDelNexthop, ZebraRoute,
        ZebraDelRoute, Disconnect, Connect, VRFAppears, VRFRenamed, NewDevice, Handler,
        HandleNexthop, RouteHandler, vars, zebraVars, kernel, ours, history

-----------------------------------------------------------------------------
(* What the cache shows of a route that no message on the wire is about:   *)
(* its next hop and labels of now, the next hop perhaps still held back    *)
(* (w), or nothing if zebra does not have it.                              *)
Shown(w, h, b, l, now) ==
    IF w # <<>> /\ Head(w).leaf = l
    THEN now.labels = <<>> /\ Head(w).hop = now.hop /\ l \notin DOMAIN b
    ELSE /\ l \in DOMAIN h /\ h[l] = now.hop
         /\ IF now.labels = <<>> THEN l \notin DOMAIN b ELSE l \in DOMAIN b /\ b[l] = now.labels
NameIsRight(t) == t \notin late => Instance(t) = NameIn(vrfdev, t)
Right(k) ==
    IF k \in DOMAIN fib
    THEN Shown(held[live], hop, lbl, LeafOf(k), Resolution(fib[k], nhg)) /\ NameIsRight(k[1])
    ELSE LeafOf(k) \notin Filed
Settled == ~mixed => \A k \in Keys \ doubt :
               NoneFor(inq[live], k) /\ LeafOf(k) \notin orphans => Right(k)

(* Nothing that a route shows changes.                                     *)
LEMMA RightKept ==
  ASSUME NEW k, Right(k), UNCHANGED <<hop, lbl, vmap, held, live>>,
         k \in DOMAIN fib' <=> k \in DOMAIN fib,
         k \in DOMAIN fib => /\ Resolution(fib'[k], nhg') = Resolution(fib[k], nhg)
                             /\ NameIsRight(k[1]) => NameIsRight(k[1])'
  PROVE  Right(k)'
<1>1. LeafOf(k)' = LeafOf(k) /\ Filed' = Filed
  BY DEF LeafOf, Instance, Filed
<1>2. CASE k \in DOMAIN fib
  <2>1. Shown(held[live], hop, lbl, LeafOf(k), Resolution(fib[k], nhg)) /\ NameIsRight(k[1])
    BY <1>2 DEF Right
  <2>2. Shown(held'[live'], hop', lbl', LeafOf(k)', Resolution(fib'[k], nhg'))
    BY <1>1, <1>2, <2>1
  <2> QED BY <1>2, <2>1, <2>2 DEF Right
<1>3. CASE k \notin DOMAIN fib
  <2>1. LeafOf(k)' \notin Filed'
    BY <1>1, <1>3 DEF Right
  <2> QED BY <1>3, <2>1 DEF Right
<1> QED BY <1>2, <1>3

(* The steps of zebra and the kernel: a route of which something changes   *)
(* has a message on the wire or is in doubt.                               *)
LEMMA SettledNexthop ==
  ASSUME Typed, Closed, Settled, ZebraNexthop \/ ZebraDelNexthop
  PROVE  Settled'
<1>1. UNCHANGED <<fib, live, up, mixed, held, hop, lbl, vmap, vrfdev, late, orphans>>
  BY DEF ZebraNexthop, ZebraDelNexthop, history, ours
<1> SUFFICES ASSUME ~mixed, NEW k \in Keys \ doubt', NoneFor(inq'[live], k), LeafOf(k) \notin orphans
             PROVE  Right(k)'
  <2>1. \A k : LeafOf(k)' = LeafOf(k)
    BY <1>1 DEF LeafOf, Instance
  <2> QED BY <1>1, <2>1 DEF Settled, Keys
<1>2. PICK msg \in NexthopMsgs : Send(msg)
  BY DEF ZebraNexthop, ZebraDelNexthop, NexthopMsgs, Typed, ZebraTyped
<1>3. inq'[live] = IF up THEN Append(inq[live], msg) ELSE inq[live]
  BY <1>2, SendEffect
<1>4. NoneFor(inq[live], k)
  <2>1. inq[live] \in Seq(Messages) /\ msg \in Messages
    BY DEF Typed, TypeOK, WireTyped, Messages
  <2>2. ~About(msg, k)
    BY DEF NexthopMsgs, About, IsRoute
  <2> QED BY <1>3, <2>1, <2>2, LastAppend
<1>5. k \in Keys \ doubt /\ (k \in DOMAIN fib => Resolution(fib[k], nhg') = Resolution(fib[k], nhg))
  <2>1. CASE ZebraNexthop
    <3>1. doubt' = doubt \cup {j \in DOMAIN fib : Resolution(fib[j], nhg) # Resolution(fib[j], nhg')}
      BY <2>1 DEF ZebraNexthop
    <3> QED BY <3>1
  <2>2. CASE ZebraDelNexthop
    <3>1. doubt' = doubt /\ \E i \in DOMAIN nhg \ Used : nhg' = Without(nhg, {i})
      BY <2>2 DEF ZebraDelNexthop, history
    <3> QED BY <3>1, UnusedResolves
  <2> QED BY <2>1, <2>2
<1>6. Right(k)
  BY <1>4, <1>5 DEF Settled
<1>7. NameIsRight(k[1])' <=> NameIsRight(k[1])
  BY <1>1 DEF NameIsRight, Instance
<1> QED BY <1>1, <1>5, <1>6, <1>7, RightKept

(* A route that changes is sent, or is in doubt when it cannot be.         *)
LEMMA SettledRoute ==
  ASSUME Typed, Settled, ZebraRoute \/ ZebraDelRoute
  PROVE  Settled'
<1>1. UNCHANGED <<nhg, live, up, mixed, held, hop, lbl, vmap, vrfdev, late, orphans>>
  BY DEF ZebraRoute, ZebraDelRoute, ours
<1> SUFFICES ASSUME ~mixed, NEW k \in Keys \ doubt', NoneFor(inq'[live], k), LeafOf(k) \notin orphans
             PROVE  Right(k)'
  <2>1. \A k : LeafOf(k)' = LeafOf(k)
    BY <1>1 DEF LeafOf, Instance
  <2> QED BY <1>1, <2>1 DEF Settled, Keys
<1>2. PICK j \in Keys, msg \in RouteMsgs :
         /\ Send(msg) /\ Told({j}) /\ msg.key = j
         /\ k # j => (k \in DOMAIN fib' <=> k \in DOMAIN fib) /\ (k \in DOMAIN fib => fib'[k] = fib[k])
  <2>1. CASE ZebraRoute
    <3>1. PICK j \in Keys, r \in Routes :
                 /\ fib' = With(fib, j, r)
                 /\ Send([op |-> "newroute", key |-> j, rt |-> r]) /\ Told({j})
      BY <2>1 DEF ZebraRoute, Keys
    <3>2. [op |-> "newroute", key |-> j, rt |-> r] \in RouteMsgs
      BY DEF RouteMsgs
    <3>3. k # j => (k \in DOMAIN fib' <=> k \in DOMAIN fib) /\ (k \in DOMAIN fib => fib'[k] = fib[k])
      BY <3>1 DEF With
    <3> QED BY <3>1, <3>2, <3>3
  <2>2. CASE ZebraDelRoute
    <3>1. PICK j \in DOMAIN fib :
                 /\ fib' = Without(fib, {j})
                 /\ Send([op |-> "delroute", key |-> j, rt |-> fib[j]]) /\ Told({j})
      BY <2>2 DEF ZebraDelRoute
    <3>2. [op |-> "delroute", key |-> j, rt |-> fib[j]] \in RouteMsgs /\ j \in Keys
      BY DEF RouteMsgs, Typed, ZebraTyped
    <3>3. k # j => (k \in DOMAIN fib' <=> k \in DOMAIN fib) /\ (k \in DOMAIN fib => fib'[k] = fib[k])
      BY <3>1 DEF Without
    <3> QED BY <3>1, <3>2, <3>3
  <2> QED BY <2>1, <2>2
<1>3. inq'[live] = IF up THEN Append(inq[live], msg) ELSE inq[live]
  BY <1>2, SendEffect
<1>4. inq[live] \in Seq(Messages) /\ msg \in Messages /\ IsRoute(msg)
  BY DEF Typed, TypeOK, WireTyped, Messages, RouteMsgs, IsRoute
<1>5. k # j /\ k \in Keys \ doubt /\ NoneFor(inq[live], k)
  <2>1. CASE up
    <3>1. ~About(msg, k)
      BY <1>3, <1>4, <2>1, LastAppend
    <3>2. k # j
      BY <1>2, <1>4, <3>1 DEF About
    <3>3. NoneFor(inq[live], k)
      BY <1>3, <1>4, <2>1, <3>1, LastAppend
    <3> QED BY <1>2, <2>1, <3>2, <3>3 DEF Told
  <2>2. CASE ~up
    BY <1>2, <1>3, <2>2 DEF Told
  <2> QED BY <2>1, <2>2
<1>6. Right(k)
  BY <1>5 DEF Settled
<1>7. NameIsRight(k[1])' <=> NameIsRight(k[1])
  BY <1>1 DEF NameIsRight, Instance
<1> QED BY <1>1, <1>2, <1>5, <1>6, <1>7, RightKept

(* A dump has a message for every route that zebra has.                    *)
LEMMA SettledDial ==
  ASSUME Typed, OnlyLive, Settled, Disconnect \/ Connect
  PROVE  Settled'
<1>1. UNCHANGED <<nhg, fib, held, hop, lbl, vmap, vrfdev, late, orphans>>
  BY DEF Disconnect, Connect, ours
<1>2. \A k : /\ LeafOf(k)' = LeafOf(k) /\ (NameIsRight(k[1])' <=> NameIsRight(k[1]))
  BY <1>1 DEF LeafOf, Instance, NameIsRight
<1>3. CASE Disconnect
  <2>1. PICK n \in 0..Len(inq[live]) :
           /\ inq' = [inq EXCEPT ![live] = SubSeq(@, 1, n)]
           /\ doubt' = doubt \cup RouteKeys(SubSeq(inq[live], n + 1, Len(inq[live])))
    BY <1>3 DEF Disconnect
  <2>2. live' = live /\ mixed' = mixed
    BY <1>3 DEF Disconnect
  <2>3. inq[live] \in Seq(Messages) /\ inq'[live] = SubSeq(inq[live], 1, n)
    BY <2>1 DEF Typed, TypeOK, WireTyped
  <2>4. \A k \in Keys \ doubt' : k \in Keys \ doubt
             /\ \A j \in n + 1..Len(inq[live]) : ~About(inq[live][j], k)
    BY <2>1, LostIsDoubted
  <2>5. ASSUME ~mixed, NEW k \in Keys \ doubt', NoneFor(inq'[live], k), LeafOf(k) \notin orphans
        PROVE  Right(k)'
    <3>1. NoneFor(inq[live], k)
      BY <2>3, <2>4, <2>5, LastTake
    <3>2. Right(k)
      BY <2>4, <2>5, <3>1 DEF Settled
    <3> QED BY <1>1, <1>2, <2>2, <3>2, RightKept
  <2> QED BY <1>1, <1>2, <2>2, <2>5 DEF Settled, Keys
<1>4. CASE Connect
  <2>1. PICK dump \in Dumps : inq' = [inq EXCEPT ![live + 1] = dump]
    BY <1>4 DEF Connect
  <2>2. ~up /\ live' = live + 1 /\ doubt' = doubt \ DOMAIN fib /\ mixed' = (mixed \/ ~Idle(live))
    BY <1>4 DEF Connect
  <2>3. live + 1 \in Conns /\ live + 1 > live
    BY <2>2, FPMAssumption DEF Typed, TypeOK, ZebraTyped, Conns
  <2>4. inq'[live'] = dump
    BY <2>1, <2>2, <2>3 DEF Typed, WireTyped
  <2>5. ASSUME ~mixed', NEW k \in Keys \ doubt', NoneFor(dump, k), LeafOf(k) \notin orphans
        PROVE  Right(k)'
    <3>1. k \notin DOMAIN fib
      <4>1. SUFFICES ASSUME k \in DOMAIN fib PROVE FALSE
        OBVIOUS
      <4>2. PICK n \in 1..Len(dump) : dump[n] = NewRoute(k)
        <5>1. dump \in Seq(Messages)
          BY DumpsAre
        <5>2. PICK N \in 0..Len(dump) : \E n \in N + 1..Len(dump) : dump[n] = NewRoute(k)
          BY <4>1, DumpsAre
        <5>3. N + 1..Len(dump) \subseteq 1..Len(dump)
          BY <5>1
        <5> QED BY <5>2, <5>3
      <4>3. About(dump[n], k)
        BY <4>2 DEF About, IsRoute, NewRoute
      <4> QED BY <2>5, <4>2, <4>3 DEF NoneFor
    <3>2. ~mixed /\ Idle(live) /\ k \in Keys \ doubt
      BY <2>2, <2>5, <3>1
    <3>3. NoneFor(inq[live], k)
      BY <3>2 DEF Idle, NoneFor
    <3>4. LeafOf(k) \notin Filed
      BY <2>5, <3>1, <3>2, <3>3 DEF Settled, Right
    <3>5. Filed' = Filed
      BY <1>1 DEF Filed
    <3> QED BY <1>1, <1>2, <3>1, <3>4, <3>5 DEF Right
  <2> QED BY <1>1, <1>2, <2>4, <2>5 DEF Settled, Keys
<1> QED BY <1>3, <1>4

(* A name changes in the kernel only: the table is late until the next     *)
(* refresh.                                                                *)
LEMMA SettledDevice ==
  ASSUME Typed, Settled, VRFAppears \/ VRFRenamed
  PROVE  Settled'
<1>1. PICK t, n : NewDevice(t, n)
  BY DEF VRFAppears, VRFRenamed
<1>2. /\ vrfdev' = With(vrfdev, t, n) /\ late' = IF LookedUp(t) THEN late \cup {t} ELSE late
      /\ UNCHANGED <<nhg, fib, live, doubt, orphans, mixed, inq, held, vmap, hop, lbl>>
  BY <1>1 DEF NewDevice, ours
<1>3. \A k : LeafOf(k)' = LeafOf(k)
  BY <1>2 DEF LeafOf, Instance
<1>4. ASSUME NEW k \in DOMAIN fib, NameIsRight(k[1]) PROVE NameIsRight(k[1])'
  <2>1. SUFFICES ASSUME k[1] \notin late' PROVE Instance(k[1]) = NameIn(vrfdev', k[1])
    BY <1>2 DEF NameIsRight, Instance
  <2>2. k[1] # t /\ k[1] \notin late
    BY <1>2, <2>1 DEF LookedUp
  <2>3. NameIn(vrfdev', k[1]) = NameIn(vrfdev, k[1])
    BY <1>2, <2>2 DEF NameIn, With
  <2> QED BY <1>4, <2>2, <2>3 DEF NameIsRight
<1>5. ASSUME NEW k, Right(k) PROVE Right(k)'
  BY <1>2, <1>4, <1>5, RightKept
<1> QED BY <1>2, <1>3, <1>5 DEF Settled, Keys

-----------------------------------------------------------------------------
(* The steps of the handler.  handleNexthop changes no leaf.               *)
LEMMA SettledTakesNexthop ==
  ASSUME Typed, Settled, NEW c \in Conns, HandleNexthop(c)
  PROVE  Settled'
<1>1. UNCHANGED <<nhg, fib, vrfdev, live, mixed, doubt, late, orphans, held, vmap, hop, lbl>>
  BY DEF HandleNexthop, zebraVars, kernel
<1>2. Take(c) /\ Next1(c).op \in {"newnh", "delnh"}
  BY DEF HandleNexthop
<1>3. /\ inq[c] # <<>> /\ inq'[c] = Tail(inq[c]) /\ inq[live] \in Seq(Messages)
      /\ \A d \in Conns : d # c => inq'[d] = inq[d]
  BY <1>2 DEF Take, Typed, TypeOK, WireTyped
<1>4. \A k : ~About(Head(inq[c]), k)
  BY <1>2 DEF Next1, About, IsRoute
<1>5. ASSUME NEW k, NoneFor(inq'[live], k) PROVE NoneFor(inq[live], k)
  <2>1. CASE c = live
    BY <1>3, <1>4, <1>5, <2>1, LastTail
  <2>2. CASE c # live
    BY <1>3, <1>5, <2>2 DEF Typed, TypeOK
  <2> QED BY <2>1, <2>2
<1>6. \A k : /\ LeafOf(k)' = LeafOf(k) /\ (NameIsRight(k[1])' <=> NameIsRight(k[1]))
  BY <1>1 DEF LeafOf, Instance, NameIsRight
<1>7. ASSUME NEW k, Right(k) PROVE Right(k)'
  BY <1>1, <1>6, <1>7, RightKept
<1> QED BY <1>1, <1>5, <1>6, <1>7 DEF Settled, Keys

(* The second Update writes what was held back.                            *)
LEMMA SettledFinish ==
  ASSUME Typed, OnlyLive, Settled, NEW c \in Conns, FinishPlain(c)
  PROVE  Settled'
<1>1. /\ UNCHANGED <<nhg, fib, vrfdev, live, mixed, doubt, late, orphans, inq, vmap, lbl>>
      /\ held[c] # <<>> /\ held' = [held EXCEPT ![c] = <<>>]
      /\ hop' = With(hop, Head(held[c]).leaf, Head(held[c]).hop)
  BY DEF FinishPlain, zebraVars, kernel
<1>2. \A k : /\ LeafOf(k)' = LeafOf(k) /\ (NameIsRight(k[1])' <=> NameIsRight(k[1]))
  BY <1>1 DEF LeafOf, Instance, NameIsRight
<1>3. Filed' = Filed
  BY FinishFiles
<1> SUFFICES ASSUME ~mixed, NEW k \in Keys \ doubt, NoneFor(inq[live], k), LeafOf(k) \notin orphans
             PROVE  Right(k)'
  BY <1>1, <1>2 DEF Settled, Keys
<1>4. Right(k)
  BY DEF Settled
<1>5. c = live
  BY <1>1 DEF OnlyLive, Idle
<1>6. CASE k \in DOMAIN fib
  <2> DEFINE l == LeafOf(k)
             now == Resolution(fib[k], nhg)
             l0 == Head(held[c]).leaf
  <2>1. Shown(held[c], hop, lbl, l, now) /\ NameIsRight(k[1])
    BY <1>4, <1>5, <1>6 DEF Right
  <2>2. held'[c] = <<>>
    BY <1>1 DEF Typed, HeldTyped
  <2>3. DOMAIN hop' = DOMAIN hop \cup {l0} /\ hop'[l0] = Head(held[c]).hop
        /\ \A y \in DOMAIN hop : y # l0 => hop'[y] = hop[y]
    BY <1>1 DEF With
  <2> HIDE DEF l, now, l0
  <2>4. Shown(held'[c], hop', lbl', l, now)
    <3>1. CASE l = l0
      <4>1. now.labels = <<>> /\ Head(held[c]).hop = now.hop /\ l \notin DOMAIN lbl
        BY <1>1, <2>1, <3>1 DEF Shown, l0
      <4> QED BY <1>1, <2>2, <2>3, <3>1, <4>1 DEF Shown
    <3>2. CASE l # l0
      <4>1. /\ l \in DOMAIN hop /\ hop[l] = now.hop
            /\ IF now.labels = <<>> THEN l \notin DOMAIN lbl ELSE l \in DOMAIN lbl /\ lbl[l] = now.labels
        BY <2>1, <3>2 DEF Shown, l0
      <4>2. l \in DOMAIN hop' /\ hop'[l] = now.hop
        BY <2>3, <3>2, <4>1
      <4> QED BY <1>1, <2>2, <4>1, <4>2 DEF Shown
    <3> QED BY <3>1, <3>2
  <2> QED BY <1>1, <1>2, <1>5, <1>6, <2>1, <2>4 DEF Right, l, now
<1>7. CASE k \notin DOMAIN fib
  BY <1>1, <1>2, <1>3, <1>4, <1>7 DEF Right
<1> QED BY <1>6, <1>7

(* The route itself: the message taken was its last and tells the truth.   *)
LEMMA RouteIsRight ==
  ASSUME Typed, OnlyLive, NamesInv, WireTrue, ~mixed, NEW c \in Conns, RouteHandler(c),
         NEW k, k = Next1(c).key, k \notin doubt, NoneFor(Tail(inq[c]), k)
  PROVE  Right(k)'
<1> DEFINE q == inq[c]
           l == Leaf(c)
           now == Resolution(fib[k], nhg)
           r == Resolution(Next1(c).rt, nh)
<1>1. /\ k \in Keys /\ IsRoute(Next1(c)) /\ held[c] = <<>> /\ q # <<>>
      /\ UNCHANGED kernel /\ RecordNames(c)
      /\ vmap' = IF Refreshes(k[1]) THEN vrfdev ELSE vmap
      /\ l = <<NameIn(vmap', k[1]), k[2]>>
  BY RouteBegins
<1>2. c = live /\ q \in Seq(Messages) /\ \A d \in Conns : d # c => Idle(d)
  BY <1>1 DEF OnlyLive, Idle, Typed, WireTyped
<1>3. fib' = fib /\ nhg' = nhg /\ live' = live /\ vrfdev' = vrfdev
  BY <1>1 DEF kernel
<1>4. LeafOf(k)' = l
  BY <1>1 DEF LeafOf, Instance
<1>5. TrueOf(Next1(c), k, nh, fib, nhg)
  <2>1. PICK W : TrueCourse(W, q, nh, up, fib, nhg, Keys \ doubt)
    BY <1>2 DEF WireTrue
  <2>2. About(Head(q), k)
    BY <1>1 DEF About, Next1
  <2>3. 1 \in 1..Len(q) /\ Head(q) = q[1] /\ LastFor(q, k, 1)
    BY <1>1, <1>2, <2>2, LastTail
  <2>4. TrueOf(q[1], k, W[1 - 1], fib, nhg)
    BY <1>1, <2>1, <2>3 DEF TrueCourse
  <2>5. W[1 - 1] = nh
    BY <2>1 DEF TrueCourse, Course
  <2> QED BY <2>3, <2>4, <2>5 DEF Next1
<1>6. NameIsRight(k[1])'
  <2>1. CASE Refreshes(k[1])
    BY <1>1, <1>3, <2>1 DEF NameIsRight, Instance
  <2>2. CASE ~Refreshes(k[1])
    <3>1. vmap' = vmap /\ late' = late
      BY <1>1, <2>2 DEF RecordNames
    <3>2. Fixed(k[1]) \/ k[1] \in DOMAIN vmap
      BY <2>2 DEF Refreshes
    <3>3. CASE Fixed(k[1])
      BY <3>3 DEF NameIsRight, Instance, NameIn, Fixed
    <3>4. CASE k[1] \in DOMAIN vmap
      BY <1>3, <3>1, <3>4 DEF NameIsRight, Instance, NameIn, NamesInv
    <3> QED BY <3>2, <3>3, <3>4
  <2> QED BY <2>1, <2>2
<1>7. CASE DelRoute(c)
  <2>1. Next1(c).op = "delroute" /\ held' = held
        /\ hop' = Without(hop, {l}) /\ lbl' = Without(lbl, {l})
    BY <1>7 DEF DelRoute, BeginRoute
  <2>2. k \notin DOMAIN fib
    BY <1>5, <2>1 DEF TrueOf
  <2> HIDE DEF l
  <2>3. l \notin DOMAIN hop' /\ l \notin DOMAIN lbl'
    BY <2>1 DEF Without
  <2>4. \A d \in Conns : held'[d] = <<>>
    BY <1>1, <1>2, <2>1 DEF Idle
  <2>5. l \notin Filed'
    BY <2>3, <2>4 DEF Filed
  <2> QED BY <1>3, <1>4, <2>2, <2>5 DEF Right
<1>8. ASSUME Next1(c).op = "newroute" PROVE k \in DOMAIN fib /\ r = now
  BY <1>5, <1>8 DEF TrueOf
<1>9. CASE AddLabelled(c)
  <2>1. Next1(c).op = "newroute" /\ held' = held /\ r.labels # <<>>
        /\ hop' = With(hop, l, r.hop) /\ lbl' = With(lbl, l, r.labels)
    BY <1>9 DEF AddLabelled, BeginRoute
  <2>2. k \in DOMAIN fib /\ r = now
    BY <1>8, <2>1
  <2> HIDE DEF l, r, now
  <2>3. l \in DOMAIN hop' /\ hop'[l] = r.hop /\ l \in DOMAIN lbl' /\ lbl'[l] = r.labels
    BY <2>1 DEF With
  <2>4. Shown(held'[live'], hop', lbl', l, now)
    BY <1>1, <1>2, <1>3, <2>1, <2>2, <2>3 DEF Shown
  <2> QED BY <1>3, <1>4, <1>6, <2>2, <2>4 DEF Right, now
<1>10. CASE AddPlain(c)
  <2>1. Next1(c).op = "newroute" /\ r.labels = <<>> /\ lbl' = Without(lbl, {l})
        /\ held' = [held EXCEPT ![c] = <<[leaf |-> l, hop |-> r.hop]>>]
    BY <1>10 DEF AddPlain, BeginRoute
  <2>2. k \in DOMAIN fib /\ r = now
    BY <1>8, <2>1
  <2> HIDE DEF l, r, now
  <2>3. l \notin DOMAIN lbl'
    BY <2>1 DEF Without
  <2>4. held'[c] = <<[leaf |-> l, hop |-> r.hop]>>
    BY <2>1 DEF Typed, HeldTyped
  <2>5. held'[c] # <<>> /\ Head(held'[c]).leaf = l /\ Head(held'[c]).hop = r.hop
    BY <2>4
  <2>6. Shown(held'[live'], hop', lbl', l, now)
    BY <1>2, <1>3, <2>1, <2>2, <2>3, <2>5 DEF Shown
  <2> QED BY <1>3, <1>4, <1>6, <2>2, <2>6 DEF Right, now
<1> QED BY <1>7, <1>9, <1>10 DEF RouteHandler

(* Another route: its leaf is another, before and after.                   *)
LEMMA OtherStaysRight ==
  ASSUME Typed, OnlyLive, NamesInv, NamesInv', FiledInv, ~mixed, NEW c \in Conns, RouteHandler(c),
         NEW k \in Keys \ doubt', k # Next1(c).key, LeafOf(k)' \notin orphans',
         LeafOf(k) \notin orphans => Right(k)
  PROVE  Right(k)'
<1> DEFINE k0 == Next1(c).key
           l0 == Leaf(c)
           l == LeafOf(k)
           m == LeafOf(k)'
<1>1. /\ k0 \in Keys /\ held[c] = <<>> /\ inq[c] # <<>> /\ UNCHANGED kernel /\ RecordNames(c)
      /\ vmap' = IF Refreshes(k0[1]) THEN vrfdev ELSE vmap
      /\ l0 = <<NameIn(vmap', k0[1]), k0[2]>>
  BY RouteBegins
<1>2. c = live /\ fib' = fib /\ nhg' = nhg /\ live' = live /\ vrfdev' = vrfdev
  BY <1>1 DEF OnlyLive, Idle, kernel
<1>3. m = <<NameIn(vmap', k[1]), k[2]>> /\ l = <<NameIn(vmap, k[1]), k[2]>>
  BY DEF LeafOf, Instance
<1>4. k = <<k[1], k[2]>> /\ k0 = <<k0[1], k0[2]>> /\ k[1] \in Tables /\ k[2] \in Prefixes
  BY <1>1 DEF Keys
<1>5. m # l0
  <2>1. SUFFICES ASSUME NameIn(vmap', k[1]) = NameIn(vmap', k0[1]), k[2] = k0[2] PROVE FALSE
    BY <1>1, <1>3
  <2>2. k[1] = k0[1]
    BY <2>1, NameIsOneToOne DEF NamesInv
  <2> QED BY <1>4, <2>1, <2>2
<1>6. orphans' = (orphans \cup {<<NameIn(vmap, j[1]), j[2]>> : j \in LeftBehind(c)}) \ {l0}
      /\ late' = IF Refreshes(k0[1]) THEN {} ELSE late
  BY <1>1 DEF RecordNames
<1>7. k \notin LeftBehind(c)
  BY <1>1 DEF RecordNames
<1>8. /\ \A x : x # l0 => (x \in Filed' <=> x \in Filed)
      /\ \A x : x # l0 =>
            /\ (x \in DOMAIN hop' <=> x \in DOMAIN hop) /\ (x \in DOMAIN hop => hop'[x] = hop[x])
            /\ (x \in DOMAIN lbl' <=> x \in DOMAIN lbl) /\ (x \in DOMAIN lbl => lbl'[x] = lbl[x])
      /\ held'[c] = <<>> \/ (held'[c] # <<>> /\ Head(held'[c]).leaf = l0)
  BY RouteFiles, RouteWrites
<1>9. m \notin orphans
  BY <1>5, <1>6
<1> HIDE DEF l, m, l0, k0
<1>10. CASE m = l
  <2>1. Right(k)
    BY <1>9, <1>10 DEF l
  <2>2. CASE k \in DOMAIN fib
    <3> DEFINE now == Resolution(fib[k], nhg)
    <3>1. Shown(held[c], hop, lbl, l, now) /\ NameIsRight(k[1])
      BY <1>2, <2>1, <2>2 DEF Right, l
    <3> HIDE DEF now
    <3>2. Shown(held'[c], hop', lbl', m, now)
      <4>1. /\ l \in DOMAIN hop /\ hop[l] = now.hop
            /\ IF now.labels = <<>> THEN l \notin DOMAIN lbl ELSE l \in DOMAIN lbl /\ lbl[l] = now.labels
        BY <1>1, <3>1 DEF Shown
      <4>2. /\ m \in DOMAIN hop' /\ hop'[m] = now.hop
            /\ IF now.labels = <<>> THEN m \notin DOMAIN lbl' ELSE m \in DOMAIN lbl' /\ lbl'[m] = now.labels
        BY <1>5, <1>8, <1>10, <4>1
      <4>3. ~(held'[c] # <<>> /\ Head(held'[c]).leaf = m)
        BY <1>5, <1>8
      <4> QED BY <4>2, <4>3 DEF Shown
    <3>3. NameIsRight(k[1])'
      <4>1. CASE Refreshes(k0[1])
        BY <1>1, <1>2, <4>1 DEF NameIsRight, Instance
      <4>2. CASE ~Refreshes(k0[1])
        BY <1>1, <1>2, <1>6, <3>1, <4>2 DEF NameIsRight, Instance
      <4> QED BY <4>1, <4>2
    <3> QED BY <1>2, <2>2, <3>2, <3>3 DEF Right, m, now
  <2>3. CASE k \notin DOMAIN fib
    <3>1. m \notin Filed'
      BY <1>5, <1>8, <1>10, <2>1, <2>3 DEF Right, l
    <3> QED BY <1>2, <2>3, <3>1 DEF Right, m
  <2> QED BY <2>2, <2>3
<1>11. CASE m # l
  <2>1. Refreshes(k0[1]) /\ vmap' = vrfdev /\ NameIn(vmap, k[1]) # NameIn(vrfdev, k[1])
    BY <1>1, <1>3, <1>11
  <2>2. \A j \in Tables \X Prefixes : j \in LeftBehind(c) <=> IsLeft(j)
    BY <2>1 DEF LeftBehind, k0
  <2>3. l \notin Filed
    <3>1. ~IsLeft(k)
      BY <1>7, <2>2 DEF Keys
    <3> QED BY <1>3, <2>1, <3>1 DEF IsLeft
  <2>4. Right(k)
    <3>1. l \notin orphans
      BY <2>3 DEF FiledInv
    <3> QED BY <3>1 DEF l
  <2>5. k \notin DOMAIN fib
    <3>1. SUFFICES ASSUME k \in DOMAIN fib PROVE FALSE
      OBVIOUS
    <3>2. Shown(held[c], hop, lbl, l, Resolution(fib[k], nhg))
      BY <1>2, <2>4, <3>1 DEF Right, l
    <3>3. l \in DOMAIN hop
      BY <1>1, <3>2 DEF Shown
    <3> QED BY <2>3, <3>3 DEF Filed
  <2>6. m \notin Filed'
    <3>1. SUFFICES ASSUME m \in Filed PROVE FALSE
      BY <1>5, <1>8
    <3>2. PICK t \in Tables : m[1] = NameIn(vmap, t)
      BY <1>9, <3>1 DEF FiledInv
    <3>3. m = <<NameIn(vrfdev, k[1]), k[2]>> /\ m[1] = NameIn(vrfdev, k[1])
      BY <1>3, <2>1
    <3>4. t # k[1]
      BY <2>1, <3>2, <3>3
    <3>5. NameIn(vrfdev, t) # NameIn(vrfdev, k[1])
      BY <3>4, NameIsOneToOne DEF NamesInv
    <3> DEFINE j == <<t, k[2]>>
    <3>6. j \in Tables \X Prefixes /\ j[1] = t /\ j[2] = k[2]
      BY <1>4
    <3> HIDE DEF j
    <3>7. m = <<NameIn(vmap, j[1]), j[2]>>
      BY <3>2, <3>3, <3>6
    <3>8. IsLeft(j)
      BY <3>1, <3>2, <3>3, <3>5, <3>6, <3>7 DEF IsLeft
    <3>9. m \in orphans'
      BY <1>5, <1>6, <2>2, <3>6, <3>7, <3>8
    <3> QED BY <3>9 DEF m
  <2> QED BY <1>2, <2>5, <2>6 DEF Right, m
<1> QED BY <1>10, <1>11

(* handleRoute keeps what it shows right.                                  *)
LEMMA SettledHandlesRoute ==
  ASSUME Typed, OnlyLive, NamesInv, NamesInv', FiledInv, WireTrue, Settled,
         NEW c \in Conns, RouteHandler(c)
  PROVE  Settled'
<1>1. /\ Next1(c).key \in Keys /\ inq[c] # <<>> /\ inq'[c] = Tail(inq[c])
      /\ UNCHANGED kernel /\ RecordNames(c)
  BY RouteBegins
<1>2. live' = live /\ mixed' = mixed
  BY <1>1 DEF kernel
<1> SUFFICES ASSUME ~mixed, NEW k \in Keys \ doubt', NoneFor(inq'[live], k), LeafOf(k)' \notin orphans'
             PROVE  Right(k)'
  BY <1>2 DEF Settled, Keys
<1>3. c = live /\ inq[c] \in Seq(Messages)
  BY <1>1 DEF OnlyLive, Idle, Typed, WireTyped
<1>4. k \in Keys \ doubt
  BY <1>1 DEF RecordNames
<1>5. CASE k = Next1(c).key
  BY <1>1, <1>3, <1>4, <1>5, RouteIsRight
<1>6. CASE k # Next1(c).key
  <2>1. ~About(Head(inq[c]), k)
    BY <1>6 DEF About, Next1
  <2>2. NoneFor(inq[live], k)
    BY <1>1, <1>3, <2>1, LastTail
  <2>3. LeafOf(k) \notin orphans => Right(k)
    BY <1>4, <2>2 DEF Settled
  <2> QED BY <1>6, <2>3, OtherStaysRight
<1> QED BY <1>5, <1>6

(* Together.                                                               *)
Ingested ==
    /\ Typed /\ Closed /\ OnlyLive /\ WireTrue
    /\ NamesInv /\ FiledInv /\ Settled

(* At the start nothing is on the wire and nothing is shown.               *)
LEMMA IngestedInit ==
  ASSUME Init
  PROVE  Closed /\ OnlyLive /\ WireTrue /\ NamesInv /\ FiledInv /\ Settled
<1>1. /\ DOMAIN nhg = {} /\ DOMAIN fib = {} /\ DOMAIN hop = {} /\ DOMAIN lbl = {} /\ nh = NoMap /\ nhg = NoMap
      /\ live = 1 /\ live \in Conns /\ vmap = vrfdev /\ IsOneToOne(vrfdev) /\ orphans = {}
      /\ \A c \in Conns : inq[c] = <<>> /\ held[c] = <<>>
  BY FPMAssumption DEF Init, NoMap, Conns
<1>2. Closed /\ OnlyLive /\ NamesInv
  BY <1>1 DEF Closed, OnlyLive, NamesInv, Idle
<1>3. Filed = {}
  BY <1>1 DEF Filed
<1>4. FiledInv /\ Settled
  BY <1>1, <1>3 DEF FiledInv, Settled, Right
<1>5. WireTrue
  <2> DEFINE W == [n \in {0} |-> nh]
  <2>1. Course(W, <<>>, nh)
    BY NothingWaits
  <2>2. W[0] = nh /\ Agree(nh, nhg)
    BY <1>1 DEF Agree
  <2> HIDE DEF W
  <2>3. TrueCourse(W, <<>>, nh, up, fib, nhg, Keys \ doubt)
    BY <2>1, <2>2 DEF TrueCourse
  <2> QED BY <1>1, <2>3 DEF WireTrue
<1> QED BY <1>2, <1>4, <1>5

(* Ingested is inductive, given the types.                                 *)
LEMMA IngestedStep ==
  ASSUME Ingested, 0 \notin NHIds, [Next]_vars, Typed'
  PROVE  Ingested'
<1> USE DEF Ingested
<1>1. Closed' /\ OnlyLive' /\ WireTrue' /\ NamesInv' /\ FiledInv'
  BY ClosedStep, OnlyLiveStep, WireStep, NamesStep, FiledStep
<1>2. Settled'
  <2>1. CASE ZebraNexthop \/ ZebraDelNexthop
    BY <2>1, SettledNexthop
  <2>2. CASE ZebraRoute \/ ZebraDelRoute
    BY <2>2, SettledRoute
  <2>3. CASE Disconnect \/ Connect
    BY <2>3, SettledDial
  <2>4. CASE VRFAppears \/ VRFRenamed
    BY <2>4, SettledDevice
  <2>5. ASSUME NEW c \in Conns, HandleNexthop(c) PROVE Settled'
    BY <2>5, SettledTakesNexthop
  <2>6. ASSUME NEW c \in Conns, FinishPlain(c) PROVE Settled'
    BY <2>6, SettledFinish
  <2>7. ASSUME NEW c \in Conns, RouteHandler(c) PROVE Settled'
    BY <1>1, <2>7, SettledHandlesRoute
  <2>8. CASE UNCHANGED vars
    <3>1. \A k : LeafOf(k)' = LeafOf(k) /\ (Right(k)' <=> Right(k))
      BY <2>8 DEF vars, zebraVars, kernel, ours, LeafOf, Instance, Right, NameIsRight, Filed
    <3> QED BY <2>8, <3>1 DEF Settled, Keys, vars, zebraVars, kernel, ours
  <2> QED BY <2>1, <2>2, <2>3, <2>4, <2>5, <2>6, <2>7, <2>8 DEF Next, Zebra, Handler, RouteHandler
<1> QED BY <1>1, <1>2

(* When everything is handled, what is shown is zebra's FIB.               *)
LEMMA IngestedIsQuiet ==
  ASSUME Ingested
  PROVE  QuietIsFIB
<1> SUFFICES ASSUME Quiet, ~mixed, NEW k \in Keys \ doubt, LeafOf(k) \notin orphans
             PROVE  /\ k \notin DOMAIN fib => LeafOf(k) \notin DOMAIN hop \cup DOMAIN lbl
                    /\ k \in DOMAIN fib =>
                         LET now == Resolution(fib[k], nhg) IN
                         /\ LeafOf(k) \in DOMAIN hop /\ hop[LeafOf(k)] = now.hop
                         /\ IF now.labels = <<>> THEN LeafOf(k) \notin DOMAIN lbl
                            ELSE LeafOf(k) \in DOMAIN lbl /\ lbl[LeafOf(k)] = now.labels
                         /\ k[1] \notin late => Instance(k[1]) = NameIn(vrfdev, k[1])
  BY DEF QuietIsFIB, Keys
<1>1. inq[live] = <<>> /\ held[live] = <<>>
  BY DEF Quiet, Idle, Ingested, Typed, TypeOK
<1>2. NoneFor(inq[live], k)
  BY <1>1 DEF NoneFor
<1>3. Right(k)
  BY <1>2 DEF Ingested, Settled
<1> QED BY <1>1, <1>3 DEF Right, Shown, NameIsRight, Filed

(* QuietIsFIB, when no nexthop object has the id 0, which the code takes   *)
(* for no id (fpm.go:190 and 282).                                         *)
THEOREM QuietIsFIBInvariant ==
  ASSUME 0 \notin NHIds
  PROVE  Spec => []QuietIsFIB
<1>1. Init /\ Typed => Ingested
  BY IngestedInit DEF Ingested
<1>2. Ingested /\ [Next]_vars /\ Typed' => Ingested'
  BY IngestedStep
<1>3. Ingested => QuietIsFIB
  BY IngestedIsQuiet
<1>4. Spec => []Typed
  BY TypeCorrect DEF Typed
<1> QED BY <1>1, <1>2, <1>3, <1>4, PTL DEF Spec
=============================================================================
