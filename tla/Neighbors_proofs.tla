--------------------------- MODULE Neighbors_proofs ---------------------------
(***************************************************************************)
(* Proofs about the two ingesters of neighbors, which keep in a map what   *)
(* they wrote to the cache and tell by it what disappeared: OSPFIngest,    *)
(* for every set of router-ids and interfaces, every capacity of /dev/log  *)
(* and any number of changes and failures, and LLDPIngest, for every set   *)
(* of interfaces and chassis ids and any number of changes and failures.   *)
(*                                                                         *)
(* L! names what is LLDPIngest's.  Variables that both modules have (seen, *)
(* cache, pc and changes) are one and the same here, but each lemma is     *)
(* about one of the ingesters and takes nothing from the other.            *)
(***************************************************************************)
EXTENDS OSPFIngest, SequenceTheorems, TLAPS

CONSTANTS Chassis, Absent, NoId, MaxFaults
VARIABLES lldpd, watch, booted, cur, old, todo, overlapped, renamed, faults
L == INSTANCE LLDPIngest

(* The first adjacency of a router-id (arr[0] of parseOSPFNbrs) is at an   *)
(* interface, and only router-ids of the table are parsed.                 *)
LEMMA ParseType ==
  ASSUME NEW t, DOMAIN t \subseteq Rids \X Ifaces
  PROVE  /\ DOMAIN Parse(t) \subseteq Rids
         /\ \A r \in DOMAIN Parse(t) : Parse(t)[r].iface \in Ifaces
<1>1. DOMAIN Parse(t) = Known(t) /\ Known(t) \subseteq Rids
  BY DEF Parse, Known
<1>2. ASSUME NEW r \in Known(t) PROVE FirstIface(t, r) \in Ifaces
  <2>1. IfacesOf(t, r) # {} /\ IfacesOf(t, r) \subseteq Ifaces
    BY DEF Known, IfacesOf
  <2> QED BY <2>1 DEF FirstIface
<1>3. \A r \in Known(t) : Parse(t)[r].iface = FirstIface(t, r)
  BY DEF Parse
<1> QED BY <1>1, <1>2, <1>3

(* What a reconcile leaves behind when it is given the table now.          *)
LEMMA ReconcileEffect ==
  ASSUME NEW now, Reconcile(now), DOMAIN st = DOMAIN seen
  PROVE  /\ DOMAIN seen' = DOMAIN now /\ DOMAIN st' = DOMAIN now
         /\ \A r \in DOMAIN now :
              /\ seen'[r] = now[r].iface /\ st'[r] = now[r].state
              /\ <<now[r].iface, r>> \in DOMAIN cache'
              /\ cache'[<<now[r].iface, r>>] = now[r].state
<1> DEFINE put  == {<<now[r].iface, r>> : r \in DOMAIN now}
           gone == DOMAIN seen \ DOMAIN now
           del  == {<<seen[r], r>> : r \in gone}
<1>1. seen' = [r \in DOMAIN now |-> now[r].iface]
  BY DEF Reconcile, Present, Gone
<1>2. st' = [r \in (DOMAIN st \cup DOMAIN now) \ gone |->
                IF r \in DOMAIN now THEN now[r].state ELSE st[r]]
  BY DEF Reconcile, Present, Gone
<1>3. cache' = [p \in (DOMAIN cache \cup put) \ del |->
                   IF p \in put THEN now[p[2]].state ELSE cache[p]]
  BY DEF Reconcile, Present, Gone
<1>4. (DOMAIN st \cup DOMAIN now) \ gone = DOMAIN now
  OBVIOUS
<1>5. ASSUME NEW r \in DOMAIN now
      PROVE  <<now[r].iface, r>> \in put /\ <<now[r].iface, r>> \notin del
  OBVIOUS
<1> HIDE DEF put, gone, del
<1>6. DOMAIN seen' = DOMAIN now /\ DOMAIN st' = DOMAIN now
  BY <1>1, <1>2, <1>4
<1>7. ASSUME NEW r \in DOMAIN now
      PROVE  /\ seen'[r] = now[r].iface /\ st'[r] = now[r].state
             /\ <<now[r].iface, r>> \in DOMAIN cache'
             /\ cache'[<<now[r].iface, r>>] = now[r].state
  <2>1. seen'[r] = now[r].iface /\ st'[r] = now[r].state
    BY <1>1, <1>2, <1>4
  <2>2. <<now[r].iface, r>> \in (DOMAIN cache \cup put) \ del
    BY <1>5
  <2>3. <<now[r].iface, r>>[2] = r
    OBVIOUS
  <2> QED BY <2>1, <2>2, <2>3, <1>3, <1>5
<1> QED BY <1>6, <1>7

-----------------------------------------------------------------------------
(* The type invariant, for every value of the constants: in particular the *)
(* queue of /dev/log keeps to its capacity and seen maps router-ids to     *)
(* interfaces.                                                             *)
THEOREM TypeCorrect == Spec => []TypeOK
<1> USE OSPFAssumption DEF OSPFAssumption
<1>1. Init => TypeOK
  <2> SUFFICES ASSUME Init PROVE TypeOK
    OBVIOUS
  <2>1. PICK D \in SUBSET (Rids \X Ifaces) : adj \in [D -> States]
    BY DEF Init
  <2>2. DOMAIN Empty = {}
    BY DEF Empty
  <2>3. sockq \in Seq({"ospf", "other"}) /\ Len(sockq) = 0
    BY EmptySeq DEF Init
  <2>4. DOMAIN adj \subseteq Rids \X Ifaces /\ \A p \in DOMAIN adj : adj[p] \in States
    BY <2>1
  <2>5. /\ DOMAIN view = {} /\ DOMAIN seen = {}
        /\ DOMAIN st = {} /\ DOMAIN cache = {}
    BY <2>2 DEF Init
  <2>6. /\ frr \in {"run", "log"} /\ sock \in {"none", "bound", "failed"}
        /\ fallback \in BOOLEAN /\ trigger \in BOOLEAN /\ lost \in BOOLEAN
        /\ moved \subseteq Rids
        /\ pc \in {"boot", "bootapply", "wait", "settle", "apply"}
        /\ changes \in Nat /\ others \in Nat /\ fails \in Nat
    BY DEF Init
  <2> QED BY <2>3, <2>4, <2>5, <2>6 DEF TypeOK
<1>2. TypeOK /\ [Next]_vars => TypeOK'
  <2> SUFFICES ASSUME TypeOK, [Next]_vars PROVE TypeOK'
    OBVIOUS
  <2> USE DEF TypeOK, given, books
  <2>1. CASE Change
    BY <2>1 DEF Change
  <2>2. ASSUME NEW m \in {"ospf", "other"}, Deliver(m)
        PROVE  sockq' \in Seq({"ospf", "other"}) /\ Len(sockq') <= SockCap
    BY <2>2 DEF Deliver
  <2>3. CASE Log
    BY <2>2, <2>3 DEF Log
  <2>4. CASE LogOther
    BY <2>2, <2>4 DEF LogOther
  <2>5. CASE Bind
    BY <2>5 DEF Bind
  <2>6. CASE Drain
    <3>1. sockq' \in Seq({"ospf", "other"}) /\ Len(sockq') = Len(sockq) - 1
      BY <2>6, HeadTailProperties DEF Drain
    <3> QED BY <3>1, <2>6 DEF Drain
  <2>7. CASE FallbackTick
    BY <2>7 DEF FallbackTick
  <2>8. CASE Wake
    BY <2>8 DEF Wake
  <2>9. CASE Read
    BY <2>9 DEF Read
  <2>10. CASE ReadFail
    BY <2>10 DEF ReadFail
  <2>11. CASE ReadGarbled
    <3>1. DOMAIN view' = {}
      BY <2>11 DEF ReadGarbled, Empty
    <3> QED BY <3>1, <2>11 DEF ReadGarbled
  <2>12. CASE Apply
    <3> DEFINE now == Parse(view)
    <3>1. DOMAIN now \subseteq Rids /\ \A r \in DOMAIN now : now[r].iface \in Ifaces
      BY ParseType
    <3>2. Reconcile(now)
      BY <2>12 DEF Apply
    <3> HIDE DEF now
    <3>3. DOMAIN seen' \subseteq Rids /\ \A r \in DOMAIN seen' : seen'[r] \in Ifaces
      BY <3>1, <3>2 DEF Reconcile, Gone
    <3>4. DOMAIN st' \subseteq Rids
      BY <3>1, <3>2 DEF Reconcile, Gone
    <3>5. {<<now[r].iface, r>> : r \in DOMAIN now} \subseteq Ifaces \X Rids
      BY <3>1
    <3>6. DOMAIN cache' \subseteq Ifaces \X Rids
      BY <3>2, <3>5 DEF Reconcile, Present
    <3>7. moved' \subseteq Rids
      BY <3>1, <3>2 DEF Reconcile
    <3> QED BY <3>3, <3>4, <3>6, <3>7, <2>12 DEF Apply
  <2>13. CASE UNCHANGED vars
    BY <2>13 DEF vars
  <2> QED
    BY <2>1, <2>3, <2>4, <2>5, <2>6, <2>7, <2>8, <2>9, <2>10, <2>11, <2>12, <2>13
    DEF Next, Ingester
<1> QED BY <1>1, <1>2, PTL DEF Spec

-----------------------------------------------------------------------------
(* seen and st are maps on the same router-ids at every moment, also       *)
(* between a read and its reconcile, where BooksMatchView is silent: what  *)
(* makes it inductive.                                                     *)
SameKeys == DOMAIN st = DOMAIN seen

(* reconcile replaces both maps together.                                  *)
LEMMA SameKeysInvariant == Spec => []SameKeys
<1>1. Init => SameKeys
  BY DEF Init, SameKeys
<1>2. SameKeys /\ [Next]_vars => SameKeys'
  <2> SUFFICES ASSUME SameKeys, [Next]_vars PROVE SameKeys'
    OBVIOUS
  <2>1. CASE Apply
    BY <2>1, ReconcileEffect DEF Apply, SameKeys
  <2>2. CASE UNCHANGED <<seen, st>>
    BY <2>2 DEF SameKeys
  <2>3. CASE UNCHANGED vars
    BY <2>2, <2>3 DEF vars
  <2> QED
    BY <2>1, <2>2, <2>3
    DEF Next, Ingester, Change, Log, LogOther, Bind, Drain, FallbackTick, Wake,
        Read, ReadFail, ReadGarbled, books
<1> QED BY <1>1, <1>2, PTL DEF Spec

(* A reconcile emits root events for exactly the neighbors whose recorded  *)
(* state it changes or forgets, and no other step touches either.          *)
THEOREM TransitionsAreEmitted == Spec => TransitionEmits
<1> DEFINE Emits == st' # st \/ roots' # roots =>
              {e.rid : e \in roots'} =
                 {r \in DOMAIN st : r \in DOMAIN st' => st'[r] # st[r]}
<1>1. SameKeys /\ [Next]_vars => Emits
  <2> SUFFICES ASSUME SameKeys, [Next]_vars, ~UNCHANGED <<st, roots>> PROVE Emits
    OBVIOUS
  <2>1. Apply
    BY DEF Next, Ingester, Change, Log, LogOther, Bind, Drain, FallbackTick, Wake,
           Read, ReadFail, ReadGarbled, books, vars
  <2> DEFINE now == Parse(view)
  <2>2. Reconcile(now)
    BY <2>1 DEF Apply
  <2> HIDE DEF now
  <2>3. roots' = {[rid |-> r, kind |-> now[r].state] : r \in Transitions(now)}
                 \cup {[rid |-> r, kind |-> "gone"] : r \in Gone(now)}
    BY <2>2 DEF Reconcile
  <2>4. {e.rid : e \in roots'} = Transitions(now) \cup Gone(now)
    <3>1. \A e \in roots' : e.rid \in Transitions(now) \cup Gone(now)
      BY <2>3
    <3>2. ASSUME NEW r \in Transitions(now) PROVE \E e \in roots' : e.rid = r
      <4>1. [rid |-> r, kind |-> now[r].state] \in roots'
        BY <2>3
      <4> QED BY <4>1
    <3>3. ASSUME NEW r \in Gone(now) PROVE \E e \in roots' : e.rid = r
      <4>1. [rid |-> r, kind |-> "gone"] \in roots'
        BY <2>3
      <4> QED BY <4>1
    <3> QED BY <3>1, <3>2, <3>3
  <2>5. DOMAIN st' = DOMAIN now /\ \A r \in DOMAIN now : st'[r] = now[r].state
    BY <2>2, ReconcileEffect DEF SameKeys
  <2>6. Transitions(now) \cup Gone(now)
          = {r \in DOMAIN st : r \in DOMAIN st' => st'[r] # st[r]}
    BY <2>5 DEF Transitions, Gone, SameKeys
  <2> QED BY <2>4, <2>6
<1> QED BY <1>1, SameKeysInvariant, PTL DEF Spec, TransitionEmits

(* Between reconciles seen, st and the cache agree with the table that     *)
(* vtysh printed last.                                                     *)
THEOREM BooksAgree == Spec => []BooksMatchView
<1>1. Init => BooksMatchView
  <2> SUFFICES ASSUME Init PROVE BooksMatchView
    OBVIOUS
  <2>1. DOMAIN Parse(view) = {}
    BY DEF Init, Empty, Parse, Known
  <2>2. DOMAIN seen = {} /\ DOMAIN st = {}
    BY DEF Init, Empty
  <2> QED BY <2>1, <2>2 DEF BooksMatchView
<1>2. SameKeys /\ BooksMatchView /\ [Next]_vars => BooksMatchView'
  <2> SUFFICES ASSUME SameKeys, BooksMatchView, [Next]_vars PROVE BooksMatchView'
    OBVIOUS
  <2>1. CASE Apply
    <3> DEFINE now == Parse(view)
    <3>1. Reconcile(now) /\ view' = view
      BY <2>1 DEF Apply
    <3>2. now' = now
      BY <3>1 DEF Parse, Known, FirstIface, IfacesOf
    <3>3. /\ DOMAIN seen' = DOMAIN now /\ DOMAIN st' = DOMAIN now
          /\ \A r \in DOMAIN now :
               /\ seen'[r] = now[r].iface /\ st'[r] = now[r].state
               /\ <<now[r].iface, r>> \in DOMAIN cache'
               /\ cache'[<<now[r].iface, r>>] = now[r].state
      BY <3>1, ReconcileEffect DEF SameKeys
    <3> HIDE DEF now
    <3>4. /\ DOMAIN seen' = DOMAIN now' /\ DOMAIN st' = DOMAIN now'
          /\ \A r \in DOMAIN now' :
               /\ seen'[r] = now'[r].iface /\ st'[r] = now'[r].state
               /\ <<seen'[r], r>> \in DOMAIN cache'
               /\ cache'[<<seen'[r], r>>] = st'[r]
      BY <3>2, <3>3
    <3> QED BY <3>4 DEF BooksMatchView, now
  <2>2. CASE Read \/ ReadGarbled
    BY <2>2 DEF Read, ReadGarbled, BooksMatchView
  <2>3. CASE /\ UNCHANGED <<view, seen, st, cache>>
             /\ pc' \notin {"bootapply", "apply"} => pc \notin {"bootapply", "apply"}
    <3>1. Parse(view)' = Parse(view)
      BY <2>3 DEF Parse, Known, FirstIface, IfacesOf
    <3> QED BY <2>3, <3>1 DEF BooksMatchView
  <2> QED
    BY <2>1, <2>2, <2>3
    DEF Next, Ingester, Change, Log, LogOther, Bind, Drain, FallbackTick, Wake,
        ReadFail, books, vars
<1> QED BY <1>1, <1>2, SameKeysInvariant, PTL DEF Spec

-----------------------------------------------------------------------------
(* No lost wake-up: whenever FRR's table differs from the one read last,   *)
(* FRR is about to log, or an OSPF line is queued, or the trigger holds    *)
(* its token, or the worker is about to read, or the change is recorded as *)
(* lost.                                                                   *)
THEOREM NoTriggerIsLost == Spec => []NoLostTrigger
<1>1. Init => NoLostTrigger
  BY DEF Init, NoLostTrigger
<1>2. TypeOK /\ NoLostTrigger /\ [Next]_vars => NoLostTrigger'
  <2> SUFFICES ASSUME TypeOK, NoLostTrigger, [Next]_vars PROVE NoLostTrigger'
    OBVIOUS
  <2> USE DEF given, books
  <2>1. CASE Change
    BY <2>1 DEF Change, NoLostTrigger
  <2>2. ASSUME NEW m, Deliver(m), NEW i \in 1..Len(sockq), sockq[i] = "ospf"
        PROVE  \E j \in 1..Len(sockq') : sockq'[j] = "ospf"
    BY <2>2 DEF Deliver, TypeOK
  <2>3. CASE Log
    <3>1. CASE sock = "bound"
      <4>1. sockq' = Append(sockq, "ospf")
        BY <2>3, <3>1 DEF Log, Deliver
      <4>2. Len(sockq') \in 1..Len(sockq') /\ sockq'[Len(sockq')] = "ospf"
        BY <4>1 DEF TypeOK
      <4> QED BY <4>2 DEF NoLostTrigger
    <3>2. CASE sock # "bound"
      BY <2>3, <3>2 DEF Log, NoLostTrigger
    <3> QED BY <3>1, <3>2
  <2>4. CASE LogOther
    <3>1. PICK m \in {"ospf", "other"} : Deliver(m)
      BY <2>4 DEF LogOther
    <3>2. UNCHANGED <<view, adj, frr, trigger, pc, lost>>
      BY <2>4 DEF LogOther
    <3> QED BY <2>2, <3>1, <3>2 DEF NoLostTrigger
  <2>5. CASE Drain
    <3>1. UNCHANGED <<view, adj, frr, pc, lost>>
      BY <2>5 DEF Drain
    <3>2. ASSUME NEW i \in 1..Len(sockq), sockq[i] = "ospf"
          PROVE  trigger' \/ \E j \in 1..Len(sockq') : sockq'[j] = "ospf"
      <4>1. CASE i = 1
        <5>1. Head(sockq) = "ospf"
          BY <3>2, <4>1 DEF TypeOK
        <5>2. trigger' = (trigger \/ Head(sockq) = "ospf")
          BY <2>5 DEF Drain
        <5> QED BY <5>1, <5>2, Zenon
      <4>2. CASE i # 1
        <5>1. /\ Len(sockq') = Len(sockq) - 1
              /\ \A j \in 1..Len(sockq') : sockq'[j] = sockq[j + 1]
          BY <2>5, HeadTailProperties DEF Drain, TypeOK
        <5>2. i - 1 \in 1..Len(sockq') /\ sockq'[i - 1] = "ospf"
          BY <3>2, <4>2, <5>1 DEF TypeOK
        <5> QED BY <5>2
      <4> QED BY <4>1, <4>2
    <3>3. trigger => trigger'
      BY <2>5 DEF Drain
    <3> QED BY <3>1, <3>2, <3>3 DEF NoLostTrigger
  <2>6. CASE Read
    BY <2>6 DEF Read, NoLostTrigger
  <2>7. CASE Bind \/ FallbackTick \/ Wake \/ ReadFail \/ ReadGarbled
    BY <2>7 DEF Bind, FallbackTick, Wake, ReadFail, ReadGarbled, NoLostTrigger
  <2>8. CASE Apply
    BY <2>8 DEF Apply, NoLostTrigger
  <2>9. CASE UNCHANGED vars
    BY <2>9 DEF vars, NoLostTrigger
  <2> QED
    BY <2>1, <2>3, <2>4, <2>5, <2>6, <2>7, <2>8, <2>9 DEF Next, Ingester
<1> QED BY <1>1, <1>2, TypeCorrect, PTL DEF Spec

(* Together: at quiet moments the cache holds the state of now of every    *)
(* neighbor that FRR has, unless a change was lost.                        *)
THEOREM QuietAccurate == Spec => []QuietIsAccurate
<1>1. NoLostTrigger /\ BooksMatchView => QuietIsAccurate
  <2> SUFFICES ASSUME NoLostTrigger, BooksMatchView, Quiet, ~lost
               PROVE  \A r \in DOMAIN Parse(adj) :
                         /\ <<Parse(adj)[r].iface, r>> \in DOMAIN cache
                         /\ cache[<<Parse(adj)[r].iface, r>>] = Parse(adj)[r].state
    BY DEF QuietIsAccurate
  <2>1. view = adj
    BY DEF NoLostTrigger, Quiet
  <2>2. pc \notin {"bootapply", "apply"}
    BY DEF Quiet
  <2> QED BY <2>1, <2>2 DEF BooksMatchView
<1> QED BY <1>1, NoTriggerIsLost, BooksAgree, PTL

-----------------------------------------------------------------------------
(* The LLDP ingester.                                                      *)
(* What the sets of maps in the type invariant contain.                    *)
LEMMA MapsAre ==
  /\ \A m \in L!Maps : /\ DOMAIN m \subseteq Ifaces /\ m = [i \in DOMAIN m |-> m[i]]
                       /\ \A i \in DOMAIN m : m[i] \in Chassis
  /\ \A D \in SUBSET Ifaces : [D -> Chassis] \subseteq L!Maps
  /\ L!Nothing \in L!Maps /\ DOMAIN L!Nothing = {}
<1>1. L!Nothing \in [{} -> Chassis] /\ DOMAIN L!Nothing = {}
  BY DEF L!Nothing
<1> QED BY <1>1 DEF L!Maps

(* parseLLDP and the filter of reconcile keep neighbors with an id.        *)
LEMMA ParsedType == L!Parsed \in L!Maps
<1>1. L!Identified(lldpd) \subseteq Ifaces
  BY DEF L!Identified
<1>2. L!Parsed \in [L!Identified(lldpd) -> Chassis]
  BY DEF L!Parsed, L!Identified
<1> QED BY <1>1, <1>2, MapsAre

-----------------------------------------------------------------------------
(* The type invariant: no entry of the cache has an empty chassis id.  The *)
(* present loop only writes what reconcile has read.                       *)
WritesWhatWasRead == \A p \in L!Reconcilers : pc[p] = "write" => todo[p] \subseteq DOMAIN cur[p]
DeletesWhatWasSeen == \A p \in L!Reconcilers : pc[p] = "delete" => todo[p] \subseteq DOMAIN old[p]
LoopsInRange == WritesWhatWasRead /\ DeletesWhatWasSeen

(* Every step of the two reconcilers keeps the type.                       *)
LEMMA LLDPTypeStep == L!TypeOK /\ LoopsInRange /\ [L!Next]_(L!vars) => L!TypeOK' /\ LoopsInRange'
<1> SUFFICES ASSUME L!TypeOK, LoopsInRange, [L!Next]_(L!vars) PROVE L!TypeOK' /\ LoopsInRange'
  OBVIOUS
<1> USE DEF L!TypeOK, LoopsInRange, WritesWhatWasRead, DeletesWhatWasSeen, L!history
<1>1. CASE L!Change
  BY <1>1 DEF L!Change
<1>2. CASE L!WatchEnds
  BY <1>2 DEF L!WatchEnds
<1>3. ASSUME NEW p \in L!Reconcilers, L!Called(p) PROVE watch' \in {"quiet", "line", "ended"}
  BY <1>3 DEF L!Called
<1>4. ASSUME NEW p \in L!Reconcilers, L!Read(p) PROVE L!TypeOK' /\ LoopsInRange'
  <2>1. PICK m \in L!Maps : cur' = [cur EXCEPT ![p] = m] /\ faults' \in Nat
    BY <1>4, ParsedType, MapsAre DEF L!Read
  <2>2. cur' \in [L!Reconcilers -> L!Maps] /\ cur'[p] = m /\ DOMAIN m \subseteq Ifaces
        /\ \A q \in L!Reconcilers \ {p} : cur'[q] = cur[q]
    BY <2>1, MapsAre
  <2>3. todo' = [todo EXCEPT ![p] = DOMAIN m] /\ pc' = [pc EXCEPT ![p] = "write"]
        /\ overlapped' \in BOOLEAN
        /\ UNCHANGED <<lldpd, booted, seen, cache, old, renamed, changes>>
    BY <1>4, <2>2 DEF L!Read
  <2>4. L!TypeOK'
    BY <1>3, <1>4, <2>1, <2>2, <2>3 DEF L!Read
  <2>5. LoopsInRange'
    BY <2>2, <2>3
  <2> QED BY <2>4, <2>5
<1>5. ASSUME NEW p \in L!Reconcilers, L!ReadFail(p) PROVE L!TypeOK' /\ LoopsInRange'
  BY <1>3, <1>5 DEF L!ReadFail
<1>6. ASSUME NEW p \in L!Reconcilers, L!Write(p) PROVE L!TypeOK' /\ LoopsInRange'
  <2>1. PICK i \in todo[p] : /\ cache' = cache \cup {<<i, cur[p][i]>>}
                             /\ todo' = [todo EXCEPT ![p] = @ \ {i}]
    BY <1>6 DEF L!Write
  <2>2. i \in Ifaces /\ cur[p][i] \in Chassis
    BY <1>6, MapsAre DEF L!Write
  <2> QED BY <1>6, <2>1, <2>2 DEF L!Write
<1>7. ASSUME NEW p \in L!Reconcilers, L!Range(p) PROVE L!TypeOK' /\ LoopsInRange'
  <2>1. DOMAIN seen \subseteq Ifaces
    BY MapsAre
  <2> QED BY <1>7, <2>1 DEF L!Range
<1>8. ASSUME NEW p \in L!Reconcilers, L!Delete(p) PROVE L!TypeOK' /\ LoopsInRange'
  BY <1>8 DEF L!Delete
<1>9. ASSUME NEW p \in L!Reconcilers, L!Finish(p) PROVE L!TypeOK' /\ LoopsInRange'
  <2>1. renamed' \subseteq Ifaces
    BY <1>9, MapsAre DEF L!Finish
  <2>2. cur' \in [L!Reconcilers -> L!Maps] /\ old' \in [L!Reconcilers -> L!Maps]
    BY <1>9, MapsAre DEF L!Finish
  <2>3. seen' \in L!Maps /\ pc' = [pc EXCEPT ![p] = "idle"] /\ booted' \in BOOLEAN
        /\ UNCHANGED <<lldpd, watch, cache, todo, overlapped, changes, faults>>
    BY <1>9 DEF L!Finish
  <2>4. \A q \in L!Reconcilers \ {p} : cur'[q] = cur[q] /\ old'[q] = old[q]
    BY <1>9 DEF L!Finish
  <2> QED BY <2>1, <2>2, <2>3, <2>4
<1>10. CASE UNCHANGED L!vars
  BY <1>10 DEF L!vars
<1> QED BY <1>1, <1>2, <1>4, <1>5, <1>6, <1>7, <1>8, <1>9, <1>10 DEF L!Next, L!Reconcile

(* No run of the two reconcilers leaves its type.                          *)
THEOREM LLDPTypeCorrect == L!Spec => [](L!TypeOK /\ LoopsInRange)
<1>1. L!Init => L!TypeOK /\ LoopsInRange
  <2> SUFFICES ASSUME L!Init PROVE L!TypeOK /\ LoopsInRange
    OBVIOUS
  <2>1. /\ cur \in [L!Reconcilers -> L!Maps] /\ old \in [L!Reconcilers -> L!Maps] /\ seen \in L!Maps
        /\ pc \in [L!Reconcilers -> {"idle", "write", "delete"}]
        /\ todo \in [L!Reconcilers -> SUBSET Ifaces]
    BY MapsAre DEF L!Init
  <2>2. \A p \in L!Reconcilers : pc[p] = "idle"
    BY DEF L!Init
  <2> QED
    BY <2>1, <2>2 DEF L!Init, L!TypeOK, LoopsInRange, WritesWhatWasRead, DeletesWhatWasSeen
<1> QED BY <1>1, LLDPTypeStep, PTL DEF L!Spec

-----------------------------------------------------------------------------
(* Between two reconciles l.seen is what the cache holds; this is what     *)
(* holds of both, and of the map read from lldpcli, while one reconcile is *)
(* under way and no other has ever overlapped it.                          *)
OneAtATime ==
    \A p \in L!Reconcilers : \A q \in L!Reconcilers \ {p} : pc[p] = "idle" \/ pc[q] = "idle"
Settled == L!Pairs(seen) \subseteq cache /\ \A x \in cache \ L!Pairs(seen) : x[1] \in renamed
Writing(p) ==
    /\ L!Pairs(seen) \subseteq cache
    /\ \A i \in DOMAIN cur[p] \ todo[p] : <<i, cur[p][i]>> \in cache
    /\ \A x \in cache \ L!Pairs(seen) : x[1] \in renamed \/ x \in L!Pairs(cur[p])
Deleting(p) ==
    /\ old[p] = seen
    /\ L!Pairs(cur[p]) \subseteq cache
    /\ \A x \in cache \ L!Pairs(cur[p]) :
          \/ x[1] \in renamed
          \/ x \in L!Pairs(seen) /\ x[1] \in todo[p] \cup DOMAIN cur[p]
Undisturbed ==
    ~overlapped =>
        /\ OneAtATime
        /\ L!AllIdle => Settled
        /\ \A p \in L!Reconcilers : /\ pc[p] = "write" => Writing(p)
                                    /\ pc[p] = "delete" => Deleting(p)

(* A map and the set of its entries, which is how the cache holds them.    *)
LEMMA PairsAre ==
  ASSUME NEW m
  PROVE  /\ \A i \in DOMAIN m : <<i, m[i]>> \in L!Pairs(m)
         /\ \A x \in L!Pairs(m) : x[1] \in DOMAIN m /\ x = <<x[1], m[x[1]]>>
  BY DEF L!Pairs

(* Every step keeps it: the step that lets two reconciles overlap sets     *)
(* overlapped, after which nothing is claimed.                             *)
LEMMA UndisturbedStep ==
  L!TypeOK /\ LoopsInRange /\ Undisturbed /\ [L!Next]_(L!vars) => Undisturbed'
<1> SUFFICES ASSUME L!TypeOK, LoopsInRange, Undisturbed, [L!Next]_(L!vars), ~overlapped'
             PROVE  /\ OneAtATime' /\ (L!AllIdle => Settled)'
                    /\ \A p \in L!Reconcilers : /\ (pc[p] = "write" => Writing(p))'
                                                /\ (pc[p] = "delete" => Deleting(p))'
  BY DEF Undisturbed
<1> DEFINE Goal == /\ OneAtATime' /\ (L!AllIdle => Settled)'
                   /\ \A p \in L!Reconcilers : /\ (pc[p] = "write" => Writing(p))'
                                               /\ (pc[p] = "delete" => Deleting(p))'
<1> USE DEF L!history
<1>0. ~overlapped
  BY DEF L!Next, L!Change, L!WatchEnds, L!Reconcile, L!Read, L!ReadFail, L!Write, L!Range,
         L!Delete, L!Finish, L!vars, L!TypeOK
<1>1. OneAtATime /\ (L!AllIdle => Settled)
  BY <1>0 DEF Undisturbed
<1>2. \A p \in L!Reconcilers : pc[p] = "write" => Writing(p)
  BY <1>0 DEF Undisturbed
<1>3. \A p \in L!Reconcilers : pc[p] = "delete" => Deleting(p)
  BY <1>0 DEF Undisturbed
<1>4. CASE UNCHANGED <<seen, cache, pc, cur, old, todo, renamed>>
  <2>1. OneAtATime' /\ (L!AllIdle => Settled)'
    BY <1>1, <1>4 DEF OneAtATime, L!AllIdle, Settled
  <2>2. ASSUME NEW p \in L!Reconcilers
        PROVE  (pc[p] = "write" => Writing(p))' /\ (pc[p] = "delete" => Deleting(p))'
    BY <1>4, <1>2, <1>3 DEF Writing, Deleting
  <2> QED BY <2>1, <2>2
<1>5. ASSUME NEW p \in L!Reconcilers, pc[p] # "idle"
      PROVE  \A q \in L!Reconcilers \ {p} : pc[q] = "idle"
  BY <1>1, <1>5 DEF OneAtATime
<1>6. ASSUME NEW p \in L!Reconcilers, L!Read(p) PROVE Goal
  <2>1. \A q \in L!Reconcilers : pc[q] = "idle"
    BY <1>6 DEF L!Read
  <2>2. Settled
    BY <1>1, <2>1 DEF L!AllIdle
  <2>3. pc' = [pc EXCEPT ![p] = "write"] /\ todo' = [todo EXCEPT ![p] = DOMAIN cur'[p]]
        /\ UNCHANGED <<seen, cache, renamed>>
    BY <1>6 DEF L!Read
  <2>4. pc'[p] = "write" /\ todo'[p] = DOMAIN cur'[p]
        /\ \A q \in L!Reconcilers \ {p} : pc'[q] = "idle"
    BY <2>1, <2>3 DEF L!TypeOK
  <2>5. Writing(p)'
    BY <2>2, <2>3, <2>4 DEF Settled, Writing
  <2> QED BY <2>4, <2>5 DEF OneAtATime, L!AllIdle
<1>7. ASSUME NEW p \in L!Reconcilers, L!Write(p) PROVE Goal
  <2>1. PICK i \in todo[p] : /\ cache' = cache \cup {<<i, cur[p][i]>>}
                             /\ todo' = [todo EXCEPT ![p] = @ \ {i}]
    BY <1>7 DEF L!Write
  <2>2. pc[p] = "write" /\ UNCHANGED <<seen, pc, cur, old, renamed>>
    BY <1>7 DEF L!Write
  <2>3. todo'[p] = todo[p] \ {i} /\ i \in DOMAIN cur[p]
    BY <2>1, <2>2 DEF L!TypeOK, LoopsInRange, WritesWhatWasRead
  <2>4. Writing(p)
    BY <1>2, <2>2
  <2>5. <<i, cur[p][i]>> \in L!Pairs(cur[p])
    BY <2>3, PairsAre
  <2>6. Writing(p)'
    BY <2>1, <2>2, <2>3, <2>4, <2>5 DEF Writing
  <2> QED BY <1>1, <1>5, <2>2, <2>6 DEF OneAtATime, L!AllIdle
<1>8. ASSUME NEW p \in L!Reconcilers, L!Range(p) PROVE Goal
  <2>1. /\ pc[p] = "write" /\ todo[p] = {} /\ pc' = [pc EXCEPT ![p] = "delete"]
        /\ old' = [old EXCEPT ![p] = seen] /\ todo' = [todo EXCEPT ![p] = DOMAIN seen]
        /\ UNCHANGED <<seen, cache, cur, renamed>>
    BY <1>8 DEF L!Range
  <2>2. pc'[p] = "delete" /\ old'[p] = seen /\ todo'[p] = DOMAIN seen
        /\ \A q \in L!Reconcilers \ {p} : pc'[q] = "idle"
    BY <1>5, <2>1 DEF L!TypeOK
  <2>3. Writing(p)
    BY <1>2, <2>1
  <2>4. L!Pairs(cur[p]) \subseteq cache
    BY <2>1, <2>3 DEF Writing, L!Pairs
  <2>5. \A x \in cache \ L!Pairs(cur[p]) :
           x[1] \in renamed \/ (x \in L!Pairs(seen) /\ x[1] \in DOMAIN seen)
    BY <2>3, PairsAre DEF Writing
  <2>6. Deleting(p)'
    BY <2>1, <2>2, <2>4, <2>5 DEF Deleting
  <2> QED BY <2>2, <2>6 DEF OneAtATime, L!AllIdle
<1>9. ASSUME NEW p \in L!Reconcilers, L!Delete(p) PROVE Goal
  <2>1. PICK i \in todo[p] :
          /\ cache' = IF i \in DOMAIN cur[p] THEN cache ELSE cache \ {<<i, old[p][i]>>}
          /\ todo' = [todo EXCEPT ![p] = @ \ {i}]
    BY <1>9 DEF L!Delete
  <2>2. pc[p] = "delete" /\ UNCHANGED <<seen, pc, cur, old, renamed>>
    BY <1>9 DEF L!Delete
  <2>3. todo'[p] = todo[p] \ {i}
    BY <2>1 DEF L!TypeOK
  <2>4. Deleting(p)
    BY <1>3, <2>2
  <2>5. L!Pairs(cur[p]) \subseteq cache'
    BY <2>1, <2>4, PairsAre DEF Deleting
  <2>6. ASSUME NEW x \in cache' \ L!Pairs(cur[p]), x[1] \notin renamed
        PROVE  x \in L!Pairs(seen) /\ x[1] \in todo'[p] \cup DOMAIN cur[p]
    <3>1. x \in L!Pairs(seen) /\ x[1] \in todo[p] \cup DOMAIN cur[p] /\ x = <<x[1], seen[x[1]]>>
      BY <2>1, <2>4, <2>6, PairsAre DEF Deleting
    <3>2. x[1] = i => i \in DOMAIN cur[p]
      BY <2>1, <2>4, <2>6, <3>1 DEF Deleting
    <3> QED BY <2>3, <3>1, <3>2
  <2>7. Deleting(p)'
    BY <2>2, <2>4, <2>5, <2>6 DEF Deleting
  <2> QED BY <1>1, <1>5, <2>2, <2>7 DEF OneAtATime, L!AllIdle
<1>10. ASSUME NEW p \in L!Reconcilers, L!Finish(p) PROVE Goal
  <2>1. /\ pc[p] = "delete" /\ todo[p] = {} /\ pc' = [pc EXCEPT ![p] = "idle"]
        /\ seen' = cur[p] /\ cache' = cache
        /\ renamed' = renamed \cup {i \in DOMAIN seen \cap DOMAIN cur[p] : seen[i] # cur[p][i]}
    BY <1>10 DEF L!Finish
  <2>2. \A q \in L!Reconcilers : pc'[q] = "idle"
    BY <1>5, <2>1 DEF L!TypeOK
  <2>3. Deleting(p)
    BY <1>3, <2>1
  <2>4. ASSUME NEW x \in cache \ L!Pairs(cur[p]), x[1] \notin renamed PROVE x[1] \in renamed'
    <3>1. x \in L!Pairs(seen) /\ x[1] \in DOMAIN cur[p]
      BY <2>1, <2>3, <2>4 DEF Deleting
    <3>2. x[1] \in DOMAIN seen /\ x = <<x[1], seen[x[1]]>>
      BY <3>1, PairsAre
    <3>3. <<x[1], cur[p][x[1]]>> \in L!Pairs(cur[p])
      BY <3>1, PairsAre
    <3>4. seen[x[1]] # cur[p][x[1]]
      BY <2>4, <3>2, <3>3
    <3> QED BY <2>1, <3>1, <3>2, <3>4
  <2>5. Settled'
    BY <2>1, <2>3, <2>4 DEF Settled, Deleting
  <2> QED BY <2>2, <2>5 DEF OneAtATime
<1> QED
  BY <1>4, <1>6, <1>7, <1>8, <1>9, <1>10
  DEF L!Next, L!Reconcile, L!Change, L!WatchEnds, L!ReadFail, L!vars

(* Until two reconciles overlap, l.seen is what the cache holds whenever   *)
(* none is under way, but for replaced ids: the comment of lldp.go:25,     *)
(* which the delete loop depends on.                                       *)
THEOREM SeenIsTheCache == L!Spec => []L!SeenIsCache
<1>1. L!Init => Undisturbed
  BY MapsAre DEF L!Init, Undisturbed, OneAtATime, Settled, L!Pairs
<1>2. Undisturbed => L!SeenIsCache
  BY DEF Undisturbed, L!SeenIsCache, Settled
<1> QED BY <1>1, <1>2, LLDPTypeCorrect, UndisturbedStep, PTL DEF L!Spec
=============================================================================
