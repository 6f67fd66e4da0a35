------------------------------ MODULE FPMIngest ------------------------------
(***************************************************************************)
(* The FPM ingester of internal/ingest/fpm.go, its VRF resolver (vrf.go)   *)
(* and the zebra that dials in.  zebra streams nexthop objects and routes  *)
(* over one connection after another; every connection has a handler       *)
(* goroutine of its own, and all handlers share the nexthop map, the       *)
(* resolver and the gNMI cache.                                            *)
(*                                                                         *)
(* The TLVs of a message are abstracted to records: a route carries a      *)
(* gateway, a nexthop id (0 for none), pushed labels and whether its type  *)
(* is a blackhole; a nexthop object a gateway, whether it has an interface,*)
(* a group of ids, labels and a blackhole flag.  Address families are not  *)
(* told apart.                                                             *)
(***************************************************************************)
EXTENDS Integers, Sequences, FiniteSets

CONSTANTS
    Prefixes,   \* destinations
    Tables,     \* kernel routing tables; Main and Local are two of them
    Main, Local,
    Names,      \* names of VRF devices
    NHIds,      \* nexthop ids; the code treats 0 as no id
    NHObjs,     \* nexthop objects that occur
    Routes,     \* routes that occur
    NoGw,       \* no gateway
    MaxConns,   \* bound of the model: connections
    MaxOps      \* bound of the model: changes in zebra and the kernel

ASSUME FPMAssumption ==
    /\ NHIds \subseteq Nat
    /\ MaxConns \in Nat \ {0} /\ MaxOps \in Nat
    /\ NHObjs \subseteq [gw : {NoGw} \cup {o.gw : o \in NHObjs}, oif : BOOLEAN,
                         group : Seq(NHIds), labels : Seq(Nat), bh : BOOLEAN]
    /\ \A r \in Routes : r.nhid \in NHIds \cup {0} /\ r.bh \in BOOLEAN

VARIABLES
    nhg,    \* zebra's nexthop objects: id -> object
    fib,    \* zebra's routes: <<table, prefix>> -> route
    vrfdev, \* VRF devices of the kernel: table -> name
    live,   \* the number of zebra's last connection
    up,     \* that connection stands
    inq,    \* per connection: messages on the wire, in order
    held,   \* per connection: the second Update of handleRoute, if still due
    nh,     \* FPM.nh: id -> object
    vmap,   \* VRFResolver.m: table -> name
    hop,    \* leaves next-hop: <<instance, prefix>> -> next hop
    lbl,    \* leaves pushed-mpls-label-stack
    event,  \* the follow event emitted last
    doubt,  \* history: routes changed, or lost on the wire, while zebra was
            \* not connected, and routes whose nexthop object was replaced;
            \* until they are sent again
    late,   \* history: tables whose VRF device was made or renamed when their
            \* name had been looked up; until the resolver reads the devices
    orphans,\* history: leaves under a name that their table no longer has
            \* in the resolver; until they are written or deleted again
    mixed,  \* history: a connection began before the one before it was handled
    ops

history == <<doubt, late, orphans, mixed>>
kernel == <<nhg, fib, vrfdev, live, up, mixed, ops>>
zebraVars == <<kernel, doubt, late, orphans>>
ours == <<held, nh, vmap, hop, lbl, event>>
vars == <<zebraVars, inq, ours>>

Conns == 1..MaxConns
IsOneToOne(f) == \A x, y \in DOMAIN f : f[x] = f[y] => x = y
Without(f, S) == [x \in DOMAIN f \ S |-> f[x]]
With(f, x, v) == [y \in DOMAIN f \cup {x} |-> IF y = x THEN v ELSE f[y]]
NoMap == [x \in {} |-> 0]

Init ==
    /\ nhg = NoMap /\ fib = NoMap
    /\ vrfdev \in UNION {[D -> Names] : D \in SUBSET (Tables \ {Main, Local})}
    /\ IsOneToOne(vrfdev)
    /\ live = 1 /\ up = TRUE
    /\ inq = [c \in Conns |-> <<>>] /\ held = [c \in Conns |-> <<>>]
    /\ nh = NoMap /\ vmap = vrfdev
    /\ hop = NoMap /\ lbl = NoMap
    /\ event = <<>> /\ doubt = {} /\ late = {} /\ orphans = {}
    /\ mixed = FALSE /\ ops = 0
-----------------------------------------------------------------------------
(* resolveNH: an id leads to its gateway or, through the first member of a *)
(* group, to that of another object; five objects are looked at.           *)
Unresolved == [gw |-> NoGw, bh |-> FALSE, labels |-> <<>>]
Followed(m, next) ==
    [i \in NHIds |->
       IF i \notin DOMAIN m THEN Unresolved
       ELSE CASE m[i].bh -> [Unresolved EXCEPT !.bh = TRUE]
              [] ~m[i].bh /\ (m[i].gw # NoGw \/ m[i].oif) ->
                   [gw |-> m[i].gw, bh |-> FALSE, labels |-> m[i].labels]
              [] ~m[i].bh /\ m[i].gw = NoGw /\ ~m[i].oif /\ m[i].group # <<>> ->
                   next[Head(m[i].group)]
              [] OTHER -> Unresolved]
ResolveNH(m, id) ==
    LET follow[n \in 0..5] == IF n = 0 THEN [i \in NHIds |-> Unresolved]
                              ELSE Followed(m, follow[n - 1])
    IN follow[5][id]

(* What handleRoute makes of a route with the nexthop map m.               *)
Resolution(rt, m) ==
    LET via == IF rt.gw = NoGw /\ rt.nhid # 0 THEN ResolveNH(m, rt.nhid)
               ELSE [gw |-> rt.gw, bh |-> FALSE, labels |-> <<>>]
    IN [hop |-> CASE rt.bh \/ via.bh -> "blackhole"
                  [] ~(rt.bh \/ via.bh) /\ via.gw # NoGw -> via.gw
                  [] OTHER -> "-",
        labels |-> IF rt.labels # <<>> THEN rt.labels ELSE via.labels]

-----------------------------------------------------------------------------
(* zebra and the kernel.  A route is sent after the nexthop it uses, and a *)
(* nexthop in use is not deleted.  Without a connection nothing is sent.   *)
Send(m) == inq' = IF up THEN [inq EXCEPT ![live] = Append(@, m)] ELSE inq
Told(keys) == doubt' = IF up THEN doubt \ keys ELSE doubt \cup keys

Count == ops < MaxOps /\ ops' = ops + 1
Used == {fib[k].nhid : k \in DOMAIN fib}
        \cup UNION {{nhg[i].group[j] : j \in DOMAIN nhg[i].group} : i \in DOMAIN nhg}

ZebraNexthop ==
    /\ Count
    /\ \E i \in NHIds, o \in NHObjs :
         /\ i \in DOMAIN nhg => nhg[i] # o
         /\ \A j \in DOMAIN o.group : o.group[j] \in DOMAIN nhg \ {i}
         /\ nhg' = With(nhg, i, o)
         /\ Send([op |-> "newnh", id |-> i, obj |-> o])
         /\ doubt' = doubt \cup {k \in DOMAIN fib :
                                   Resolution(fib[k], nhg) # Resolution(fib[k], nhg')}
    /\ UNCHANGED <<fib, vrfdev, live, up, late, orphans, mixed, ours>>

ZebraDelNexthop ==
    /\ Count
    /\ \E i \in DOMAIN nhg \ Used :
         /\ nhg' = Without(nhg, {i})
         /\ Send([op |-> "delnh", id |-> i])
    /\ UNCHANGED <<fib, vrfdev, live, up, history, ours>>

ZebraRoute ==
    /\ Count
    /\ \E k \in Tables \X Prefixes, r \in Routes :
         /\ r.nhid = 0 \/ r.nhid \in DOMAIN nhg
         /\ k \in DOMAIN fib => fib[k] # r
         /\ fib' = With(fib, k, r)
         /\ Send([op |-> "newroute", key |-> k, rt |-> r]) /\ Told({k})
    /\ UNCHANGED <<nhg, vrfdev, live, up, late, orphans, mixed, ours>>

ZebraDelRoute ==
    /\ Count
    /\ \E k \in DOMAIN fib :
         /\ fib' = Without(fib, {k})
         /\ Send([op |-> "delroute", key |-> k, rt |-> fib[k]]) /\ Told({k})
    /\ UNCHANGED <<nhg, vrfdev, live, up, late, orphans, mixed, ours>>

(* The connection breaks, and what was on the wire may never arrive.       *)
IsRoute(m) == m.op \in {"newroute", "delroute"}
RouteKeys(msgs) == {msgs[n].key : n \in {j \in DOMAIN msgs : IsRoute(msgs[j])}}
Disconnect ==
    /\ up /\ live < MaxConns /\ up' = FALSE
    /\ \E n \in 0..Len(inq[live]) :
         /\ inq' = [inq EXCEPT ![live] = SubSeq(@, 1, n)]
         /\ doubt' = doubt \cup RouteKeys(SubSeq(inq[live], n + 1, Len(inq[live])))
    /\ UNCHANGED <<nhg, fib, vrfdev, live, late, orphans, mixed, ops, ours>>

(* zebra dials again and sends all it has: objects that groups refer to    *)
(* first, then groups, then routes.  Old messages may still be handled.    *)
Orders(S) == {s \in [1..Cardinality(S) -> S] : {s[n] : n \in DOMAIN s} = S}
Dumps ==
    LET plain == {i \in DOMAIN nhg : nhg[i].group = <<>>}
        NHMsgs(S) == {[op |-> "newnh", id |-> i, obj |-> nhg[i]] : i \in S}
        RTMsgs == {[op |-> "newroute", key |-> k, rt |-> fib[k]] : k \in DOMAIN fib}
    IN {a \o b \o c : a \in Orders(NHMsgs(plain)), b \in Orders(NHMsgs(DOMAIN nhg \ plain)),
                      c \in Orders(RTMsgs)}

Idle(c) == inq[c] = <<>> /\ held[c] = <<>>

Connect ==
    /\ ~up /\ up' = TRUE /\ live' = live + 1
    /\ \E dump \in Dumps : inq' = [inq EXCEPT ![live + 1] = dump]
    /\ doubt' = doubt \ DOMAIN fib
    /\ mixed' = (mixed \/ ~Idle(live))
    /\ UNCHANGED <<nhg, fib, vrfdev, late, orphans, ops, ours>>

(* A VRF device is made for a table, which may have had routes before, or  *)
(* gets another name (also: is removed and made again under that name).    *)
LookedUp(t) == t \in DOMAIN vmap \/ \E k \in DOMAIN fib : k[1] = t
NewDevice(t, n) ==
    /\ Count
    /\ vrfdev' = With(vrfdev, t, n) /\ IsOneToOne(vrfdev')
    /\ late' = IF LookedUp(t) THEN late \cup {t} ELSE late
    /\ UNCHANGED <<nhg, fib, live, up, doubt, orphans, mixed, inq, ours>>
VRFAppears == \E t \in Tables \ ({Main, Local} \cup DOMAIN vrfdev), n \in Names : NewDevice(t, n)
VRFRenamed == \E t \in DOMAIN vrfdev, n \in Names : n # vrfdev[t] /\ NewDevice(t, n)
-----------------------------------------------------------------------------
(* VRFResolver.Name: a table that is not in the map makes it read the      *)
(* kernel's devices again.                                                 *)
Fixed(t) == t \in {Main, Local}
Refreshes(t) == ~Fixed(t) /\ t \notin DOMAIN vmap
MapAfter(t) == IF Refreshes(t) THEN vrfdev ELSE vmap
NameIn(m, t) ==
    CASE Fixed(t) -> <<"fixed", t>>
      [] ~Fixed(t) /\ t \in DOMAIN m -> <<"vrf", m[t]>>
      [] OTHER -> <<"table", t>>
Name(t) == NameIn(MapAfter(t), t)
-----------------------------------------------------------------------------
(* handle: the messages of a connection in their order.                    *)
Next1(c) == Head(inq[c])
Take(c) ==
    /\ held[c] = <<>> /\ inq[c] # <<>>
    /\ inq' = [inq EXCEPT ![c] = Tail(@)]

(* handleNexthop.                                                          *)
HandleNexthopStores(c) ==       \* a fault: a deleted object is stored, empty
    /\ Take(c)
    /\ Next1(c).op \in {"newnh", "delnh"}
    /\ nh' = With(nh, Next1(c).id,
                  IF Next1(c).op = "newnh" THEN Next1(c).obj
                  ELSE [gw |-> NoGw, oif |-> FALSE, group |-> <<>>, labels |-> <<>>, bh |-> FALSE])
    /\ UNCHANGED <<zebraVars, held, vmap, hop, lbl, event>>
HandleNexthop(c) ==
    /\ Take(c)
    /\ Next1(c).op \in {"newnh", "delnh"}
    /\ nh' = CASE Next1(c).id = 0 -> nh
               [] Next1(c).id # 0 /\ Next1(c).op = "newnh" ->
                    With(nh, Next1(c).id, Next1(c).obj)
               [] OTHER -> Without(nh, {Next1(c).id})
    /\ UNCHANGED <<zebraVars, held, vmap, hop, lbl, event>>

(* Leaves whose tables a refresh gives other names stay where they are.    *)
Leaf(c) == <<Name(Next1(c).key[1]), Next1(c).key[2]>>
Filed == DOMAIN hop \cup DOMAIN lbl \cup {Head(held[c]).leaf : c \in {d \in Conns : held[d] # <<>>}}
IsLeft(k) == NameIn(vmap, k[1]) # NameIn(vrfdev, k[1]) /\ <<NameIn(vmap, k[1]), k[2]>> \in Filed
LeftBehind(c) == IF Refreshes(Next1(c).key[1]) THEN {k \in Tables \X Prefixes : IsLeft(k)} ELSE {}
RecordNames(c) ==
    /\ late' = IF Refreshes(Next1(c).key[1]) THEN {} ELSE late
    /\ orphans' = (orphans \cup {<<NameIn(vmap, k[1]), k[2]>> : k \in LeftBehind(c)}) \ {Leaf(c)}
    /\ doubt' = doubt \cup (LeftBehind(c) \ {Next1(c).key})

(* handleRoute, up to and including its Emit.                              *)
BeginRoute(c, op, kind) ==
    /\ Take(c)
    /\ Next1(c).op = op
    /\ vmap' = MapAfter(Next1(c).key[1])
    /\ event' = [kind |-> kind, prefix |-> Next1(c).key[2],
                 vrf |-> Name(Next1(c).key[1]),
                 hop |-> Resolution(Next1(c).rt, nh).hop]
    /\ RecordNames(c)
    /\ UNCHANGED <<kernel, nh>>

(* A deleted route: both leaves go in one Update.                          *)
DelRouteHop(c) ==               \* a fault: only the next hop is deleted
    /\ BeginRoute(c, "delroute", "route-del")
    /\ hop' = Without(hop, {Leaf(c)})
    /\ UNCHANGED <<held, lbl>>
DelRoute(c) ==
    /\ BeginRoute(c, "delroute", "route-del")
    /\ hop' = Without(hop, {Leaf(c)}) /\ lbl' = Without(lbl, {Leaf(c)})
    /\ UNCHANGED held

(* A route that pushes labels: both leaves are written in one Update.      *)
AddLabelled(c) ==
    /\ BeginRoute(c, "newroute", "route-add")
    /\ LET r == Resolution(Next1(c).rt, nh) IN
         /\ r.labels # <<>>
         /\ hop' = With(hop, Leaf(c), r.hop) /\ lbl' = With(lbl, Leaf(c), r.labels)
    /\ UNCHANGED held

(* A route that pushes none: one Update clears a stale stack ...           *)
AddPlainKeeps(c) ==             \* a fault: a stale stack is not cleared
    /\ BeginRoute(c, "newroute", "route-add")
    /\ LET r == Resolution(Next1(c).rt, nh) IN
         /\ r.labels = <<>>
         /\ held' = [held EXCEPT ![c] = <<[leaf |-> Leaf(c), hop |-> r.hop]>>]
    /\ UNCHANGED <<hop, lbl>>
AddPlain(c) ==
    /\ BeginRoute(c, "newroute", "route-add")
    /\ LET r == Resolution(Next1(c).rt, nh) IN
         /\ r.labels = <<>>
         /\ held' = [held EXCEPT ![c] = <<[leaf |-> Leaf(c), hop |-> r.hop]>>]
    /\ lbl' = Without(lbl, {Leaf(c)})
    /\ UNCHANGED hop

(* ... and a second one writes the next hop.                               *)
FinishPlain(c) ==
    /\ held[c] # <<>>
    /\ hop' = With(hop, Head(held[c]).leaf, Head(held[c]).hop)
    /\ held' = [held EXCEPT ![c] = <<>>]
    /\ UNCHANGED <<zebraVars, inq, nh, vmap, lbl, event>>

Handler(c) ==
    HandleNexthop(c) \/ DelRoute(c) \/ AddLabelled(c) \/ AddPlain(c) \/ FinishPlain(c)

Zebra == ZebraNexthop \/ ZebraDelNexthop \/ ZebraRoute \/ ZebraDelRoute
         \/ Disconnect \/ Connect \/ VRFAppears \/ VRFRenamed

Next == Zebra \/ \E c \in Conns : Handler(c)

Spec == Init /\ [][Next]_vars
-----------------------------------------------------------------------------
(* Type invariant of the ingester's state.                                 *)
TypeOK ==
    /\ live \in Conns
    /\ DOMAIN nh \subseteq NHIds \ {0} /\ \A i \in DOMAIN nh : nh[i] \in NHObjs
    /\ DOMAIN vmap \subseteq Tables \ {Main, Local}
    /\ \A t \in DOMAIN vmap : vmap[t] \in Names
    /\ \A k \in DOMAIN hop \cup DOMAIN lbl : k[2] \in Prefixes
    /\ \A k \in DOMAIN lbl : lbl[k] # <<>>
    /\ \A c \in Conns : Len(held[c]) <= 1

(* No message of any connection is left to apply.                          *)
Quiet == \A c \in Conns : Idle(c)

Instance(t) == NameIn(vmap, t)
LeafOf(k) == <<Instance(k[1]), k[2]>>

(* When all messages are applied the AFT is zebra's FIB: a prefix of a     *)
(* table has an entry in the network instance of its VRF if zebra has the  *)
(* route, with the next hop and the labels that its nexthop objects lead   *)
(* to now, and none otherwise.  The network instance is the one that the   *)
(* resolver knows, which is the VRF device's name of now unless the device *)
(* has changed since it was read.  It need not be so when connections      *)
(* overlapped, for routes in doubt, and for leaves that a change of names  *)
(* left behind (handleRoute and resolveNH, fpm.go:151-327, and vrf.go:43). *)
QuietIsFIB ==
    Quiet /\ ~mixed => \A k \in {j \in (Tables \X Prefixes) \ doubt : LeafOf(j) \notin orphans} :
        /\ k \notin DOMAIN fib => LeafOf(k) \notin DOMAIN hop \cup DOMAIN lbl
        /\ k \in DOMAIN fib =>
             LET now == Resolution(fib[k], nhg) IN
             /\ LeafOf(k) \in DOMAIN hop /\ hop[LeafOf(k)] = now.hop
             /\ IF now.labels = <<>> THEN LeafOf(k) \notin DOMAIN lbl
                ELSE LeafOf(k) \in DOMAIN lbl /\ lbl[LeafOf(k)] = now.labels
             /\ k[1] \notin late => Instance(k[1]) = NameIn(vrfdev, k[1])

(* A label stack is never shown for a route without a next hop: the two    *)
(* Updates of handleRoute clear labels before and never write them alone   *)
(* (fpm.go:313-326).                                                       *)
NoLabelWithoutHop == DOMAIN lbl \subseteq DOMAIN hop

(* What fpm.go:4-5 says: nexthop objects are tracked so that routes        *)
(* referencing a nexthop id resolve to a real next hop, that is, to the    *)
(* one the id stands for.                                                  *)
RoutesResolve ==
    Quiet => \A k \in DOMAIN fib : LeafOf(k) \in DOMAIN hop =>
                hop[LeafOf(k)] = Resolution(fib[k], nhg).hop
=============================================================================
