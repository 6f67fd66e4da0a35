--------------------------- MODULE Exporters_proofs ---------------------------
(***************************************************************************)
(* Proofs about the two exporters that ask the nodes' shims over gNMI:     *)
(* PathTrace, for every inventory, set of tables and flow, and             *)
(* TopologyExporter, for every inventory, whatever the nodes' caches hold, *)
(* in whatever order they are asked and whichever Gets fail.               *)
(*                                                                         *)
(* The two are programs of their own.  T! names what is TopologyExporter's; *)
(* variables that both modules have (net, pc, faults, left and node) are    *)
(* one and the same here, but each lemma is about one of the programs and  *)
(* takes nothing from the other.                                           *)
(***************************************************************************)
EXTENDS PathTrace, SequenceTheorems, FiniteSetTheorems, WellFoundedInduction, TLAPS

CONSTANTS Networks, Default, Fixed, PlainVlans, Nobody
VARIABLES ip2node, layer, todo, edges, claims
T == INSTANCE TopologyExporter

(* What TypeOK does not say of the walk: it asks only where it has not     *)
(* arrived and hops are left.                                              *)
Asking == pc = "answer" => hops < MaxHops /\ ~Arrived

(* A Get that has not begun has read a table without entries.              *)
LEMMA EmptyTable == IsTable(NoTable)
BY DEF IsTable, NoTable

(* An entry that two tables of one node give has the type of an entry.     *)
Entries == [out : Stack, nh : Addrs \cup {NoHop}, iface : Vrfs \cup {NoHop}]
LEMMA EntryType ==
  ASSUME NEW t, NEW u, IsTable(t), IsTable(u), NEW label
  PROVE  /\ Entry(t, label) \in Entries
         /\ MplsLookup(t, u, label) \in Entries
<1>1. NoEntry \in Entries
  BY DEF NoEntry, Entries, Stack
<1>2. Entry(t, label) \in Entries /\ Entry(u, label) \in Entries
  BY <1>1 DEF Entry, IsTable, Entries
<1> QED BY <1>2 DEF MplsLookup, Entries

(* A route that two tables of one node give has labels.                    *)
LEMMA RouteType ==
  ASSUME NEW t, NEW u, IsTable(u), NEW r \in RouteLookup(t, u)
  PROVE  r.labels \in Stack
<1> DEFINE len == Longest(Matching(t, u))
           sts == {u.aft[<<v, len>>].labels : v \in LabelVrfs(u, len)}
<1>1. r.labels \in IF sts = {} THEN {<<>>} ELSE sts
  BY DEF RouteLookup
<1>2. \A v \in LabelVrfs(u, len) : u.aft[<<v, len>>].labels \in Stack
  BY DEF LabelVrfs, IsTable
<1>3. <<>> \in Stack
  BY DEF Stack
<1> QED BY <1>1, <1>2, <1>3

(* The label stack: it starts empty, a swap or a pop keeps its type.       *)
LEMMA EmptyStack == <<>> \in Stack
BY EmptySeq DEF Stack

(* The top label, the rest, and labels pushed onto it are labels.          *)
LEMMA StackOps ==
  ASSUME NEW s \in Stack, NEW u \in Stack, s # <<>>
  PROVE  Head(s) \in Labels /\ Tail(s) \in Stack /\ u \o Tail(s) \in Stack
BY DEF Stack

-----------------------------------------------------------------------------
(* Every step of the refresh, of a scraper and of a router keeps the type. *)
LEMMA TypeStep == TypeOK /\ Asking /\ [Next]_vars => TypeOK' /\ Asking'
<1> SUFFICES ASSUME TypeOK, Asking, [Next]_vars PROVE TypeOK' /\ Asking'
  OBVIOUS
<1> USE PathTraceAssumption, EmptyStack DEF TypeOK, Asking, Arrived
<1>1. CASE Refresh
  BY <1>1 DEF Refresh, walk
<1>2. ASSUME NEW n \in Nodes, GetAddrs(n) PROVE TypeOK' /\ Asking'
  <2>1. left' \subseteq Nodes /\ known' \subseteq Nodes
    BY <1>2 DEF GetAddrs
  <2>2. faults' \in 0..MaxFaults /\ missed' \in BOOLEAN
    <3>1. CASE UNCHANGED <<faults, missed>>
      BY <3>1
    <3>2. CASE faults < MaxFaults /\ faults' = faults + 1 /\ missed' = TRUE
      BY <3>2
    <3> QED BY <1>2, <3>1, <3>2 DEF GetAddrs
  <2> QED BY <1>2, <2>1, <2>2 DEF GetAddrs, walk
<1>3. CASE BeginWalk
  <2>1. stack' \in Stack /\ torn' \in BOOLEAN /\ missed' \in BOOLEAN
    BY <1>3 DEF BeginWalk
  <2> QED BY <1>3, <2>1 DEF BeginWalk
<1>4. CASE Arrive
  BY <1>4 DEF Arrive, EndWalk
<1>5. CASE Cut
  BY <1>5 DEF Cut, EndWalk
<1>6. CASE Ask
  BY <1>6 DEF Ask, CapReached, walk
<1>7. CASE AskFails
  BY <1>7 DEF AskFails, EndWalk, CapReached
<1>8. CASE TakeHop
  <2>1. IsTable(net[node]) /\ IsTable(answer) /\ IsTable(answer')
    BY <1>8, EmptyTable DEF TakeHop
  <2>2. /\ pc = "answer" /\ hops < MaxHops /\ verdict = "none"
        /\ UNCHANGED <<net, changes, faults, left, known, scrape, read, torn, missed>>
    BY <1>8 DEF TakeHop
  <2>3. ASSUME NEW nh, GoTo(nh), stack' \in Stack PROVE TypeOK' /\ Asking'
    BY <2>1, <2>2, <2>3 DEF GoTo, Counted, EndWalk, Addrs
  <2>4. ASSUME NothingThere PROVE TypeOK' /\ Asking'
    BY <2>1, <2>2, <2>4 DEF NothingThere, EndWalk
  <2>5. CASE stack = <<>>
    <3>1. IPHop
      BY <1>8, <2>5 DEF TakeHop
    <3>2. \A r \in RouteLookup(answer, net[node]) : r.labels \in Stack
      BY <2>1, RouteType
    <3> QED BY <3>1, <3>2, <2>3, <2>4 DEF IPHop
  <2>6. CASE stack # <<>>
    <3> DEFINE e == MplsLookup(answer, net[node], Head(stack))
    <3>1. MPLSHop
      BY <1>8, <2>6 DEF TakeHop
    <3>2. e \in Entries
      BY <2>1, EntryType
    <3>3. Tail(stack) \in Stack /\ Swap(e.out, Tail(stack)) \in Stack
      BY <3>2, <2>6, StackOps DEF Entries, Swap
    <3>4. ASSUME stack' = Tail(stack), hops' = Counted, pc' = "hop", UNCHANGED <<node, verdict>>
          PROVE  TypeOK' /\ Asking'
      BY <3>3, <3>4, <2>1, <2>2 DEF Counted
    <3> HIDE DEF e
    <3>5. \/ NothingThere
          \/ stack' = Swap(e.out, Tail(stack)) /\ GoTo(e.nh)
          \/ stack' = Tail(stack) /\ GoTo(e.nh)
          \/ stack' = Tail(stack) /\ hops' = Counted /\ pc' = "hop" /\ UNCHANGED <<node, verdict>>
      BY <3>1 DEF MPLSHop, e
    <3> QED BY <3>3, <3>4, <3>5, <2>3, <2>4
  <2> QED BY <2>5, <2>6
<1>9. CASE Publish
  <2>1. stack' \in Stack /\ torn' \in BOOLEAN /\ missed' \in BOOLEAN
    BY <1>9 DEF Publish
  <2> QED BY <1>9, <2>1 DEF Publish
<1>10. CASE Scrape
  BY <1>10 DEF Scrape, walk
<1>11. ASSUME NEW n \in Nodes, Change(n) PROVE TypeOK' /\ Asking'
  BY <1>11 DEF Change, walk
<1>12. CASE UNCHANGED vars
  BY <1>12 DEF vars, walk
<1> QED BY <1>1, <1>2, <1>3, <1>4, <1>5, <1>6, <1>7, <1>8, <1>9, <1>10, <1>11, <1>12
        DEF Next, Exporter

(* No refresh leaves its type: a walk ends in exactly one verdict, after   *)
(* at most MaxHops hops, and an answer is a table or the leaves of one.    *)
THEOREM TypeCorrect == Spec => [](TypeOK /\ Asking)
<1>1. Init => TypeOK /\ Asking
  <2> SUFFICES ASSUME Init PROVE TypeOK /\ Asking
    OBVIOUS
  <2> USE PathTraceAssumption, EmptyStack, EmptyTable DEF Init
  <2>1. stack \in Stack /\ IsTable(answer) /\ torn \in BOOLEAN /\ missed \in BOOLEAN
    OBVIOUS
  <2>2. DOMAIN net = Nodes /\ \A n \in Nodes : net[n] \in Tables[n]
    OBVIOUS
  <2>3. pc = "sleep" /\ verdict = "none" /\ left = {} /\ known = {} /\ read = {}
    OBVIOUS
  <2>4. node \in Nodes /\ hops \in 0..MaxHops /\ scrape = "idle"
    OBVIOUS
  <2>5. changes \in 0..MaxChanges /\ faults \in 0..MaxFaults
    OBVIOUS
  <2> QED BY <2>1, <2>2, <2>3, <2>4, <2>5 DEF TypeOK, Asking
<1> QED BY <1>1, TypeStep, PTL DEF Spec

-----------------------------------------------------------------------------
(* Induction: a set of numbers that is not empty has a least element.      *)
(* Below, that set is the numbers for which a claim fails.                 *)
LEMMA LeastNumber ==
  ASSUME NEW S \in SUBSET Nat, S # {}
  PROVE  \E n \in S : \A m \in S : n <= m
<1>1. PICK n \in S : \A m \in S : <<m, n>> \notin OpToRel(<, Nat)
  BY WFMin, NatLessThanWellFounded, Zenon
<1>2. \A m \in S : ~(m < n)
  BY <1>1, Zenon DEF OpToRel
<1> QED BY <1>2

(* The recursion behind Packets has a solution, so Packets is one.         *)
LEMMA PacketsAre ==
  /\ Packets[0] = Packet(Start, StartVrf, <<>>)
  /\ \A k \in 0..RefHops - 1 : Packets[k + 1] = Forwarded(Packets[k])
<1> DEFINE P0 == Packet(Start, StartVrf, <<>>)
           Solves(f, n) == f = [k \in 0..n |-> IF k = 0 THEN P0 ELSE Forwarded(f[k - 1])]
           Bad == {n \in Nat : ~ \E f : Solves(f, n)}
<1>1. Bad = {}
  <2> SUFFICES ASSUME Bad # {} PROVE FALSE
    OBVIOUS
  <2> HIDE DEF P0
  <2>1. PICK n \in Bad : \A m \in Bad : n <= m
    <3> HIDE DEF Solves
    <3> QED BY LeastNumber
  <2>2. CASE n = 0
    <3>1. Solves([k \in 0..0 |-> P0], 0)
      OBVIOUS
    <3> QED BY <2>2, <3>1
  <2>3. CASE n # 0
    <3>1. n - 1 \in Nat /\ n - 1 \notin Bad
      <4> HIDE DEF Bad
      <4>1. n \in Nat
        BY DEF Bad
      <4>2. ~(n <= n - 1)
        BY <4>1
      <4> QED BY <4>1, <4>2, <2>1, <2>3
    <3>2. PICK f : Solves(f, n - 1)
      BY <3>1
    <3> DEFINE g == [k \in 0..n |-> IF k = n THEN Forwarded(f[n - 1]) ELSE f[k]]
    <3>3. \A k \in 0..n : g[k] = IF k = 0 THEN P0 ELSE Forwarded(g[k - 1])
      <4> SUFFICES ASSUME NEW k \in 0..n PROVE g[k] = IF k = 0 THEN P0 ELSE Forwarded(g[k - 1])
        OBVIOUS
      <4>1. CASE k = n
        BY <4>1, <2>3, <3>1
      <4>2. CASE k # n
        <5>1. k \in 0..n - 1 /\ (k # 0 => k - 1 \in 0..n /\ k - 1 # n)
          BY <4>2, <3>1
        <5>2. f[k] = IF k = 0 THEN P0 ELSE Forwarded(f[k - 1])
          BY <5>1, <3>2
        <5>3. g[k] = f[k] /\ (k # 0 => g[k - 1] = f[k - 1])
          BY <5>1, <4>2
        <5> QED BY <5>2, <5>3
      <4> QED BY <4>1, <4>2
    <3>4. Solves(g, n)
      BY <3>3
    <3> QED BY <3>4, <2>1
  <2> QED BY <2>2, <2>3
<1>2. \E f : Solves(f, RefHops)
  BY <1>1, PathTraceAssumption
<1>3. Packets = CHOOSE f : Solves(f, RefHops)
  BY DEF Packets
<1>4. Solves(Packets, RefHops)
  BY <1>2, <1>3
<1>5. RefHops \in Nat
  BY PathTraceAssumption
<1>6. \A k \in 0..RefHops : Packets[k] = IF k = 0 THEN P0 ELSE Forwarded(Packets[k - 1])
  BY <1>4, Zenon
<1> QED
  <2>1. Packets[0] = P0
    BY <1>5, <1>6
  <2>2. ASSUME NEW k \in 0..RefHops - 1 PROVE Packets[k + 1] = Forwarded(Packets[k])
    <3>1. k + 1 \in 0..RefHops /\ k + 1 # 0 /\ (k + 1) - 1 = k
      BY <1>5
    <3> QED BY <3>1, <1>6
  <2> QED BY <2>1, <2>2

(* What is at rest stays as it is: a packet that is not under way at some  *)
(* hop is the same at the last.                                            *)
LEMMA RestIsForever ==
  ASSUME NEW m \in 0..RefHops, Packets[m].at # "moving"
  PROVE  Packets[RefHops] = Packets[m]
<1> DEFINE Bad == {j \in m..RefHops : Packets[j] # Packets[m]}
<1>1. RefHops \in Nat /\ m \in Nat /\ m <= RefHops
  BY PathTraceAssumption
<1> SUFFICES ASSUME Bad # {} PROVE FALSE
  BY <1>1
<1>2. PICK j \in Bad : \A i \in Bad : j <= i
  <2>1. Bad \in SUBSET Nat
    BY <1>1
  <2> HIDE DEF Bad
  <2> QED BY <2>1, LeastNumber
<1>3. j \in m..RefHops /\ j # m
  OBVIOUS
<1>4. j - 1 \in m..RefHops /\ j - 1 \in 0..RefHops - 1 /\ (j - 1) + 1 = j /\ ~(j <= j - 1)
  BY <1>1, <1>3
<1>5. Packets[j - 1] = Packets[m]
  BY <1>2, <1>4
<1>6. Packets[j] = Forwarded(Packets[j - 1])
  BY <1>4, PacketsAre
<1>7. Packets[j] = Packets[m]
  BY <1>5, <1>6 DEF Forwarded
<1> QED BY <1>7

-----------------------------------------------------------------------------
(* The first m hops were at nodes the walk has read; one of them was where *)
(* VRFs overlap; the walk is where the packet is after as many hops.       *)
Read(m) == \A k \in 0..m - 1 : Packets[k].node \in read
Doubtful == \E k \in 0..RefHops : Read(k + 1) /\ OtherVrf(Packets[k])
OnWay == Read(hops) /\ \E v : Packets[hops] = Packet(node, v, stack)

Ended ==
    /\ verdict = "dest" => OnWay /\ hops < MaxHops /\ Arrived
    /\ verdict = "cut" => OnWay /\ hops = MaxHops
    /\ verdict = "drop" /\ ~missed =>
          \E m \in 0..MaxHops : Read(m) /\ Packets[m].at \in {"dropped", "onlink"}

Walking == pc \in {"hop", "answer", "end"}
WalkInv ==
    /\ pc = "addresses" /\ ~missed => known \cup left = Nodes
    /\ Walking /\ ~missed => known = Nodes
    /\ Walking /\ node = Dst[1] => Dst[1] \in known
    /\ pc = "answer" /\ ~torn => answer = net[node] /\ node \in read
    /\ pc \in {"hop", "answer"} /\ ~torn => Doubtful \/ OnWay
    /\ pc = "end" /\ ~torn => Doubtful \/ Ended

(* The packet's way up to the first node that has not been read depends on *)
(* nothing that has not been read.                                         *)
LEMMA UnreadChanges ==
  ASSUME \A i \in read : net'[i] = net[i], NEW m \in 0..RefHops, Read(m)
  PROVE  \A k \in 0..m : Packets'[k] = Packets[k]
<1> DEFINE Bad == {j \in 0..m : Packets'[j] # Packets[j]}
<1>1. RefHops \in Nat /\ m \in Nat /\ m <= RefHops
  BY PathTraceAssumption
<1>0. (/\ Packets[0] = Packet(Start, StartVrf, <<>>)
       /\ \A k \in 0..RefHops - 1 : Packets[k + 1] = Forwarded(Packets[k]))'
  BY PacketsAre, PTL
<1> SUFFICES ASSUME Bad # {} PROVE FALSE
  OBVIOUS
<1>2. PICK j \in Bad : \A i \in Bad : j <= i
  <2>1. Bad \in SUBSET Nat
    BY <1>1
  <2> HIDE DEF Bad
  <2> QED BY <2>1, LeastNumber
<1>3. j \in 0..m /\ j # 0
  BY <1>0, PacketsAre
<1>4. j - 1 \in 0..m /\ j - 1 \in 0..m - 1 /\ j - 1 \in 0..RefHops - 1 /\ (j - 1) + 1 = j /\ ~(j <= j - 1)
  BY <1>1, <1>3
<1>5. Packets'[j - 1] = Packets[j - 1]
  BY <1>2, <1>4
<1>6. Packets[j - 1].node \in read
  BY <1>4 DEF Read
<1> DEFINE p == Packets[j - 1]
<1>7. net'[p.node] = net[p.node]
  BY <1>6
<1>8. \A q : net'[q.node] = net[q.node] => Forwarded(q)' = Forwarded(q)
  BY DEF Forwarded, Routed, Switched, LensIn, Gone, Entry, Packet
<1>9. Packets'[j] = Packets[j]
  BY <1>0, <1>4, <1>5, <1>7, <1>8, PacketsAre
<1> QED BY <1>9, <1>2

(* So neither what has been read of the way nor the doubts about it go     *)
(* away while the nodes that were read stay as they are.                   *)
LEMMA WayKept ==
  ASSUME \A i \in read : net'[i] = net[i], read \subseteq read'
  PROVE  /\ \A m \in 0..RefHops :
               Read(m) => Read(m)' /\ \A k \in 0..m : Packets'[k] = Packets[k]
         /\ Doubtful => Doubtful'
<1>0. RefHops \in Nat
  BY PathTraceAssumption
<1>1. ASSUME NEW m \in 0..RefHops, Read(m) PROVE Read(m)' /\ \A k \in 0..m : Packets'[k] = Packets[k]
  <2>1. \A k \in 0..m : Packets'[k] = Packets[k]
    BY <1>1, UnreadChanges
  <2>2. \A k \in 0..m - 1 : k \in 0..m
    BY <1>0
  <2> QED BY <2>1, <2>2, <1>1 DEF Read
<1>2. ASSUME NEW k \in 0..RefHops, Read(k + 1), OtherVrf(Packets[k])
      PROVE  Read(k + 1)' /\ OtherVrf(Packets[k])'
  <2>1. Read(k) /\ Packets[k].node \in read
    BY <1>0, <1>2 DEF Read
  <2>2. \A j \in 0..k : Packets'[j] = Packets[j]
    BY <1>1, <2>1
  <2>3. Packets'[k] = Packets[k] /\ \A j \in 0..(k + 1) - 1 : Packets'[j] = Packets[j]
    BY <1>0, <2>2
  <2>4. Read(k + 1)'
    BY <1>2, <2>3 DEF Read
  <2>5. \A q : net'[q.node] = net[q.node] /\ OtherVrf(q) => OtherVrf(q)'
    BY DEF OtherVrf, LensIn
  <2>6. net'[Packets[k].node] = net[Packets[k].node]
    BY <2>1
  <2>7. (OtherVrf(Packets[k]))'
    BY <1>2, <2>3, <2>5, <2>6
  <2> QED BY <2>4, <2>7
<1> QED BY <1>1, <1>2 DEF Doubtful

-----------------------------------------------------------------------------
(* Of some prefix lengths one is the longest (main.go:333-364).            *)
LEMMA LongestIs == ASSUME NEW L \in SUBSET (0..32), L # {} PROVE Longest(L) \in L
<1> DEFINE D == {n \in 0..32 : 32 - n \in L}
<1>1. D \in SUBSET Nat /\ D # {}
  <2>1. PICK l \in L : TRUE
    OBVIOUS
  <2>2. l \in 0..32 /\ 32 - l \in 0..32 /\ 32 - (32 - l) = l
    OBVIOUS
  <2>3. 32 - l \in D
    BY <2>2
  <2>4. D \in SUBSET Nat
    OBVIOUS
  <2> HIDE DEF D
  <2> QED BY <2>3, <2>4
<1>2. PICK n \in D : \A m \in D : n <= m
  <2> HIDE DEF D
  <2> QED BY <1>1, LeastNumber
<1>3. \A k \in L : 32 - n >= k
  <2> SUFFICES ASSUME NEW k \in L PROVE 32 - n >= k
    OBVIOUS
  <2>1. k \in 0..32 /\ 32 - k \in 0..32 /\ 32 - (32 - k) = k /\ n \in Nat
    OBVIOUS
  <2>2. 32 - k \in D
    BY <2>1
  <2>3. n <= 32 - k
    BY <2>2, <1>2
  <2> QED BY <2>1, <2>3
<1> QED BY <1>2, <1>3 DEF Longest

(* Where no VRFs overlap, the walk finds the route the packet takes.       *)
LEMMA RouteIsTaken ==
  ASSUME TypeOK, NEW v, node \in Nodes, ~OtherVrf(Packet(node, v, <<>>)), <<node, v>> # Dst
  PROVE  /\ Matching(net[node], net[node]) = {} =>
               Routed(Packet(node, v, <<>>)) = Gone(Packet(node, v, <<>>), "dropped")
         /\ Matching(net[node], net[node]) # {} =>
               \A r \in RouteLookup(net[node], net[node]) :
                  IF r.nh \in Addrs
                  THEN Routed(Packet(node, v, <<>>)) = Packet(r.nh[1], r.nh[2], r.labels)
                  ELSE \E how \in {"dropped", "onlink"} :
                          Routed(Packet(node, v, <<>>)) = Gone(Packet(node, v, <<>>), how)
<1> DEFINE t == net[node]
           p == Packet(node, v, <<>>)
           len == Longest(LensIn(node, v))
           r0 == t.aft[<<v, len>>]
<1>1. p.node = node /\ p.vrf = v /\ p.labels = <<>>
  BY DEF Packet
<1>2. IsTable(t)
  BY PathTraceAssumption DEF TypeOK
<1>3. \A w \in Vrfs \ {v} : LensIn(node, w) = {}
  BY <1>1 DEF OtherVrf
<1>4. \A l \in Lens : /\ HopVrfs(t, l) = {w \in {v} : <<w, l>> \in DOMAIN t.aft /\ t.aft[<<w, l>>].nh # NoHop}
                      /\ LabelVrfs(t, l) = {w \in {v} : <<w, l>> \in DOMAIN t.aft /\ t.aft[<<w, l>>].labels # <<>>}
  BY <1>2, <1>3 DEF HopVrfs, LabelVrfs, LensIn, IsTable
<1>5. Matching(t, t) = LensIn(node, v)
  <2>1. \A l \in Lens : <<v, l>> \in DOMAIN t.aft =>
           t.aft[<<v, l>>].nh # NoHop \/ t.aft[<<v, l>>].labels # <<>>
    BY <1>2, Zenon DEF IsTable
  <2>2. \A l \in Lens : HopVrfs(t, l) \cup LabelVrfs(t, l) # {} <=> <<v, l>> \in DOMAIN t.aft
    <3> HIDE DEF t
    <3> QED BY <1>4, <2>1
  <2> QED BY <2>2 DEF Matching, LensIn
<1>6. CASE LensIn(node, v) = {}
  BY <1>1, <1>5, <1>6 DEF Routed
<1>7. CASE LensIn(node, v) # {}
  <2>1. len \in LensIn(node, v) /\ len \in Lens
    <3>1. LensIn(node, v) \in SUBSET (0..32)
      BY PathTraceAssumption DEF LensIn
    <3> QED BY <3>1, <1>7, LongestIs DEF LensIn
  <2>2. <<v, len>> \in DOMAIN t.aft /\ r0 \in [nh : Hop, labels : Stack]
    BY <1>2, <2>1 DEF LensIn, IsTable
  <2>3. Routed(p) = IF r0.nh \in Addrs THEN Packet(r0.nh[1], r0.nh[2], r0.labels)
                    ELSE Gone(p, IF r0.nh = Direct THEN "onlink" ELSE "dropped")
    BY <1>1, <1>7 DEF Routed
  <2> DEFINE nhs == {t.aft[<<w, len>>].nh : w \in HopVrfs(t, len)}
             sts == {t.aft[<<w, len>>].labels : w \in LabelVrfs(t, len)}
             A == IF nhs = {} THEN {NoHop} ELSE nhs
             B == IF sts = {} THEN {<<>>} ELSE sts
  <2>4. A = {r0.nh}
    <3>1. CASE r0.nh = NoHop
      <4>1. HopVrfs(t, len) = {}
        BY <1>4, <2>1, <3>1
      <4> QED BY <3>1, <4>1
    <3>2. CASE r0.nh # NoHop
      <4>1. HopVrfs(t, len) = {w \in {v} : <<w, len>> \in DOMAIN t.aft /\ t.aft[<<w, len>>].nh # NoHop}
        BY <1>4, <2>1, Zenon
      <4> HIDE DEF t, len
      <4>2. HopVrfs(t, len) = {v}
        BY <2>2, <3>2, <4>1 DEF r0
      <4> QED BY <4>2 DEF r0
    <3> QED BY <3>1, <3>2
  <2>5. B = {r0.labels}
    <3>1. CASE r0.labels = <<>>
      <4>1. LabelVrfs(t, len) = {}
        BY <1>4, <2>1, <3>1
      <4> QED BY <3>1, <4>1
    <3>2. CASE r0.labels # <<>>
      <4>1. LabelVrfs(t, len) = {w \in {v} : <<w, len>> \in DOMAIN t.aft /\ t.aft[<<w, len>>].labels # <<>>}
        BY <1>4, <2>1, Zenon
      <4> HIDE DEF t, len
      <4>2. LabelVrfs(t, len) = {v}
        BY <2>2, <3>2, <4>1 DEF r0
      <4> QED BY <4>2 DEF r0
    <3> QED BY <3>1, <3>2
  <2>6. ASSUME NEW r \in RouteLookup(t, t) PROVE r.nh \in A /\ r.labels \in B
    <3> DEFINE l2 == Longest(Matching(t, t))
               nhs2 == {t.aft[<<w, l2>>].nh : w \in HopVrfs(t, l2)}
               sts2 == {t.aft[<<w, l2>>].labels : w \in LabelVrfs(t, l2)}
    <3>1. r.nh \in IF nhs2 = {} THEN {NoHop} ELSE nhs2
      BY DEF RouteLookup
    <3>2. r.labels \in IF sts2 = {} THEN {<<>>} ELSE sts2
      BY DEF RouteLookup
    <3>3. l2 = len
      BY <1>5
    <3> HIDE DEF l2, len
    <3>4. nhs2 = nhs /\ sts2 = sts
      BY <3>3
    <3> HIDE DEF nhs2, sts2, nhs, sts
    <3> QED BY <3>1, <3>2, <3>4
  <2>7. \A r \in RouteLookup(t, t) : r.nh = r0.nh /\ r.labels = r0.labels
    <3> HIDE DEF A, B
    <3> QED BY <2>4, <2>5, <2>6
  <2> QED BY <1>5, <1>7, <2>3, <2>7
<1> QED BY <1>6, <1>7

(* The label operation the walk finds is the one the packet undergoes.     *)
LEMMA LabelIsTaken ==
  ASSUME TypeOK, stack # <<>>, NEW v
  PROVE  LET p == Packet(node, v, stack)
             e == MplsLookup(net[node], net[node], Head(stack))
             s == e.out \o Tail(stack)
         IN /\ e \in Entries
            /\ Switched(p) = IF e.nh \in Addrs THEN Packet(e.nh[1], e.nh[2], s)
                             ELSE IF e.out = <<>> /\ e.iface # NoHop THEN Packet(node, e.iface, s)
                             ELSE Gone(p, "dropped")
<1> DEFINE t == net[node]
           e0 == Entry(t, Head(stack))
           p == Packet(node, v, stack)
<1>1. IsTable(t)
  BY PathTraceAssumption DEF TypeOK
<1>2. e0 \in Entries
  BY <1>1, EntryType
<1>3. MplsLookup(t, t, Head(stack)) = e0
  <2>1. MplsLookup(t, t, Head(stack)) = [e0 EXCEPT !.out = e0.out]
    BY DEF MplsLookup
  <2> HIDE DEF e0
  <2> QED BY <1>2, <2>1 DEF Entries
<1>4. p.node = node /\ p.labels = stack
  BY DEF Packet
<1> QED BY <1>2, <1>3, <1>4 DEF Switched

(* One hop of the walk, from what its node has: the packet takes it too,   *)
(* unless the walk loses it at a node whose addresses it has not got.      *)
LEMMA HopIsForwarded ==
  ASSUME TypeOK, TakeHop, answer = net[node], NEW v,
         ~OtherVrf(Packet(node, v, stack)), stack = <<>> => <<node, v>> # Dst
  PROVE  \/ /\ pc' = "end" /\ verdict' = "drop"
            /\ \E how \in {"dropped", "onlink"} :
                  Forwarded(Packet(node, v, stack)) = Gone(Packet(node, v, stack), how)
         \/ /\ pc' = "end" /\ verdict' = "drop" /\ known # Nodes
         \/ /\ pc' = "hop" /\ hops' = hops + 1
            /\ \E w : Forwarded(Packet(node, v, stack)) = Packet(node', w, stack')
<1> DEFINE p == Packet(node, v, stack)
<1>1. p.at = "moving" /\ p.labels = stack
  BY DEF Packet
<1>2. ASSUME NEW nh, GoTo(nh),
             IF nh \in Addrs THEN Forwarded(p) = Packet(nh[1], nh[2], stack')
             ELSE \E how \in {"dropped", "onlink"} : Forwarded(p) = Gone(p, how)
      PROVE  \/ /\ pc' = "end" /\ verdict' = "drop"
                /\ \E how \in {"dropped", "onlink"} : Forwarded(p) = Gone(p, how)
             \/ /\ pc' = "end" /\ verdict' = "drop" /\ known # Nodes
             \/ /\ pc' = "hop" /\ hops' = hops + 1
                /\ \E w : Forwarded(p) = Packet(node', w, stack')
  <2>1. CASE nh \in Addrs /\ nh[1] \in known
    BY <1>2, <2>1 DEF GoTo, Counted
  <2>2. CASE nh \in Addrs /\ nh[1] \notin known
    <3>1. nh[1] \in Nodes
      BY <2>2 DEF Addrs
    <3> QED BY <1>2, <2>2, <3>1 DEF GoTo, EndWalk
  <2>3. CASE nh \notin Addrs
    BY <1>2, <2>3 DEF GoTo, EndWalk
  <2> QED BY <2>1, <2>2, <2>3
<1>3. CASE stack = <<>>
  <2>1. IPHop
    BY <1>3 DEF TakeHop
  <2>2. Forwarded(p) = Routed(p) /\ p = Packet(node, v, <<>>)
    BY <1>1, <1>3 DEF Forwarded
  <2>3. node \in Nodes /\ <<node, v>> # Dst /\ ~OtherVrf(Packet(node, v, <<>>))
    BY <1>3 DEF TypeOK
  <2>4. CASE Matching(answer, net[node]) = {} /\ NothingThere
    BY <2>2, <2>3, <2>4, RouteIsTaken DEF NothingThere, EndWalk
  <2>5. CASE \E r \in RouteLookup(answer, net[node]) : stack' = r.labels /\ GoTo(r.nh)
             /\ Matching(answer, net[node]) # {}
    <3>1. PICK r \in RouteLookup(net[node], net[node]) : stack' = r.labels /\ GoTo(r.nh)
      BY <2>5
    <3>2. IF r.nh \in Addrs THEN Routed(p) = Packet(r.nh[1], r.nh[2], r.labels)
          ELSE \E how \in {"dropped", "onlink"} : Routed(p) = Gone(p, how)
      BY <2>2, <2>3, <2>5, RouteIsTaken
    <3> QED BY <1>2, <2>2, <3>1, <3>2
  <2> QED BY <2>1, <2>4, <2>5 DEF IPHop
<1>4. CASE stack # <<>>
  <2> DEFINE e == MplsLookup(net[node], net[node], Head(stack))
             s == e.out \o Tail(stack)
  <2>1. MPLSHop
    BY <1>4 DEF TakeHop
  <2>2. Forwarded(p) = Switched(p)
    BY <1>1, <1>4 DEF Forwarded
  <2>3. /\ e \in Entries
        /\ Forwarded(p) = IF e.nh \in Addrs THEN Packet(e.nh[1], e.nh[2], s)
                          ELSE IF e.out = <<>> /\ e.iface # NoHop THEN Packet(node, e.iface, s)
                          ELSE Gone(p, "dropped")
    BY <1>4, <2>2, LabelIsTaken
  <2>4. e.out = <<>> => s = Tail(stack)
    <3>1. Tail(stack) \in Stack
      BY <1>4, StackOps DEF TypeOK
    <3> QED BY <3>1 DEF Stack
  <2>5. CASE e = NoEntry /\ NothingThere
    <3>1. e.nh \notin Addrs /\ e.iface = NoHop
      BY <2>5, PathTraceAssumption DEF NoEntry
    <3> HIDE DEF e, s
    <3> QED BY <2>3, <2>5, <3>1 DEF NothingThere, EndWalk
  <2>6. CASE e.out # <<>> /\ stack' = Swap(e.out, Tail(stack)) /\ GoTo(e.nh)
    <3>1. stack' = s
      BY <2>6 DEF Swap
    <3> HIDE DEF e, s
    <3>2. IF e.nh \in Addrs THEN Forwarded(p) = Packet(e.nh[1], e.nh[2], stack')
          ELSE Forwarded(p) = Gone(p, "dropped")
      BY <2>3, <2>6, <3>1
    <3> QED BY <1>2, <2>6, <3>2
  <2>7. CASE e.out = <<>> /\ e.nh # NoHop /\ stack' = Tail(stack) /\ GoTo(e.nh)
    <3> HIDE DEF e, s
    <3>1. e.nh \in Addrs
      BY <2>3, <2>7 DEF Entries
    <3> QED BY <1>2, <2>3, <2>4, <2>7, <3>1
  <2>8. CASE /\ e.out = <<>> /\ e.nh = NoHop /\ e.iface # NoHop
             /\ stack' = Tail(stack) /\ hops' = Counted /\ pc' = "hop" /\ UNCHANGED <<node, verdict>>
    <3> HIDE DEF e, s
    <3>1. e.nh \notin Addrs
      BY <2>8, PathTraceAssumption
    <3> QED BY <2>3, <2>4, <2>8, <3>1 DEF Counted
  <2> QED BY <2>1, <2>5, <2>6, <2>7, <2>8 DEF MPLSHop
<1> QED BY <1>3, <1>4

-----------------------------------------------------------------------------
(* What can change without the walk's having read it leaves its place and  *)
(* its verdict true.                                                       *)
LEMMA WayAndEndKept ==
  ASSUME MaxHops <= RefHops, hops \in 0..MaxHops, \A i \in read : net'[i] = net[i],
         UNCHANGED <<known, node, stack, hops, verdict, read, missed>>
  PROVE  (Doubtful => Doubtful') /\ (OnWay => OnWay') /\ (Ended => Ended')
<1>0. RefHops \in Nat /\ MaxHops \in Nat /\ hops \in 0..RefHops
  BY PathTraceAssumption
<1>1. \A m \in 0..RefHops : Read(m) => Read(m)' /\ \A k \in 0..m : Packets'[k] = Packets[k]
  BY WayKept
<1>2. Doubtful => Doubtful'
  BY WayKept
<1>3. OnWay => OnWay'
  BY <1>0, <1>1 DEF OnWay
<1>4. ASSUME NEW m \in 0..MaxHops, Read(m), Packets[m].at \in {"dropped", "onlink"}
      PROVE  Read(m)' /\ Packets'[m].at \in {"dropped", "onlink"}
  <2>1. m \in 0..RefHops /\ m \in 0..m
    BY <1>0
  <2> QED BY <1>1, <1>4, <2>1
<1>5. Arrived => Arrived'
  BY DEF Arrived
<1> QED BY <1>2, <1>3, <1>4, <1>5 DEF Ended

(* Every step keeps the walk where the packet is.                          *)
LEMMA WalkStep ==
  ASSUME MaxHops <= RefHops, Start # Dst[1], TypeOK, Asking, WalkInv, [Next]_vars
  PROVE  WalkInv'
<1> USE DEF Walking
<1>0. /\ RefHops \in Nat /\ MaxHops \in Nat /\ MaxHops <= RefHops
      /\ hops \in 0..MaxHops /\ hops \in 0..RefHops
  BY PathTraceAssumption DEF TypeOK
<1>1. CASE Refresh
  BY <1>1 DEF Refresh, walk, WalkInv, TypeOK
<1>2. ASSUME NEW n \in Nodes, GetAddrs(n) PROVE WalkInv'
  <2>1. known \cup left = Nodes /\ ~missed' => known' \cup left' = Nodes
    BY <1>2 DEF GetAddrs, TypeOK
  <2>2. ~missed' => ~missed
    BY <1>2 DEF GetAddrs
  <2> QED BY <1>2, <2>1, <2>2 DEF GetAddrs, walk, WalkInv
<1>3. CASE BeginWalk
  <2>1. /\ pc' = "hop" /\ node' = Start /\ stack' = <<>> /\ hops' = 0 /\ read' = {} /\ known' = known
        /\ missed' = missed /\ pc = "addresses" /\ left = {}
    BY <1>3 DEF BeginWalk
  <2>2. Packets'[0] = Packet(Start, StartVrf, <<>>)
    <3>1. (Packets[0] = Packet(Start, StartVrf, <<>>))'
      BY PacketsAre, PTL
    <3> QED BY <3>1
  <2>3. OnWay'
    BY <2>1, <2>2 DEF OnWay, Read
  <2>4. ~missed' => known' = Nodes
    BY <2>1 DEF WalkInv
  <2> QED BY <2>1, <2>3, <2>4 DEF WalkInv
<1>4. CASE Arrive
  <2>1. /\ pc = "hop" /\ pc' = "end" /\ verdict' = "dest" /\ Arrived /\ hops < MaxHops
        /\ UNCHANGED <<net, known, node, stack, hops, read, torn, missed>>
    BY <1>0, <1>4 DEF Arrive, EndWalk, CapReached
  <2>2. (Doubtful => Doubtful') /\ (OnWay => OnWay')
    BY <2>1, <1>0, WayKept DEF OnWay
  <2>3. Arrived'
    BY <2>1 DEF Arrived
  <2> QED BY <2>1, <2>2, <2>3 DEF WalkInv, Ended
<1>5. CASE Cut
  <2>1. /\ pc = "hop" /\ pc' = "end" /\ verdict' = "cut" /\ hops = MaxHops
        /\ UNCHANGED <<net, known, node, stack, hops, read, torn, missed>>
    BY <1>0, <1>5 DEF Cut, EndWalk, CapReached
  <2>2. (Doubtful => Doubtful') /\ (OnWay => OnWay')
    BY <2>1, <1>0, WayKept DEF OnWay
  <2> QED BY <2>1, <2>2 DEF WalkInv, Ended
<1>6. CASE Ask
  <2>1. /\ pc = "hop" /\ pc' = "answer" /\ answer' = net[node] /\ read' = read \cup {node}
        /\ UNCHANGED <<net, known, node, stack, hops, verdict, torn, missed>>
    BY <1>6 DEF Ask, walk
  <2>2. (Doubtful => Doubtful') /\ (OnWay => OnWay')
    BY <2>1, <1>0, WayKept DEF OnWay
  <2> QED BY <2>1, <2>2 DEF WalkInv
<1>7. CASE AskFails
  <2>1. /\ pc = "hop" /\ pc' = "end" /\ verdict' = "drop" /\ missed' = TRUE
        /\ UNCHANGED <<net, known, node, stack, hops, read, torn>>
    BY <1>7 DEF AskFails, EndWalk
  <2> QED BY <2>1 DEF WalkInv, Ended
<1>8. CASE TakeHop
  <2>1. /\ pc = "answer" /\ hops < MaxHops /\ ~Arrived /\ node \in Nodes
        /\ UNCHANGED <<net, known, read, torn, missed>>
    BY <1>8 DEF TakeHop, TypeOK, Asking
  <2>2. ~missed' => known' = Nodes
    BY <2>1 DEF WalkInv
  <2>3. pc' \in {"hop", "end"} /\ (node' = Dst[1] => Dst[1] \in known')
    BY <1>8, <2>1 DEF WalkInv, TakeHop, IPHop, MPLSHop, GoTo, NothingThere, EndWalk
  <2>4. Doubtful => Doubtful'
    BY <2>1, WayKept
  <2>5. ASSUME ~torn, ~Doubtful
        PROVE  (pc' = "hop" => OnWay') /\ (pc' = "end" => Ended')
    <3>1. answer = net[node] /\ node \in read /\ OnWay
      BY <2>1, <2>5 DEF WalkInv
    <3>2. PICK v : Packets[hops] = Packet(node, v, stack)
      BY <3>1 DEF OnWay
    <3>3. Packets[hops].node = node /\ Packets[hops].vrf = v /\ Packets[hops].labels = stack
      BY <3>2 DEF Packet
    <3>4. Read(hops + 1)
      <4>1. \A k \in 0..(hops + 1) - 1 : k \in 0..hops - 1 \/ k = hops
        BY <1>0
      <4> QED BY <3>1, <3>3, <4>1 DEF OnWay, Read
    <3>5. ~OtherVrf(Packet(node, v, stack))
      BY <1>0, <2>5, <3>2, <3>4 DEF Doubtful
    <3>6. stack = <<>> => <<node, v>> # Dst
      <4>1. node = Dst[1] => Dst[1] \in known
        BY <2>1 DEF WalkInv
      <4> QED BY <2>1, <4>1 DEF Arrived
    <3>7. PICK h \in 0..MaxHops : h = hops
      BY <1>0
    <3>8. h \in 0..RefHops - 1 /\ h + 1 \in 0..RefHops /\ h + 1 \in 0..MaxHops /\ h + 1 \in 0..h + 1
      BY <1>0, <2>1, <3>7
    <3>9. Read(h + 1)' /\ Packets'[h + 1] = Forwarded(Packet(node, v, stack))
      <4>1. Packets[h + 1] = Forwarded(Packet(node, v, stack))
        BY <3>2, <3>7, <3>8, PacketsAre
      <4>2. Read(h + 1)
        BY <3>4, <3>7
      <4>3. Read(h + 1)' /\ \A k \in 0..h + 1 : Packets'[k] = Packets[k]
        BY <2>1, <3>8, <4>2, WayKept
      <4> QED BY <3>8, <4>1, <4>3
    <3>10. CASE pc' = "hop" /\ hops' = hops + 1
                /\ \E w : Forwarded(Packet(node, v, stack)) = Packet(node', w, stack')
      <4>1. hops' = h + 1
        BY <3>7, <3>10
      <4> QED BY <3>9, <3>10, <4>1 DEF OnWay
    <3>11. CASE /\ pc' = "end" /\ verdict' = "drop"
                /\ \E how \in {"dropped", "onlink"} :
                      Forwarded(Packet(node, v, stack)) = Gone(Packet(node, v, stack), how)
      <4>1. Packets'[h + 1].at \in {"dropped", "onlink"}
        BY <3>9, <3>11 DEF Gone, Packet
      <4>2. \E i \in 0..MaxHops : Read(i)' /\ Packets'[i].at \in {"dropped", "onlink"}
        BY <3>8, <3>9, <4>1
      <4> QED BY <3>11, <4>2 DEF Ended
    <3>12. CASE pc' = "end" /\ verdict' = "drop" /\ known # Nodes
      <4>1. missed'
        BY <2>1, <2>2, <3>12
      <4> QED BY <3>12, <4>1 DEF Ended
    <3> QED BY <1>8, <3>1, <3>5, <3>6, <3>10, <3>11, <3>12, HopIsForwarded
  <2> QED BY <2>1, <2>2, <2>3, <2>4, <2>5 DEF WalkInv
<1>9. CASE Publish
  BY <1>9 DEF Publish, WalkInv
<1>10. CASE Scrape
  <2>1. UNCHANGED <<net, pc, left, known, node, stack, hops, verdict, answer, read, torn, missed>>
    BY <1>10 DEF Scrape, walk
  <2>2. (Doubtful => Doubtful') /\ (OnWay => OnWay') /\ (Ended => Ended')
    BY WayAndEndKept, <1>0, <2>1
  <2> QED BY <2>1, <2>2 DEF WalkInv
<1>11. ASSUME NEW n \in Nodes, Change(n) PROVE WalkInv'
  <2>1. UNCHANGED <<pc, left, known, node, stack, hops, verdict, answer, read, missed>>
    BY <1>11 DEF Change, walk
  <2>2. torn' = (torn \/ n \in read)
    BY <1>11 DEF Change
  <2>3. ASSUME ~torn' PROVE ~torn /\ \A i \in read : net'[i] = net[i]
    <3>1. ~torn /\ n \notin read
      BY <2>2, <2>3
    <3> QED BY <1>11, <3>1 DEF Change, TypeOK
  <2>4. ~torn' => (Doubtful => Doubtful') /\ (OnWay => OnWay') /\ (Ended => Ended')
    BY WayAndEndKept, <1>0, <2>1, <2>3
  <2> QED BY <2>1, <2>3, <2>4 DEF WalkInv
<1>12. CASE UNCHANGED vars
  <2>1. UNCHANGED <<net, pc, left, known, node, stack, hops, verdict, answer, read, torn, missed>>
    BY <1>12 DEF vars, walk
  <2>2. (Doubtful => Doubtful') /\ (OnWay => OnWay') /\ (Ended => Ended')
    BY WayAndEndKept, <1>0, <2>1
  <2> QED BY <2>1, <2>2 DEF WalkInv
<1> QED BY <1>1, <1>2, <1>3, <1>4, <1>5, <1>6, <1>7, <1>8, <1>9, <1>10, <1>11, <1>12
        DEF Next, Exporter

(* The cap is high enough for the network as it is: a packet that has not  *)
(* come to rest after as many hops goes round for ever.                    *)
CapIsHighEnough == Packets[MaxHops].at = "moving" => Packets[RefHops].at = "moving"

(* What the walk has found when it ends is what becomes of the packet.     *)
LEMMA WalkTellsTrue ==
  ASSUME MaxHops <= RefHops, TypeOK, WalkInv, CapIsHighEnough PROVE VerdictIsTrue
<1> SUFFICES ASSUME pc = "end", ~torn, ~Ambiguous
             PROVE  /\ verdict = "dest" => Packets[RefHops].at = "delivered"
                    /\ verdict # "dest" /\ ~missed => Packets[RefHops].at # "delivered"
                    /\ verdict = "cut" => Packets[RefHops].at = "moving"
  BY DEF VerdictIsTrue
<1>0. /\ RefHops \in Nat /\ MaxHops \in Nat /\ MaxHops <= RefHops
      /\ hops \in 0..MaxHops /\ hops \in 0..RefHops
  BY PathTraceAssumption DEF TypeOK
<1>1. Ended
  BY DEF WalkInv, Doubtful, Ambiguous
<1>2. ASSUME OnWay PROVE Packets[hops].at = "moving"
  BY <1>2 DEF OnWay, Packet
<1>3. CASE verdict = "dest"
  <2>1. OnWay /\ hops < MaxHops /\ Arrived
    BY <1>1, <1>3 DEF Ended
  <2>2. PICK v : Packets[hops] = Packet(node, v, stack)
    BY <2>1 DEF OnWay
  <2>3. node = Dst[1] /\ stack = <<>>
    BY <2>1 DEF Arrived
  <2>4. ~OtherVrf(Packet(node, v, stack))
    BY <1>0, <2>2 DEF Ambiguous
  <2>5. v = Dst[2]
    BY <2>3, <2>4 DEF OtherVrf, Packet
  <2>6. <<node, v>> = Dst
    BY <2>3, <2>5, PathTraceAssumption DEF Addrs
  <2>7. Forwarded(Packet(node, v, stack)).at = "delivered"
    BY <2>3, <2>6 DEF Forwarded, Routed, Gone, Packet
  <2>8. hops + 1 \in 0..RefHops /\ hops \in 0..RefHops - 1
    BY <1>0, <2>1
  <2>9. Packets[hops + 1].at = "delivered"
    BY <2>2, <2>7, <2>8, PacketsAre
  <2>10. Packets[RefHops].at = "delivered"
    BY <2>8, <2>9, RestIsForever
  <2> QED BY <1>3, <2>10
<1>4. CASE verdict = "cut"
  <2>1. Packets[RefHops].at = "moving"
    BY <1>1, <1>2, <1>4 DEF Ended, CapIsHighEnough
  <2> QED BY <1>4, <2>1
<1>5. CASE verdict = "drop"
  <2>1. ASSUME ~missed PROVE Packets[RefHops].at # "delivered"
    <3>1. PICK m \in 0..MaxHops : Packets[m].at \in {"dropped", "onlink"}
      BY <1>1, <1>5, <2>1 DEF Ended
    <3>2. m \in 0..RefHops
      BY <1>0
    <3> QED BY <3>1, <3>2, RestIsForever
  <2> QED BY <1>5, <2>1
<1> QED BY <1>3, <1>4, <1>5 DEF TypeOK

(* A verdict tells what becomes of a packet (main.go:253-320), unless a    *)
(* node the walk had read changed meanwhile, or VRFs overlap on its way,   *)
(* or (for a drop) a Get failed: for every network, flow and number of     *)
(* hops.  A flow ends at another node than it starts from, as those of     *)
(* FLOWS do (lab/setup-telemetry.sh:23): the walk tells its destination by *)
(* the addresses it was told, so one that starts there goes on if that     *)
(* node did not answer.  "cut" is the verdict of a cap that ends loops, so *)
(* CapIsHighEnough holds for every net if the reference is cut there too.  *)
THEOREM VerdictIsTrueInvariant ==
  ASSUME MaxHops <= RefHops, Start # Dst[1]
  PROVE  Spec => [](CapIsHighEnough => VerdictIsTrue)
<1>1. Init => WalkInv
  BY DEF Init, WalkInv, Walking
<1>2. WalkInv /\ TypeOK /\ Asking /\ [Next]_vars => WalkInv'
  BY WalkStep
<1>3. WalkInv /\ TypeOK => (CapIsHighEnough => VerdictIsTrue)
  BY WalkTellsTrue
<1> QED BY <1>1, <1>2, <1>3, TypeCorrect, PTL DEF Spec

(* If the packet is followed for as many hops as the walk has, a verdict   *)
(* is true whatever the network is.                                        *)
THEOREM VerdictIsTrueToTheCap ==
  ASSUME MaxHops = RefHops, Start # Dst[1] PROVE Spec => []VerdictIsTrue
<1>1. MaxHops <= RefHops
  BY PathTraceAssumption
<1>2. CapIsHighEnough
  BY DEF CapIsHighEnough
<1>3. Spec => [](CapIsHighEnough => VerdictIsTrue)
  BY <1>1, VerdictIsTrueInvariant
<1> QED BY <1>2, <1>3, PTL

-----------------------------------------------------------------------------
(* The topology exporter.                                                  *)
LayerNames == {"physical", "ospf", "bgp", "mpls", "vlan"}

(* A node is asked for five layers, one after another.                     *)
LEMMA LayersAre == Len(T!Layers) = 5 /\ \A i \in 1..5 : T!Layers[i] \in LayerNames
<1>1. \A i \in 1..5 : i \in {1, 2, 3, 4, 5}
  OBVIOUS
<1> QED BY <1>1 DEF T!Layers, LayerNames

(* Who a report is about depends on nothing but the owners of addresses.   *)
LEMMA PeerSame ==
  UNCHANGED ip2node => \A n, lay, r : T!Peer(n, lay, r)' = T!Peer(n, lay, r)
<1> SUFFICES ASSUME UNCHANGED ip2node, NEW n, NEW lay, NEW r
             PROVE  T!Peer(n, lay, r)' = T!Peer(n, lay, r)
  OBVIOUS
<1>1. \A ip : T!Owner(ip)' = T!Owner(ip)
  BY DEF T!Owner
<1> QED BY <1>1 DEF T!Peer, T!OrElse

(* The type invariant, and the course of a refresh: reports are merged     *)
(* only while their node is asked, and nothing is claimed before.          *)
Course ==
    /\ pc = "reports" => node \in Nodes
    /\ pc # "reports" => todo = {}
    /\ todo # {} => layer \in 1..5
    /\ pc = "addresses" => claims = {} /\ DOMAIN edges = {}
    /\ \A c \in claims : /\ c[1] \in Nodes /\ c[2] \in LayerNames
                         /\ c = <<c[1], c[2], c[3]>>

(* An edge has two ends: IsEdge rules out a node that is its own peer.  A  *)
(* set counts the same in the instantiated module.                         *)
LEMMA TwoEnds ==
  ASSUME NEW a, NEW b, a # b PROVE T!Cardinality({a, b}) = 2
<1>1. IsFiniteSet({a}) /\ Cardinality({a}) = 1
  BY FS_Singleton
<1>2. {a, b} = {a} \cup {b} /\ b \notin {a}
  OBVIOUS
<1>3. Cardinality({a, b}) = 2
  BY <1>1, <1>2, FS_AddElement
<1>4. \A S : T!Cardinality(S) = Cardinality(S)
  BY Zenon DEF Cardinality, T!Cardinality
<1> QED BY <1>3, <1>4

(* Every step of a refresh keeps the type and the course.                  *)
LEMMA TopologyTypeStep ==
  T!TopologyAssumption /\ T!TypeOK /\ Course /\ [T!Next]_(T!vars) => T!TypeOK' /\ Course'
<1> SUFFICES ASSUME T!TopologyAssumption, T!TypeOK, Course, [T!Next]_(T!vars)
             PROVE  T!TypeOK' /\ Course'
  OBVIOUS
<1> USE LayersAre DEF T!TopologyAssumption, T!TypeOK, Course
<1>1. ASSUME NEW n \in Nodes, T!GetAddrs(n) PROVE T!TypeOK' /\ Course'
  <2>1. \A ip \in DOMAIN ip2node' : ip \in net.addrs[ip2node'[ip]]
    BY <1>1 DEF T!GetAddrs
  <2> QED BY <1>1, <2>1 DEF T!GetAddrs, T!Fault
<1>2. ASSUME NEW n \in Nodes, T!NextNode(n) PROVE T!TypeOK' /\ Course'
  BY <1>2 DEF T!NextNode
<1>3. CASE T!BeginNodes
  BY <1>3 DEF T!BeginNodes
<1>4. CASE T!GetReports
  <2>1. /\ layer' = layer + 1 /\ layer' \in 1..5 /\ node \in Nodes
        /\ UNCHANGED <<net, pc, left, ip2node, node, edges>> /\ pc = "reports" /\ todo = {}
    BY <1>4 DEF T!GetReports
  <2>2. CASE T!Fault /\ UNCHANGED <<todo, claims>>
    BY <2>1, <2>2 DEF T!Fault
  <2>3. CASE /\ todo' = net.reports[node][T!Layers[layer']]
             /\ claims' = claims \cup {<<node, T!Layers[layer'], r>> : r \in todo'}
             /\ UNCHANGED faults
    <3>1. T!TypeOK'
      BY <2>1, <2>3
    <3>2. \A c \in claims' : /\ c[1] \in Nodes /\ c[2] \in LayerNames
                             /\ c = <<c[1], c[2], c[3]>>
      BY <2>1, <2>3
    <3> QED BY <2>1, <2>3, <3>1, <3>2
  <2> QED BY <1>4, <2>2, <2>3 DEF T!GetReports
<1>5. CASE T!EndNode
  BY <1>5 DEF T!EndNode
<1>6. CASE T!Refresh
  BY <1>6 DEF T!Refresh, T!Empty
<1>7. ASSUME NEW r \in todo, T!MergeReport(r) PROVE T!TypeOK' /\ Course'
  <2>1. /\ todo' = todo \ {r} /\ pc = "reports"
        /\ UNCHANGED <<net, faults, pc, left, ip2node, node, layer, claims>>
    BY <1>7 DEF T!MergeReport
  <2>2. \A k \in DOMAIN edges' : k[1] # "vlan" => k[2] \subseteq Nodes /\ T!Cardinality(k[2]) = 2
    <3>1. ASSUME NEW lay, NEW a, NEW b, NEW d, T!AddEdge(lay, a, b, d)
          PROVE  \A k \in DOMAIN edges' :
                    k \in DOMAIN edges \/ (T!IsEdge(a, b) /\ k = <<lay, {a, b}>>)
      BY <3>1 DEF T!AddEdge, T!Put
    <3>2. ASSUME NEW a, NEW b, T!IsEdge(a, b)
          PROVE  {a, b} \subseteq Nodes /\ T!Cardinality({a, b}) = 2
      BY <3>2, TwoEnds DEF T!IsEdge
    <3>3. ASSUME NEW lay, NEW a, NEW b, NEW d, T!AddEdge(lay, a, b, d), NEW k \in DOMAIN edges',
                 k[1] # "vlan"
          PROVE  k[2] \subseteq Nodes /\ T!Cardinality(k[2]) = 2
      BY <3>1, <3>2, <3>3
    <3>4. \A k \in T!PseudoKeys(node, r) : k[1] = "vlan"
      BY DEF T!PseudoKeys
    <3>5. T!AddPseudos(node, r) => \A k \in DOMAIN edges' : k \in DOMAIN edges \/ k[1] = "vlan"
      BY <3>4 DEF T!AddPseudos
    <3> QED BY <1>7, <3>3, <3>5 DEF T!MergeReport
  <2> QED BY <2>1, <2>2
<1>8. CASE UNCHANGED T!vars
  BY <1>8 DEF T!vars
<1> QED BY <1>1, <1>2, <1>3, <1>4, <1>5, <1>6, <1>7, <1>8 DEF T!Next

(* No refresh leaves its type: an address belongs to a node that has it,   *)
(* and an edge between nodes joins two different ones of the inventory.    *)
THEOREM TopologyTypeCorrect ==
  ASSUME T!TopologyAssumption PROVE T!Spec => [](T!TypeOK /\ Course)
<1>1. T!Init => T!TypeOK /\ Course
  BY LayersAre DEF T!TopologyAssumption, T!Init, T!Empty, T!TypeOK, Course
<1>2. T!TypeOK /\ Course /\ [T!Next]_(T!vars) => T!TypeOK' /\ Course'
  BY TopologyTypeStep
<1> QED BY <1>1, <1>2, PTL DEF T!Spec

-----------------------------------------------------------------------------
(* The pairs a claim is about, its detail, and the claims of the answer    *)
(* that is still being merged.                                             *)
KeysOf(c) ==
    IF c[2] = "vlan" THEN T!PseudoKeys(c[1], c[3])
    ELSE {<<c[2], {c[1], p}>> : p \in {p \in Nodes \ {c[1]} : p = T!Peer(c[1], c[2], c[3])}}
DetailOf(c) == IF c[2] = "vlan" THEN Fixed ELSE T!Detail(c[2], c[3])
Pending == {<<node, T!Layers[layer], r>> : r \in todo}

(* At any time of a refresh every edge is the word of some claim, every    *)
(* claim that was merged has its edges, and an edge of the default VRF has *)
(* heard of no other: the first edge may be replaced, not the better one.  *)
EdgesAreClaimed ==
    \A k \in DOMAIN edges : \E c \in claims : k \in KeysOf(c) /\ edges[k] = DetailOf(c)
ClaimsAreEdges ==
    \A c \in claims \ Pending : \A k \in KeysOf(c) :
        k \in DOMAIN edges /\ (edges[k] = Default => DetailOf(c) = Default)
Faithful == Pending \subseteq claims /\ EdgesAreClaimed /\ ClaimsAreEdges

(* Keys of claims name the layer, so what is not about a VLAN keeps apart  *)
(* from what is; and they stay while the owners of addresses do.           *)
LEMMA KeysAre ==
  /\ \A c : \A k \in KeysOf(c) : k = <<k[1], k[2]>> /\ k[1] = c[2]
  /\ UNCHANGED ip2node => \A c : KeysOf(c)' = KeysOf(c)
<1>1. ASSUME NEW c, NEW k \in KeysOf(c) PROVE k = <<k[1], k[2]>> /\ k[1] = c[2]
  BY <1>1 DEF KeysOf, T!PseudoKeys
<1>2. ASSUME UNCHANGED ip2node, NEW c PROVE KeysOf(c)' = KeysOf(c)
  <2>1. T!Peer(c[1], c[2], c[3])' = T!Peer(c[1], c[2], c[3])
    BY <1>2, PeerSame
  <2> QED BY <2>1 DEF KeysOf
<1> QED BY <1>1, <1>2

(* Merging one report: its edges are there afterwards, other edges stay,   *)
(* and an edge changes only from the default VRF to what the report says.  *)
LEMMA MergeEffect ==
  ASSUME T!TopologyAssumption, T!TypeOK, Course, EdgesAreClaimed, NEW r \in todo, T!MergeReport(r),
         NEW c, c = <<node, T!Layers[layer], r>>
  PROVE  /\ DOMAIN edges' = DOMAIN edges \cup KeysOf(c)
         /\ \A k \in DOMAIN edges \ KeysOf(c) : edges'[k] = edges[k]
         /\ \A k \in KeysOf(c) :
               \/ edges'[k] = DetailOf(c) /\ (k \in DOMAIN edges => edges[k] = Default)
               \/ k \in DOMAIN edges /\ edges'[k] = edges[k] /\ edges[k] # Default
<1>1. c[1] = node /\ c[2] = T!Layers[layer] /\ c[3] = r /\ node \in Nodes
  BY DEF Course
<1>2. CASE c[2] = "vlan"
  <2>1. T!AddPseudos(node, r) /\ KeysOf(c) = T!PseudoKeys(node, r) /\ DetailOf(c) = Fixed
    BY <1>1, <1>2 DEF T!MergeReport, KeysOf, DetailOf
  <2>2. \A k \in KeysOf(c) : k \in DOMAIN edges => edges[k] = Fixed
    <3> SUFFICES ASSUME NEW k \in KeysOf(c), k \in DOMAIN edges PROVE edges[k] = Fixed
      OBVIOUS
    <3>1. PICK d \in claims : k \in KeysOf(d) /\ edges[k] = DetailOf(d)
      BY DEF EdgesAreClaimed
    <3>2. d[2] = "vlan"
      BY <1>2, <3>1, KeysAre
    <3> QED BY <3>1, <3>2 DEF DetailOf
  <2> QED BY <2>1, <2>2 DEF T!AddPseudos, T!TopologyAssumption
<1>3. CASE c[2] # "vlan"
  <2> DEFINE p == T!Peer(node, c[2], r)
             key == <<c[2], {node, p}>>
  <2>1. T!AddEdge(c[2], node, p, DetailOf(c))
    BY <1>1, <1>3 DEF T!MergeReport, DetailOf
  <2>2. KeysOf(c) = IF T!IsEdge(node, p) THEN {key} ELSE {}
    <3>1. KeysOf(c) = {<<c[2], {node, q}>> : q \in {q \in Nodes \ {node} : q = p}}
      BY <1>1, <1>3 DEF KeysOf
    <3>2. {q \in Nodes \ {node} : q = p} = IF T!IsEdge(node, p) THEN {p} ELSE {}
      BY <1>1 DEF T!IsEdge
    <3> HIDE DEF p
    <3> QED BY <3>1, <3>2
  <2> HIDE DEF p
  <2>3. CASE ~T!IsEdge(node, p)
    BY <2>1, <2>2, <2>3 DEF T!AddEdge
  <2>4. CASE T!IsEdge(node, p) /\ T!Keeps(key)
    BY <2>1, <2>2, <2>4 DEF T!AddEdge, T!Keeps
  <2>5. CASE T!IsEdge(node, p) /\ ~T!Keeps(key)
    <3>1. edges' = T!Put(edges, key, DetailOf(c)) /\ KeysOf(c) = {key}
      BY <2>1, <2>2, <2>5 DEF T!AddEdge
    <3>2. key \in DOMAIN edges => edges[key] = Default
      BY <2>5 DEF T!Keeps
    <3> HIDE DEF key
    <3> QED BY <3>1, <3>2 DEF T!Put
  <2> QED BY <2>3, <2>4, <2>5
<1> QED BY <1>2, <1>3

(* Every step of a refresh keeps edges and claims together: only           *)
(* MergeReport writes an edge, and owners of addresses are found before.   *)
LEMMA FaithfulStep ==
  T!TopologyAssumption /\ T!TypeOK /\ Course /\ Faithful /\ [T!Next]_(T!vars) => Faithful'
<1> SUFFICES ASSUME T!TopologyAssumption, T!TypeOK, Course, Faithful, [T!Next]_(T!vars)
             PROVE  Faithful'
  OBVIOUS
<1> USE DEF Faithful
<1>1. ASSUME UNCHANGED <<ip2node, edges>>, todo = {}, claims \subseteq claims',
             claims' \ claims \subseteq Pending', Pending' \subseteq claims'
      PROVE  Faithful'
  <2>1. \A c : KeysOf(c)' = KeysOf(c)
    BY <1>1, KeysAre
  <2>2. Pending = {} /\ \A c : DetailOf(c)' = DetailOf(c)
    BY <1>1 DEF Pending, DetailOf
  <2>3. EdgesAreClaimed'
    <3> SUFFICES ASSUME NEW k \in DOMAIN edges
                 PROVE  \E c \in claims' : k \in KeysOf(c)' /\ edges[k] = DetailOf(c)'
      BY <1>1 DEF EdgesAreClaimed
    <3>1. PICK c \in claims : k \in KeysOf(c) /\ edges[k] = DetailOf(c)
      BY DEF EdgesAreClaimed
    <3> QED BY <1>1, <2>1, <2>2, <3>1
  <2>4. ClaimsAreEdges'
    <3> SUFFICES ASSUME NEW c \in claims', c \notin Pending', NEW k, k \in KeysOf(c)'
                 PROVE  k \in DOMAIN edges /\ (edges[k] = Default => DetailOf(c)' = Default)
      BY <1>1 DEF ClaimsAreEdges
    <3>1. c \in claims \ Pending /\ k \in KeysOf(c)
      BY <1>1, <2>1, <2>2
    <3> QED BY <2>2, <3>1 DEF ClaimsAreEdges
  <2> QED BY <1>1, <2>3, <2>4
<1>2. ASSUME claims' = {}, DOMAIN edges' = {}, todo' = {} PROVE Faithful'
  BY <1>2 DEF EdgesAreClaimed, ClaimsAreEdges, Pending
<1>3. ASSUME NEW n \in Nodes, T!GetAddrs(n) PROVE Faithful'
  BY <1>2, <1>3 DEF T!GetAddrs, Course
<1>4. ASSUME NEW n \in Nodes, T!NextNode(n) PROVE Faithful'
  BY <1>1, <1>4 DEF T!NextNode, Course, Pending
<1>5. CASE T!BeginNodes
  BY <1>2, <1>5 DEF T!BeginNodes, Course
<1>6. CASE T!GetReports
  <2>1. UNCHANGED <<ip2node, edges, node>> /\ todo = {}
    BY <1>6 DEF T!GetReports
  <2>2. /\ claims \subseteq claims' /\ claims' \ claims \subseteq Pending'
        /\ Pending' \subseteq claims'
    BY <1>6 DEF T!GetReports, Pending
  <2> QED BY <1>1, <2>1, <2>2
<1>7. CASE T!EndNode
  BY <1>1, <1>7 DEF T!EndNode, Pending
<1>8. CASE T!Refresh
  BY <1>2, <1>8 DEF T!Refresh, T!Empty, Course
<1>9. ASSUME NEW r \in todo, T!MergeReport(r) PROVE Faithful'
  <2>1. PICK c : c = <<node, T!Layers[layer], r>>
    OBVIOUS
  <2>2. /\ DOMAIN edges' = DOMAIN edges \cup KeysOf(c)
        /\ \A k \in DOMAIN edges \ KeysOf(c) : edges'[k] = edges[k]
        /\ \A k \in KeysOf(c) :
               \/ edges'[k] = DetailOf(c) /\ (k \in DOMAIN edges => edges[k] = Default)
               \/ k \in DOMAIN edges /\ edges'[k] = edges[k] /\ edges[k] # Default
    BY <1>9, <2>1, MergeEffect
  <2>3. UNCHANGED <<ip2node, node, layer, claims>> /\ todo' = todo \ {r}
    BY <1>9 DEF T!MergeReport
  <2>4. \A d : KeysOf(d)' = KeysOf(d) /\ DetailOf(d)' = DetailOf(d)
    BY <2>3, KeysAre DEF DetailOf
  <2>5. \A d : d \in Pending => d \in Pending' \/ d = c
    BY <2>1, <2>3 DEF Pending
  <2>6. c \in claims /\ Pending' \subseteq claims'
    BY <2>1, <2>3 DEF Pending
  <2>7. EdgesAreClaimed'
    <3> SUFFICES ASSUME NEW k \in DOMAIN edges'
                 PROVE  \E d \in claims : k \in KeysOf(d) /\ edges'[k] = DetailOf(d)
      BY <2>3, <2>4 DEF EdgesAreClaimed
    <3>1. CASE edges'[k] = DetailOf(c) /\ k \in KeysOf(c)
      BY <2>6, <3>1
    <3>2. CASE k \in DOMAIN edges /\ edges'[k] = edges[k]
      BY <3>2 DEF EdgesAreClaimed
    <3> QED BY <2>2, <3>1, <3>2
  <2>8. ClaimsAreEdges'
    <3> SUFFICES ASSUME NEW d \in claims, d \notin Pending', NEW k \in KeysOf(d)
                 PROVE  k \in DOMAIN edges' /\ (edges'[k] = Default => DetailOf(d) = Default)
      BY <2>3, <2>4 DEF ClaimsAreEdges
    <3>1. d = c \/ (k \in DOMAIN edges /\ (edges[k] = Default => DetailOf(d) = Default))
      BY <2>5 DEF ClaimsAreEdges
    <3>2. CASE d = c
      BY <2>2, <3>2
    <3>3. CASE k \in DOMAIN edges /\ (edges[k] = Default => DetailOf(d) = Default)
      <4>1. CASE k \notin KeysOf(c)
        BY <2>2, <3>3, <4>1
      <4>2. CASE k \in KeysOf(c) /\ edges[k] = Default
        BY <2>2, <3>3, <4>2
      <4>3. CASE k \in KeysOf(c) /\ edges[k] # Default
        BY <2>2, <3>3, <4>3
      <4> QED BY <4>1, <4>2, <4>3
    <3> QED BY <3>1, <3>2, <3>3
  <2> QED BY <2>6, <2>7, <2>8
<1>10. CASE UNCHANGED T!vars
  <2>1. \A c : KeysOf(c)' = KeysOf(c) /\ DetailOf(c)' = DetailOf(c)
    BY <1>10, KeysAre DEF T!vars, DetailOf
  <2>2. UNCHANGED <<edges, claims, Pending>>
    BY <1>10 DEF T!vars, Pending
  <2> QED BY <2>1, <2>2 DEF EdgesAreClaimed, ClaimsAreEdges
<1> QED BY <1>3, <1>4, <1>5, <1>6, <1>7, <1>8, <1>9, <1>10 DEF T!Next

-----------------------------------------------------------------------------
(* What TopologyIsClaimed collects for a pair is what the claims about it  *)
(* say, and every claim is about pairs of nodes or of a VLAN.              *)
LEMMA ClaimedIs ==
  ASSUME Course, NEW k, k = <<k[1], k[2]>>
  PROVE  T!Claimed(k) = {DetailOf(c) : c \in {c \in claims : k \in KeysOf(c)}}
<1>1. \A c \in claims : k \in KeysOf(c) => c[2] = k[1]
  BY KeysAre
<1>2. CASE k[1] = "vlan"
  <2>1. {c \in claims : c[2] = "vlan" /\ k \in T!PseudoKeys(c[1], c[3])}
         = {c \in claims : k \in KeysOf(c)}
    BY <1>1, <1>2 DEF KeysOf
  <2>2. \A c \in {c \in claims : k \in KeysOf(c)} : DetailOf(c) = Fixed
    BY <1>1, <1>2 DEF DetailOf
  <2> QED BY <1>2, <2>1, <2>2 DEF T!Claimed
<1>3. CASE k[1] # "vlan"
  <2>1. ASSUME NEW c \in claims, c[2] # "vlan"
        PROVE  k \in KeysOf(c) <=>
                 /\ c[2] = k[1]
                 /\ T!Peer(c[1], c[2], c[3]) \in Nodes \ {c[1]}
                 /\ k[2] = {c[1], T!Peer(c[1], c[2], c[3])}
    <3> DEFINE p == T!Peer(c[1], c[2], c[3])
    <3>1. KeysOf(c) = {<<c[2], {c[1], q}>> : q \in {q \in Nodes \ {c[1]} : q = p}}
      BY <2>1 DEF KeysOf
    <3> HIDE DEF p
    <3>2. k \in KeysOf(c) <=> p \in Nodes \ {c[1]} /\ k = <<c[2], {c[1], p}>>
      BY <3>1
    <3>3. k = <<c[2], {c[1], p}>> <=> c[2] = k[1] /\ k[2] = {c[1], p}
      OBVIOUS
    <3> QED BY <3>2, <3>3 DEF p
  <2>2. ASSUME NEW c \in claims, c[2] = "vlan" PROVE k \notin KeysOf(c)
    BY <1>1, <1>3, <2>2
  <2>3. {c \in claims :
              /\ c[2] = k[1]
              /\ LET peer == T!Peer(c[1], c[2], c[3])
                 IN peer \in Nodes \ {c[1]} /\ k[2] = {c[1], peer}}
         = {c \in claims : k \in KeysOf(c)}
    BY <1>3, <2>1, <2>2
  <2>4. \A c \in {c \in claims : k \in KeysOf(c)} : DetailOf(c) = T!Detail(c[2], c[3])
    BY <1>1, <1>3 DEF DetailOf
  <2> QED BY <1>3, <2>3, <2>4 DEF T!Claimed
<1> QED BY <1>2, <1>3

(* What a claim is about is among the pairs that TopologyIsClaimed names.  *)
LEMMA KeysArePairs == Course => \A c \in claims : KeysOf(c) \subseteq T!Pairs
<1> SUFFICES ASSUME Course, NEW c \in claims, NEW k \in KeysOf(c) PROVE k \in T!Pairs
  OBVIOUS
<1>1. c[1] \in Nodes /\ c[2] \in LayerNames
  BY DEF Course
<1>2. CASE c[2] = "vlan"
  BY <1>2 DEF KeysOf, T!Pairs
<1>3. CASE c[2] # "vlan"
  <2>1. PICK p \in Nodes \ {c[1]} : k = <<c[2], {c[1], p}>>
    BY <1>3 DEF KeysOf
  <2>2. T!Cardinality({c[1], p}) = 2 /\ {c[1], p} \in SUBSET Nodes
    BY <1>1, <2>1, TwoEnds
  <2>3. c[2] \in {"physical", "ospf", "bgp", "mpls"}
    BY <1>1, <1>3 DEF LayerNames
  <2> QED BY <2>1, <2>2, <2>3 DEF T!Pairs
<1> QED BY <1>2, <1>3

(* When a refresh is over its edges are what the answers claim: one for    *)
(* every pair an answered end reports, none besides, and the default VRF's *)
(* only where no end says otherwise, in whatever order the two ends were   *)
(* asked (main.go:118-123).                                                *)
THEOREM TopologyIsClaimedInvariant ==
  ASSUME T!TopologyAssumption PROVE T!Spec => []T!TopologyIsClaimed
<1>1. T!Init => T!TypeOK /\ Course /\ Faithful
  <2>1. T!Init => T!TypeOK /\ Course
    BY LayersAre DEF T!TopologyAssumption, T!Init, T!Empty, T!TypeOK, Course
  <2>2. T!Init => Faithful
    BY DEF T!Init, T!Empty, Faithful, EdgesAreClaimed, ClaimsAreEdges, Pending
  <2> QED BY <2>1, <2>2
<1>2. T!TypeOK /\ Course /\ Faithful => T!TopologyIsClaimed
  <2> SUFFICES ASSUME T!TypeOK, Course, Faithful, pc = "done"
               PROVE  /\ DOMAIN edges = {k \in T!Pairs : T!Claimed(k) # {}}
                      /\ \A k \in DOMAIN edges :
                            /\ edges[k] \in T!Claimed(k)
                            /\ edges[k] = Default => T!Claimed(k) = {Default}
    BY DEF T!TopologyIsClaimed
  <2>1. \A c \in claims : \A k \in KeysOf(c) :
            k \in DOMAIN edges /\ (edges[k] = Default => DetailOf(c) = Default)
    BY DEF Course, Faithful, ClaimsAreEdges, Pending
  <2>2. \A k \in DOMAIN edges : \E c \in claims : k \in KeysOf(c) /\ edges[k] = DetailOf(c)
    BY DEF Faithful, EdgesAreClaimed
  <2>3. \A k \in T!Pairs : k = <<k[1], k[2]>>
    BY DEF T!Pairs, T!PseudoKeys
  <2>4. \A k \in DOMAIN edges : k \in T!Pairs
    BY <2>2, KeysArePairs
  <2>5. ASSUME NEW k \in T!Pairs
        PROVE  T!Claimed(k) = {DetailOf(c) : c \in {c \in claims : k \in KeysOf(c)}}
    BY <2>3, ClaimedIs
  <2>6. ASSUME NEW k \in T!Pairs PROVE k \in DOMAIN edges <=> T!Claimed(k) # {}
    BY <2>1, <2>2, <2>5
  <2>7. ASSUME NEW k \in DOMAIN edges
        PROVE  edges[k] \in T!Claimed(k) /\ (edges[k] = Default => T!Claimed(k) = {Default})
    <3>1. T!Claimed(k) = {DetailOf(c) : c \in {c \in claims : k \in KeysOf(c)}}
      BY <2>4, <2>5
    <3>2. edges[k] \in T!Claimed(k)
      BY <2>2, <3>1
    <3>3. edges[k] = Default => \A d \in T!Claimed(k) : d = Default
      BY <2>1, <3>1
    <3> QED BY <3>2, <3>3
  <2> QED BY <2>4, <2>6, <2>7
<1>3. T!TypeOK /\ Course /\ Faithful /\ [T!Next]_(T!vars) => T!TypeOK' /\ Course' /\ Faithful'
  BY TopologyTypeStep, FaithfulStep
<1> QED BY <1>1, <1>2, <1>3, PTL DEF T!Spec
=============================================================================
