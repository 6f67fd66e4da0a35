------------------------------ MODULE PathTrace ------------------------------
(***************************************************************************)
(* cmd/pathtrace-exporter/main.go: one goroutine refreshes the metrics.    *)
(* Holding outMu it asks every node for its addresses, then walks a flow   *)
(* hop by hop, asking each node it comes to for its routes (IP) or for one *)
(* label (MPLS); /metrics is served under the same lock.  Routers converge *)
(* while it walks, and a node may fail to answer.                          *)
(*                                                                         *)
(* An address is <<node, VRF of its interface>>.  A table has the routes   *)
(* to Dst, the one destination: aft, by VRF and prefix length (prefixes    *)
(* that do not contain Dst are left out), and lfib, by label.              *)
(***************************************************************************)
EXTENDS Integers, Sequences, FiniteSets

CONSTANTS
    Nodes, Vrfs,    \* INVENTORY, and the VRFs of its nodes
    Labels, Lens,   \* MPLS labels, and prefix lengths
    Tables,         \* per node: the tables it may have
    Start, StartVrf, Dst,   \* the flow: its first node, the VRF there, its destination
    NoHop,          \* an absent next-hop: the leaf is "" or missing
    Direct,         \* "-": a connected route
    Blackhole,      \* "blackhole"
    MaxHops,        \* hops a walk may have (24)
    MaxChanges,     \* bound of the model: changes of tables
    MaxFaults,      \* bound of the model: Gets that fail
    RefHops         \* bound of the reference: hops it follows a packet for

Addrs == Nodes \X Vrfs
Hop == Addrs \cup {NoHop, Direct, Blackhole}
Stack == Seq(Labels)

IsTable(t) ==
    /\ DOMAIN t.aft \subseteq Vrfs \X Lens
    /\ \A k \in DOMAIN t.aft :
          /\ t.aft[k] \in [nh : Hop, labels : Stack]
          /\ t.aft[k].nh # NoHop \/ t.aft[k].labels # <<>>   \* it has a leaf
    /\ DOMAIN t.lfib \subseteq Labels
    /\ \A x \in DOMAIN t.lfib :
          t.lfib[x] \in [out : Stack, nh : Addrs \cup {NoHop}, iface : Vrfs \cup {NoHop}]

ASSUME PathTraceAssumption ==
    /\ Start \in Nodes /\ StartVrf \in Vrfs /\ Dst \in Addrs
    /\ Lens \subseteq 0..32 /\ MaxHops \in Nat /\ RefHops \in Nat
    /\ MaxChanges \in Nat /\ MaxFaults \in Nat /\ NoHop \notin Addrs
    /\ \A n \in Nodes : \A t \in Tables[n] : IsTable(t)

VARIABLES
    net,        \* per node: its table, as its shim's cache has it
    changes,    \* changes of tables so far
    faults,     \* Gets that failed so far
    pc,         \* where the refreshing goroutine is; but in "sleep" it holds outMu
    left,       \* buildIP2Node: the nodes still to ask
    known,      \* ip2node: the nodes whose addresses are in it
    node, stack, hops,  \* trace: where the walk is, its labels, its hops so far
    answer,     \* the table a Get began to read
    verdict,    \* what became of the walk: dest, drop or cut
    scrape,     \* a GET of /metrics: idle or waiting for outMu
    read,       \* history: the nodes the walk has read
    torn,       \* history: one of them changed since
    missed      \* history: a Get of this refresh failed

walk == <<node, stack, hops, verdict>>
vars == <<net, changes, faults, pc, left, known, walk, answer, scrape, read, torn, missed>>

NoTable == [aft |-> [k \in {} |-> 0], lfib |-> [x \in {} |-> 0]]

Init ==
    /\ net \in {f \in [Nodes -> UNION {Tables[n] : n \in Nodes}] :
                   \A n \in Nodes : f[n] \in Tables[n]}
    /\ changes = 0 /\ faults = 0
    /\ pc = "sleep" /\ left = {} /\ known = {}
    /\ node = Start /\ stack = <<>> /\ hops = 0 /\ verdict = "none"
    /\ answer = NoTable
    /\ scrape = "idle"
    /\ read = {} /\ torn = FALSE /\ missed = FALSE
-----------------------------------------------------------------------------
(* The network converges; a scraper asks.                                  *)
Change(n) ==
    /\ changes < MaxChanges /\ changes' = changes + 1
    /\ \E t \in Tables[n] \ {net[n]} : net' = [net EXCEPT ![n] = t]
    /\ torn' = (torn \/ n \in read)
    /\ UNCHANGED <<faults, pc, left, known, walk, answer, scrape, read, missed>>

Scrape ==
    /\ scrape = "idle"
    /\ scrape' = IF pc = "sleep" THEN "idle" ELSE "waiting"
    /\ UNCHANGED <<net, changes, faults, pc, left, known, walk, answer, read, torn, missed>>

(* loop takes the lock, and render asks every node for its addresses.      *)
Refresh ==
    /\ pc = "sleep" /\ pc' = "addresses"
    /\ left' = Nodes /\ known' = {} /\ missed' = FALSE
    /\ UNCHANGED <<net, changes, faults, walk, answer, scrape, read, torn>>

GetAddrs(n) ==
    /\ pc = "addresses" /\ n \in left
    /\ left' = left \ {n}
    /\ \/ known' = known \cup {n} /\ UNCHANGED <<faults, missed>>
       \/ /\ faults < MaxFaults /\ faults' = faults + 1
          /\ missed' = TRUE /\ UNCHANGED known
    /\ UNCHANGED <<net, changes, pc, walk, answer, scrape, read, torn>>

BeginWalk ==
    /\ pc = "addresses" /\ left = {}
    /\ pc' = "hop"
    /\ node' = Start /\ stack' = <<>> /\ hops' = 0 /\ verdict' = "none"
    /\ read' = {} /\ torn' = FALSE
    /\ UNCHANGED <<net, changes, faults, left, known, answer, scrape, missed>>
-----------------------------------------------------------------------------
(* trace, at the top of its loop.                                          *)
Arrived == Dst[1] \in known /\ Dst[1] = node /\ stack = <<>>

Uncapped == FALSE               \* a fault: the walk goes on for ever
CapReached == hops >= MaxHops

EndWalk(v) == pc' = "end" /\ verdict' = v

Arrive ==
    /\ pc = "hop" /\ ~CapReached /\ Arrived
    /\ EndWalk("dest")
    /\ UNCHANGED <<net, changes, faults, left, known, node, stack, hops, answer,
                   scrape, read, torn, missed>>
Cut ==
    /\ pc = "hop" /\ CapReached
    /\ EndWalk("cut")
    /\ UNCHANGED <<net, changes, faults, left, known, node, stack, hops, answer,
                   scrape, read, torn, missed>>

(* get asks the node.  Its shim (gnmiserver.Get) visits leaf after leaf    *)
(* while ingesters write: what the answer has first may be older than what *)
(* it has last.                                                            *)
Ask ==
    /\ pc = "hop" /\ ~CapReached /\ ~Arrived
    /\ pc' = "answer" /\ answer' = net[node] /\ read' = read \cup {node}
    /\ UNCHANGED <<net, changes, faults, left, known, walk, scrape, torn, missed>>
AskFails ==
    /\ pc = "hop" /\ ~CapReached /\ ~Arrived
    /\ faults < MaxFaults /\ faults' = faults + 1 /\ missed' = TRUE
    /\ EndWalk("drop")
    /\ UNCHANGED <<net, changes, left, known, node, stack, hops, answer, scrape, read, torn>>

CountedIP == IF stack = <<>> THEN hops + 1 ELSE hops    \* a fault: labels are not counted
Counted == hops + 1
GoTo(nh) ==                     \* node = nodeOf(ip2node, nh), and "?" ends the walk
    /\ hops' = Counted
    /\ IF nh \in Addrs /\ nh[1] \in known
       THEN node' = nh[1] /\ pc' = "hop" /\ UNCHANGED verdict
       ELSE EndWalk("drop") /\ UNCHANGED node
NothingThere == EndWalk("drop") /\ UNCHANGED <<node, stack, hops>>

(* routeLookup: the longest prefix of any VRF; the routes of a prefix in   *)
(* several VRFs overwrite one another, leaf by leaf, in any order.         *)
HopVrfs(t, len)   == {v \in Vrfs : <<v, len>> \in DOMAIN t.aft /\ t.aft[<<v, len>>].nh # NoHop}
LabelVrfs(t, len) == {v \in Vrfs : <<v, len>> \in DOMAIN t.aft /\ t.aft[<<v, len>>].labels # <<>>}
Matching(t, u) == {len \in Lens : HopVrfs(t, len) \cup LabelVrfs(u, len) # {}}
Longest(lens) == CHOOSE l \in lens : \A k \in lens : l >= k
RouteLookup(t, u) ==
    LET len == Longest(Matching(t, u))
        nhs == {t.aft[<<v, len>>].nh : v \in HopVrfs(t, len)}
        sts == {u.aft[<<v, len>>].labels : v \in LabelVrfs(u, len)}
    IN [nh : IF nhs = {} THEN {NoHop} ELSE nhs, labels : IF sts = {} THEN {<<>>} ELSE sts]

IPHop ==
    \/ /\ Matching(answer, net[node]) = {}
       /\ NothingThere
    \/ /\ Matching(answer, net[node]) # {}
       /\ \E r \in RouteLookup(answer, net[node]) : stack' = r.labels /\ GoTo(r.nh)

(* mplsLookup, and the three shapes of an entry: swap, pop to a next hop,  *)
(* pop into a VRF of the node.                                             *)
NoEntry == [out |-> <<>>, nh |-> NoHop, iface |-> NoHop]
Entry(t, label) == IF label \in DOMAIN t.lfib THEN t.lfib[label] ELSE NoEntry
MplsLookup(t, u, label) == [Entry(u, label) EXCEPT !.out = Entry(t, label).out]

SwapAll(out, rest) == out       \* a fault: the labels below the top are lost
Swap(out, rest) == out \o rest

MPLSHop ==
    LET e    == MplsLookup(answer, net[node], Head(stack))
        rest == Tail(stack)
    IN \/ /\ e = NoEntry
          /\ NothingThere
       \/ /\ e.out # <<>>
          /\ stack' = Swap(e.out, rest) /\ GoTo(e.nh)
       \/ /\ e.out = <<>> /\ e.nh # NoHop
          /\ stack' = rest /\ GoTo(e.nh)
       \/ /\ e.out = <<>> /\ e.nh = NoHop /\ e.iface # NoHop
          /\ stack' = rest /\ hops' = Counted /\ pc' = "hop" /\ UNCHANGED <<node, verdict>>

TakeHop ==
    /\ pc = "answer"
    /\ IF stack = <<>> THEN IPHop ELSE MPLSHop
    /\ answer' = NoTable
    /\ UNCHANGED <<net, changes, faults, left, known, scrape, read, torn, missed>>

(* The text is complete: loop unlocks outMu, and whoever waits is served.  *)
Publish ==
    /\ pc = "end" /\ pc' = "sleep"
    /\ scrape' = "idle"
    /\ node' = Start /\ stack' = <<>> /\ hops' = 0 /\ verdict' = "none"
    /\ known' = {} /\ read' = {} /\ torn' = FALSE
    /\ UNCHANGED <<net, changes, faults, left, answer, missed>>

Exporter ==
    \/ Refresh \/ BeginWalk \/ Publish
    \/ \E n \in Nodes : GetAddrs(n)
    \/ Arrive \/ Cut \/ Ask \/ AskFails \/ TakeHop

Next == Exporter \/ Scrape \/ \E n \in Nodes : Change(n)

Spec == Init /\ [][Next]_vars
FairSpec == Spec /\ WF_vars(Exporter)
-----------------------------------------------------------------------------
(* Type invariant: in particular a walk has MaxHops hops at most, and one  *)
(* verdict when it has ended.                                              *)
TypeOK ==
    /\ DOMAIN net = Nodes /\ \A n \in Nodes : net[n] \in Tables[n]
    /\ pc \in {"sleep", "addresses", "hop", "answer", "end"}
    /\ left \subseteq Nodes /\ known \subseteq Nodes /\ read \subseteq Nodes
    /\ node \in Nodes /\ stack \in Stack /\ hops \in 0..MaxHops
    /\ verdict \in {"none", "dest", "drop", "cut"} /\ (pc = "end" <=> verdict # "none")
    /\ scrape \in {"idle", "waiting"} /\ IsTable(answer)
    /\ changes \in 0..MaxChanges /\ faults \in 0..MaxFaults
    /\ torn \in BOOLEAN /\ missed \in BOOLEAN

(* The reference: what the routers do with a packet, which stays in the    *)
(* VRF it arrived in.                                                      *)
Packet(n, v, labels) == [at |-> "moving", node |-> n, vrf |-> v, labels |-> labels]
LensIn(n, v) == {len \in Lens : <<v, len>> \in DOMAIN net[n].aft}
Gone(p, how) == [p EXCEPT !.at = how]

Routed(p) ==
    IF <<p.node, p.vrf>> = Dst THEN Gone(p, "delivered")
    ELSE IF LensIn(p.node, p.vrf) = {} THEN Gone(p, "dropped")
    ELSE LET r == net[p.node].aft[<<p.vrf, Longest(LensIn(p.node, p.vrf))>>]
         IN IF r.nh \in Addrs THEN Packet(r.nh[1], r.nh[2], r.labels)
            ELSE Gone(p, IF r.nh = Direct THEN "onlink" ELSE "dropped")

Switched(p) ==
    LET e == Entry(net[p.node], Head(p.labels))
        labels == e.out \o Tail(p.labels)
    IN IF e.nh \in Addrs THEN Packet(e.nh[1], e.nh[2], labels)
       ELSE IF e.out = <<>> /\ e.iface # NoHop THEN Packet(p.node, e.iface, labels)
       ELSE Gone(p, "dropped")

Forwarded(p) ==
    IF p.at # "moving" THEN p ELSE IF p.labels = <<>> THEN Routed(p) ELSE Switched(p)

Packets ==                      \* the packet after each of its hops
    LET packet[k \in 0..RefHops] ==
            IF k = 0 THEN Packet(Start, StartVrf, <<>>) ELSE Forwarded(packet[k - 1])
    IN packet

(* On its way the packet is looked up where another VRF has routes too, or *)
(* where the address is another VRF's: the walk does not tell VRFs apart.  *)
OtherVrf(p) ==
    /\ p.labels = <<>>
    /\ \/ \E v \in Vrfs \ {p.vrf} : LensIn(p.node, v) # {}
       \/ p.node = Dst[1] /\ p.vrf # Dst[2]
Ambiguous == \E k \in 0..RefHops : OtherVrf(Packets[k])

(* The verdict on a flow is that of the routers: a flow reported as        *)
(* reachable is delivered; one that is not delivered is reported as lost,  *)
(* if every node answered; and only a flow that goes round for ever is cut *)
(* at the cap.  The exceptions: a router the walk had read changed before  *)
(* its end, or VRFs overlap on the way.                                    *)
VerdictIsTrue ==
    pc = "end" /\ ~torn /\ ~Ambiguous =>
        /\ verdict = "dest" => Packets[RefHops].at = "delivered"
        /\ verdict # "dest" /\ ~missed => Packets[RefHops].at # "delivered"
        /\ verdict = "cut" => Packets[RefHops].at = "moving"

(* A scrape is answered although the whole refresh, with its Gets, holds   *)
(* outMu (main.go:96-99): every walk ends, also one that goes in circles.  *)
ScrapeServed == scrape = "waiting" ~> scrape = "idle"
=============================================================================
