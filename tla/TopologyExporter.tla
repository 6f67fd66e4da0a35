--------------------------- MODULE TopologyExporter ----------------------------
(***************************************************************************)
(* cmd/topology-exporter/main.go: a refresh asks every node for its        *)
(* addresses and then, node by node in the order of a map, layer by layer, *)
(* for its adjacencies.  Both ends of an adjacency report it, each in its  *)
(* own terms, and the reports are merged into one edge.  Any Get may fail, *)
(* which leaves its answer empty.                                          *)
(*                                                                         *)
(* A report is a record with the fields its layer needs: name (LLDP),      *)
(* iface, rid and up (OSPF), ip, vrf and up (BGP), nh and iface (LFIB),    *)
(* vlan and mac (FDB).  The name of an interface is the sequence of its    *)
(* parts between dashes.                                                   *)
(***************************************************************************)
EXTENDS Integers, Sequences, FiniteSets

CONSTANTS
    Nodes,          \* INVENTORY
    Networks,       \* what the nodes' caches may hold: [addrs, reports]
    Default,        \* the detail "vrf=default"
    Fixed,          \* the detail of the layers that have only one
    PlainVlans,     \* VLANs 0 and 1, and none
    Nobody,         \* the empty name
    MaxFaults       \* bound of the model: Gets that fail

ASSUME TopologyAssumption == MaxFaults \in Nat /\ Nobody \notin Nodes /\ Default # Fixed

Layers == <<"physical", "ospf", "bgp", "mpls", "vlan">>

VARIABLES
    net,        \* the nodes' caches
    faults,     \* Gets that failed so far
    pc,         \* "addresses", "nodes", "reports" or "done"
    left,       \* the nodes still to ask, for addresses and then for reports
    ip2node,    \* buildIP2Node: owner of each address
    node, layer,    \* the node being asked, and the index of the layer
    todo,       \* reports of this answer that are still to be merged
    edges,      \* the edges so far: from <<layer, pair of ends>> to the detail
    claims      \* history: every report received in this refresh, with its node and layer

vars == <<net, faults, pc, left, ip2node, node, layer, todo, edges, claims>>

Empty == [k \in {} |-> 0]

Init ==
    /\ net \in Networks
    /\ faults = 0 /\ pc = "addresses" /\ left = Nodes /\ ip2node = Empty
    /\ node = Nobody /\ layer = 0 /\ todo = {} /\ edges = Empty /\ claims = {}

Fault == faults < MaxFaults /\ faults' = faults + 1
-----------------------------------------------------------------------------
(* buildIP2Node, one node: an address that two nodes have goes to the one  *)
(* asked last.                                                             *)
GetAddrs(n) ==
    /\ pc = "addresses" /\ n \in left
    /\ left' = left \ {n}
    /\ \/ /\ ip2node' = [ip \in DOMAIN ip2node \cup net.addrs[n] |->
                            IF ip \in net.addrs[n] THEN n ELSE ip2node[ip]]
          /\ UNCHANGED faults
       \/ Fault /\ UNCHANGED ip2node
    /\ UNCHANGED <<net, pc, node, layer, todo, edges, claims>>

BeginNodes ==
    /\ pc = "addresses" /\ left = {}
    /\ pc' = "nodes" /\ left' = Nodes
    /\ UNCHANGED <<net, faults, ip2node, node, layer, todo, edges, claims>>

NextNode(n) ==
    /\ pc = "nodes" /\ n \in left
    /\ pc' = "reports" /\ node' = n /\ layer' = 0 /\ left' = left \ {n}
    /\ UNCHANGED <<net, faults, ip2node, todo, edges, claims>>

(* The next layer of the node, once the answer before is merged.           *)
GetReports ==
    /\ pc = "reports" /\ todo = {} /\ layer < Len(Layers)
    /\ layer' = layer + 1
    /\ \/ /\ todo' = net.reports[node][Layers[layer']]
          /\ claims' = claims \cup {<<node, Layers[layer'], r>> : r \in todo'}
          /\ UNCHANGED faults
       \/ Fault /\ UNCHANGED <<todo, claims>>
    /\ UNCHANGED <<net, pc, left, ip2node, node, edges>>

EndNode ==
    /\ pc = "reports" /\ todo = {} /\ layer = Len(Layers)
    /\ pc' = IF left = {} THEN "done" ELSE "nodes"
    /\ node' = Nobody /\ layer' = 0
    /\ UNCHANGED <<net, faults, left, ip2node, todo, edges, claims>>
-----------------------------------------------------------------------------
(* Peers: everything is brought back to the name of a node.                *)
Owner(ip) == IF ip \in DOMAIN ip2node THEN ip2node[ip] ELSE Nobody
IfacePeer(iface, self) ==
    LET others == {i \in DOMAIN iface : iface[i] # Nobody /\ iface[i] # self}
    IN IF others = {} THEN Nobody
       ELSE iface[CHOOSE i \in others : \A j \in others : i <= j]
OrElse(name, other) == IF name # Nobody THEN name ELSE other

Peer(n, lay, r) ==
    CASE lay = "physical" -> r.name
      [] lay = "ospf" -> IF r.up THEN OrElse(IfacePeer(r.iface, n), Owner(r.rid)) ELSE Nobody
      [] lay = "bgp"  -> IF r.up THEN Owner(r.ip) ELSE Nobody
      [] lay = "mpls" -> OrElse(Owner(r.nh), IfacePeer(r.iface, n))
Detail(lay, r) == IF lay = "bgp" THEN r.vrf ELSE Fixed

(* addEdge.  prev is kept unless it is the default VRF's.                  *)
KeepsFirst(key) == key \in DOMAIN edges     \* a fault: whatever its detail
Keeps(key) == key \in DOMAIN edges /\ edges[key] # Default
AnyName(a, b) == a # b          \* a fault: names that are not nodes become edges
IsEdge(a, b) == a \in Nodes /\ b \in Nodes /\ a # b

Put(m, key, detail) == [k \in DOMAIN m \cup {key} |-> IF k = key THEN detail ELSE m[k]]
AddEdge(lay, a, b, detail) ==
    edges' = IF ~IsEdge(a, b) \/ Keeps(<<lay, {a, b}>>) THEN edges
             ELSE Put(edges, <<lay, {a, b}>>, detail)

(* addPseudo, for switch and VLAN and for VLAN and MAC: the first stays.   *)
Vlan(r) == <<"vlan", r.vlan>>
Mac(r)  == <<"mac", r.mac>>
IsLearned(r) == r.vlan \notin PlainVlans /\ r.mac # Nobody
PseudoKeys(n, r) ==
    IF IsLearned(r) THEN {<<"vlan", {<<"node", n>>, Vlan(r)}>>, <<"vlan", {Vlan(r), Mac(r)}>>}
    ELSE {}
AddPseudos(n, r) ==
    edges' = [k \in DOMAIN edges \cup PseudoKeys(n, r) |->
                 IF k \in DOMAIN edges THEN edges[k] ELSE Fixed]

(* The reports of an answer come in the order of its tree or of a map.     *)
MergeReport(r) ==
    /\ r \in todo /\ todo' = todo \ {r}
    /\ \/ /\ Layers[layer] # "vlan"
          /\ AddEdge(Layers[layer], node, Peer(node, Layers[layer], r), Detail(Layers[layer], r))
       \/ /\ Layers[layer] = "vlan"
          /\ AddPseudos(node, r)
    /\ UNCHANGED <<net, faults, pc, left, ip2node, node, layer, claims>>

(* The text is rendered from edges; after interval, all begins again.      *)
Refresh ==
    /\ pc = "done" /\ pc' = "addresses"
    /\ left' = Nodes /\ ip2node' = Empty /\ edges' = Empty /\ claims' = {}
    /\ UNCHANGED <<net, faults, node, layer, todo>>

Next ==
    \/ \E n \in Nodes : GetAddrs(n) \/ NextNode(n)
    \/ BeginNodes \/ GetReports \/ EndNode \/ Refresh
    \/ \E r \in todo : MergeReport(r)

Spec == Init /\ [][Next]_vars
-----------------------------------------------------------------------------
(* Type invariant: in particular an address belongs to a node that has it, *)
(* and an edge joins two different nodes.                                  *)
TypeOK ==
    /\ net \in Networks /\ faults \in 0..MaxFaults
    /\ pc \in {"addresses", "nodes", "reports", "done"} /\ left \subseteq Nodes
    /\ \A ip \in DOMAIN ip2node : ip \in net.addrs[ip2node[ip]]
    /\ node \in Nodes \cup {Nobody} /\ layer \in 0..Len(Layers)
    /\ todo # {} => todo \subseteq net.reports[node][Layers[layer]]
    /\ \A k \in DOMAIN edges :
          k[1] # "vlan" => k[2] \subseteq Nodes /\ Cardinality(k[2]) = 2

(* What the answers of this refresh claim of a pair: the details.          *)
Claimed(key) ==
    IF key[1] = "vlan"
    THEN {Fixed : c \in {c \in claims : c[2] = "vlan" /\ key \in PseudoKeys(c[1], c[3])}}
    ELSE {Detail(c[2], c[3]) : c \in {c \in claims :
              /\ c[2] = key[1]
              /\ LET peer == Peer(c[1], c[2], c[3])
                 IN peer \in Nodes \ {c[1]} /\ key[2] = {c[1], peer}}}
Pairs == {k \in {"physical", "ospf", "bgp", "mpls"} \X SUBSET Nodes : Cardinality(k[2]) = 2}
         \cup UNION {PseudoKeys(c[1], c[3]) : c \in {c \in claims : c[2] = "vlan"}}

(* There is one edge for a pair of which at least one answered end reports *)
(* an adjacency, and no other edge.  Its VRF is the default one only if no *)
(* end says otherwise, whichever end was asked first (main.go:118-123).    *)
(* Which of two other VRFs it shows is left open: there the order decides. *)
TopologyIsClaimed ==
    pc = "done" =>
        /\ DOMAIN edges = {k \in Pairs : Claimed(k) # {}}
        /\ \A k \in DOMAIN edges :
              /\ edges[k] \in Claimed(k)
              /\ edges[k] = Default => Claimed(k) = {Default}
=============================================================================
