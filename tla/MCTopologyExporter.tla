-------------------------- MODULE MCTopologyExporter ---------------------------
(* Instances of TopologyExporter for TLC: a provider edge, its core router *)
(* and its customer edge.                                                  *)
EXTENDS TopologyExporter

CONSTANTS pe, p, ce, ippe, ipp, ipce, cust, guest, v10, m1, stranger, rid

MCPlainVlans == {0, 1, Nobody}
MCAddrs == [n \in Nodes |-> IF n = pe THEN {ippe} ELSE IF n = p THEN {ipp} ELSE {ipce}]
Reports(physical, ospf, bgp, mpls, vlan) ==
    [physical |-> physical, ospf |-> ospf, bgp |-> bgp, mpls |-> mpls, vlan |-> vlan]

Nbr(name) == [name |-> name]
Adj(iface, id, up) == [iface |-> iface, rid |-> id, up |-> up]
Session(ip, vrf, up) == [ip |-> ip, vrf |-> vrf, up |-> up]
Lsp(nh, iface) == [nh |-> nh, iface |-> iface]
Learned(vlan, mac) == [vlan |-> vlan, mac |-> mac]

\* The provider edge sees its customer in one or two VRFs, the customer in the
\* default one or (b) in one of its own; LLDP also names what is not a node; an
\* interface is named after its ends or not; a label is popped into a VRF.
MCNetwork(vrfs, b, up) ==
    [addrs |-> MCAddrs,
     reports |-> [n \in Nodes |->
        IF n = pe THEN
            Reports({Nbr(p), Nbr(stranger)},
                    {Adj(<<pe, p>>, rid, up), Adj(<<pe>>, ipce, TRUE),
                     Adj(<<stranger>>, ipp, TRUE)},
                    {Session(ipce, v, TRUE) : v \in vrfs},
                    {Lsp(ipp, <<pe, p>>), Lsp(Nobody, <<cust>>)},
                    {Learned(v10, m1), Learned(1, m1)})
        ELSE IF n = p THEN
            Reports({Nbr(pe)}, {Adj(<<p, pe>>, rid, up)}, {}, {Lsp(rid, <<p, pe>>)}, {})
        ELSE Reports({}, {}, {Session(ippe, b, up)}, {}, {Learned(v10, m1)})]]

MCNetworks ==
    {MCNetwork(vrfs, b, up) :
        vrfs \in {{cust}, {Default, cust}, {cust, guest}, {Default}},
        b \in {Default, guest}, up \in BOOLEAN}
=============================================================================
