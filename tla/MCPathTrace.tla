------------------------------ MODULE MCPathTrace ------------------------------
(* An instance of PathTrace for TLC: a customer edge ce, the provider's pe *)
(* and p, and the edge re on the other side, which has the destination.    *)
EXTENDS PathTrace, TLC

CONSTANTS pe, p, re, ce, default, cust

Route(nh, labels) == [nh |-> nh, labels |-> labels]
Label(out, nh, iface) == [out |-> out, nh |-> nh, iface |-> iface]
One(k, v) == [i \in {k} |-> v]
Table(aft, lfib) == [aft |-> aft, lfib |-> lfib]
None == [i \in {} |-> 0]

MCDst == <<ce, cust>>

\* The ingress: a labelled VPN route, one that has lost its transport label, a
\* longer plain route beside it, the same prefix in two VRFs, in another, none.
Vpn == Route(<<p, default>>, <<20, 80>>)
MCIngress ==
    {Table(aft, None) : aft \in
        {One(<<cust, 1>>, Vpn), One(<<cust, 1>>, Route(<<p, default>>, <<80>>)),
         One(<<cust, 1>>, Vpn) @@ One(<<cust, 2>>, Route(<<re, cust>>, <<>>)),
         One(<<cust, 1>>, Vpn) @@ One(<<default, 1>>, Route(<<re, default>>, <<>>)),
         One(<<default, 1>>, Route(<<re, cust>>, <<>>)),
         None}}
\* The core: pops the transport label, swaps it, swaps it and sends it back.
MCCore ==
    {Table(None, lfib) : lfib \in
        {One(20, Label(<<>>, <<re, default>>, NoHop)),
         One(20, Label(<<21>>, <<re, default>>, NoHop)),
         One(20, Label(<<20>>, <<pe, default>>, NoHop)),
         None}}
\* The egress: pops into the VRF, or loops, or has lost the VRF's label; its route is to the destination,
\* back, connected, or a blackhole.
Egress(nh, lfib) == Table(One(<<cust, 1>>, Route(nh, <<>>)), lfib)
PopVrf == One(80, Label(<<>>, NoHop, cust))
MCEgress ==
    {Egress(nh, PopVrf) : nh \in {<<ce, cust>>, <<pe, cust>>, Direct, Blackhole}}
    \cup {Egress(<<ce, cust>>, lfib) : lfib \in
              {PopVrf @@ One(21, Label(<<>>, NoHop, default)),
               One(21, Label(<<>>, NoHop, default)),
               One(80, Label(<<20, 80>>, <<p, default>>, NoHop))}}

MCTables ==
    [n \in Nodes |-> IF n = pe THEN MCIngress ELSE IF n = p THEN MCCore
                     ELSE IF n = re THEN MCEgress ELSE {Table(None, None)}]
=============================================================================
