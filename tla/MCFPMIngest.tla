----------------------------- MODULE MCFPMIngest -----------------------------
(* Instances of FPMIngest for TLC: the nexthop objects and the routes that *)
(* occur in them.                                                          *)
EXTENDS FPMIngest, TLC

CONSTANTS g1, g2

Obj(gw, labels) ==
    [gw |-> gw, oif |-> TRUE, group |-> <<>>, labels |-> labels, bh |-> FALSE]

\* A plain and a labelled gateway, a group, a blackhole.
MCNHObjs ==
    {Obj(g1, <<>>), Obj(g2, <<17, 80>>),
     [gw |-> NoGw, oif |-> FALSE, group |-> <<1>>, labels |-> <<>>, bh |-> FALSE],
     [gw |-> NoGw, oif |-> FALSE, group |-> <<>>, labels |-> <<>>, bh |-> TRUE]}
MCFewObjs == {Obj(g1, <<>>), Obj(g2, <<17, 80>>)}

Route(gw, id, labels, bh) == [gw |-> gw, nhid |-> id, labels |-> labels, bh |-> bh]

\* By the id of any object, by an inline gateway with labels of its own, a blackhole.
MCRoutes ==
    {Route(NoGw, 2, <<>>, FALSE), Route(g1, 0, <<20>>, FALSE), Route(NoGw, 0, <<>>, TRUE)}
MCFewRoutes == {Route(NoGw, 1, <<>>, FALSE), Route(NoGw, 2, <<>>, FALSE)}

\* The tables and their names are alike.
MCSymmetry == Permutations(Tables \ {Main, Local}) \cup Permutations(Names)
=============================================================================
