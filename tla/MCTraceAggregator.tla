--------------------------- MODULE MCTraceAggregator ---------------------------
(* Instances of TraceAggregator for TLC: two ends of a link, whose         *)
(* correlators see one flap, and a third node that sees the churn of it.   *)
EXTENDS TraceAggregator

CONSTANTS a, b, c

Trace(n, start, root, offs) == [node |-> n, start |-> start, root |-> root, offs |-> offs]

\* Starts at and beyond the edge of the window (4), equal starts, a span before
\* its trace's start, one link that is outvoted, a second trace that evicts one.
MCSchedule(i, j) ==
    [n \in Nodes |->
        IF n = a THEN <<Trace(a, 0, <<a, b>>, <<0, 1>>), Trace(a, 9, <<>>, <<0>>)>>
        ELSE IF n = b THEN <<Trace(b, i, <<b, a>>, <<0, 2>>)>>
        ELSE <<Trace(c, j, <<c, a>>, <<0, -1>>)>>]
MCSchedules == {MCSchedule(0, 4), MCSchedule(1, 5)}
=============================================================================
