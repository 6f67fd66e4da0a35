------------------------------ MODULE OSPFIngest ------------------------------
(***************************************************************************)
(* The OSPF ingester of internal/ingest/ospf.go and the FRR it watches.    *)
(*                                                                         *)
(* ospfd changes an adjacency and then calls syslog(), which blocks while  *)
(* the /dev/log datagram queue is full.  The ingester's reader drains that *)
(* queue and signals a trigger channel of capacity one; its worker takes   *)
(* the trigger, lets the burst settle, asks vtysh for the neighbor table   *)
(* (ospfd has to answer) and reconciles the gNMI cache with the answer.    *)
(*                                                                         *)
(* A Go map is a function on the set of its keys.  Of a neighbor the       *)
(* interface and the adjacency state are kept; its address is left out.    *)
(***************************************************************************)
EXTENDS Integers, Sequences, FiniteSets

CONSTANTS
    Rids,        \* router-ids of neighbors
    Ifaces,      \* interfaces
    States,      \* FRR adjacency states that occur
    SockCap,     \* datagrams /dev/log holds before its writers block
    MaxChanges,  \* bound of the model: adjacency changes
    MaxOther,    \* bound of the model: log lines of other daemons
    MaxFail      \* bound of the model: failures of vtysh and of the bind

FRRStates == {"Full", "2-Way", "Init", "Down", "ExStart", "Exchange",
              "Loading", "Attempt", "Deleted", "DependUpon"}

ASSUME OSPFAssumption ==
    /\ States \subseteq FRRStates
    /\ SockCap \in Nat \ {0}
    /\ MaxChanges \in Nat /\ MaxOther \in Nat /\ MaxFail \in Nat

VARIABLES
    fallback,\* the flag that turns the fallback ticker on (o.fallback > 0)
    adj,     \* FRR's neighbor table: <<router-id, interface>> -> state
    frr,     \* ospfd: "run", or "log" while it is inside syslog()
    sockq,   \* datagrams in /dev/log; only whether they mention ospf matters
    sock,    \* the socket: "none" before the bind, "bound", "failed"
    trigger, \* the trigger channel holds its token
    pc,      \* Run, then the worker
    view,    \* the neighbor table that vtysh printed last, as it was parsed
    seen,    \* OSPF.seen: router-id -> interface
    st,      \* OSPF.st: router-id -> adjacency state
    cache,   \* leaves adjacency-state: <<interface, router-id>> -> state
    roots,   \* root events emitted by the last reconcile
    lost,    \* history: a change was logged to no one, or a read failed or
             \* could not be parsed, and no read has succeeded since
    moved,   \* history: router-ids that were present on two interfaces in turn
    changes, others, fails

vars == <<fallback, adj, frr, sockq, sock, trigger, pc, view, seen, st, cache,
          roots, lost, moved, changes, others, fails>>
given == <<fallback, adj, frr, changes>>    \* what the ingester does not change
books == <<view, seen, st, cache, roots, moved>>

Empty == [x \in {} |-> ""]

Init ==
    /\ fallback \in BOOLEAN
    /\ adj \in UNION {[D -> States] : D \in SUBSET (Rids \X Ifaces)}
    /\ frr = "run" /\ sockq = <<>> /\ sock = "none" /\ trigger = FALSE
    /\ pc = "boot"
    /\ view = Empty /\ seen = Empty /\ st = Empty /\ cache = Empty
    /\ roots = {} /\ lost = FALSE /\ moved = {}
    /\ changes = 0 /\ others = 0 /\ fails = 0
-----------------------------------------------------------------------------
(* adjState: FRR's state (its DR role suffix left out) to OpenConfig's.    *)
OCState ==
    [s \in FRRStates |->
       CASE s = "Full"     -> "FULL"
         [] s = "2-Way"    -> "TWO_WAY"
         [] s = "Init"     -> "INIT"
         [] s = "Down"     -> "DOWN"
         [] s = "ExStart"  -> "EXCHANGE_START"
         [] s = "Exchange" -> "EXCHANGE"
         [] s = "Loading"  -> "LOADING"
         [] s = "Attempt"  -> "ATTEMPT"
         [] OTHER          -> "UNKNOWN"]

(* parseOSPFNbrs: of the adjacencies of a router-id the first is taken.    *)
(* Which one FRR lists first depends on the interfaces alone.              *)
Known(table) == {p[1] : p \in DOMAIN table}
IfacesOf(table, r) == {i \in Ifaces : <<r, i>> \in DOMAIN table}
FirstIface(table, r) == CHOOSE i \in IfacesOf(table, r) : TRUE
ParseUncut(table) ==            \* a fault: the address after the colon stays
    [r \in Known(table) |-> LET i == FirstIface(table, r) IN
                            [iface |-> <<i, r>>, state |-> OCState[table[<<r, i>>]]]]
Parse(table) ==
    [r \in Known(table) |-> LET i == FirstIface(table, r) IN
                            [iface |-> i, state |-> OCState[table[<<r, i>>]]]]
-----------------------------------------------------------------------------
(* ospfd: an adjacency forms, changes its state or goes away, and is then  *)
(* logged (log-adjacency-changes).                                         *)
Change ==
    /\ frr = "run" /\ changes < MaxChanges
    /\ \E p \in Rids \X Ifaces :
         \/ \E s \in States :
              /\ p \in DOMAIN adj => adj[p] # s
              /\ adj' = [q \in DOMAIN adj \cup {p} |-> IF q = p THEN s ELSE adj[q]]
         \/ /\ p \in DOMAIN adj
            /\ adj' = [q \in DOMAIN adj \ {p} |-> adj[q]]
    /\ frr' = "log" /\ changes' = changes + 1
    /\ UNCHANGED <<fallback, sockq, sock, trigger, pc, books, lost, others, fails>>

(* syslog(): blocks while the queue is full; without a receiver the        *)
(* message is gone.                                                        *)
Deliver(m) ==
    \/ sock = "bound" /\ Len(sockq) < SockCap /\ sockq' = Append(sockq, m)
    \/ sock # "bound" /\ UNCHANGED sockq

Log ==
    /\ frr = "log" /\ frr' = "run"
    /\ Deliver("ospf")
    /\ lost' = (lost \/ sock # "bound")
    /\ UNCHANGED <<fallback, adj, sock, trigger, pc, books, changes, others, fails>>

LogOther ==
    /\ others < MaxOther /\ others' = others + 1
    /\ sock = "bound"
    /\ \E m \in {"ospf", "other"} : Deliver(m)
    /\ UNCHANGED <<given, sock, trigger, pc, books, lost, fails>>
-----------------------------------------------------------------------------
(* runSyslog, started once Run's first reconcile is done.                  *)
Bind ==
    /\ pc \notin {"boot", "bootapply"} /\ sock = "none"
    /\ \/ sock' = "bound" /\ UNCHANGED fails
       \/ fails < MaxFail /\ sock' = "failed" /\ fails' = fails + 1
    /\ UNCHANGED <<given, sockq, trigger, pc, books, lost, others>>

DrainUnbuffered ==              \* a fault: the trigger channel has no buffer
    /\ sock = "bound" /\ sockq # <<>>
    /\ sockq' = Tail(sockq)
    /\ trigger' = (trigger \/ (Head(sockq) = "ospf" /\ pc = "wait"))
    /\ UNCHANGED <<given, sock, pc, books, lost, others, fails>>
DrainInline ==                  \* a fault: the reader itself reconciles
    /\ sock = "bound" /\ sockq # <<>> /\ pc = "wait"
    /\ sockq' = Tail(sockq)
    /\ trigger' = (trigger \/ Head(sockq) = "ospf")
    /\ UNCHANGED <<given, sock, pc, books, lost, others, fails>>
Drain ==
    /\ sock = "bound" /\ sockq # <<>>
    /\ sockq' = Tail(sockq)
    /\ trigger' = (trigger \/ Head(sockq) = "ospf")
    /\ UNCHANGED <<given, sock, pc, books, lost, others, fails>>

(* The fallback ticker signals like the reader does.                       *)
FallbackTickBound ==            \* a fault: started only where the bind succeeds
    /\ fallback /\ pc \notin {"boot", "bootapply"} /\ sock = "bound"
    /\ trigger' = TRUE
    /\ UNCHANGED <<given, sockq, sock, pc, books, lost, others, fails>>
FallbackTick ==
    /\ fallback /\ pc \notin {"boot", "bootapply"}
    /\ trigger' = TRUE
    /\ UNCHANGED <<given, sockq, sock, pc, books, lost, others, fails>>
-----------------------------------------------------------------------------
(* reconcileWorker takes the trigger and sleeps 300 ms.                    *)
Wake ==
    /\ pc = "wait" /\ trigger
    /\ trigger' = FALSE /\ pc' = "settle"
    /\ UNCHANGED <<given, sockq, sock, books, lost, others, fails>>

(* reconcile: vtysh answers when ospfd does ...                            *)
Read ==
    /\ pc \in {"boot", "settle"} /\ frr = "run"
    /\ view' = adj /\ lost' = FALSE
    /\ pc' = IF pc = "boot" THEN "bootapply" ELSE "apply"
    /\ UNCHANGED <<given, sockq, sock, trigger, seen, st, cache, roots, moved, others, fails>>

(* ... or fails, and nothing is reconciled.                                *)
ReadFail ==
    /\ pc \in {"boot", "settle"} /\ fails < MaxFail
    /\ fails' = fails + 1 /\ lost' = TRUE /\ pc' = "wait"
    /\ UNCHANGED <<given, sockq, sock, trigger, books, others>>

(* ... or prints what is no JSON, which is taken for an empty table.       *)
ReadGarbled ==
    /\ pc \in {"boot", "settle"} /\ fails < MaxFail
    /\ fails' = fails + 1 /\ lost' = TRUE
    /\ view' = Empty
    /\ pc' = IF pc = "boot" THEN "bootapply" ELSE "apply"
    /\ UNCHANGED <<given, sockq, sock, trigger, seen, st, cache, roots, moved, others>>

(* The rest of reconcile: leaves of present neighbors are written, those   *)
(* of vanished ones deleted where they were last seen, transitions become  *)
(* root events, and the books are brought up to date.                      *)
Present(cur) == {<<cur[r].iface, r>> : r \in DOMAIN cur}

GoneByState(cur) == DOMAIN seen \ DOMAIN st    \* a fault: the wrong map is asked
Gone(cur) == DOMAIN seen \ DOMAIN cur

TransitionsOrNew(cur) ==        \* a fault: a neighbor seen first counts
    {r \in DOMAIN cur : r \in DOMAIN st => st[r] # cur[r].state}
Transitions(cur) == {r \in DOMAIN st \cap DOMAIN cur : st[r] # cur[r].state}

Reconcile(cur) ==
    /\ cache' = [p \in (DOMAIN cache \cup Present(cur)) \ {<<seen[r], r>> : r \in Gone(cur)} |->
                    IF p \in Present(cur) THEN cur[p[2]].state ELSE cache[p]]
    /\ st' = [r \in (DOMAIN st \cup DOMAIN cur) \ Gone(cur) |->
                 IF r \in DOMAIN cur THEN cur[r].state ELSE st[r]]
    /\ roots' = {[rid |-> r, kind |-> cur[r].state] : r \in Transitions(cur)}
                \cup {[rid |-> r, kind |-> "gone"] : r \in Gone(cur)}
    /\ seen' = [r \in DOMAIN cur |-> cur[r].iface]
    /\ moved' = moved \cup {r \in DOMAIN seen \cap DOMAIN cur : seen[r] # cur[r].iface}

ApplyClears ==                  \* a fault: triggers of meanwhile are cleared
    /\ pc \in {"bootapply", "apply"} /\ pc' = "wait"
    /\ Reconcile(Parse(view)) /\ trigger' = FALSE
    /\ UNCHANGED <<given, sockq, sock, view, lost, others, fails>>

Apply ==
    /\ pc \in {"bootapply", "apply"} /\ pc' = "wait"
    /\ Reconcile(Parse(view))
    /\ UNCHANGED <<given, sockq, sock, trigger, view, lost, others, fails>>

Ingester == Bind \/ Drain \/ FallbackTick \/ Wake \/ Read \/ ReadFail \/ ReadGarbled \/ Apply
Next == Change \/ Log \/ LogOther \/ Ingester

Spec == Init /\ [][Next]_vars

(* The goroutines are scheduled, the ticker ticks, and ospfd goes on when  *)
(* it can; neither adjacency changes nor other daemons' logs are promised. *)
Fairness ==
    /\ WF_vars(Log) /\ WF_vars(Bind) /\ WF_vars(Drain) /\ WF_vars(FallbackTick)
    /\ WF_vars(Wake) /\ WF_vars(Apply) /\ WF_vars(Read)

FairSpec == Spec /\ Fairness
-----------------------------------------------------------------------------
(* Type invariant of the ingester, its socket and FRR.                     *)
TypeOK ==
    /\ DOMAIN adj \subseteq Rids \X Ifaces /\ \A p \in DOMAIN adj : adj[p] \in States
    /\ DOMAIN view \subseteq Rids \X Ifaces /\ \A p \in DOMAIN view : view[p] \in States
    /\ frr \in {"run", "log"}
    /\ sockq \in Seq({"ospf", "other"}) /\ Len(sockq) <= SockCap
    /\ sock \in {"none", "bound", "failed"}
    /\ fallback \in BOOLEAN /\ trigger \in BOOLEAN /\ lost \in BOOLEAN
    /\ pc \in {"boot", "bootapply", "wait", "settle", "apply"}
    /\ DOMAIN seen \subseteq Rids /\ \A r \in DOMAIN seen : seen[r] \in Ifaces
    /\ DOMAIN st \subseteq Rids /\ moved \subseteq Rids
    /\ DOMAIN cache \subseteq Ifaces \X Rids
    /\ changes \in Nat /\ others \in Nat /\ fails \in Nat

(* No lost wake-up: if FRR's table is not the one vtysh printed last, then *)
(* FRR is about to log, or an OSPF line waits in the socket, or the token  *)
(* is in the channel, or the worker is on its way to read, or the change   *)
(* is accounted for as lost (signal's coalescing and the worker's order of *)
(* receive and read, ospf.go:76-102).                                      *)
NoLostTrigger ==
    view # adj =>
        \/ frr = "log"
        \/ \E i \in 1..Len(sockq) : sockq[i] = "ospf"
        \/ trigger
        \/ pc \in {"boot", "settle"}
        \/ lost

(* Between reconciles the ingester's books agree with what it read last:   *)
(* seen and st are its neighbors, and the cache holds each one's state at  *)
(* the interface where it was seen (reconcile, ospf.go:111-134).           *)
BooksMatchView ==
    pc \notin {"bootapply", "apply"} =>
        LET cur == Parse(view) IN
        /\ DOMAIN seen = DOMAIN cur /\ DOMAIN st = DOMAIN cur
        /\ \A r \in DOMAIN cur :
             /\ seen[r] = cur[r].iface /\ st[r] = cur[r].state
             /\ <<seen[r], r>> \in DOMAIN cache
             /\ cache[<<seen[r], r>>] = st[r]

(* When nothing is under way and nothing was lost, every neighbor FRR has  *)
(* now is in the cache with its state of now.                              *)
Quiet ==
    /\ frr = "run" /\ ~trigger /\ pc = "wait"
    /\ \A i \in 1..Len(sockq) : sockq[i] # "ospf"
QuietIsAccurate ==
    Quiet /\ ~lost =>
        LET cur == Parse(adj) IN
        \A r \in DOMAIN cur : /\ <<cur[r].iface, r>> \in DOMAIN cache
                              /\ cache[<<cur[r].iface, r>>] = cur[r].state

(* The correlator hears of every change of a known neighbor and of nothing *)
(* else: a reconcile emits root events for exactly the neighbors whose     *)
(* recorded state it changes or forgets (ospf.go:121-131).                 *)
TransitionEmits ==
    [][st' # st \/ roots' # roots =>
          {e.rid : e \in roots'} =
             {r \in DOMAIN st : r \in DOMAIN st' => st'[r] # st[r]}]_vars

(* The monitor never wedges the monitored: ospfd leaves syslog() although  *)
(* the worker waits for ospfd's answer to vtysh (ospf.go:60-64).           *)
NeverWedged == frr = "log" ~> frr = "run"

(* The cache is FRR's table: every neighbor at its interface with its      *)
(* state, and nothing else, but for old interfaces of router-ids that      *)
(* moved while they were present (ospf.go:126-132 asks for gone ids only). *)
Mirror ==
    LET cur == Parse(adj)
        now == {<<cur[r].iface, r>> : r \in DOMAIN cur}
    IN /\ now \subseteq DOMAIN cache
       /\ \A p \in DOMAIN cache \ now : p[2] \in moved
       /\ \A p \in now : cache[p] = cur[p[2]].state

(* Once adjacencies stop changing the cache is FRR's table for good, or a  *)
(* change has been lost (pure push, the default).                          *)
PushConverges == <>[](lost \/ Mirror)

(* With the fallback ticker it is FRR's table whatever was lost before     *)
(* (ospf.go:7-8, "safety net").                                            *)
FallbackConverges == fallback => <>[]Mirror
=============================================================================
