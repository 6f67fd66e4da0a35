------------------------------ MODULE LLDPIngest ------------------------------
(***************************************************************************)
(* The LLDP ingester of internal/ingest/lldp.go.  reconcile runs in two    *)
(* goroutines without a lock: "run", which does the initial snapshot and   *)
(* then one reconcile per line of `lldpcli watch`, and "ticker", the       *)
(* safety net of every 15 s.  A reconcile reads lldpd's neighbors, writes  *)
(* them to the cache one by one, walks the map l.seen as it is at that     *)
(* moment to delete what disappeared, and replaces l.seen.                 *)
(*                                                                         *)
(* Of a neighbor only the chassis id is kept: with the interface it is the *)
(* key of the cache entry.  NoId stands for a neighbor without an id,      *)
(* Absent for no neighbor.                                                 *)
(***************************************************************************)
EXTENDS Integers, FiniteSets

CONSTANTS
    Ifaces,       \* interfaces
    Chassis,      \* chassis ids
    Absent, NoId, \* no neighbor; a neighbor whose chassis id is empty
    MaxChanges,   \* bound of the model: changes of lldpd's neighbors
    MaxFaults     \* bound of the model: failed or unreadable answers

ASSUME LLDPAssumption ==
    /\ Absent \notin Chassis /\ NoId \notin Chassis /\ Absent # NoId
    /\ MaxChanges \in Nat /\ MaxFaults \in Nat

VARIABLES
    lldpd,    \* lldpd's neighbor per interface
    watch,    \* the watch stream: "quiet", "line" (one to read), "ended"
    booted,   \* the initial reconcile is done
    seen,     \* LLDP.seen: interface -> chassis id
    cache,    \* the cache: pairs of interface and chassis id
    pc,       \* per reconciler: where its reconcile is
    cur,      \* per reconciler: its local map of interfaces to write, then
              \* its local map seen
    old,      \* per reconciler: the map l.seen its delete loop walks
    todo,     \* per reconciler: keys its present loop has left
    overlapped, \* history: two reconciles have been under way at once
    renamed,    \* history: interfaces whose neighbor changed its chassis id
                \* from one reconcile to the next
    changes, faults

vars == <<lldpd, watch, booted, seen, cache, pc, cur, old, todo, overlapped, renamed,
          changes, faults>>
history == <<overlapped, renamed>>

Reconcilers == {"run", "ticker"}

Nothing == [i \in {} |-> NoId]
Pairs(m) == {<<i, m[i]>> : i \in DOMAIN m}

Init ==
    /\ lldpd \in [Ifaces -> Chassis \cup {Absent, NoId}]
    /\ watch = "quiet" /\ booted = FALSE
    /\ seen = Nothing /\ cache = {}
    /\ pc = [p \in Reconcilers |-> "idle"]
    /\ cur = [p \in Reconcilers |-> Nothing]
    /\ old = [p \in Reconcilers |-> Nothing]
    /\ todo = [p \in Reconcilers |-> {}]
    /\ overlapped = FALSE /\ renamed = {}
    /\ changes = 0 /\ faults = 0
-----------------------------------------------------------------------------
(* lldpd: a neighbor appears, changes or ages out; watch prints a line     *)
(* (before watch is started there is none), and may end.                   *)
Change ==
    /\ changes < MaxChanges /\ changes' = changes + 1
    /\ \E i \in Ifaces, c \in Chassis \cup {Absent, NoId} :
          c # lldpd[i] /\ lldpd' = [lldpd EXCEPT ![i] = c]
    /\ watch' = IF booted /\ watch # "ended" THEN "line" ELSE watch
    /\ UNCHANGED <<booted, seen, cache, pc, cur, old, todo, history, faults>>

WatchEnds ==
    /\ booted /\ watch # "ended" /\ pc["run"] = "idle"
    /\ watch' = "ended"
    /\ UNCHANGED <<lldpd, booted, seen, cache, pc, cur, old, todo, history, changes, faults>>
-----------------------------------------------------------------------------
(* What makes a reconciler call reconcile: the start, a watch line, a tick.*)
Called(p) ==
    \/ p = "run" /\ ~booted /\ UNCHANGED watch
    \/ p = "run" /\ booted /\ watch = "line" /\ watch' = "quiet"
    \/ p = "ticker" /\ booted /\ UNCHANGED watch

(* parseLLDP and the filter of reconcile: neighbors with a chassis id.     *)
Present(nbrs) == {i \in Ifaces : nbrs[i] # Absent}     \* a fault: empty ids pass
Identified(nbrs) == {i \in Ifaces : nbrs[i] \in Chassis}
Parsed == [i \in Identified(lldpd) |-> lldpd[i]]

(* reconcile begins with lldpcli's answer; one that cannot be parsed is    *)
(* taken for no neighbors.                                                 *)
Read(p) ==
    /\ pc[p] = "idle" /\ Called(p)
    /\ \/ cur' = [cur EXCEPT ![p] = Parsed] /\ UNCHANGED faults
       \/ faults < MaxFaults /\ faults' = faults + 1
          /\ cur' = [cur EXCEPT ![p] = Nothing]
    /\ todo' = [todo EXCEPT ![p] = DOMAIN cur'[p]]
    /\ pc' = [pc EXCEPT ![p] = "write"]
    /\ overlapped' = (overlapped \/ \E q \in Reconcilers : pc[q] # "idle")
    /\ UNCHANGED <<lldpd, booted, seen, cache, old, renamed, changes>>

(* lldpcli fails: reconcile returns.                                       *)
ReadFail(p) ==
    /\ pc[p] = "idle" /\ Called(p)
    /\ faults < MaxFaults /\ faults' = faults + 1
    /\ booted' = (booted \/ p = "run")
    /\ UNCHANGED <<lldpd, seen, cache, pc, cur, old, todo, history, changes>>

(* The present loop: one cache update per neighbor, in any order.          *)
WriteNew(p) ==                  \* a fault: what l.seen holds is not written again
    /\ pc[p] = "write"
    /\ \E i \in todo[p] :
         /\ cache' = IF i \in DOMAIN seen /\ seen[i] = cur[p][i] THEN cache
                     ELSE cache \cup {<<i, cur[p][i]>>}
         /\ todo' = [todo EXCEPT ![p] = @ \ {i}]
    /\ UNCHANGED <<lldpd, watch, booted, seen, pc, cur, old, history, changes, faults>>
Write(p) ==
    /\ pc[p] = "write"
    /\ \E i \in todo[p] :
         /\ cache' = cache \cup {<<i, cur[p][i]>>}
         /\ todo' = [todo EXCEPT ![p] = @ \ {i}]
    /\ UNCHANGED <<lldpd, watch, booted, seen, pc, cur, old, history, changes, faults>>

(* range l.seen: the delete loop walks the map of this moment.             *)
Range(p) ==
    /\ pc[p] = "write" /\ todo[p] = {}
    /\ old' = [old EXCEPT ![p] = seen]
    /\ todo' = [todo EXCEPT ![p] = DOMAIN seen]
    /\ pc' = [pc EXCEPT ![p] = "delete"]
    /\ UNCHANGED <<lldpd, watch, booted, seen, cache, cur, history, changes, faults>>

Delete(p) ==
    /\ pc[p] = "delete"
    /\ \E i \in todo[p] :
         /\ cache' = IF i \in DOMAIN cur[p] THEN cache ELSE cache \ {<<i, old[p][i]>>}
         /\ todo' = [todo EXCEPT ![p] = @ \ {i}]
    /\ UNCHANGED <<lldpd, watch, booted, seen, pc, cur, old, history, changes, faults>>

(* l.seen = seen, and reconcile returns.                                   *)
FinishMerges(p) ==              \* a fault: l.seen is added to, not replaced
    /\ pc[p] = "delete" /\ todo[p] = {}
    /\ seen' = [i \in DOMAIN seen \cup DOMAIN cur[p] |->
                   IF i \in DOMAIN cur[p] THEN cur[p][i] ELSE seen[i]]
    /\ pc' = [pc EXCEPT ![p] = "idle"]
    /\ cur' = [cur EXCEPT ![p] = Nothing] /\ old' = [old EXCEPT ![p] = Nothing]
    /\ booted' = (booted \/ p = "run")
    /\ renamed' = renamed \cup {i \in DOMAIN seen \cap DOMAIN cur[p] : seen[i] # cur[p][i]}
    /\ UNCHANGED <<lldpd, watch, cache, todo, overlapped, changes, faults>>
Finish(p) ==
    /\ pc[p] = "delete" /\ todo[p] = {}
    /\ seen' = cur[p]
    /\ pc' = [pc EXCEPT ![p] = "idle"]
    /\ cur' = [cur EXCEPT ![p] = Nothing] /\ old' = [old EXCEPT ![p] = Nothing]
    /\ booted' = (booted \/ p = "run")
    /\ renamed' = renamed \cup {i \in DOMAIN seen \cap DOMAIN cur[p] : seen[i] # cur[p][i]}
    /\ UNCHANGED <<lldpd, watch, cache, todo, overlapped, changes, faults>>

Reconcile(p) ==
    Read(p) \/ ReadFail(p) \/ Write(p) \/ Range(p) \/ Delete(p) \/ Finish(p)

Next == Change \/ WatchEnds \/ \E p \in Reconcilers : Reconcile(p)

Spec == Init /\ [][Next]_vars

(* Both goroutines are scheduled and the ticker ticks.                     *)
FairSpec == Spec /\ \A p \in Reconcilers : WF_vars(Reconcile(p))
-----------------------------------------------------------------------------
AllIdle == \A p \in Reconcilers : pc[p] = "idle"
Maps == UNION {[D -> Chassis] : D \in SUBSET Ifaces}

(* Type invariant of the ingester's state and of its two reconciles.       *)
TypeOK ==
    /\ lldpd \in [Ifaces -> Chassis \cup {Absent, NoId}]
    /\ watch \in {"quiet", "line", "ended"} /\ booted \in BOOLEAN
    /\ seen \in Maps /\ cache \subseteq Ifaces \X Chassis
    /\ pc \in [Reconcilers -> {"idle", "write", "delete"}]
    /\ cur \in [Reconcilers -> Maps] /\ old \in [Reconcilers -> Maps]
    /\ todo \in [Reconcilers -> SUBSET Ifaces]
    /\ overlapped \in BOOLEAN /\ renamed \subseteq Ifaces
    /\ changes \in Nat /\ faults \in Nat

(* Until two reconciles overlap, l.seen is what the cache holds whenever   *)
(* none is under way, but for interfaces whose neighbor was replaced by    *)
(* one with another id (lldp.go:88-93 asks for the interface alone): the   *)
(* comment of lldp.go:25, which the delete loop depends on.                *)
SeenIsCache ==
    AllIdle /\ ~overlapped =>
        /\ Pairs(seen) \subseteq cache
        /\ \A x \in cache \ Pairs(seen) : x[1] \in renamed

(* Every neighbor that stays is in the cache in the end, and stays there:  *)
(* an older answer written or deleted late is repaired by the ticker       *)
(* (lldp.go:45-53).                                                        *)
PresentConverges ==
    <>[](\A i \in Identified(lldpd) : <<i, lldpd[i]>> \in cache)

(* What lldp.go:45-46 says of the periodic reconcile: it guarantees        *)
(* convergence, of the cache to lldpd's neighbors.                         *)
Converges == <>[](cache = Pairs(Parsed))
=============================================================================
