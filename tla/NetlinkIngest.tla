---------------------------- MODULE NetlinkIngest ----------------------------
(***************************************************************************)
(* The netlink ingester of internal/ingest/netlink.go and the kernel it    *)
(* watches.  Three goroutines write the gNMI cache without a common order: *)
(* linkLoop and neighLoop apply the events of their subscriptions, and the *)
(* main one lists the kernel's tables and writes them entry by entry, all  *)
(* of them once at startup (snapshot), counters, LFIB and addresses again  *)
(* in every round of counterLoop.                                          *)
(*                                                                         *)
(* A Go map, or the set of list entries of one kind, is a function on the  *)
(* keys that are present.  Of a link its oper-status is kept, of its       *)
(* counters that they are there, of a label one value for what it maps to; *)
(* links are named, their indexes left out.                                *)
(***************************************************************************)
EXTENDS Integers, Sequences, FiniteSets

CONSTANTS
    Links, Macs, Addrs, Labels,
    Outs,       \* what a label may map to
    NoIface,    \* the empty name, of an index without a link
    MaxOps,     \* bound of the model: changes in the kernel
    MaxFaults   \* bound of the model: failed lists, ended subscriptions

ASSUME NetlinkAssumption ==
    /\ NoIface \notin Links /\ Links \cap Macs = {}
    /\ MaxOps \in Nat /\ MaxFaults \in Nat

VARIABLES
    link,    \* the kernel's links: "UP", "DOWN" or "absent"
    fdb,     \* the kernel's FDB: MAC -> link
    addrs,   \* the kernel's addresses: <<link, address>>
    lfib,    \* the kernel's LFIB: label -> out
    linkq, neighq,   \* events on their way to linkLoop and neighLoop
    linksub, neighsub, \* the subscriptions: "off", "on" or "ended"
    pc,      \* the list the main goroutine made last
    first,   \* it is still in snapshot()
    todo,    \* entries of that list it has not written
    batch,   \* addresses of the present link it has not written
    cLink, cCount, cAddr, cFdb, cLfib, \* the cache, named like the above
    touched, \* history: links and MACs an event was applied to since that list
    stale,   \* history: those an older list entry was written to since their
             \* last event, or that were not listed at startup
    missed,  \* history: those whose change reached no subscription
    ops, faults

kernel == <<link, fdb, addrs, lfib, ops>>
main   == <<pc, first, todo, batch>>
queues == <<linkq, neighq, linksub, neighsub>>
cache  == <<cLink, cCount, cAddr, cFdb, cLfib>>
history == <<touched, stale, missed>>
vars == <<kernel, main, queues, cache, history, faults>>

Without(f, S) == [x \in DOMAIN f \ S |-> f[x]]
With(f, x, v) == [y \in DOMAIN f \cup {x} |-> IF y = x THEN v ELSE f[y]]
None == [x \in {} |-> NoIface]
Present == {l \in Links : link[l] # "absent"}
Of(S, l) == {x \in S : x[1] = l}

Init ==
    /\ link \in [Links -> {"UP", "absent"}]
    /\ fdb \in UNION {[D -> Present] : D \in SUBSET Macs}
    /\ addrs = {} /\ lfib = None
    /\ linkq = <<>> /\ neighq = <<>> /\ linksub = "off" /\ neighsub = "off"
    /\ pc = "start" /\ first = TRUE /\ todo = None /\ batch = {}
    /\ cLink = None /\ cCount = {} /\ cAddr = {} /\ cFdb = None /\ cLfib = None
    /\ touched = {} /\ stale = {} /\ missed = {}
    /\ ops = 0 /\ faults = 0
-----------------------------------------------------------------------------
(* The kernel.  A change of a link or of the FDB is multicast to those who *)
(* have subscribed; addresses and labels are not listened for.             *)
Count == ops < MaxOps /\ ops' = ops + 1
Multicast(linkEvs, neighEvs) ==
    /\ linkq'  = IF linksub = "on" THEN linkq \o linkEvs ELSE linkq
    /\ neighq' = IF neighsub = "on" THEN neighq \o neighEvs ELSE neighq
    /\ missed' = missed
         \cup {linkEvs[n].link : n \in IF linksub = "ended" THEN DOMAIN linkEvs ELSE {}}
         \cup {neighEvs[n].mac : n \in IF neighsub = "ended" THEN DOMAIN neighEvs ELSE {}}
    /\ UNCHANGED <<linksub, neighsub, main, cache, touched, stale, faults>>

LinkEvent(l, v)  == [link |-> l, state |-> v]
NeighEvent(m, i) == [mac |-> m, at |-> i]      \* at no interface: RTM_DELNEIGH

LinkChange(l, v) ==
    /\ Count /\ v # "absent" /\ v # link[l]
    /\ link' = [link EXCEPT ![l] = v]
    /\ Multicast(<<LinkEvent(l, v)>>, <<>>)
    /\ UNCHANGED <<fdb, addrs, lfib>>

(* A link that goes takes its addresses and its FDB entries with it.       *)
LinkDel(l) ==
    /\ Count /\ l \in Present
    /\ link' = [link EXCEPT ![l] = "absent"]
    /\ addrs' = addrs \ Of(addrs, l)
    /\ \E evs \in {s \in UNION {[1..n -> Macs] : n \in 0..Cardinality(Macs)} :
                      /\ {s[n] : n \in DOMAIN s} = {m \in DOMAIN fdb : fdb[m] = l}
                      /\ \A n, k \in DOMAIN s : s[n] = s[k] => n = k} :
         /\ fdb' = Without(fdb, {evs[n] : n \in DOMAIN evs})
         /\ Multicast(<<LinkEvent(l, "absent")>>,
                      [n \in DOMAIN evs |-> NeighEvent(evs[n], NoIface)])
    /\ UNCHANGED lfib

FdbChange(m, l) ==
    /\ Count /\ l \in Present /\ (m \in DOMAIN fdb => fdb[m] # l)
    /\ fdb' = With(fdb, m, l)
    /\ Multicast(<<>>, <<NeighEvent(m, l)>>)
    /\ UNCHANGED <<link, addrs, lfib>>

FdbDel(m) ==
    /\ Count /\ m \in DOMAIN fdb
    /\ fdb' = Without(fdb, {m})
    /\ Multicast(<<>>, <<NeighEvent(m, NoIface)>>)
    /\ UNCHANGED <<link, addrs, lfib>>

AddrChange(l, a) ==
    /\ Count /\ l \in Present
    /\ addrs' = IF <<l, a>> \in addrs THEN addrs \ {<<l, a>>} ELSE addrs \cup {<<l, a>>}
    /\ UNCHANGED <<link, fdb, lfib, queues, main, cache, history, faults>>

LabelChange(b, o) ==
    /\ Count
    /\ \/ (b \in DOMAIN lfib => lfib[b] # o) /\ lfib' = With(lfib, b, o)
       \/ b \in DOMAIN lfib /\ lfib' = Without(lfib, {b})
    /\ UNCHANGED <<link, fdb, addrs, queues, main, cache, history, faults>>

(* A subscription whose socket overflows ends: what was not yet received   *)
(* is lost, and the loop returns once its channel is drained.              *)
Fault == faults < MaxFaults /\ faults' = faults + 1
LinksEnd ==
    /\ Fault /\ linksub = "on" /\ linksub' = "ended"
    /\ \E n \in 0..Len(linkq) :
         /\ linkq' = SubSeq(linkq, 1, n)
         /\ missed' = missed \cup {linkq[k].link : k \in n + 1..Len(linkq)}
    /\ UNCHANGED <<kernel, neighq, neighsub, main, cache, touched, stale>>
NeighsEnd ==
    /\ Fault /\ neighsub = "on" /\ neighsub' = "ended"
    /\ \E n \in 0..Len(neighq) :
         /\ neighq' = SubSeq(neighq, 1, n)
         /\ missed' = missed \cup {neighq[k].mac : k \in n + 1..Len(neighq)}
    /\ UNCHANGED <<kernel, linkq, linksub, main, cache, touched, stale>>
-----------------------------------------------------------------------------
(* linkLoop.  RTM_DELLINK deletes the subtree of the interface.            *)
ApplyLinkStateOnly(e) ==        \* a fault: only .../state is deleted
    IF e.state = "absent"
      THEN cLink' = Without(cLink, {e.link}) /\ UNCHANGED <<cCount, cAddr>>
      ELSE cLink' = With(cLink, e.link, e.state) /\ UNCHANGED <<cCount, cAddr>>
ApplyLinkFalls(e) ==            \* a fault: no continue after the delete
    /\ cLink' = With(cLink, e.link, e.state)
    /\ UNCHANGED <<cCount, cAddr>>
ApplyLink(e) ==
    \/ /\ e.state = "absent"
       /\ cLink' = Without(cLink, {e.link})
       /\ cCount' = cCount \ {e.link} /\ cAddr' = cAddr \ Of(cAddr, e.link)
    \/ /\ e.state # "absent"
       /\ cLink' = With(cLink, e.link, e.state)
       /\ UNCHANGED <<cCount, cAddr>>

LinkLoop ==
    /\ linkq # <<>> /\ linkq' = Tail(linkq)
    /\ LET e == Head(linkq) IN
         /\ ApplyLink(e)
         /\ touched' = touched \cup {e.link} /\ stale' = stale \ {e.link}
    /\ UNCHANGED <<kernel, neighq, linksub, neighsub, main, cFdb, cLfib, missed, faults>>

(* neighLoop, and LinkByIndex at the time the event is applied.            *)
NameOf(l) == IF l \in Present THEN l ELSE NoIface
ApplyNeigh(e) ==
    \/ e.at = NoIface /\ cFdb' = Without(cFdb, {e.mac})
    \/ e.at # NoIface /\ cFdb' = With(cFdb, e.mac, NameOf(e.at))

NeighLoop ==
    /\ neighq # <<>> /\ neighq' = Tail(neighq)
    /\ LET e == Head(neighq) IN
         /\ ApplyNeigh(e)
         /\ touched' = touched \cup {e.mac} /\ stale' = stale \ {e.mac}
    /\ UNCHANGED <<kernel, linkq, linksub, neighsub, main, cLink, cCount, cAddr, cLfib,
                   missed, faults>>
-----------------------------------------------------------------------------
(* Run subscribes, first to links, then to neighbors, which may fail ...   *)
Subscribe ==
    /\ pc = "start" /\ pc' = "links?" /\ linksub' = "on"
    /\ UNCHANGED <<kernel, linkq, neighq, neighsub, first, todo, batch, cache, history, faults>>
SubscribeNeigh ==
    /\ pc = "links?" /\ pc' = "subscribed"
    /\ \/ neighsub' = "on" /\ UNCHANGED faults
       \/ Fault /\ neighsub' = "ended"
    /\ UNCHANGED <<kernel, linkq, neighq, linksub, first, todo, batch, cache, history>>

(* ... and then makes one list after another.                              *)
FollowingNoFdb ==               \* a fault: the FDB is not listed at startup
    CASE pc = "subscribed" -> "links"
      [] pc = "links"      -> "counters"
      [] pc = "counters"   -> "mpls"
      [] pc = "mpls"       -> "addrs"
      [] OTHER             -> "counters"
FollowingShort ==               \* a fault: a round leaves the addresses out
    CASE pc = "subscribed" -> "links"
      [] pc = "links"      -> "counters"
      [] pc = "counters"   -> IF first THEN "fdb" ELSE "mpls"
      [] pc = "fdb"        -> "mpls"
      [] pc = "mpls"       -> IF first THEN "addrs" ELSE "counters"
      [] OTHER             -> "counters"
Following ==
    CASE pc = "subscribed" -> "links"
      [] pc = "links"      -> "counters"
      [] pc = "counters"   -> IF first THEN "fdb" ELSE "mpls"
      [] pc = "fdb"        -> "mpls"
      [] pc = "mpls"       -> "addrs"
      [] OTHER             -> "counters"
Listed ==
    CASE Following \in {"links", "counters", "addrs"} -> [l \in Present |-> link[l]]
      [] Following = "fdb"  -> fdb
      [] Following = "mpls" -> lfib

Free == pc \notin {"start", "links?"} /\ todo = None /\ batch = {}
List ==
    /\ Free
    /\ pc' = Following /\ first' = (first /\ pc # "addrs")
    /\ todo' = Listed /\ touched' = {}
    /\ UNCHANGED <<kernel, queues, batch, cache, stale, missed, faults>>

(* A list that fails is left out; without links snapshot() gives up.       *)
ListFails ==
    /\ Free /\ Fault
    /\ pc' = IF Following = "links" THEN "addrs" ELSE Following
    /\ first' = (first /\ pc # "addrs")
    /\ stale' = stale \cup (IF Following = "links" THEN Links ELSE {})
                      \cup (IF Following \in {"links", "fdb"} THEN Macs ELSE {})
    /\ UNCHANGED <<kernel, queues, todo, batch, cache, touched, missed>>

(* One entry of the list is written, what applied to it meanwhile or not.  *)
Take(x) ==
    /\ batch = {} /\ x \in DOMAIN todo /\ todo' = Without(todo, {x})
    /\ UNCHANGED <<kernel, queues, pc, first, touched, missed, faults>>
Overtaken(x, when) == stale' = IF x \in touched /\ when THEN stale \cup {x} ELSE stale

WriteLink(l) ==
    /\ pc = "links" /\ Take(l)
    /\ cLink' = With(cLink, l, todo[l]) /\ Overtaken(l, TRUE)
    /\ UNCHANGED <<batch, cCount, cAddr, cFdb, cLfib>>
WriteCounters(l) ==
    /\ pc = "counters" /\ Take(l)
    /\ cCount' = cCount \cup {l} /\ Overtaken(l, l \notin DOMAIN cLink)
    /\ UNCHANGED <<batch, cLink, cAddr, cFdb, cLfib>>
WriteFdb(m) ==
    /\ pc = "fdb" /\ Take(m)
    /\ cFdb' = With(cFdb, m, NameOf(todo[m])) /\ Overtaken(m, TRUE)
    /\ UNCHANGED <<batch, cLink, cCount, cAddr, cLfib>>
WriteLabel(b) ==
    /\ pc = "mpls" /\ Take(b)
    /\ cLfib' = With(cLfib, b, todo[b])
    /\ UNCHANGED <<batch, cLink, cCount, cAddr, cFdb, stale>>

(* Addresses are listed link by link.                                      *)
ListAddrs(l) ==
    /\ pc = "addrs" /\ Take(l)
    /\ batch' = Of(addrs, l)
    /\ UNCHANGED <<cache, stale>>
WriteAddr ==
    /\ \E x \in batch :
         /\ batch' = batch \ {x}
         /\ cAddr' = cAddr \cup {x}
         /\ Overtaken(x[1], x[1] \notin DOMAIN cLink)
    /\ UNCHANGED <<kernel, queues, pc, first, todo, cLink, cCount, cFdb, cLfib,
                   touched, missed, faults>>

Main ==
    \/ Subscribe \/ SubscribeNeigh \/ List \/ ListFails
    \/ \E l \in Links : WriteLink(l) \/ WriteCounters(l) \/ ListAddrs(l)
    \/ \E m \in Macs : WriteFdb(m)
    \/ \E b \in Labels : WriteLabel(b)
    \/ WriteAddr

Kernel ==
    \/ \E l \in Links : LinkDel(l) \/ \E v \in {"UP", "DOWN"} : LinkChange(l, v)
    \/ \E m \in Macs : FdbDel(m) \/ \E l \in Links : FdbChange(m, l)
    \/ \E l \in Links, a \in Addrs : AddrChange(l, a)
    \/ \E b \in Labels, o \in Outs : LabelChange(b, o)
    \/ LinksEnd \/ NeighsEnd

Next == Kernel \/ LinkLoop \/ NeighLoop \/ Main

Spec == Init /\ [][Next]_vars

(* Every goroutine is scheduled, and the ticker of counterLoop ticks; the  *)
(* kernel promises no change.                                              *)
FairSpec == Spec /\ WF_vars(LinkLoop) /\ WF_vars(NeighLoop) /\ WF_vars(Main)
-----------------------------------------------------------------------------
(* Type invariant of the ingester's state and of its cache.                *)
TypeOK ==
    /\ linksub \in {"off", "on", "ended"} /\ neighsub \in {"off", "on", "ended"}
    /\ pc \in {"start", "links?", "subscribed", "links", "counters", "fdb", "mpls", "addrs"}
    /\ first \in BOOLEAN
    /\ DOMAIN todo \subseteq Links \cup Macs \cup Labels
    /\ batch \subseteq Links \X Addrs
    /\ DOMAIN cLink \subseteq Links /\ \A l \in DOMAIN cLink : cLink[l] \in {"UP", "DOWN"}
    /\ cCount \subseteq Links /\ cAddr \subseteq Links \X Addrs
    /\ DOMAIN cFdb \subseteq Macs /\ \A m \in DOMAIN cFdb : cFdb[m] \in Links \cup {NoIface}
    /\ DOMAIN cLfib \subseteq Labels /\ \A b \in DOMAIN cLfib : cLfib[b] \in Outs
    /\ touched \cup stale \cup missed \subseteq Links \cup Macs

(* Startup is over, no event waits and no list is being written.           *)
Quiet == ~first /\ linkq = <<>> /\ neighq = <<>> /\ todo = None /\ batch = {}
Unknown == stale \cup missed

(* When nothing is under way the cache has the kernel's links with their   *)
(* state of now, and nothing below a link that is gone, no counter and no  *)
(* address: subscribing before listing leaves no gap (netlink.go:42-52).   *)
(* It need not be so for a link that a list entry older than its last      *)
(* event was written to, or whose events were not received.                *)
LinksFollow ==
    Quiet => \A l \in Links \ Unknown :
        IF link[l] = "absent"
          THEN l \notin DOMAIN cLink \cup cCount /\ Of(cAddr, l) = {}
          ELSE l \in DOMAIN cLink /\ cLink[l] = link[l]

(* Likewise the FDB is the kernel's, each MAC at the interface where it is *)
(* now, although its name is asked for later (netlink.go:120-143, 274-298).*)
FdbFollows ==
    Quiet => \A m \in Macs \ Unknown :
        /\ m \in DOMAIN fdb <=> m \in DOMAIN cFdb
        /\ m \in DOMAIN fdb => cFdb[m] = fdb[m]

(* Rounds make up for what no event tells and for what a late DELLINK of   *)
(* an interface that came back deleted: once the kernel rests, its labels, *)
(* addresses and counters are in the cache and stay (netlink.go:147-155).  *)
PollConverges ==
    <>[](/\ \A b \in DOMAIN lfib : b \in DOMAIN cLfib /\ cLfib[b] = lfib[b]
         /\ addrs \subseteq cAddr
         /\ Present \subseteq cCount)
=============================================================================
