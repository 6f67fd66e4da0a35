------------------------- MODULE NetlinkIngest_proofs -------------------------
(***************************************************************************)
(* Proofs about NetlinkIngest, for every set of links, MACs, addresses and *)
(* labels, every number of changes of the kernel and every number of       *)
(* faults: what the two event loops and the lists of the main goroutine    *)
(* leave in the cache.                                                     *)
(***************************************************************************)
EXTENDS NetlinkIngest, TLAPS

(* The type of what TypeOK leaves open: the kernel's tables, where an FDB  *)
(* entry is at a link that is there, the events on their way, and the      *)
(* list, whose entries have the type of the table that was listed last.    *)
KernelTyped ==
    /\ link \in [Links -> {"UP", "DOWN", "absent"}]
    /\ DOMAIN fdb \subseteq Macs /\ \A m \in DOMAIN fdb : fdb[m] \in Present
    /\ addrs \subseteq Links \X Addrs
    /\ DOMAIN lfib \subseteq Labels /\ \A b \in DOMAIN lfib : lfib[b] \in Outs
EventsTyped ==
    /\ linkq \in Seq([link : Links, state : {"UP", "DOWN", "absent"}])
    /\ neighq \in Seq([mac : Macs, at : Links \cup {NoIface}])
ListTyped ==
    /\ pc \in {"start", "links?", "subscribed"} => DOMAIN todo = {}
    /\ pc \in {"links", "counters", "addrs"} =>
          DOMAIN todo \subseteq Links /\ \A l \in DOMAIN todo : todo[l] \in {"UP", "DOWN"}
    /\ pc = "fdb" => DOMAIN todo \subseteq Macs /\ \A m \in DOMAIN todo : todo[m] \in Links
    /\ pc = "mpls" => DOMAIN todo \subseteq Labels /\ \A b \in DOMAIN todo : todo[b] \in Outs
Typed == TypeOK /\ KernelTyped /\ EventsTyped /\ ListTyped

(* Before its subscription a loop has nothing to do, and startup goes      *)
(* through the lists in order.                                             *)
Order ==
    /\ linksub = "off" <=> pc = "start"
    /\ linksub = "off" => linkq = <<>> /\ touched = {} /\ batch = {}
    /\ linksub = "off" => DOMAIN cLink = {} /\ cCount = {} /\ cAddr = {}
    /\ neighsub = "off" <=> pc \in {"start", "links?"}
    /\ neighsub = "off" => neighq = <<>> /\ touched \cap Macs = {} /\ DOMAIN cFdb = {}
    /\ ~first => pc \in {"counters", "mpls", "addrs"}
    /\ batch # {} => pc = "addrs"

-----------------------------------------------------------------------------
(* The events about one link (one MAC) in a queue: there are none, or the  *)
(* last of them says v.                                                    *)
NoneFor(q, l) == \A n \in 1..Len(q) : q[n].link # l
LastFor(q, l, v) ==
    \A n \in 1..Len(q) :
        q[n].link = l /\ (\A k \in n + 1..Len(q) : q[k].link # l) => q[n].state = v
NoneOf(q, m) == \A n \in 1..Len(q) : q[n].mac # m
LastOf(q, m, v) ==
    \A n \in 1..Len(q) :
        q[n].mac = m /\ (\A k \in n + 1..Len(q) : q[k].mac # m) => q[n].at = v
At(f, m) == IF m \in DOMAIN f THEN f[m] ELSE NoIface

(* A link: what its last event says is so, and once no event of it waits   *)
(* the cache is right about it, unless the list of links still has to      *)
(* write it.  A list entry is what the kernel has now if no event was      *)
(* applied since that list and none waits, which is why an entry that is   *)
(* not overtaken does no harm.                                             *)
ToBeListed(l) ==
    pc \in {"start", "links?", "subscribed"} \/ (pc = "links" /\ l \in DOMAIN todo)
RightAbove(l) ==
    IF link[l] = "absent" THEN l \notin DOMAIN cLink
                          ELSE l \in DOMAIN cLink /\ cLink[l] = link[l]
RightBelow(l) == link[l] = "absent" => l \notin cCount /\ Of(cAddr, l) = {}
LinkSettled(l) ==
    l \notin stale /\ NoneFor(linkq, l) =>
        /\ RightBelow(l)
        /\ l \in DOMAIN cLink \/ l \in touched \/ ~ToBeListed(l) => RightAbove(l)
LinkListed(l) ==
    l \notin touched /\ NoneFor(linkq, l) =>
        /\ pc \in {"links", "counters", "addrs"} /\ l \in DOMAIN todo => todo[l] = link[l]
        /\ Of(batch, l) # {} => link[l] # "absent"
LinkOK(l) ==
    l \notin missed => LastFor(linkq, l, link[l]) /\ LinkSettled(l) /\ LinkListed(l)
LinksInv == \A l \in Links : LinkOK(l)

(* A MAC of the FDB, which is listed once, at startup.                     *)
FdbToBeListed(m) ==
    \/ pc \in {"start", "links?", "subscribed", "links"}
    \/ pc = "counters" /\ first
    \/ pc = "fdb" /\ m \in DOMAIN todo
FdbRight(m) ==
    /\ m \in DOMAIN fdb <=> m \in DOMAIN cFdb
    /\ m \in DOMAIN fdb => cFdb[m] = fdb[m]
MacSettled(m) ==
    m \notin stale /\ NoneOf(neighq, m) =>
        (m \in DOMAIN cFdb \/ m \in touched \/ ~FdbToBeListed(m) => FdbRight(m))
MacListed(m) ==
    m \notin touched /\ NoneOf(neighq, m) /\ pc = "fdb" /\ m \in DOMAIN todo =>
        m \in DOMAIN fdb /\ todo[m] = fdb[m]
MacOK(m) ==
    m \notin missed => LastOf(neighq, m, At(fdb, m)) /\ MacSettled(m) /\ MacListed(m)
MacsInv == \A m \in Macs : MacOK(m)

-----------------------------------------------------------------------------
(* Queues of link events.  What the kernel appends (Multicast) has the     *)
(* last word about the links it is about, and no word about others.        *)
LEMMA LinkAppend ==
  ASSUME NEW S, NEW q \in Seq(S), NEW e \in Seq(S), NEW l, NEW v
  PROVE  /\ NoneFor(q \o e, l) <=> NoneFor(q, l) /\ NoneFor(e, l)
         /\ NoneFor(e, l) /\ LastFor(q, l, v) => LastFor(q \o e, l, v)
         /\ ~NoneFor(e, l) /\ LastFor(e, l, v) => LastFor(q \o e, l, v)
<1> DEFINE r == q \o e
<1>1. /\ Len(r) = Len(q) + Len(e) /\ Len(q) \in Nat /\ Len(e) \in Nat
      /\ \A n \in 1..Len(q) : r[n] = q[n]
      /\ \A n \in 1..Len(e) : r[Len(q) + n] = e[n]
  OBVIOUS
<1> HIDE DEF r
<1>2. \A n \in 1..Len(r) : n \in 1..Len(q) \/ (n - Len(q) \in 1..Len(e) /\ r[n] = e[n - Len(q)])
  <2> TAKE n \in 1..Len(r)
  <2>1. CASE n <= Len(q)
    BY <1>1, <2>1
  <2>2. CASE n > Len(q)
    <3>1. n - Len(q) \in 1..Len(e) /\ n = Len(q) + (n - Len(q))
      BY <1>1, <2>2
    <3> QED BY <1>1, <3>1
  <2> QED BY <1>1, <2>1, <2>2
<1>3. NoneFor(r, l) <=> NoneFor(q, l) /\ NoneFor(e, l)
  <2>1. NoneFor(r, l) => NoneFor(q, l)
    BY <1>1 DEF NoneFor
  <2>2. ASSUME NoneFor(r, l), NEW n \in 1..Len(e) PROVE e[n].link # l
    <3>1. Len(q) + n \in 1..Len(r)
      BY <1>1
    <3> QED BY <1>1, <2>2, <3>1 DEF NoneFor
  <2>3. NoneFor(q, l) /\ NoneFor(e, l) => NoneFor(r, l)
    BY <1>1, <1>2 DEF NoneFor
  <2> QED BY <2>1, <2>2, <2>3 DEF NoneFor
<1>4. ASSUME NoneFor(e, l), LastFor(q, l, v), NEW n \in 1..Len(r), r[n].link = l,
             \A k \in n + 1..Len(r) : r[k].link # l
      PROVE  r[n].state = v
  <2>1. n \in 1..Len(q)
    BY <1>2, <1>4 DEF NoneFor
  <2>2. \A k \in n + 1..Len(q) : k \in n + 1..Len(r) /\ k \in 1..Len(q)
    BY <1>1, <2>1
  <2>3. \A k \in n + 1..Len(q) : q[k].link # l
    BY <1>1, <1>4, <2>2
  <2> QED BY <1>1, <1>4, <2>1, <2>3 DEF LastFor
<1>5. ASSUME ~NoneFor(e, l), LastFor(e, l, v), NEW n \in 1..Len(r), r[n].link = l,
             \A k \in n + 1..Len(r) : r[k].link # l
      PROVE  r[n].state = v
  <2>1. PICK j \in 1..Len(e) : e[j].link = l
    BY <1>5 DEF NoneFor
  <2>2. Len(q) + j \in 1..Len(r) /\ r[Len(q) + j].link = l
    BY <1>1, <2>1
  <2>3. ~(n < Len(q) + j)
    <3> SUFFICES ASSUME n < Len(q) + j PROVE Len(q) + j \in n + 1..Len(r)
      BY <1>5, <2>2
    <3> QED BY <1>1, <2>2
  <2>4. n - Len(q) \in 1..Len(e) /\ r[n] = e[n - Len(q)]
    BY <1>1, <1>2, <2>3
  <2>5. ASSUME NEW k \in n - Len(q) + 1..Len(e) PROVE e[k].link # l
    <3>1. Len(q) + k \in n + 1..Len(r) /\ k \in 1..Len(e)
      BY <1>1, <2>4
    <3> QED BY <1>1, <1>5, <3>1
  <2> QED BY <1>5, <2>4, <2>5 DEF LastFor
<1>6. (NoneFor(e, l) /\ LastFor(q, l, v)) \/ (~NoneFor(e, l) /\ LastFor(e, l, v))
        => LastFor(r, l, v)
  BY <1>4, <1>5 DEF LastFor
<1> QED BY <1>3, <1>6 DEF r

(* linkLoop takes the first event: if no other about that link waits, it   *)
(* was the last one.                                                       *)
LEMMA LinkTake ==
  ASSUME NEW S, NEW q \in Seq(S), q # <<>>, NEW l, NEW v
  PROVE  /\ LastFor(q, l, v) => LastFor(Tail(q), l, v)
         /\ NoneFor(q, l) => NoneFor(Tail(q), l)
         /\ NoneFor(Tail(q), l) /\ Head(q).link # l => NoneFor(q, l)
         /\ NoneFor(Tail(q), l) /\ Head(q).link = l /\ LastFor(q, l, v) => Head(q).state = v
<1> DEFINE r == Tail(q)
<1>1. /\ Len(q) \in Nat \ {0} /\ Len(r) = Len(q) - 1 /\ Head(q) = q[1]
      /\ \A n \in 1..Len(r) : r[n] = q[n + 1]
  OBVIOUS
<1> HIDE DEF r
<1>2. \A n \in 1..Len(q) : n = 1 \/ (n - 1 \in 1..Len(r) /\ r[n - 1] = q[n])
  <2> TAKE n \in 1..Len(q)
  <2>1. n # 1 => n - 1 \in 1..Len(r) /\ (n - 1) + 1 = n
    BY <1>1
  <2> QED BY <1>1, <2>1
<1>3. NoneFor(r, l) /\ Head(q).link # l => NoneFor(q, l)
  BY <1>1, <1>2 DEF NoneFor
<1>4. NoneFor(q, l) => NoneFor(r, l)
  <2>1. \A n \in 1..Len(r) : n + 1 \in 1..Len(q)
    BY <1>1
  <2> QED BY <1>1, <2>1 DEF NoneFor
<1>5. ASSUME LastFor(q, l, v), NEW n \in 1..Len(r), r[n].link = l,
             \A k \in n + 1..Len(r) : r[k].link # l
      PROVE  r[n].state = v
  <2>1. n + 1 \in 1..Len(q) /\ q[n + 1] = r[n]
    BY <1>1
  <2>2. ASSUME NEW k \in (n + 1) + 1..Len(q) PROVE q[k].link # l
    <3>1. k - 1 \in n + 1..Len(r) /\ k \in 1..Len(q) /\ k # 1
      BY <1>1
    <3> QED BY <1>2, <1>5, <3>1
  <2> QED BY <1>5, <2>1, <2>2 DEF LastFor
<1>6. ASSUME NoneFor(r, l), Head(q).link = l, LastFor(q, l, v) PROVE Head(q).state = v
  <2>1. \A k \in 1 + 1..Len(q) : k \in 1..Len(q) /\ k # 1
    BY <1>1
  <2>2. \A k \in 1 + 1..Len(q) : q[k].link # l
    BY <1>2, <1>6, <2>1 DEF NoneFor
  <2> QED BY <1>1, <1>6, <2>2 DEF LastFor
<1> QED BY <1>3, <1>4, <1>5, <1>6 DEF LastFor, r

(* A subscription that ends loses the events after the first c (LinksEnd): *)
(* nothing changes for a link that none of these is about.                 *)
LEMMA LinkCut ==
  ASSUME NEW S, NEW q \in Seq(S), NEW c \in 0..Len(q), NEW l, NEW v,
         \A n \in c + 1..Len(q) : q[n].link # l
  PROVE  /\ SubSeq(q, 1, c) \in Seq(S)
         /\ LastFor(q, l, v) => LastFor(SubSeq(q, 1, c), l, v)
         /\ NoneFor(SubSeq(q, 1, c), l) <=> NoneFor(q, l)
<1> DEFINE r == SubSeq(q, 1, c)
<1>1. /\ Len(q) \in Nat /\ r \in Seq(S) /\ Len(r) = c
      /\ \A n \in 1..c : r[n] = q[n]
  OBVIOUS
<1> HIDE DEF r
<1>2. \A n \in 1..Len(q) : n \in 1..c \/ n \in c + 1..Len(q)
  BY <1>1
<1>3. \A n \in 1..c : n \in 1..Len(q)
  BY <1>1
<1>4. NoneFor(r, l) <=> NoneFor(q, l)
  BY <1>1, <1>2, <1>3 DEF NoneFor
<1>5. ASSUME LastFor(q, l, v), NEW n \in 1..Len(r), r[n].link = l,
             \A k \in n + 1..Len(r) : r[k].link # l
      PROVE  r[n].state = v
  <2>1. \A k \in n + 1..Len(q) : (k \in 1..c /\ k \in n + 1..Len(r)) \/ k \in c + 1..Len(q)
    BY <1>1
  <2>2. \A k \in n + 1..Len(q) : q[k].link # l
    BY <1>1, <1>5, <2>1
  <2> QED BY <1>1, <1>3, <1>5, <2>2 DEF LastFor
<1> QED BY <1>1, <1>4, <1>5 DEF LastFor, r

(* Queues of FDB events, likewise: what Multicast appends to them, ...     *)
LEMMA MacAppend ==
  ASSUME NEW S, NEW q \in Seq(S), NEW e \in Seq(S), NEW m, NEW v
  PROVE  /\ NoneOf(q \o e, m) <=> NoneOf(q, m) /\ NoneOf(e, m)
         /\ NoneOf(e, m) /\ LastOf(q, m, v) => LastOf(q \o e, m, v)
         /\ ~NoneOf(e, m) /\ LastOf(e, m, v) => LastOf(q \o e, m, v)
<1> DEFINE r == q \o e
<1>1. /\ Len(r) = Len(q) + Len(e) /\ Len(q) \in Nat /\ Len(e) \in Nat
      /\ \A n \in 1..Len(q) : r[n] = q[n]
      /\ \A n \in 1..Len(e) : r[Len(q) + n] = e[n]
  OBVIOUS
<1> HIDE DEF r
<1>2. \A n \in 1..Len(r) : n \in 1..Len(q) \/ (n - Len(q) \in 1..Len(e) /\ r[n] = e[n - Len(q)])
  <2> TAKE n \in 1..Len(r)
  <2>1. CASE n <= Len(q)
    BY <1>1, <2>1
  <2>2. CASE n > Len(q)
    <3>1. n - Len(q) \in 1..Len(e) /\ n = Len(q) + (n - Len(q))
      BY <1>1, <2>2
    <3> QED BY <1>1, <3>1
  <2> QED BY <1>1, <2>1, <2>2
<1>3. NoneOf(r, m) <=> NoneOf(q, m) /\ NoneOf(e, m)
  <2>1. NoneOf(r, m) => NoneOf(q, m)
    BY <1>1 DEF NoneOf
  <2>2. ASSUME NoneOf(r, m), NEW n \in 1..Len(e) PROVE e[n].mac # m
    <3>1. Len(q) + n \in 1..Len(r)
      BY <1>1
    <3> QED BY <1>1, <2>2, <3>1 DEF NoneOf
  <2>3. NoneOf(q, m) /\ NoneOf(e, m) => NoneOf(r, m)
    BY <1>1, <1>2 DEF NoneOf
  <2> QED BY <2>1, <2>2, <2>3 DEF NoneOf
<1>4. ASSUME NoneOf(e, m), LastOf(q, m, v), NEW n \in 1..Len(r), r[n].mac = m,
             \A k \in n + 1..Len(r) : r[k].mac # m
      PROVE  r[n].at = v
  <2>1. n \in 1..Len(q)
    BY <1>2, <1>4 DEF NoneOf
  <2>2. \A k \in n + 1..Len(q) : k \in n + 1..Len(r) /\ k \in 1..Len(q)
    BY <1>1, <2>1
  <2>3. \A k \in n + 1..Len(q) : q[k].mac # m
    BY <1>1, <1>4, <2>2
  <2> QED BY <1>1, <1>4, <2>1, <2>3 DEF LastOf
<1>5. ASSUME ~NoneOf(e, m), LastOf(e, m, v), NEW n \in 1..Len(r), r[n].mac = m,
             \A k \in n + 1..Len(r) : r[k].mac # m
      PROVE  r[n].at = v
  <2>1. PICK j \in 1..Len(e) : e[j].mac = m
    BY <1>5 DEF NoneOf
  <2>2. Len(q) + j \in 1..Len(r) /\ r[Len(q) + j].mac = m
    BY <1>1, <2>1
  <2>3. ~(n < Len(q) + j)
    <3> SUFFICES ASSUME n < Len(q) + j PROVE Len(q) + j \in n + 1..Len(r)
      BY <1>5, <2>2
    <3> QED BY <1>1, <2>2
  <2>4. n - Len(q) \in 1..Len(e) /\ r[n] = e[n - Len(q)]
    BY <1>1, <1>2, <2>3
  <2>5. ASSUME NEW k \in n - Len(q) + 1..Len(e) PROVE e[k].mac # m
    <3>1. Len(q) + k \in n + 1..Len(r) /\ k \in 1..Len(e)
      BY <1>1, <2>4
    <3> QED BY <1>1, <1>5, <3>1
  <2> QED BY <1>5, <2>4, <2>5 DEF LastOf
<1>6. (NoneOf(e, m) /\ LastOf(q, m, v)) \/ (~NoneOf(e, m) /\ LastOf(e, m, v))
        => LastOf(r, m, v)
  BY <1>4, <1>5 DEF LastOf
<1> QED BY <1>3, <1>6 DEF r

(* ... what neighLoop takes from the front, ...                            *)
LEMMA MacTake ==
  ASSUME NEW S, NEW q \in Seq(S), q # <<>>, NEW m, NEW v
  PROVE  /\ LastOf(q, m, v) => LastOf(Tail(q), m, v)
         /\ NoneOf(q, m) => NoneOf(Tail(q), m)
         /\ NoneOf(Tail(q), m) /\ Head(q).mac # m => NoneOf(q, m)
         /\ NoneOf(Tail(q), m) /\ Head(q).mac = m /\ LastOf(q, m, v) => Head(q).at = v
<1> DEFINE r == Tail(q)
<1>1. /\ Len(q) \in Nat \ {0} /\ Len(r) = Len(q) - 1 /\ Head(q) = q[1]
      /\ \A n \in 1..Len(r) : r[n] = q[n + 1]
  OBVIOUS
<1> HIDE DEF r
<1>2. \A n \in 1..Len(q) : n = 1 \/ (n - 1 \in 1..Len(r) /\ r[n - 1] = q[n])
  <2> TAKE n \in 1..Len(q)
  <2>1. n # 1 => n - 1 \in 1..Len(r) /\ (n - 1) + 1 = n
    BY <1>1
  <2> QED BY <1>1, <2>1
<1>3. NoneOf(r, m) /\ Head(q).mac # m => NoneOf(q, m)
  BY <1>1, <1>2 DEF NoneOf
<1>4. NoneOf(q, m) => NoneOf(r, m)
  <2>1. \A n \in 1..Len(r) : n + 1 \in 1..Len(q)
    BY <1>1
  <2> QED BY <1>1, <2>1 DEF NoneOf
<1>5. ASSUME LastOf(q, m, v), NEW n \in 1..Len(r), r[n].mac = m,
             \A k \in n + 1..Len(r) : r[k].mac # m
      PROVE  r[n].at = v
  <2>1. n + 1 \in 1..Len(q) /\ q[n + 1] = r[n]
    BY <1>1
  <2>2. ASSUME NEW k \in (n + 1) + 1..Len(q) PROVE q[k].mac # m
    <3>1. k - 1 \in n + 1..Len(r) /\ k \in 1..Len(q) /\ k # 1
      BY <1>1
    <3> QED BY <1>2, <1>5, <3>1
  <2> QED BY <1>5, <2>1, <2>2 DEF LastOf
<1>6. ASSUME NoneOf(r, m), Head(q).mac = m, LastOf(q, m, v) PROVE Head(q).at = v
  <2>1. \A k \in 1 + 1..Len(q) : k \in 1..Len(q) /\ k # 1
    BY <1>1
  <2>2. \A k \in 1 + 1..Len(q) : q[k].mac # m
    BY <1>2, <1>6, <2>1 DEF NoneOf
  <2> QED BY <1>1, <1>6, <2>2 DEF LastOf
<1> QED BY <1>3, <1>4, <1>5, <1>6 DEF LastOf, r

(* ... and what is cut off at the end (NeighsEnd).                         *)
LEMMA MacCut ==
  ASSUME NEW S, NEW q \in Seq(S), NEW c \in 0..Len(q), NEW m, NEW v,
         \A n \in c + 1..Len(q) : q[n].mac # m
  PROVE  /\ SubSeq(q, 1, c) \in Seq(S)
         /\ LastOf(q, m, v) => LastOf(SubSeq(q, 1, c), m, v)
         /\ NoneOf(SubSeq(q, 1, c), m) <=> NoneOf(q, m)
<1> DEFINE r == SubSeq(q, 1, c)
<1>1. /\ Len(q) \in Nat /\ r \in Seq(S) /\ Len(r) = c
      /\ \A n \in 1..c : r[n] = q[n]
  OBVIOUS
<1> HIDE DEF r
<1>2. \A n \in 1..Len(q) : n \in 1..c \/ n \in c + 1..Len(q)
  BY <1>1
<1>3. \A n \in 1..c : n \in 1..Len(q)
  BY <1>1
<1>4. NoneOf(r, m) <=> NoneOf(q, m)
  BY <1>1, <1>2, <1>3 DEF NoneOf
<1>5. ASSUME LastOf(q, m, v), NEW n \in 1..Len(r), r[n].mac = m,
             \A k \in n + 1..Len(r) : r[k].mac # m
      PROVE  r[n].at = v
  <2>1. \A k \in n + 1..Len(q) : (k \in 1..c /\ k \in n + 1..Len(r)) \/ k \in c + 1..Len(q)
    BY <1>1
  <2>2. \A k \in n + 1..Len(q) : q[k].mac # m
    BY <1>1, <1>5, <2>1
  <2> QED BY <1>1, <1>3, <1>5, <2>2 DEF LastOf
<1> QED BY <1>1, <1>4, <1>5 DEF LastOf, r

-----------------------------------------------------------------------------
(* What a Go map holds after one of its keys is set or some are deleted.   *)
LEMMA MapsAre ==
  /\ \A f, x, v : /\ DOMAIN With(f, x, v) = DOMAIN f \cup {x} /\ With(f, x, v)[x] = v
                  /\ \A y \in DOMAIN f \ {x} : With(f, x, v)[y] = f[y]
  /\ \A f, S : /\ DOMAIN Without(f, S) = DOMAIN f \ S
               /\ \A y \in DOMAIN f \ S : Without(f, S)[y] = f[y]
  /\ DOMAIN None = {}
  BY DEF With, Without, None

(* What waits in a queue has the type of its elements.                     *)
LEMMA ElementType ==
  ASSUME NEW S, NEW q \in Seq(S)
  PROVE  /\ \A n \in DOMAIN q : q[n] \in S /\ n \in 1..Len(q)
         /\ q # <<>> => Head(q) \in S /\ Tail(q) \in Seq(S)
  OBVIOUS

LinkEvents  == Seq([link : Links, state : {"UP", "DOWN", "absent"}])
NeighEvents == Seq([mac : Macs, at : Links \cup {NoIface}])

(* What the kernel multicasts keeps the queues' type.                      *)
LEMMA MulticastType ==
  ASSUME Typed, NEW le \in LinkEvents, NEW ne \in NeighEvents, Multicast(le, ne)
  PROVE  EventsTyped' /\ missed' \subseteq Links \cup Macs
<1> USE DEF LinkEvents, NeighEvents
<1>1. linkq' \in LinkEvents /\ neighq' \in NeighEvents
  BY DEF Multicast, Typed, EventsTyped
<1>2. \A n \in DOMAIN le : le[n].link \in Links
  <2>1. \A n \in DOMAIN le : le[n] \in [link : Links, state : {"UP", "DOWN", "absent"}]
    BY ElementType
  <2> QED BY <2>1
<1>3. \A n \in DOMAIN ne : ne[n].mac \in Macs
  <2>1. \A n \in DOMAIN ne : ne[n] \in [mac : Macs, at : Links \cup {NoIface}]
    BY ElementType
  <2> QED BY <2>1
<1>4. missed' \subseteq Links \cup Macs
  BY <1>2, <1>3 DEF Multicast, Typed, TypeOK
<1> QED BY <1>1, <1>4 DEF EventsTyped

(* The type invariant is kept by the kernel, which writes no cache, ...    *)
LEMMA KernelType == Typed /\ Kernel => Typed'
<1> SUFFICES ASSUME Typed, Kernel PROVE Typed'
  OBVIOUS
<1> USE DEF Typed, main, cache
<1>1. ASSUME KernelTyped', EventsTyped', missed' \subseteq Links \cup Macs,
             UNCHANGED <<main, cache, touched, stale>>,
             linksub' \in {"off", "on", "ended"}, neighsub' \in {"off", "on", "ended"}
      PROVE  Typed'
  BY <1>1 DEF TypeOK, ListTyped
<1>2. ASSUME NEW le \in LinkEvents, NEW ne \in NeighEvents, Multicast(le, ne), KernelTyped'
      PROVE  Typed'
  BY <1>1, <1>2, MulticastType DEF Multicast, TypeOK
<1>3. ASSUME NEW l \in Links, LinkDel(l) PROVE Typed'
  <2>1. PICK evs \in {s \in UNION {[1..n -> Macs] : n \in 0..Cardinality(Macs)} :
                      /\ {s[n] : n \in DOMAIN s} = {m \in DOMAIN fdb : fdb[m] = l}
                      /\ \A n, k \in DOMAIN s : s[n] = s[k] => n = k} :
         /\ fdb' = Without(fdb, {evs[n] : n \in DOMAIN evs})
         /\ Multicast(<<LinkEvent(l, "absent")>>,
                      [n \in DOMAIN evs |-> NeighEvent(evs[n], NoIface)])
    BY <1>3 DEF LinkDel
  <2>2. PICK c \in 0..Cardinality(Macs) : evs \in [1..c -> Macs]
    OBVIOUS
  <2>3. [n \in DOMAIN evs |-> NeighEvent(evs[n], NoIface)] \in NeighEvents
    <3>1. c \in Nat
      BY <2>2
    <3> QED BY <2>2, <3>1 DEF NeighEvents, NeighEvent
  <2>4. <<LinkEvent(l, "absent")>> \in LinkEvents
    BY DEF LinkEvents, LinkEvent
  <2>5. DOMAIN fdb' = {m \in DOMAIN fdb : fdb[m] # l} /\ \A m \in DOMAIN fdb' : fdb'[m] = fdb[m]
    BY <2>1, <2>2 DEF Without
  <2>6. KernelTyped'
    BY <1>3, <2>5 DEF LinkDel, KernelTyped, Present, Of
  <2> QED BY <1>2, <2>1, <2>3, <2>4, <2>6
<1>4. ASSUME NEW l \in Links, NEW v \in {"UP", "DOWN"}, LinkChange(l, v) PROVE Typed'
  <2>1. <<LinkEvent(l, v)>> \in LinkEvents /\ <<>> \in NeighEvents
    BY DEF LinkEvents, NeighEvents, LinkEvent
  <2>2. KernelTyped'
    BY <1>4 DEF LinkChange, KernelTyped, Present
  <2> QED BY <1>2, <1>4, <2>1, <2>2 DEF LinkChange
<1>5. ASSUME NEW m \in Macs, FdbDel(m) PROVE Typed'
  <2>1. <<>> \in LinkEvents /\ <<NeighEvent(m, NoIface)>> \in NeighEvents
    BY DEF LinkEvents, NeighEvents, NeighEvent
  <2>2. KernelTyped'
    BY <1>5 DEF FdbDel, KernelTyped, Present, Without
  <2> QED BY <1>2, <1>5, <2>1, <2>2 DEF FdbDel
<1>6. ASSUME NEW m \in Macs, NEW l \in Links, FdbChange(m, l) PROVE Typed'
  <2>1. <<>> \in LinkEvents /\ <<NeighEvent(m, l)>> \in NeighEvents
    BY DEF LinkEvents, NeighEvents, NeighEvent
  <2>2. KernelTyped'
    BY <1>6 DEF FdbChange, KernelTyped, Present, With
  <2> QED BY <1>2, <1>6, <2>1, <2>2 DEF FdbChange
<1>7. ASSUME NEW l \in Links, NEW a \in Addrs, AddrChange(l, a) PROVE Typed'
  <2>1. KernelTyped'
    BY <1>7 DEF AddrChange, KernelTyped, Present
  <2> QED BY <1>1, <1>7, <2>1 DEF AddrChange, queues, history, EventsTyped, TypeOK
<1>8. ASSUME NEW b \in Labels, NEW o \in Outs, LabelChange(b, o) PROVE Typed'
  <2>1. DOMAIN lfib' \subseteq Labels /\ \A c \in DOMAIN lfib' : lfib'[c] \in Outs
    BY <1>8 DEF LabelChange, KernelTyped, With, Without
  <2>2. KernelTyped'
    BY <1>8, <2>1 DEF LabelChange, KernelTyped, Present
  <2> QED BY <1>1, <1>8, <2>2 DEF LabelChange, queues, history, EventsTyped, TypeOK
<1>9. CASE LinksEnd
  <2>1. PICK n \in 0..Len(linkq) :
          /\ linkq' = SubSeq(linkq, 1, n)
          /\ missed' = missed \cup {linkq[k].link : k \in n + 1..Len(linkq)}
    BY <1>9 DEF LinksEnd
  <2>2. linkq' \in LinkEvents /\ \A k \in n + 1..Len(linkq) : linkq[k].link \in Links
    <3>1. \A k \in DOMAIN linkq : linkq[k] \in [link : Links, state : {"UP", "DOWN", "absent"}]
      BY ElementType DEF EventsTyped
    <3>2. \A k \in n + 1..Len(linkq) : k \in DOMAIN linkq
      BY DEF EventsTyped
    <3> QED BY <2>1, <3>1, <3>2 DEF EventsTyped, LinkEvents
  <2>3. missed' \subseteq Links \cup Macs
    BY <2>1, <2>2 DEF TypeOK
  <2>4. EventsTyped' /\ KernelTyped'
    BY <1>9, <2>2 DEF LinksEnd, EventsTyped, LinkEvents, KernelTyped, kernel, Present
  <2> QED BY <1>1, <1>9, <2>3, <2>4 DEF LinksEnd, TypeOK
<1>10. CASE NeighsEnd
  <2>1. PICK n \in 0..Len(neighq) :
          /\ neighq' = SubSeq(neighq, 1, n)
          /\ missed' = missed \cup {neighq[k].mac : k \in n + 1..Len(neighq)}
    BY <1>10 DEF NeighsEnd
  <2>2. neighq' \in NeighEvents /\ \A k \in n + 1..Len(neighq) : neighq[k].mac \in Macs
    <3>1. \A k \in DOMAIN neighq : neighq[k] \in [mac : Macs, at : Links \cup {NoIface}]
      BY ElementType DEF EventsTyped
    <3>2. \A k \in n + 1..Len(neighq) : k \in DOMAIN neighq
      BY DEF EventsTyped
    <3> QED BY <2>1, <3>1, <3>2 DEF EventsTyped, NeighEvents
  <2>3. missed' \subseteq Links \cup Macs
    BY <2>1, <2>2 DEF TypeOK
  <2>4. EventsTyped' /\ KernelTyped'
    BY <1>10, <2>2 DEF NeighsEnd, EventsTyped, NeighEvents, KernelTyped, kernel, Present
  <2> QED BY <1>1, <1>10, <2>3, <2>4 DEF NeighsEnd, TypeOK
<1> QED BY <1>3, <1>4, <1>5, <1>6, <1>7, <1>8, <1>9, <1>10 DEF Kernel

(* ... by the two event loops, of which neighLoop looks up a name, ...     *)
LEMMA LoopType == Typed /\ (LinkLoop \/ NeighLoop) => Typed'
<1> SUFFICES ASSUME Typed, LinkLoop \/ NeighLoop PROVE Typed'
  OBVIOUS
<1> USE DEF Typed
<1>1. CASE LinkLoop
  <2> DEFINE e == Head(linkq)
  <2>1. e \in [link : Links, state : {"UP", "DOWN", "absent"}]
        /\ Tail(linkq) \in Seq([link : Links, state : {"UP", "DOWN", "absent"}])
    BY <1>1, ElementType DEF LinkLoop, EventsTyped
  <2>2. e.link \in Links /\ e.state \in {"UP", "DOWN", "absent"}
    BY <2>1
  <2>3. ApplyLink(e) /\ touched' = touched \cup {e.link} /\ stale' = stale \ {e.link}
    BY <1>1 DEF LinkLoop
  <2> HIDE DEF e
  <2>4. /\ DOMAIN cLink' \subseteq Links /\ \A l \in DOMAIN cLink' : cLink'[l] \in {"UP", "DOWN"}
        /\ cCount' \subseteq Links /\ cAddr' \subseteq Links \X Addrs
    BY <2>2, <2>3 DEF ApplyLink, With, Without, TypeOK
  <2>5. (touched \cup stale \cup missed)' \subseteq Links \cup Macs
    BY <1>1, <2>2, <2>3 DEF LinkLoop, TypeOK
  <2>6. KernelTyped' /\ EventsTyped' /\ ListTyped'
    BY <1>1, <2>1 DEF LinkLoop, kernel, main, KernelTyped, Present, EventsTyped, ListTyped
  <2> QED BY <1>1, <2>4, <2>5, <2>6 DEF LinkLoop, kernel, main, TypeOK
<1>2. CASE NeighLoop
  <2> DEFINE e == Head(neighq)
  <2>1. e \in [mac : Macs, at : Links \cup {NoIface}]
        /\ Tail(neighq) \in Seq([mac : Macs, at : Links \cup {NoIface}])
    BY <1>2, ElementType DEF NeighLoop, EventsTyped
  <2>2. e.mac \in Macs
    BY <2>1
  <2>3. ApplyNeigh(e) /\ touched' = touched \cup {e.mac} /\ stale' = stale \ {e.mac}
    BY <1>2 DEF NeighLoop
  <2> HIDE DEF e
  <2>4. DOMAIN cFdb' \subseteq Macs /\ \A m \in DOMAIN cFdb' : cFdb'[m] \in Links \cup {NoIface}
    BY <2>2, <2>3 DEF ApplyNeigh, NameOf, Present, With, Without, TypeOK
  <2>5. (touched \cup stale \cup missed)' \subseteq Links \cup Macs
    BY <1>2, <2>2, <2>3 DEF NeighLoop, TypeOK
  <2>6. KernelTyped' /\ EventsTyped' /\ ListTyped'
    BY <1>2, <2>1 DEF NeighLoop, kernel, main, KernelTyped, Present, EventsTyped, ListTyped
  <2> QED BY <1>2, <2>4, <2>5, <2>6 DEF NeighLoop, kernel, main, TypeOK
<1> QED BY <1>1, <1>2

(* ... and by the main goroutine, one entry of one list at a time.         *)
LEMMA MainType == Typed /\ Main => Typed'
<1> SUFFICES ASSUME Typed, Main PROVE Typed'
  OBVIOUS
<1> USE DEF Typed
<1>1. UNCHANGED <<kernel, linkq, neighq>> => KernelTyped' /\ EventsTyped'
  BY DEF kernel, KernelTyped, Present, EventsTyped
<1>2. CASE Subscribe \/ SubscribeNeigh
  BY <1>1, <1>2 DEF Subscribe, SubscribeNeigh, cache, history, ListTyped, TypeOK
<1>3. CASE List
  <2>1. /\ pc \in {"subscribed", "links", "counters", "fdb", "mpls", "addrs"}
        /\ Following \in {"links", "counters", "fdb", "mpls", "addrs"} /\ pc' = Following
    BY <1>3 DEF List, Free, Following, TypeOK
  <2>2. /\ Following \in {"links", "counters", "addrs"} => todo' = [l \in Present |-> link[l]]
        /\ Following = "fdb" => todo' = fdb
        /\ Following = "mpls" => todo' = lfib
    BY <1>3 DEF List, Listed
  <2>3. Following \in {"links", "counters", "addrs"} =>
          DOMAIN todo' \subseteq Links /\ \A l \in DOMAIN todo' : todo'[l] \in {"UP", "DOWN"}
    BY <2>2 DEF Present, KernelTyped
  <2>4. /\ Following = "fdb" =>
              DOMAIN todo' \subseteq Macs /\ \A m \in DOMAIN todo' : todo'[m] \in Links
        /\ Following = "mpls" =>
              DOMAIN todo' \subseteq Labels /\ \A b \in DOMAIN todo' : todo'[b] \in Outs
    BY <2>2 DEF Present, KernelTyped
  <2>5. ListTyped' /\ DOMAIN todo' \subseteq Links \cup Macs \cup Labels
    BY <2>1, <2>3, <2>4 DEF ListTyped
  <2>6. TypeOK'
    BY <1>3, <2>1, <2>5 DEF List, queues, cache, TypeOK
  <2> QED BY <1>1, <1>3, <2>5, <2>6 DEF List, queues
<1>4. CASE ListFails
  <2>1. DOMAIN todo = {} /\ todo' = todo
    BY <1>4 DEF ListFails, Free, None
  <2>2. pc' \in {"links", "counters", "fdb", "mpls", "addrs"}
    BY <1>4 DEF ListFails, Following
  <2>3. TypeOK' /\ ListTyped'
    BY <1>4, <2>1, <2>2 DEF ListFails, queues, cache, ListTyped, TypeOK
  <2> QED BY <1>1, <1>4, <2>3 DEF ListFails, queues
<1>5. ASSUME NEW x, Take(x)
      PROVE  /\ x \in DOMAIN todo /\ ListTyped' /\ KernelTyped' /\ EventsTyped'
             /\ DOMAIN todo' \subseteq Links \cup Macs \cup Labels
    BY <1>1, <1>5 DEF Take, Without, queues, ListTyped, TypeOK
<1>6. ASSUME NEW l \in Links, WriteLink(l) \/ WriteCounters(l) \/ ListAddrs(l) PROVE Typed'
  <2>1. CASE WriteLink(l)
    <3>1. /\ DOMAIN cLink' \subseteq Links
          /\ \A k \in DOMAIN cLink' : cLink'[k] \in {"UP", "DOWN"}
      BY <1>5, <2>1 DEF WriteLink, With, ListTyped, TypeOK
    <3>2. TypeOK'
      BY <1>5, <2>1, <3>1 DEF WriteLink, Overtaken, Take, queues, TypeOK
    <3> QED BY <1>5, <2>1, <3>2 DEF WriteLink
  <2>2. CASE WriteCounters(l)
    BY <1>5, <2>2 DEF WriteCounters, Overtaken, Take, queues, TypeOK
  <2>3. CASE ListAddrs(l)
    <3>1. batch' \subseteq Links \X Addrs
      BY <2>3 DEF ListAddrs, Of, KernelTyped
    <3> QED BY <1>5, <2>3, <3>1 DEF ListAddrs, Take, queues, cache, TypeOK
  <2> QED BY <1>6, <2>1, <2>2, <2>3
<1>7. ASSUME NEW m \in Macs, WriteFdb(m) PROVE Typed'
  <2>1. DOMAIN cFdb' \subseteq Macs /\ \A k \in DOMAIN cFdb' : cFdb'[k] \in Links \cup {NoIface}
    BY <1>7 DEF WriteFdb, With, NameOf, Present, TypeOK
  <2>2. TypeOK'
    BY <1>5, <1>7, <2>1 DEF WriteFdb, Overtaken, Take, queues, TypeOK
  <2> QED BY <1>5, <1>7, <2>2 DEF WriteFdb
<1>8. ASSUME NEW b \in Labels, WriteLabel(b) PROVE Typed'
  <2>1. DOMAIN cLfib' \subseteq Labels /\ \A k \in DOMAIN cLfib' : cLfib'[k] \in Outs
    BY <1>5, <1>8 DEF WriteLabel, With, ListTyped, TypeOK
  <2>2. TypeOK'
    BY <1>5, <1>8, <2>1 DEF WriteLabel, Take, queues, TypeOK
  <2> QED BY <1>5, <1>8, <2>2 DEF WriteLabel
<1>9. CASE WriteAddr
  <2>1. PICK x \in batch : batch' = batch \ {x} /\ cAddr' = cAddr \cup {x}
                           /\ Overtaken(x[1], x[1] \notin DOMAIN cLink)
    BY <1>9 DEF WriteAddr
  <2>2. x[1] \in Links /\ x \in Links \X Addrs
    BY <2>1 DEF TypeOK
  <2>3. cAddr' \subseteq Links \X Addrs /\ batch' \subseteq Links \X Addrs
    BY <2>1, <2>2 DEF TypeOK
  <2>4. stale' \subseteq Links \cup Macs
    BY <2>1, <2>2 DEF Overtaken, TypeOK
  <2>5. TypeOK' /\ ListTyped'
    BY <1>9, <2>3, <2>4 DEF WriteAddr, queues, TypeOK, ListTyped
  <2> QED BY <1>1, <1>9, <2>5 DEF WriteAddr, queues
<1> QED BY <1>2, <1>3, <1>4, <1>6, <1>7, <1>8, <1>9 DEF Main

(* No step leaves the type, ...                                            *)
LEMMA TypeStep == Typed /\ [Next]_vars => Typed'
<1>1. Typed /\ UNCHANGED vars => Typed'
  BY DEF vars, kernel, main, queues, cache, history,
         Typed, TypeOK, KernelTyped, Present, EventsTyped, ListTyped
<1> QED BY <1>1, KernelType, LoopType, MainType DEF Next

(* ... so the cache never holds a link that is neither up nor down, or an  *)
(* entry of an unknown interface, whatever the order of events and lists.  *)
THEOREM TypeCorrect == Spec => [](TypeOK /\ KernelTyped /\ EventsTyped /\ ListTyped)
<1>1. Init => Typed
  BY DEF Init, None, Typed, TypeOK, KernelTyped, Present, EventsTyped, ListTyped
<1>2. Typed <=> TypeOK /\ KernelTyped /\ EventsTyped /\ ListTyped
  BY DEF Typed
<1> QED BY <1>1, <1>2, TypeStep, PTL DEF Spec

-----------------------------------------------------------------------------
(* The order of the start holds: nothing is listed or applied before it is *)
(* subscribed to, and startup ends with the addresses.                     *)
LEMMA OrderStep == Typed /\ Order /\ [Next]_vars => Order'
<1> SUFFICES ASSUME Typed, Order, [Next]_vars PROVE Order'
  OBVIOUS
<1> USE DEF Order, main, cache, queues, history, kernel
<1>1. ASSUME NEW le, NEW ne, Multicast(le, ne) PROVE Order'
  BY <1>1 DEF Multicast
<1>2. CASE Kernel
  <2>1. ASSUME NEW l \in Links, LinkDel(l) PROVE Order'
    BY <1>1, <2>1 DEF LinkDel
  <2>2. ASSUME NEW l \in Links, NEW v, LinkChange(l, v) PROVE Order'
    BY <1>1, <2>2 DEF LinkChange
  <2>3. ASSUME NEW m \in Macs, FdbDel(m) PROVE Order'
    BY <1>1, <2>3 DEF FdbDel
  <2>4. ASSUME NEW m \in Macs, NEW l \in Links, FdbChange(m, l) PROVE Order'
    BY <1>1, <2>4 DEF FdbChange
  <2>5. ASSUME NEW l \in Links, NEW a \in Addrs, AddrChange(l, a) PROVE Order'
    BY <2>5 DEF AddrChange
  <2>6. ASSUME NEW b \in Labels, NEW o \in Outs, LabelChange(b, o) PROVE Order'
    BY <2>6 DEF LabelChange
  <2>7. CASE LinksEnd
    BY <2>7 DEF LinksEnd
  <2>8. CASE NeighsEnd
    BY <2>8 DEF NeighsEnd
  <2> QED BY <1>2, <2>1, <2>2, <2>3, <2>4, <2>5, <2>6, <2>7, <2>8 DEF Kernel
<1>3. CASE LinkLoop
  <2>1. Head(linkq).link \in Links
    <3>1. Head(linkq) \in [link : Links, state : {"UP", "DOWN", "absent"}]
      BY <1>3, ElementType DEF LinkLoop, Typed, EventsTyped
    <3> QED BY <3>1
  <2> QED BY <1>3, <2>1, NetlinkAssumption DEF LinkLoop
<1>4. CASE NeighLoop
  BY <1>4 DEF NeighLoop
<1>5. CASE Main
  <2>1. CASE Subscribe \/ SubscribeNeigh
    BY <2>1 DEF Subscribe, SubscribeNeigh
  <2>2. CASE List \/ ListFails
    BY <2>2 DEF List, ListFails, Free, Following, Typed, TypeOK
  <2>3. ASSUME NEW l \in Links, WriteLink(l) \/ WriteCounters(l) \/ ListAddrs(l) PROVE Order'
    BY <2>3 DEF WriteLink, WriteCounters, ListAddrs, Take
  <2>4. ASSUME NEW m \in Macs, WriteFdb(m) PROVE Order'
    BY <2>4 DEF WriteFdb, Take
  <2>5. ASSUME NEW b \in Labels, WriteLabel(b) PROVE Order'
    BY <2>5 DEF WriteLabel, Take
  <2>6. CASE WriteAddr
    BY <2>6 DEF WriteAddr
  <2> QED BY <1>5, <2>1, <2>2, <2>3, <2>4, <2>5, <2>6 DEF Main
<1>6. CASE UNCHANGED vars
  BY <1>6 DEF vars
<1> QED BY <1>2, <1>3, <1>4, <1>5, <1>6 DEF Next

-----------------------------------------------------------------------------
(* A change of the kernel does no harm: before the subscription nothing    *)
(* is known, while it lasts its event waits, and afterwards it is missed.  *)
LEMMA LinksKernel ==
  ASSUME Typed, Order, LinksInv, NEW le \in LinkEvents, NEW ne, Multicast(le, ne),
         \A l \in Links : IF NoneFor(le, l) THEN link'[l] = link[l]
                                            ELSE LastFor(le, l, link'[l])
  PROVE  LinksInv'
<1> SUFFICES ASSUME NEW l \in Links, l \notin missed' PROVE LinkOK(l)'
  BY DEF LinksInv, LinkOK
<1> USE DEF Multicast, main, cache, LinkOK, LinkSettled, LinkListed, RightAbove, RightBelow,
            ToBeListed
<1>1. linkq \in LinkEvents
  BY DEF Typed, EventsTyped, LinkEvents
<1>2. missed \subseteq missed' /\ LinkOK(l)
  BY DEF LinksInv
<1>3. CASE linksub = "off"
  <2>1. LastFor(linkq', l, link'[l])
    BY <1>3 DEF Order, LastFor
  <2>2. /\ pc' = "start" /\ l \notin DOMAIN cLink' /\ l \notin cCount' /\ Of(cAddr', l) = {}
        /\ l \notin touched' /\ Of(batch', l) = {}
    BY <1>3 DEF Order, Of
  <2> QED BY <2>1, <2>2
<1>4. CASE linksub = "on"
  <2>1. linkq' = linkq \o le
    BY <1>4
  <2>2. /\ NoneFor(linkq', l) => NoneFor(linkq, l) /\ NoneFor(le, l)
        /\ NoneFor(le, l) /\ LastFor(linkq, l, link'[l]) => LastFor(linkq', l, link'[l])
        /\ ~NoneFor(le, l) /\ LastFor(le, l, link'[l]) => LastFor(linkq', l, link'[l])
    <3>1. PICK S : linkq \in Seq(S) /\ le \in Seq(S)
      BY <1>1 DEF LinkEvents
    <3>2. /\ NoneFor(linkq \o le, l) <=> NoneFor(linkq, l) /\ NoneFor(le, l)
          /\ \A v : NoneFor(le, l) /\ LastFor(linkq, l, v) => LastFor(linkq \o le, l, v)
          /\ \A v : ~NoneFor(le, l) /\ LastFor(le, l, v) => LastFor(linkq \o le, l, v)
      BY <3>1, LinkAppend
    <3> QED BY <2>1, <3>2
  <2>3. LastFor(linkq', l, link'[l])
    BY <1>2, <2>2
  <2>4. NoneFor(linkq', l) => link'[l] = link[l]
    BY <2>2
  <2> QED BY <1>2, <2>2, <2>3, <2>4
<1>5. CASE linksub = "ended"
  <2>1. \A n \in DOMAIN le : le[n].link \in missed'
    BY <1>5
  <2>2. \A n \in 1..Len(le) : n \in DOMAIN le
    BY DEF LinkEvents
  <2>3. NoneFor(le, l)
    BY <2>1, <2>2 DEF NoneFor
  <2>4. linkq' = linkq /\ link'[l] = link[l]
    BY <1>5, <2>3
  <2> QED BY <1>2, <2>4
<1> QED BY <1>3, <1>4, <1>5 DEF Typed, TypeOK

(* Every link stays settled, whoever takes the next step.                  *)
LEMMA LinksStep == Typed /\ Order /\ LinksInv /\ [Next]_vars => LinksInv'
<1> SUFFICES ASSUME Typed, Order, LinksInv, [Next]_vars PROVE LinksInv'
  OBVIOUS
<1> USE DEF main, cache, queues, history, kernel
<1>1. \A l : NoneFor(<<>>, l)
  BY DEF NoneFor
<1>2. <<>> \in LinkEvents
  BY DEF LinkEvents
<1>3. ASSUME NEW l \in Links, NEW v \in {"UP", "DOWN", "absent"}
      PROVE  /\ <<LinkEvent(l, v)>> \in LinkEvents /\ LastFor(<<LinkEvent(l, v)>>, l, v)
             /\ \A k : NoneFor(<<LinkEvent(l, v)>>, k) <=> k # l
  BY DEF LinkEvents, LinkEvent, LastFor, NoneFor
<1>4. ASSUME NEW l \in Links, LinkDel(l) PROVE LinksInv'
  <2>1. PICK ne : Multicast(<<LinkEvent(l, "absent")>>, ne)
    BY <1>4 DEF LinkDel
  <2>2. \A k \in Links : link'[k] = IF k = l THEN "absent" ELSE link[k]
    BY <1>4 DEF LinkDel, Typed, KernelTyped
  <2>3. \A k \in Links : IF NoneFor(<<LinkEvent(l, "absent")>>, k) THEN link'[k] = link[k]
            ELSE LastFor(<<LinkEvent(l, "absent")>>, k, link'[k])
    BY <1>3, <2>2
  <2> QED BY <1>3, <2>1, <2>3, LinksKernel
<1>5. ASSUME NEW l \in Links, NEW v \in {"UP", "DOWN"}, LinkChange(l, v) PROVE LinksInv'
  <2>1. \A k \in Links : link'[k] = IF k = l THEN v ELSE link[k]
    BY <1>5 DEF LinkChange, Typed, KernelTyped
  <2>2. \A k \in Links : IF NoneFor(<<LinkEvent(l, v)>>, k) THEN link'[k] = link[k]
            ELSE LastFor(<<LinkEvent(l, v)>>, k, link'[k])
    BY <1>3, <2>1
  <2>3. Multicast(<<LinkEvent(l, v)>>, <<>>)
    BY <1>5 DEF LinkChange
  <2> QED BY <1>3, <2>2, <2>3, LinksKernel
<1>6. ASSUME NEW m \in Macs, FdbDel(m) PROVE LinksInv'
  BY <1>1, <1>2, <1>6, LinksKernel DEF FdbDel
<1>7. ASSUME NEW m \in Macs, NEW l \in Links, FdbChange(m, l) PROVE LinksInv'
  BY <1>1, <1>2, <1>7, LinksKernel DEF FdbChange
<1>8. ASSUME NEW l \in Links, UNCHANGED <<linkq, link, pc, todo, batch, cLink, cCount, cAddr>>,
             l \in touched <=> l \in touched', l \in stale' => l \in stale,
             l \in stale => l \in stale', missed' = missed
      PROVE  LinkOK(l)'
  BY <1>8 DEF LinksInv, LinkOK, LinkSettled, LinkListed, RightAbove, RightBelow, ToBeListed
<1>9. ASSUME UNCHANGED <<linkq, link, main, cLink, cCount, cAddr, touched, stale, missed>>
      PROVE  LinksInv'
  BY <1>8, <1>9 DEF LinksInv
<1>10. ASSUME NEW l \in Links, NEW a \in Addrs, AddrChange(l, a) PROVE LinksInv'
  BY <1>9, <1>10 DEF AddrChange
<1>11. ASSUME NEW b \in Labels, NEW o \in Outs, LabelChange(b, o) PROVE LinksInv'
  BY <1>9, <1>11 DEF LabelChange
<1>12. CASE LinksEnd
  <2>1. PICK c \in 0..Len(linkq) :
          /\ linkq' = SubSeq(linkq, 1, c)
          /\ missed' = missed \cup {linkq[k].link : k \in c + 1..Len(linkq)}
    BY <1>12 DEF LinksEnd
  <2> SUFFICES ASSUME NEW l \in Links, l \notin missed' PROVE LinkOK(l)'
    BY DEF LinksInv, LinkOK
  <2>2. \A n \in c + 1..Len(linkq) : linkq[n].link # l
    BY <2>1
  <2>3. /\ LastFor(linkq, l, link[l]) => LastFor(linkq', l, link[l])
        /\ NoneFor(linkq', l) <=> NoneFor(linkq, l)
    BY <2>1, <2>2, LinkCut DEF Typed, EventsTyped
  <2>4. LinkOK(l) /\ l \notin missed
    BY <2>1 DEF LinksInv
  <2> QED BY <1>12, <2>3, <2>4 DEF LinksEnd, LinkOK, LinkSettled, LinkListed,
                                   RightAbove, RightBelow, ToBeListed
<1>13. CASE NeighsEnd
  <2>1. \A k \in 1..Len(neighq) : neighq[k].mac \in Macs
    <3>1. \A k \in DOMAIN neighq : neighq[k] \in [mac : Macs, at : Links \cup {NoIface}]
      BY ElementType DEF Typed, EventsTyped
    <3>2. \A k \in 1..Len(neighq) : k \in DOMAIN neighq
      BY DEF Typed, EventsTyped
    <3> QED BY <3>1, <3>2
  <2>2. PICK c \in 0..Len(neighq) :
          missed' = missed \cup {neighq[k].mac : k \in c + 1..Len(neighq)}
    BY <1>13 DEF NeighsEnd
  <2>3. \A k \in c + 1..Len(neighq) : k \in 1..Len(neighq)
    OBVIOUS
  <2>4. \A l \in Links : l \in missed' => l \in missed
    BY <2>1, <2>2, <2>3, NetlinkAssumption
  <2> QED BY <1>13, <2>2, <2>4 DEF NeighsEnd, LinksInv, LinkOK, LinkSettled, LinkListed,
                              RightAbove, RightBelow, ToBeListed
<1>14. CASE LinkLoop
  <2> DEFINE e == Head(linkq)
  <2>1. linkq # <<>> /\ linkq' = Tail(linkq) /\ ApplyLink(e)
        /\ touched' = touched \cup {e.link} /\ stale' = stale \ {e.link}
    BY <1>14 DEF LinkLoop
  <2>2. e.link \in Links
    <3>1. e \in [link : Links, state : {"UP", "DOWN", "absent"}]
      BY <2>1, ElementType DEF Typed, EventsTyped
    <3> QED BY <3>1
  <2> SUFFICES ASSUME NEW l \in Links, l \notin missed' PROVE LinkOK(l)'
    BY DEF LinksInv, LinkOK
  <2>3. LinkOK(l) /\ l \notin missed /\ UNCHANGED <<link, main, missed>>
    BY <1>14 DEF LinkLoop, LinksInv
  <2>4. /\ LastFor(linkq, l, link[l]) => LastFor(linkq', l, link[l])
        /\ NoneFor(linkq', l) /\ e.link # l => NoneFor(linkq, l)
        /\ NoneFor(linkq', l) /\ e.link = l /\ LastFor(linkq, l, link[l]) => e.state = link[l]
    BY <2>1, LinkTake DEF Typed, EventsTyped
  <2> HIDE DEF e
  <2>5. CASE e.link = l
    <3>1. NoneFor(linkq', l) => e.state = link[l]
      BY <2>3, <2>4, <2>5 DEF LinkOK
    <3>2. e.state = link[l] => RightAbove(l)' /\ RightBelow(l)'
      BY <2>1, <2>3, <2>5 DEF ApplyLink, With, Without, RightAbove, RightBelow, Of
    <3> QED BY <2>1, <2>3, <2>4, <2>5, <3>1, <3>2 DEF LinkOK, LinkSettled, LinkListed
  <2>6. CASE e.link # l
    <3>1. /\ l \in DOMAIN cLink' <=> l \in DOMAIN cLink
          /\ l \in DOMAIN cLink => cLink'[l] = cLink[l]
          /\ l \in cCount' <=> l \in cCount
      BY <2>1, <2>6 DEF ApplyLink, With, Without
    <3>2. Of(cAddr', l) = Of(cAddr, l)
      BY <2>1, <2>6 DEF ApplyLink, Of
    <3> QED BY <2>1, <2>3, <2>4, <2>6, <3>1, <3>2
            DEF LinkOK, LinkSettled, LinkListed, RightAbove, RightBelow, ToBeListed
  <2> QED BY <2>5, <2>6
<1>15. CASE NeighLoop
  <2>1. Head(neighq).mac \in Macs
    <3>1. Head(neighq) \in [mac : Macs, at : Links \cup {NoIface}]
      BY <1>15, ElementType DEF NeighLoop, Typed, EventsTyped
    <3> QED BY <3>1
  <2> QED BY <1>8, <1>15, <2>1, NetlinkAssumption DEF NeighLoop, LinksInv
<1>16. CASE Subscribe \/ SubscribeNeigh
  BY <1>16 DEF Subscribe, SubscribeNeigh, LinksInv, LinkOK, LinkSettled, LinkListed,
               RightAbove, RightBelow, ToBeListed
<1>17. CASE List
  <2> SUFFICES ASSUME NEW l \in Links, l \notin missed' PROVE LinkOK(l)'
    BY DEF LinksInv, LinkOK
  <2>1. /\ pc \notin {"start", "links?"} /\ DOMAIN todo = {} /\ batch = {} /\ batch' = {}
        /\ pc' = Following /\ todo' = Listed /\ touched' = {} /\ stale' = stale
        /\ UNCHANGED <<kernel, queues, cache, missed>>
    BY <1>17 DEF List, Free, None
  <2>2. LinkOK(l) /\ l \notin missed
    BY <2>1 DEF LinksInv
  <2>3. /\ pc' = "links" => pc = "subscribed"
        /\ pc' \notin {"start", "links?", "subscribed"}
        /\ pc' \in {"links", "counters", "addrs"} => todo' = [k \in Present |-> link[k]]
    BY <2>1 DEF Following, Listed
  <2>4. LinkListed(l)'
    BY <2>1, <2>3 DEF LinkListed, Of
  <2>5. ASSUME l \notin stale', NoneFor(linkq', l),
               l \in DOMAIN cLink' \/ l \in touched' \/ ~ToBeListed(l)'
        PROVE  RightAbove(l)'
    <3>1. l \in DOMAIN cLink \/ l \in touched \/ ~ToBeListed(l) => RightAbove(l)
      BY <2>1, <2>2, <2>5 DEF LinkOK, LinkSettled
    <3>2. CASE l \in DOMAIN cLink
      BY <2>1, <3>1, <3>2 DEF RightAbove
    <3>3. CASE l \notin DOMAIN cLink /\ pc' = "links"
      <4>1. l \notin DOMAIN todo'
        BY <2>1, <2>5, <3>3 DEF ToBeListed
      <4>2. link[l] = "absent"
        BY <2>3, <3>3, <4>1 DEF Present
      <4> QED BY <2>1, <3>3, <4>2 DEF RightAbove
    <3>4. CASE pc' # "links"
      <4>1. pc # "subscribed" /\ ~ToBeListed(l)
        BY <2>1, <3>4 DEF Following, ToBeListed
      <4> QED BY <2>1, <3>1, <4>1 DEF RightAbove
    <3> QED BY <3>2, <3>3, <3>4
  <2>6. l \notin stale' /\ NoneFor(linkq', l) => RightBelow(l)'
    BY <2>1, <2>2 DEF LinkOK, LinkSettled, RightBelow
  <2>7. LastFor(linkq', l, link'[l])
    BY <2>1, <2>2 DEF LinkOK
  <2> QED BY <2>4, <2>5, <2>6, <2>7 DEF LinkOK, LinkSettled
<1>18. CASE ListFails
  <2> SUFFICES ASSUME NEW l \in Links, l \notin missed' PROVE LinkOK(l)'
    BY DEF LinksInv, LinkOK
  <2>1. /\ pc \notin {"start", "links?"} /\ DOMAIN todo = {} /\ batch = {} /\ stale \subseteq stale'
        /\ UNCHANGED <<kernel, queues, cache, missed, todo, batch, touched>>
    BY <1>18 DEF ListFails, Free, None
  <2>2. LinkOK(l) /\ l \notin missed
    BY <2>1 DEF LinksInv
  <2>3. LinkListed(l)'
    BY <2>1 DEF LinkListed, Of
  <2>4. l \notin stale' => l \notin stale /\ ~ToBeListed(l)
    BY <1>18, <2>1 DEF ListFails, Following, ToBeListed
  <2> QED BY <2>1, <2>2, <2>3, <2>4 DEF LinkOK, LinkSettled, RightAbove, RightBelow
<1>19. ASSUME NEW l \in Links, WriteLink(l) PROVE LinksInv'
  <2> SUFFICES ASSUME NEW k \in Links, k \notin missed' PROVE LinkOK(k)'
    BY DEF LinksInv, LinkOK
  <2>1. /\ pc = "links" /\ l \in DOMAIN todo /\ todo' = Without(todo, {l}) /\ batch = {}
        /\ cLink' = With(cLink, l, todo[l])
        /\ stale' = (IF l \in touched THEN stale \cup {l} ELSE stale)
        /\ UNCHANGED <<kernel, queues, pc, batch, cCount, cAddr, touched, missed>>
    BY <1>19 DEF WriteLink, Take, Overtaken
  <2>2. LinkOK(k) /\ k \notin missed
    BY <2>1 DEF LinksInv
  <2>3. todo[l] # "absent"
    BY <2>1 DEF Typed, ListTyped
  <2>4. LinkListed(k)'
    BY <2>1, <2>2 DEF LinkOK, LinkListed, Without, Of
  <2>5. CASE k = l
    <3>1. l \notin stale' /\ NoneFor(linkq', l) => todo[l] = link[l]
      BY <2>1, <2>2, <2>5 DEF LinkOK, LinkListed
    <3>2. todo[l] = link[l] => RightAbove(l)'
      BY <2>1, <2>3 DEF RightAbove, With
    <3>3. l \notin stale' => l \notin stale
      BY <2>1
    <3> QED BY <2>1, <2>2, <2>4, <2>5, <3>1, <3>2, <3>3 DEF LinkOK, LinkSettled, RightBelow
  <2>6. CASE k # l
    <3>1. /\ k \in DOMAIN cLink' <=> k \in DOMAIN cLink
          /\ k \in DOMAIN cLink => cLink'[k] = cLink[k]
          /\ k \in DOMAIN todo' <=> k \in DOMAIN todo
          /\ k \notin stale' => k \notin stale
      BY <2>1, <2>6 DEF With, Without
    <3> QED BY <2>1, <2>2, <2>4, <3>1
            DEF LinkOK, LinkSettled, RightAbove, RightBelow, ToBeListed
  <2> QED BY <2>5, <2>6
<1>20. ASSUME NEW l \in Links, WriteCounters(l) PROVE LinksInv'
  <2> SUFFICES ASSUME NEW k \in Links, k \notin missed' PROVE LinkOK(k)'
    BY DEF LinksInv, LinkOK
  <2>1. /\ pc = "counters" /\ l \in DOMAIN todo /\ todo' = Without(todo, {l}) /\ batch = {}
        /\ cCount' = cCount \cup {l}
        /\ stale' = (IF l \in touched /\ l \notin DOMAIN cLink THEN stale \cup {l} ELSE stale)
        /\ UNCHANGED <<kernel, queues, pc, batch, cLink, cAddr, touched, missed>>
    BY <1>20 DEF WriteCounters, Take, Overtaken
  <2>2. LinkOK(k) /\ k \notin missed
    BY <2>1 DEF LinksInv
  <2>3. todo[l] # "absent"
    BY <2>1 DEF Typed, ListTyped
  <2>4. LinkListed(k)'
    BY <2>1, <2>2 DEF LinkOK, LinkListed, Without, Of
  <2>5. k \notin stale' /\ NoneFor(linkq', k) => RightAbove(k) /\ RightBelow(k)
    BY <2>1, <2>2 DEF LinkOK, LinkSettled, ToBeListed
  <2>6. ASSUME k = l, k \notin stale', NoneFor(linkq', k) PROVE link[k] # "absent"
    <3>1. l \in touched => l \in DOMAIN cLink
      BY <2>1, <2>6
    <3>2. CASE l \in DOMAIN cLink
      BY <2>5, <2>6, <3>2 DEF RightAbove
    <3>3. CASE l \notin touched
      BY <2>1, <2>2, <2>3, <2>6, <3>3 DEF LinkOK, LinkListed
    <3> QED BY <3>1, <3>2, <3>3
  <2>7. k \notin stale' /\ NoneFor(linkq', k) => RightBelow(k)'
    BY <2>1, <2>5, <2>6 DEF RightBelow
  <2> QED BY <2>1, <2>2, <2>4, <2>5, <2>7 DEF LinkOK, LinkSettled, RightAbove
<1>21. ASSUME NEW l \in Links, ListAddrs(l) PROVE LinksInv'
  <2> SUFFICES ASSUME NEW k \in Links, k \notin missed' PROVE LinkOK(k)'
    BY DEF LinksInv, LinkOK
  <2>1. /\ pc = "addrs" /\ l \in DOMAIN todo /\ todo' = Without(todo, {l})
        /\ batch' = Of(addrs, l)
        /\ UNCHANGED <<kernel, queues, pc, cache, touched, stale, missed>>
    BY <1>21 DEF ListAddrs, Take
  <2>2. LinkOK(k) /\ k \notin missed
    BY <2>1 DEF LinksInv
  <2>3. todo[l] # "absent"
    BY <2>1 DEF Typed, ListTyped
  <2>4. Of(batch', k) # {} => k = l
    BY <2>1 DEF Of
  <2>5. LinkListed(k)'
    BY <2>1, <2>2, <2>3, <2>4 DEF LinkOK, LinkListed, Without
  <2> QED BY <2>1, <2>2, <2>5 DEF LinkOK, LinkSettled, RightAbove, RightBelow, ToBeListed
<1>22. CASE WriteAddr
  <2>1. PICK x \in batch :
          /\ batch' = batch \ {x} /\ cAddr' = cAddr \cup {x}
          /\ stale' = IF x[1] \in touched /\ x[1] \notin DOMAIN cLink
                      THEN stale \cup {x[1]} ELSE stale
    BY <1>22 DEF WriteAddr, Overtaken
  <2> SUFFICES ASSUME NEW k \in Links, k \notin missed' PROVE LinkOK(k)'
    BY DEF LinksInv, LinkOK
  <2>2. UNCHANGED <<kernel, queues, pc, todo, cLink, cCount, touched, missed>>
    BY <1>22 DEF WriteAddr
  <2>3. LinkOK(k) /\ k \notin missed /\ pc = "addrs"
    BY <2>1, <2>2 DEF LinksInv, Order
  <2>4. Of(batch', k) # {} => Of(batch, k) # {}
    BY <2>1 DEF Of
  <2>5. LinkListed(k)'
    BY <2>2, <2>3, <2>4 DEF LinkOK, LinkListed
  <2>6. k \notin stale' /\ NoneFor(linkq', k) => RightAbove(k) /\ RightBelow(k)
    BY <2>1, <2>2, <2>3 DEF LinkOK, LinkSettled, ToBeListed
  <2>7. ASSUME x[1] = k, k \notin stale', NoneFor(linkq', k) PROVE link[k] # "absent"
    <3>1. k \in touched => k \in DOMAIN cLink
      BY <2>1, <2>7
    <3>2. CASE k \in DOMAIN cLink
      BY <2>6, <2>7, <3>2 DEF RightAbove
    <3>3. CASE k \notin touched
      <4>1. x \in Of(batch, k)
        BY <2>1, <2>7 DEF Of
      <4> QED BY <2>2, <2>3, <2>7, <3>3, <4>1 DEF LinkOK, LinkListed
    <3> QED BY <3>1, <3>2, <3>3
  <2>8. x[1] # k => Of(cAddr', k) = Of(cAddr, k)
    BY <2>1 DEF Of
  <2>9. k \notin stale' /\ NoneFor(linkq', k) => RightBelow(k)'
    BY <2>2, <2>6, <2>7, <2>8 DEF RightBelow
  <2> QED BY <2>2, <2>3, <2>5, <2>6, <2>9 DEF LinkOK, LinkSettled, RightAbove
<1>23. ASSUME NEW m \in Macs, WriteFdb(m) PROVE LinksInv'
  <2>1. /\ pc = "fdb" /\ UNCHANGED <<kernel, queues, pc, batch, cLink, cCount, cAddr, touched, missed>>
        /\ \A l \in Links : l \in stale' <=> l \in stale
    BY <1>23, NetlinkAssumption DEF WriteFdb, Take, Overtaken
  <2> QED BY <2>1 DEF LinksInv, LinkOK, LinkSettled, LinkListed, RightAbove, RightBelow, ToBeListed
<1>24. ASSUME NEW b \in Labels, WriteLabel(b) PROVE LinksInv'
  <2>1. /\ pc = "mpls"
        /\ UNCHANGED <<kernel, queues, pc, batch, cLink, cCount, cAddr, touched, stale, missed>>
    BY <1>24 DEF WriteLabel, Take
  <2> QED BY <2>1 DEF LinksInv, LinkOK, LinkSettled, LinkListed, RightAbove, RightBelow, ToBeListed
<1>25. CASE UNCHANGED vars
  BY <1>9, <1>25 DEF vars
<1>26. Kernel => LinksInv'
  BY <1>4, <1>5, <1>6, <1>7, <1>10, <1>11, <1>12, <1>13 DEF Kernel
<1>27. Main => LinksInv'
  BY <1>16, <1>17, <1>18, <1>19, <1>20, <1>21, <1>22, <1>23, <1>24 DEF Main
<1> QED BY <1>14, <1>15, <1>25, <1>26, <1>27 DEF Next

-----------------------------------------------------------------------------
(* The same of MACs: a change of the FDB, that of a link that goes         *)
(* included, is not known yet, waits in the queue or is missed.            *)
SameFdb(m) ==
    /\ m \in DOMAIN fdb' <=> m \in DOMAIN fdb
    /\ m \in DOMAIN fdb => fdb'[m] = fdb[m]

(* What the kernel does to its FDB keeps every MAC settled.                *)
LEMMA MacsKernel ==
  ASSUME Typed, Order, MacsInv, NEW le, NEW ne \in NeighEvents, Multicast(le, ne),
         \A m \in Macs : IF NoneOf(ne, m) THEN SameFdb(m) ELSE LastOf(ne, m, At(fdb', m))
  PROVE  MacsInv'
<1> SUFFICES ASSUME NEW m \in Macs, m \notin missed' PROVE MacOK(m)'
  BY DEF MacsInv, MacOK
<1> USE DEF Multicast, main, cache, MacOK, MacSettled, MacListed, FdbRight, FdbToBeListed
<1>1. neighq \in NeighEvents
  BY DEF Typed, EventsTyped, NeighEvents
<1>2. missed \subseteq missed' /\ MacOK(m)
  BY DEF MacsInv
<1>3. SameFdb(m) => At(fdb', m) = At(fdb, m)
  BY DEF SameFdb, At
<1>4. CASE neighsub = "off"
  <2>1. LastOf(neighq', m, At(fdb', m))
    BY <1>4 DEF Order, LastOf
  <2>2. pc' \in {"start", "links?"} /\ m \notin DOMAIN cFdb' /\ m \notin touched'
    BY <1>4 DEF Order
  <2> QED BY <2>1, <2>2
<1>5. CASE neighsub = "on"
  <2>1. neighq' = neighq \o ne
    BY <1>5
  <2>2. /\ NoneOf(neighq', m) => NoneOf(neighq, m) /\ NoneOf(ne, m)
        /\ \A v : NoneOf(ne, m) /\ LastOf(neighq, m, v) => LastOf(neighq', m, v)
        /\ \A v : ~NoneOf(ne, m) /\ LastOf(ne, m, v) => LastOf(neighq', m, v)
    <3>1. PICK S : neighq \in Seq(S) /\ ne \in Seq(S)
      BY <1>1 DEF NeighEvents
    <3>2. /\ NoneOf(neighq \o ne, m) <=> NoneOf(neighq, m) /\ NoneOf(ne, m)
          /\ \A v : NoneOf(ne, m) /\ LastOf(neighq, m, v) => LastOf(neighq \o ne, m, v)
          /\ \A v : ~NoneOf(ne, m) /\ LastOf(ne, m, v) => LastOf(neighq \o ne, m, v)
      BY <3>1, MacAppend
    <3> QED BY <2>1, <3>2
  <2>3. LastOf(neighq', m, At(fdb', m))
    BY <1>2, <1>3, <2>2
  <2>4. NoneOf(neighq', m) => SameFdb(m)
    BY <2>2
  <2> QED BY <1>2, <2>2, <2>3, <2>4 DEF SameFdb
<1>6. CASE neighsub = "ended"
  <2>1. \A n \in DOMAIN ne : ne[n].mac \in missed'
    BY <1>6
  <2>2. \A n \in 1..Len(ne) : n \in DOMAIN ne
    BY DEF NeighEvents
  <2>3. NoneOf(ne, m)
    BY <2>1, <2>2 DEF NoneOf
  <2>4. neighq' = neighq /\ SameFdb(m)
    BY <1>6, <2>3
  <2> QED BY <1>2, <1>3, <2>4 DEF SameFdb
<1> QED BY <1>4, <1>5, <1>6 DEF Typed, TypeOK

(* Every MAC stays settled, whoever takes the next step.                   *)
LEMMA MacsStep == Typed /\ Order /\ MacsInv /\ [Next]_vars => MacsInv'
<1> SUFFICES ASSUME Typed, Order, MacsInv, [Next]_vars PROVE MacsInv'
  OBVIOUS
<1> USE DEF main, cache, queues, history, kernel
<1>1. \A m : NoneOf(<<>>, m)
  BY DEF NoneOf
<1>2. <<>> \in NeighEvents
  BY DEF NeighEvents
<1>3. ASSUME NEW m \in Macs, NEW i \in Links \cup {NoIface}
      PROVE  /\ <<NeighEvent(m, i)>> \in NeighEvents /\ LastOf(<<NeighEvent(m, i)>>, m, i)
             /\ \A k : NoneOf(<<NeighEvent(m, i)>>, k) <=> k # m
  BY DEF NeighEvents, NeighEvent, LastOf, NoneOf
<1>4. ASSUME NEW l \in Links, LinkDel(l) PROVE MacsInv'
  <2>1. PICK evs \in {s \in UNION {[1..n -> Macs] : n \in 0..Cardinality(Macs)} :
                      /\ {s[n] : n \in DOMAIN s} = {m \in DOMAIN fdb : fdb[m] = l}
                      /\ \A n, k \in DOMAIN s : s[n] = s[k] => n = k} :
         /\ fdb' = Without(fdb, {evs[n] : n \in DOMAIN evs})
         /\ Multicast(<<LinkEvent(l, "absent")>>,
                      [n \in DOMAIN evs |-> NeighEvent(evs[n], NoIface)])
    BY <1>4 DEF LinkDel
  <2>2. PICK c \in Nat : evs \in [1..c -> Macs]
    OBVIOUS
  <2> DEFINE ne == [n \in DOMAIN evs |-> NeighEvent(evs[n], NoIface)]
  <2>3. ne \in NeighEvents /\ Len(ne) = c
    BY <2>2 DEF NeighEvents, NeighEvent
  <2>4. \A n \in 1..c : ne[n].mac = evs[n] /\ ne[n].at = NoIface
    BY <2>2 DEF NeighEvent
  <2>5. Multicast(<<LinkEvent(l, "absent")>>, ne)
    BY <2>1
  <2> HIDE DEF ne
  <2>6. ASSUME NEW m \in Macs
        PROVE  IF NoneOf(ne, m) THEN SameFdb(m) ELSE LastOf(ne, m, At(fdb', m))
    <3>1. NoneOf(ne, m) => m \notin {evs[n] : n \in DOMAIN evs}
      BY <2>2, <2>3, <2>4 DEF NoneOf
    <3>2. m \notin {evs[n] : n \in DOMAIN evs} => SameFdb(m)
      BY <2>1 DEF Without, SameFdb
    <3>3. ~NoneOf(ne, m) => m \in {evs[n] : n \in DOMAIN evs}
      BY <2>2, <2>3, <2>4 DEF NoneOf
    <3>4. m \in {evs[n] : n \in DOMAIN evs} => At(fdb', m) = NoIface
      BY <2>1 DEF Without, At
    <3>5. LastOf(ne, m, NoIface)
      BY <2>3, <2>4 DEF LastOf
    <3> QED BY <3>1, <3>2, <3>3, <3>4, <3>5
  <2> QED BY <2>3, <2>5, <2>6, MacsKernel
<1>5. ASSUME NEW l \in Links, NEW v \in {"UP", "DOWN"}, LinkChange(l, v) PROVE MacsInv'
  <2>1. \A m \in Macs : SameFdb(m)
    BY <1>5 DEF LinkChange, SameFdb
  <2>2. Multicast(<<LinkEvent(l, v)>>, <<>>)
    BY <1>5 DEF LinkChange
  <2> QED BY <1>1, <1>2, <2>1, <2>2, MacsKernel
<1>6. ASSUME NEW m \in Macs, FdbDel(m) PROVE MacsInv'
  <2>1. /\ At(fdb', m) = NoIface /\ \A k \in Macs \ {m} : SameFdb(k)
    BY <1>6 DEF FdbDel, Without, At, SameFdb
  <2>2. \A k \in Macs : IF NoneOf(<<NeighEvent(m, NoIface)>>, k) THEN SameFdb(k)
            ELSE LastOf(<<NeighEvent(m, NoIface)>>, k, At(fdb', k))
    BY <1>3, <2>1
  <2>3. Multicast(<<>>, <<NeighEvent(m, NoIface)>>)
    BY <1>6 DEF FdbDel
  <2> QED BY <1>3, <2>2, <2>3, MacsKernel
<1>7. ASSUME NEW m \in Macs, NEW l \in Links, FdbChange(m, l) PROVE MacsInv'
  <2>1. At(fdb', m) = l /\ \A k \in Macs \ {m} : SameFdb(k)
    BY <1>7 DEF FdbChange, With, At, SameFdb
  <2>2. \A k \in Macs : IF NoneOf(<<NeighEvent(m, l)>>, k) THEN SameFdb(k)
            ELSE LastOf(<<NeighEvent(m, l)>>, k, At(fdb', k))
    BY <1>3, <2>1
  <2>3. Multicast(<<>>, <<NeighEvent(m, l)>>)
    BY <1>7 DEF FdbChange
  <2> QED BY <1>3, <2>2, <2>3, MacsKernel
<1>8. ASSUME NEW m \in Macs, UNCHANGED <<neighq, fdb, pc, first, todo, cFdb>>,
             m \in touched <=> m \in touched', m \in stale' <=> m \in stale,
             m \notin missed' => m \notin missed
      PROVE  MacOK(m)'
  BY <1>8 DEF MacsInv, MacOK, MacSettled, MacListed, FdbRight, FdbToBeListed
<1>9. ASSUME UNCHANGED <<neighq, fdb, main, cFdb, touched, stale, missed>> PROVE MacsInv'
  BY <1>8, <1>9 DEF MacsInv
<1>10. ASSUME NEW l \in Links, NEW a \in Addrs, AddrChange(l, a) PROVE MacsInv'
  BY <1>9, <1>10 DEF AddrChange
<1>11. ASSUME NEW b \in Labels, NEW o \in Outs, LabelChange(b, o) PROVE MacsInv'
  BY <1>9, <1>11 DEF LabelChange
<1>12. CASE NeighsEnd
  <2>1. PICK c \in 0..Len(neighq) :
          /\ neighq' = SubSeq(neighq, 1, c)
          /\ missed' = missed \cup {neighq[k].mac : k \in c + 1..Len(neighq)}
    BY <1>12 DEF NeighsEnd
  <2> SUFFICES ASSUME NEW m \in Macs, m \notin missed' PROVE MacOK(m)'
    BY DEF MacsInv, MacOK
  <2>2. \A n \in c + 1..Len(neighq) : neighq[n].mac # m
    BY <2>1
  <2>3. /\ \A v : LastOf(neighq, m, v) => LastOf(neighq', m, v)
        /\ NoneOf(neighq', m) <=> NoneOf(neighq, m)
    BY <2>1, <2>2, MacCut DEF Typed, EventsTyped
  <2>4. MacOK(m) /\ m \notin missed
    BY <2>1 DEF MacsInv
  <2> QED BY <1>12, <2>3, <2>4 DEF NeighsEnd, MacOK, MacSettled, MacListed,
                                   FdbRight, FdbToBeListed
<1>13. CASE LinksEnd
  <2> SUFFICES ASSUME NEW m \in Macs PROVE MacOK(m)'
    BY DEF MacsInv
  <2>1. missed \subseteq missed'
    BY <1>13 DEF LinksEnd
  <2> QED BY <1>8, <1>13, <2>1 DEF LinksEnd
<1>14. CASE LinkLoop
  <2>1. Head(linkq).link \in Links
    <3>1. Head(linkq) \in [link : Links, state : {"UP", "DOWN", "absent"}]
      BY <1>14, ElementType DEF LinkLoop, Typed, EventsTyped
    <3> QED BY <3>1
  <2> QED BY <1>8, <1>14, <2>1, NetlinkAssumption DEF LinkLoop, MacsInv
<1>15. CASE NeighLoop
  <2> DEFINE e == Head(neighq)
  <2>1. neighq # <<>> /\ neighq' = Tail(neighq) /\ ApplyNeigh(e)
        /\ touched' = touched \cup {e.mac} /\ stale' = stale \ {e.mac}
    BY <1>15 DEF NeighLoop
  <2> SUFFICES ASSUME NEW m \in Macs, m \notin missed' PROVE MacOK(m)'
    BY DEF MacsInv, MacOK
  <2>2. MacOK(m) /\ m \notin missed /\ UNCHANGED <<kernel, main, missed>>
    BY <1>15 DEF NeighLoop, MacsInv
  <2>3. /\ \A v : LastOf(neighq, m, v) => LastOf(neighq', m, v)
        /\ NoneOf(neighq', m) /\ e.mac # m => NoneOf(neighq, m)
        /\ \A v : NoneOf(neighq', m) /\ e.mac = m /\ LastOf(neighq, m, v) => e.at = v
    BY <2>1, MacTake DEF Typed, EventsTyped
  <2> HIDE DEF e
  <2>4. CASE e.mac = m
    <3>1. NoneOf(neighq', m) => e.at = At(fdb, m)
      BY <2>2, <2>3, <2>4 DEF MacOK
    <3>2. m \in DOMAIN fdb => fdb[m] \in Present /\ fdb[m] # NoIface
      BY NetlinkAssumption DEF Typed, KernelTyped, Present
    <3>3. e.at = At(fdb, m) => FdbRight(m)'
      <4>1. CASE m \in DOMAIN fdb /\ e.at = fdb[m]
        <5>1. cFdb' = With(cFdb, m, fdb[m])
          BY <2>1, <2>4, <3>2, <4>1 DEF ApplyNeigh, NameOf
        <5> QED BY <2>2, <4>1, <5>1 DEF With, FdbRight
      <4>2. CASE m \notin DOMAIN fdb /\ e.at = NoIface
        BY <2>1, <2>2, <2>4, <4>2 DEF ApplyNeigh, Without, FdbRight
      <4> QED BY <4>1, <4>2 DEF At
    <3> QED BY <2>1, <2>2, <2>3, <2>4, <3>1, <3>3 DEF MacOK, MacSettled, MacListed
  <2>5. CASE e.mac # m
    <3>1. /\ m \in DOMAIN cFdb' <=> m \in DOMAIN cFdb
          /\ m \in DOMAIN cFdb => cFdb'[m] = cFdb[m]
      BY <2>1, <2>5 DEF ApplyNeigh, With, Without
    <3> QED BY <2>1, <2>2, <2>3, <2>5, <3>1
            DEF MacOK, MacSettled, MacListed, FdbRight, FdbToBeListed
  <2> QED BY <2>4, <2>5
<1>16. CASE Subscribe \/ SubscribeNeigh
  BY <1>16 DEF Subscribe, SubscribeNeigh, MacsInv, MacOK, MacSettled, MacListed,
               FdbRight, FdbToBeListed
<1>17. CASE List
  <2> SUFFICES ASSUME NEW m \in Macs, m \notin missed' PROVE MacOK(m)'
    BY DEF MacsInv, MacOK
  <2>1. /\ pc \notin {"start", "links?"} /\ DOMAIN todo = {}
        /\ pc' = Following /\ todo' = Listed /\ touched' = {} /\ stale' = stale
        /\ first' = (first /\ pc # "addrs")
        /\ UNCHANGED <<kernel, queues, cache, missed>>
    BY <1>17 DEF List, Free, None
  <2>2. MacOK(m) /\ m \notin missed
    BY <2>1 DEF MacsInv
  <2>3. pc' = "fdb" => todo' = fdb
    BY <2>1 DEF Listed
  <2>4. MacListed(m)'
    BY <2>1, <2>3 DEF MacListed
  <2>5. ASSUME m \notin stale', NoneOf(neighq', m),
               m \in DOMAIN cFdb' \/ m \in touched' \/ ~FdbToBeListed(m)'
        PROVE  FdbRight(m)'
    <3>1. m \in DOMAIN cFdb \/ m \in touched \/ ~FdbToBeListed(m) => FdbRight(m)
      BY <2>1, <2>2, <2>5 DEF MacOK, MacSettled
    <3>2. CASE m \in DOMAIN cFdb
      BY <2>1, <3>1, <3>2 DEF FdbRight
    <3>3. CASE m \notin DOMAIN cFdb /\ pc' = "fdb"
      <4>1. m \notin DOMAIN fdb
        BY <2>1, <2>3, <2>5, <3>3 DEF FdbToBeListed
      <4> QED BY <2>1, <3>3, <4>1 DEF FdbRight
    <3>4. CASE m \notin DOMAIN cFdb /\ pc' # "fdb"
      <4>1. ~FdbToBeListed(m)
        BY <2>1, <2>5, <3>4 DEF Following, FdbToBeListed, Order
      <4> QED BY <2>1, <3>1, <4>1 DEF FdbRight
    <3> QED BY <3>2, <3>3, <3>4
  <2> QED BY <2>1, <2>2, <2>4, <2>5 DEF MacOK, MacSettled
<1>18. CASE ListFails
  <2> SUFFICES ASSUME NEW m \in Macs, m \notin missed' PROVE MacOK(m)'
    BY DEF MacsInv, MacOK
  <2>1. /\ pc \notin {"start", "links?"} /\ DOMAIN todo = {} /\ stale \subseteq stale'
        /\ pc' = (IF Following = "links" THEN "addrs" ELSE Following)
        /\ first' = (first /\ pc # "addrs")
        /\ Following \in {"links", "fdb"} => m \in stale'
        /\ UNCHANGED <<kernel, queues, cache, missed, todo, touched>>
    BY <1>18 DEF ListFails, Free, None
  <2>2. MacOK(m) /\ m \notin missed
    BY <2>1 DEF MacsInv
  <2>3. MacListed(m)'
    BY <2>1 DEF MacListed
  <2>4. m \notin stale' /\ FdbToBeListed(m) => FdbToBeListed(m)'
    BY <2>1 DEF Following, FdbToBeListed, Order
  <2> QED BY <2>1, <2>2, <2>3, <2>4 DEF MacOK, MacSettled, FdbRight
<1>19. ASSUME NEW k \in Macs, WriteFdb(k) PROVE MacsInv'
  <2> SUFFICES ASSUME NEW m \in Macs, m \notin missed' PROVE MacOK(m)'
    BY DEF MacsInv, MacOK
  <2>1. /\ pc = "fdb" /\ k \in DOMAIN todo /\ todo' = Without(todo, {k})
        /\ cFdb' = With(cFdb, k, NameOf(todo[k]))
        /\ stale' = (IF k \in touched THEN stale \cup {k} ELSE stale)
        /\ UNCHANGED <<kernel, queues, pc, first, touched, missed>>
    BY <1>19 DEF WriteFdb, Take, Overtaken
  <2>2. MacOK(m) /\ m \notin missed
    BY <2>1 DEF MacsInv
  <2>3. MacListed(m)'
    BY <2>1, <2>2 DEF MacOK, MacListed, Without
  <2>4. CASE m = k
    <3>1. m \notin stale' /\ NoneOf(neighq', m) => m \in DOMAIN fdb /\ todo[m] = fdb[m]
      BY <2>1, <2>2, <2>4 DEF MacOK, MacListed
    <3>2. m \in DOMAIN fdb => NameOf(fdb[m]) = fdb[m]
      BY DEF Typed, KernelTyped, NameOf
    <3>3. m \in DOMAIN fdb /\ todo[m] = fdb[m] => FdbRight(m)'
      BY <2>1, <2>4, <3>2 DEF FdbRight, With
    <3> QED BY <2>1, <2>2, <2>3, <3>1, <3>3 DEF MacOK, MacSettled
  <2>5. CASE m # k
    <3>1. /\ m \in DOMAIN cFdb' <=> m \in DOMAIN cFdb
          /\ m \in DOMAIN cFdb => cFdb'[m] = cFdb[m]
          /\ m \in DOMAIN todo' <=> m \in DOMAIN todo
          /\ m \notin stale' => m \notin stale
      BY <2>1, <2>5 DEF With, Without
    <3> QED BY <2>1, <2>2, <2>3, <3>1 DEF MacOK, MacSettled, FdbRight, FdbToBeListed
  <2> QED BY <2>4, <2>5
<1>20. ASSUME pc # "fdb", UNCHANGED <<neighq, fdb, pc, first, cFdb, touched, missed>>,
              \A m \in Macs : m \in stale' <=> m \in stale
       PROVE  MacsInv'
  BY <1>20 DEF MacsInv, MacOK, MacSettled, MacListed, FdbRight, FdbToBeListed
<1>21. ASSUME NEW l \in Links, WriteLink(l) \/ WriteCounters(l) \/ ListAddrs(l) PROVE MacsInv'
  BY <1>20, <1>21, NetlinkAssumption DEF WriteLink, WriteCounters, ListAddrs, Take, Overtaken
<1>22. ASSUME NEW b \in Labels, WriteLabel(b) PROVE MacsInv'
  BY <1>20, <1>22 DEF WriteLabel, Take
<1>23. CASE WriteAddr
  <2>1. PICK x \in batch : Overtaken(x[1], x[1] \notin DOMAIN cLink)
    BY <1>23 DEF WriteAddr
  <2>2. x[1] \in Links /\ pc = "addrs"
    BY <2>1 DEF Order, Typed, TypeOK
  <2> QED BY <1>20, <1>23, <2>1, <2>2, NetlinkAssumption DEF WriteAddr, Overtaken
<1>24. CASE UNCHANGED vars
  BY <1>9, <1>24 DEF vars
<1>25. Kernel => MacsInv'
  BY <1>4, <1>5, <1>6, <1>7, <1>10, <1>11, <1>12, <1>13 DEF Kernel
<1>26. Main => MacsInv'
  BY <1>16, <1>17, <1>18, <1>19, <1>21, <1>22, <1>23 DEF Main
<1> QED BY <1>14, <1>15, <1>24, <1>25, <1>26 DEF Next

-----------------------------------------------------------------------------
(* The inductive invariant of the ingester, all of it.                     *)
Settled == Typed /\ Order /\ LinksInv /\ MacsInv

(* No run of kernel, event loops and lists leaves it.                      *)
LEMMA SettledInvariant == Spec => []Settled
<1>1. Init => Settled
  <2> SUFFICES ASSUME Init PROVE Settled
    OBVIOUS
  <2>1. Typed
    BY DEF Init, None, Typed, TypeOK, KernelTyped, Present, EventsTyped, ListTyped
  <2>2. Order
    BY DEF Init, None, Order
  <2>3. LinksInv
    BY DEF Init, None, LinksInv, LinkOK, LastFor, LinkSettled, LinkListed, RightBelow, Of,
           ToBeListed
  <2>4. MacsInv
    BY DEF Init, None, MacsInv, MacOK, LastOf, MacSettled, MacListed, FdbToBeListed
  <2> QED BY <2>1, <2>2, <2>3, <2>4 DEF Settled
<1>2. Settled /\ [Next]_vars => Settled'
  BY TypeStep, OrderStep, LinksStep, MacsStep DEF Settled
<1> QED BY <1>1, <1>2, PTL DEF Spec

(* Subscribing before listing leaves no gap (netlink.go:42-52): once       *)
(* nothing is under way, every link whose events came and that no          *)
(* overtaken list entry was written to is in the cache with its state of   *)
(* now, or is gone from it with its counters and addresses.                *)
THEOREM LinksFollowInvariant == Spec => []LinksFollow
<1>1. Settled => LinksFollow
  <2> SUFFICES ASSUME Settled, Quiet, NEW l \in Links \ Unknown
               PROVE  RightAbove(l) /\ RightBelow(l)
    BY DEF LinksFollow, RightAbove, RightBelow
  <2>1. LinkOK(l) /\ l \notin missed /\ l \notin stale
    BY DEF Settled, LinksInv, Unknown
  <2>2. NoneFor(linkq, l)
    BY DEF Quiet, NoneFor
  <2>3. ~ToBeListed(l)
    BY DEF Settled, Order, Quiet, ToBeListed
  <2> QED BY <2>1, <2>2, <2>3 DEF LinkOK, LinkSettled
<1> QED BY <1>1, SettledInvariant, PTL

(* Likewise every such MAC is in the cache at the interface where the      *)
(* kernel has it now, although its name is asked for later than its event  *)
(* or its list entry was made (netlink.go:120-143, 274-298).               *)
THEOREM FdbFollowsInvariant == Spec => []FdbFollows
<1>1. Settled => FdbFollows
  <2> SUFFICES ASSUME Settled, Quiet, NEW m \in Macs \ Unknown PROVE FdbRight(m)
    BY DEF FdbFollows, FdbRight
  <2>1. MacOK(m) /\ m \notin missed /\ m \notin stale
    BY DEF Settled, MacsInv, Unknown
  <2>2. NoneOf(neighq, m)
    BY DEF Quiet, NoneOf
  <2>3. ~FdbToBeListed(m)
    BY DEF Settled, Order, Quiet, FdbToBeListed
  <2> QED BY <2>1, <2>2, <2>3 DEF MacOK, MacSettled
<1> QED BY <1>1, SettledInvariant, PTL
=============================================================================
