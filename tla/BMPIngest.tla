------------------------------ MODULE BMPIngest ------------------------------
(***************************************************************************)
(* The BMP ingester of internal/ingest/bmp.go, the VRF resolver it shares  *)
(* between its connections (vrf.go) and the bgpd that dials in.            *)
(*                                                                         *)
(* bgpd has one BGP instance per VRF and every instance dials in on a      *)
(* connection of its own; each connection has a handler goroutine.  The    *)
(* handlers share the map rdVRF, the resolver and the gNMI cache.          *)
(*                                                                         *)
(* An instance is named by its route distinguisher, the default one by     *)
(* Default, which also is the name of its network-instance.  Of a peer the *)
(* address is kept, of a VPN route its key (RD and prefix) and one value   *)
(* for label, next hop and route targets.  An UPDATE that carries several  *)
(* NLRIs stands for as many messages: first those of MP_REACH, then those  *)
(* of MP_UNREACH.                                                          *)
(***************************************************************************)
EXTENDS Integers, Sequences, FiniteSets

CONSTANTS
    RDs, Default,   \* the BGP instances: those of VRFs, and the default one
    VRFNames,       \* names of VRF devices
    VRFOf,          \* the VRF device each instance of a VRF belongs to
    Peers,          \* peer addresses
    Unspecified,    \* the peer address 0.0.0.0 of the Loc-RIB peer
    Keys, Attrs,    \* VPN routes: <<RD, prefix>>, and what they carry
    NoName,         \* no VRF/Table Name TLV in a Peer Up; the empty string
    MaxConns,       \* bound of the model: connections of an instance
    MaxOps          \* bound of the model: changes in bgpd and the kernel

Insts == RDs \cup {Default}
Conns == Insts \X (1..MaxConns)

ASSUME BMPAssumption ==
    /\ Default \notin RDs \cup VRFNames /\ RDs \cap VRFNames = {}
    /\ VRFOf \in [RDs -> VRFNames] /\ \A r, s \in RDs : VRFOf[r] = VRFOf[s] => r = s
    /\ IsFiniteSet(VRFNames) /\ NoName \notin VRFNames /\ Keys \cap (Insts \X Peers) = {}
    /\ MaxConns \in Nat \ {0} /\ MaxOps \in Nat

VARIABLES
    tlv,    \* bgpd sends the VRF/Table Name TLV (FRR 10)
    sess,   \* bgpd's established sessions: pairs of instance and peer
    rib,    \* bgpd's VPN routes: <<peer, key>> -> attributes
    devs,   \* VRF devices of the kernel
    gen,    \* connections each instance has made so far
    linked, \* the instances whose last connection is up
    inq,    \* per connection: messages on the wire, in order
    pc,     \* per connection: where its handler is in peerState
    name,   \* per connection: peerState's local name
    list,   \* per connection: the devices that Refresh has listed
    vnames, \* VRFResolver.m, the names in it
    rdVRF,  \* BMP.rdVRF: RD -> VRF name
    nbr,    \* leaves session-state: <<network-instance, peer>> -> state
    routes, \* VPN routes of the cache: key -> peer and attributes
    doubt,  \* history: sessions and routes of which a change was not sent or
            \* was lost on the wire, and routes that two peers announced at
            \* once, that went down with their peer, or whose withdraw had no
            \* bottom-of-stack bit; until sent again
    mixed,  \* history: instances whose next connection began before the one
            \* before it was handled
    steady, \* history: no VRF device has come or gone since the start
    ops

handlers == <<pc, name, list, vnames, rdVRF, nbr, routes>>
bgpd == <<tlv, sess, rib, devs, gen, linked, doubt, mixed, steady, ops>>
vars == <<bgpd, inq, handlers>>

Put(f, x, v)  == [y \in DOMAIN f \cup {x} |-> IF y = x THEN v ELSE f[y]]
Drop(f, S)    == [x \in DOMAIN f \ S |-> f[x]]
EmptyMap      == [x \in {} |-> NoName]

Init ==
    /\ tlv \in BOOLEAN /\ sess = {} /\ rib = EmptyMap
    /\ devs \in SUBSET VRFNames
    /\ gen = [i \in Insts |-> 0] /\ linked = {}
    /\ inq = [c \in Conns |-> <<>>]
    /\ pc = [c \in Conns |-> "idle"] /\ name = [c \in Conns |-> NoName]
    /\ list = [c \in Conns |-> {}]
    /\ vnames = devs /\ rdVRF = EmptyMap
    /\ nbr = EmptyMap /\ routes = EmptyMap
    /\ doubt = {} /\ mixed = {} /\ steady = TRUE /\ ops = 0
-----------------------------------------------------------------------------
(* bgpd and the kernel.                                                    *)
Count == ops < MaxOps /\ ops' = ops + 1

Up(i, p)   == [op |-> "up", peer |-> p, about |-> <<i, p>>,
               tlv |-> IF tlv /\ i # Default THEN VRFOf[i] ELSE NoName]
Down(i, p) == [op |-> "down", peer |-> p, about |-> <<i, p>>, tlv |-> NoName]
Reach(p, k, a)   == [op |-> "reach", peer |-> p, about |-> k, attr |-> a, bottom |-> TRUE]
Unreach(p, k, b) == [op |-> "unreach", peer |-> p, about |-> k, bottom |-> b]

Tell(i, m) ==
    inq' = IF i \in linked THEN [inq EXCEPT ![<<i, gen[i]>>] = Append(@, m)] ELSE inq
(* Whether what was told of x leaves no doubt about it.                    *)
Clears(i, x, sure) ==
    doubt' = IF i \in linked /\ sure THEN doubt \ {x} ELSE doubt \cup {x}

Listed(S) == CHOOSE s \in [1..Cardinality(S) -> S] : {s[n] : n \in DOMAIN s} = S
Holders(k) == {p \in Peers : <<p, k>> \in DOMAIN rib}

(* An instance dials in and sends all it has: its sessions, its routes.    *)
Connect(i) ==
    /\ i \notin linked /\ gen[i] < MaxConns
    /\ linked' = linked \cup {i} /\ gen' = [gen EXCEPT ![i] = @ + 1]
    /\ LET ups == {Up(i, p) : p \in {q \in Peers : <<i, q>> \in sess}}
           rms == {Reach(e[1], e[2], rib[e]) : e \in IF i = Default THEN DOMAIN rib ELSE {}}
       IN /\ inq' = [inq EXCEPT ![<<i, gen[i] + 1>>] = Listed(ups) \o Listed(rms)]
          /\ doubt' = doubt \ ({m.about : m \in ups}
                                \cup {m.about : m \in {n \in rms : Holders(n.about) = {n.peer}}})
    /\ mixed' = IF gen[i] > 0 /\ inq[<<i, gen[i]>>] # <<>> THEN mixed \cup {i} ELSE mixed
    /\ UNCHANGED <<tlv, sess, rib, devs, steady, ops, handlers>>

(* The connection breaks; the last messages may never arrive.              *)
Disconnect(i) ==
    /\ i \in linked /\ gen[i] < MaxConns
    /\ linked' = linked \ {i}
    /\ \E n \in 0..Len(inq[<<i, gen[i]>>]) :
          /\ pc[<<i, gen[i]>>] # "idle" => n > 0
          /\ inq' = [inq EXCEPT ![<<i, gen[i]>>] = SubSeq(@, 1, n)]
          /\ LET wire == inq[<<i, gen[i]>>] IN
                doubt' = doubt \cup {wire[j].about : j \in n + 1..Len(wire)}
    /\ UNCHANGED <<tlv, sess, rib, devs, gen, mixed, steady, ops, handlers>>

SessionUp(i, p) ==
    /\ Count /\ <<i, p>> \notin sess
    /\ i # Default => VRFOf[i] \in devs
    /\ sess' = sess \cup {<<i, p>>}
    /\ Tell(i, Up(i, p)) /\ Clears(i, <<i, p>>, TRUE)
    /\ UNCHANGED <<tlv, rib, devs, gen, linked, mixed, steady, handlers>>

(* A session that goes down takes its routes along without a word.         *)
SessionDown(i, p) ==
    /\ Count /\ <<i, p>> \in sess
    /\ sess' = sess \ {<<i, p>>}
    /\ LET gone == {e \in DOMAIN rib : i = Default /\ e[1] = p} IN
         /\ rib' = Drop(rib, gone)
         /\ doubt' = {e[2] : e \in gone}
                     \cup (IF i \in linked THEN doubt \ {<<i, p>>} ELSE doubt \cup {<<i, p>>})
    /\ Tell(i, Down(i, p))
    /\ UNCHANGED <<tlv, devs, gen, linked, mixed, steady, handlers>>

Announce(p, k, a) ==
    /\ Count /\ <<Default, p>> \in sess /\ p # Unspecified
    /\ <<p, k>> \in DOMAIN rib => rib[<<p, k>>] # a
    /\ rib' = Put(rib, <<p, k>>, a)
    /\ Tell(Default, Reach(p, k, a)) /\ Clears(Default, k, Holders(k) \subseteq {p})
    /\ UNCHANGED <<tlv, sess, devs, gen, linked, mixed, steady, handlers>>

(* The label of a withdrawn route has no meaning; its bottom-of-stack bit  *)
(* may be set or not.                                                      *)
Withdraw(p, k) ==
    /\ Count /\ <<p, k>> \in DOMAIN rib
    /\ rib' = Drop(rib, {<<p, k>>})
    /\ \E bottom \in BOOLEAN :
          /\ Tell(Default, Unreach(p, k, bottom))
          /\ Clears(Default, k, Holders(k) = {p} /\ bottom)
    /\ UNCHANGED <<tlv, sess, devs, gen, linked, mixed, steady, handlers>>

(* A VRF device is made, or removed once its sessions are down.            *)
Device(n) ==
    /\ Count
    /\ \/ n \notin devs /\ devs' = devs \cup {n}
       \/ /\ n \in devs /\ \A e \in sess : e[1] # Default => VRFOf[e[1]] # n
          /\ devs' = devs \ {n}
    /\ steady' = FALSE
    /\ UNCHANGED <<tlv, sess, rib, gen, linked, doubt, mixed, inq, handlers>>
-----------------------------------------------------------------------------
(* handle: the messages of a connection in their order.                    *)
Msg(c) == Head(inq[c])
At(c, place) == pc[c] = place /\ inq[c] # <<>>
Goto(c, place) == pc' = [pc EXCEPT ![c] = place]
Done(c) == inq' = [inq EXCEPT ![c] = Tail(@)] /\ Goto(c, "idle")
PeerMsg(c) == Msg(c).op \in {"up", "down"}
RD(c) == c[1]

(* peerState skips the Loc-RIB peer.                                       *)
SkipPeerByState(c) ==           \* a fault: the Loc-RIB peer is shown as a neighbor
    /\ At(c, "idle") /\ PeerMsg(c) /\ Msg(c).peer = Unspecified
    /\ Done(c)
    /\ nbr' = Put(nbr, <<RD(c), Unspecified>>, "ESTABLISHED")
    /\ UNCHANGED <<bgpd, name, list, vnames, rdVRF, routes>>
SkipPeer(c) ==
    /\ At(c, "idle") /\ PeerMsg(c) /\ Msg(c).peer = Unspecified
    /\ Done(c)
    /\ UNCHANGED <<bgpd, name, list, vnames, rdVRF, nbr, routes>>

(* The network-instance of the peer: known already, or told by the TLV, or *)
(* to be guessed from the VRF devices.                                     *)
NamedForDown(c) ==              \* a fault: a Peer Up does not look at the map
    RD(c) \in DOMAIN rdVRF /\ Msg(c).op = "down"
Named(c) == RD(c) \in DOMAIN rdVRF
ToldDown(c) == Msg(c).op = "down" /\ Msg(c).tlv # NoName    \* a fault: the wrong message is asked
Told(c) == Msg(c).op = "up" /\ Msg(c).tlv # NoName

Lookup(c) ==
    /\ At(c, "idle") /\ PeerMsg(c) /\ Msg(c).peer # Unspecified
    /\ \/ /\ RD(c) = Default
          /\ name' = [name EXCEPT ![c] = Default] /\ Goto(c, "write")
       \/ /\ RD(c) # Default /\ Named(c)
          /\ name' = [name EXCEPT ![c] = rdVRF[RD(c)]] /\ Goto(c, "write")
       \/ /\ RD(c) # Default /\ ~Named(c) /\ Told(c)
          /\ name' = [name EXCEPT ![c] = Msg(c).tlv] /\ Goto(c, "learn")
       \/ /\ RD(c) # Default /\ ~Named(c) /\ ~Told(c)
          /\ Goto(c, "refresh") /\ UNCHANGED name
    /\ UNCHANGED <<bgpd, inq, list, vnames, rdVRF, nbr, routes>>

(* NonDefaultNames: Refresh lists the devices (or fails to) ...            *)
Refresh(c) ==
    /\ At(c, "refresh")
    /\ \/ list' = [list EXCEPT ![c] = devs] /\ Goto(c, "publish")
       \/ Goto(c, "names") /\ UNCHANGED list
    /\ UNCHANGED <<bgpd, inq, name, vnames, rdVRF, nbr, routes>>

(* ... and makes them the resolver's map, whatever it is by now ...        *)
Publish(c) ==
    /\ At(c, "publish") /\ Goto(c, "names")
    /\ vnames' = list[c] /\ list' = [list EXCEPT ![c] = {}]
    /\ UNCHANGED <<bgpd, inq, name, rdVRF, nbr, routes>>

(* ... whose names are then read.  A sole VRF is taken for the peer's.     *)
ReadNamesMany(c) ==             \* a fault: the sole VRF is not enough
    /\ At(c, "names") /\ Goto(c, "write")
    /\ name' = [name EXCEPT ![c] = RD(c)]
    /\ UNCHANGED <<bgpd, inq, list, vnames, rdVRF, nbr, routes>>
ReadNames(c) ==
    /\ At(c, "names")
    /\ \/ /\ Cardinality(vnames) = 1
          /\ name' = [name EXCEPT ![c] = CHOOSE n \in vnames : TRUE]
          /\ Goto(c, "learn")
       \/ /\ Cardinality(vnames) # 1
          /\ name' = [name EXCEPT ![c] = RD(c)]
          /\ Goto(c, "write")
    /\ UNCHANGED <<bgpd, inq, list, vnames, rdVRF, nbr, routes>>

Learn(c) ==
    /\ At(c, "learn") /\ Goto(c, "write")
    /\ rdVRF' = Put(rdVRF, RD(c), name[c])
    /\ UNCHANGED <<bgpd, inq, name, list, vnames, nbr, routes>>

StateOf(m) == IF m.op = "up" THEN "ESTABLISHED" ELSE "IDLE"
WritePeer(c) ==
    /\ At(c, "write") /\ Done(c)
    /\ nbr' = Put(nbr, <<name[c], Msg(c).peer>>, StateOf(Msg(c)))
    /\ name' = [name EXCEPT ![c] = NoName]
    /\ UNCHANGED <<bgpd, list, vnames, rdVRF, routes>>

(* parseVPNNLRI: the labels end at the first bottom-of-stack bit.  Without *)
(* one the loop eats into the RD, and what it reads is no route of bgpd's  *)
(* or nothing at all.                                                      *)
ParseVPNNLRI(m) == IF m.bottom THEN {m.about} ELSE {}

(* routeMon, one NLRI: writeVPNRoute.                                      *)
WriteRouteOnce(c) ==            \* a fault: a route that is there is not written again
    /\ At(c, "idle") /\ Msg(c).op = "reach" /\ Done(c)
    /\ routes' = IF Msg(c).about \in DOMAIN routes THEN routes
                 ELSE Put(routes, Msg(c).about, [peer |-> Msg(c).peer, attr |-> Msg(c).attr])
    /\ UNCHANGED <<bgpd, name, list, vnames, rdVRF, nbr>>
WriteRoute(c) ==
    /\ At(c, "idle") /\ Msg(c).op = "reach" /\ Done(c)
    /\ routes' = Put(routes, Msg(c).about, [peer |-> Msg(c).peer, attr |-> Msg(c).attr])
    /\ UNCHANGED <<bgpd, name, list, vnames, rdVRF, nbr>>

WithdrawRoute(c) ==
    /\ At(c, "idle") /\ Msg(c).op = "unreach" /\ Done(c)
    /\ routes' = Drop(routes, ParseVPNNLRI(Msg(c)))
    /\ UNCHANGED <<bgpd, name, list, vnames, rdVRF, nbr>>

Handler(c) ==
    \/ SkipPeer(c) \/ Lookup(c) \/ Refresh(c) \/ Publish(c) \/ ReadNames(c)
    \/ Learn(c) \/ WritePeer(c) \/ WriteRoute(c) \/ WithdrawRoute(c)

Environment ==
    \/ \E i \in Insts : Connect(i) \/ Disconnect(i)
    \/ \E i \in Insts, p \in Peers : SessionUp(i, p) \/ SessionDown(i, p)
    \/ \E p \in Peers, k \in Keys : Withdraw(p, k) \/ \E a \in Attrs : Announce(p, k, a)
    \/ \E n \in VRFNames : Device(n)

Next == Environment \/ \E c \in Conns : Handler(c)

Spec == Init /\ [][Next]_vars
-----------------------------------------------------------------------------
Instances == {Default} \cup VRFNames \cup RDs
Known == Peers \ {Unspecified}

(* The network-instance of a BGP instance: that of its VRF, if bgpd names  *)
(* it or there is one VRF device to guess, and else its RD.                *)
Home(i) ==
    CASE i = Default -> Default
      [] i # Default /\ (tlv \/ Cardinality(devs) = 1) -> VRFOf[i]
      [] OTHER -> i

(* Type invariant of the ingester's state.                                 *)
TypeOK ==
    /\ pc \in [Conns -> {"idle", "refresh", "publish", "names", "learn", "write"}]
    /\ name \in [Conns -> Instances \cup {NoName}]
    /\ list \in [Conns -> SUBSET VRFNames] /\ vnames \subseteq VRFNames
    /\ DOMAIN rdVRF \subseteq RDs /\ \A r \in DOMAIN rdVRF : rdVRF[r] \in VRFNames
    /\ DOMAIN nbr \subseteq Instances \X Known
    /\ \A e \in DOMAIN nbr : nbr[e] \in {"ESTABLISHED", "IDLE"}
    /\ DOMAIN routes \subseteq Keys
    /\ \A k \in DOMAIN routes : routes[k] \in [peer : Known, attr : Attrs]

(* Every message that arrived has been handled.                            *)
Quiet == \A c \in Conns : inq[c] = <<>>

(* When all is handled, a neighbor is shown as ESTABLISHED exactly when    *)
(* bgpd has the session, in the network-instance of its VRF if bgpd names  *)
(* it or the devices have not changed, and the Loc-RIB peer never is.  It  *)
(* need not be so when connections overlapped or a change of the session   *)
(* was not received (peerState, bmp.go:146-194).                           *)
SessionsAccurate ==
    Quiet /\ (tlv \/ steady) =>
        \A i \in Insts \ mixed : \A p \in {q \in Peers : <<i, q>> \notin doubt} :
            LET e == <<Home(i), p>> IN
            (<<i, p>> \in sess /\ p # Unspecified)
                <=> (e \in DOMAIN nbr /\ nbr[e] = "ESTABLISHED")

(* No neighbor is ever filed anywhere but there, not even when connections *)
(* of one instance overlap (the order of map, TLV and guess,               *)
(* bmp.go:161-183).                                                        *)
FiledRight ==
    tlv \/ steady => \A e \in DOMAIN nbr : \E i \in Insts : e[1] = Home(i)

(* An RD keeps the name it was given first, although the map is looked at  *)
(* and written under two separate holds of the lock (bmp.go:162-177): what *)
(* is guessed may differ only between overlapping connections of the same  *)
(* instance.                                                               *)
LearnedOnce ==
    [][\A r \in DOMAIN rdVRF : tlv \/ r \notin mixed =>
          r \in DOMAIN rdVRF' /\ rdVRF'[r] = rdVRF[r]]_vars

(* When all is handled, the VPN routes in the cache are bgpd's, each with  *)
(* the peer and the attributes it has now (bmp.go:298-393).  It need not   *)
(* be so when connections overlapped, and for routes in doubt.             *)
RibAccurate ==
    Quiet /\ Default \notin mixed => \A k \in Keys \ doubt :
        /\ k \in DOMAIN routes <=> Holders(k) # {}
        /\ \A p \in Holders(k) : routes[k] = [peer |-> p, attr |-> rib[<<p, k>>]]
=============================================================================
