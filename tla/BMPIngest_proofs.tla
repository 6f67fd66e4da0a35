--------------------------- MODULE BMPIngest_proofs ---------------------------
(***************************************************************************)
(* Proofs about BMPIngest, for every set of BGP instances, peers and       *)
(* routes, any number of connections and of changes in bgpd.               *)
(***************************************************************************)
EXTENDS BMPIngest, FiniteSetTheorems, TLAPS

-----------------------------------------------------------------------------
(* What an instance may send, on any of its connections.                   *)
Sendable(i) ==
    {Up(i, p) : p \in Peers} \cup {Down(i, p) : p \in Peers}
    \cup (IF i = Default
          THEN {Reach(p, k, a) : p \in Known, k \in Keys, a \in Attrs}
               \cup {Unreach(p, k, b) : p \in Known, k \in Keys, b \in BOOLEAN}
          ELSE {})

(* The forms of the messages that an instance sends (bgpd's part of        *)
(* Connect, SessionUp, SessionDown, Announce and Withdraw).                *)
LEMMA SendableAre ==
  ASSUME NEW i \in Insts, NEW m \in Sendable(i)
  PROVE  /\ m.op \in {"up", "down", "reach", "unreach"}
         /\ m.op \in {"up", "down"} => m.peer \in Peers /\ m.about = <<i, m.peer>>
         /\ m.op = "up" => m.tlv = IF tlv /\ i # Default THEN VRFOf[i] ELSE NoName
         /\ m.op \in {"reach", "unreach"} => i = Default /\ m.peer \in Known /\ m.about \in Keys
         /\ m.op = "reach" => m.attr \in Attrs /\ m.bottom = TRUE
         /\ m.op = "unreach" => m.bottom \in BOOLEAN
<1>1. ASSUME NEW p \in Peers, m = Up(i, p) PROVE /\ m.op = "up" /\ m.peer \in Peers
               /\ m.about = <<i, m.peer>>
               /\ m.tlv = IF tlv /\ i # Default THEN VRFOf[i] ELSE NoName
  BY <1>1 DEF Up
<1>2. ASSUME NEW p \in Peers, m = Down(i, p)
      PROVE  m.op = "down" /\ m.peer \in Peers /\ m.about = <<i, m.peer>>
  BY <1>2 DEF Down
<1>3. ASSUME NEW p \in Known, NEW k \in Keys, NEW a \in Attrs, m = Reach(p, k, a)
      PROVE  m.op = "reach" /\ m.peer \in Known /\ m.about \in Keys
             /\ m.attr \in Attrs /\ m.bottom = TRUE
  BY <1>3 DEF Reach
<1>4. ASSUME NEW p \in Known, NEW k \in Keys, NEW b \in BOOLEAN, m = Unreach(p, k, b)
      PROVE  m.op = "unreach" /\ m.peer \in Known /\ m.about \in Keys /\ m.bottom \in BOOLEAN
  BY <1>4 DEF Unreach
<1>5. \/ \E p \in Peers : m = Up(i, p)
      \/ \E p \in Peers : m = Down(i, p)
      \/ i = Default /\ \E p \in Known, k \in Keys, a \in Attrs : m = Reach(p, k, a)
      \/ i = Default /\ \E p \in Known, k \in Keys, b \in BOOLEAN : m = Unreach(p, k, b)
  BY DEF Sendable
<1>6. CASE \E p \in Peers : m = Up(i, p)
  BY <1>1, <1>6
<1>7. CASE \E p \in Peers : m = Down(i, p)
  BY <1>2, <1>7
<1>8. CASE i = Default /\ \E p \in Known, k \in Keys, a \in Attrs : m = Reach(p, k, a)
  BY <1>3, <1>8
<1>9. CASE i = Default /\ \E p \in Known, k \in Keys, b \in BOOLEAN : m = Unreach(p, k, b)
  BY <1>4, <1>9
<1> QED BY <1>5, <1>6, <1>7, <1>8, <1>9

(* A finite set can be listed: what Connect sends exists.                  *)
LEMMA ListedIs ==
  ASSUME NEW S, IsFiniteSet(S)
  PROVE  /\ Listed(S) \in Seq(S)
         /\ \A x \in S : \E n \in 1..Len(Listed(S)) : Listed(S)[n] = x
<1> DEFINE c == Cardinality(S)
<1>1. c \in Nat /\ ExistsBijection(1..c, S)
  BY FS_CardinalityType
<1>2. PICK f \in Bijection(1..c, S) : TRUE
  BY <1>1 DEF ExistsBijection
<1>3. f \in [1..c -> S] /\ \A x \in S : \E n \in 1..c : f[n] = x
  BY <1>2 DEF Bijection, Surjection
<1>4. {f[n] : n \in DOMAIN f} = S
  BY <1>3
<1>5. Listed(S) \in [1..c -> S] /\ {Listed(S)[n] : n \in DOMAIN Listed(S)} = S
  BY <1>3, <1>4, ZenonT(60) DEF Listed
<1> HIDE DEF c
<1>6. Listed(S) \in Seq(S) /\ Len(Listed(S)) = c
  BY <1>1, <1>5
<1> QED BY <1>5, <1>6

-----------------------------------------------------------------------------
(* The type of what TypeOK leaves open.  Messages are about the instance   *)
(* that sent them, a handler that is amid peerState still has its message  *)
(* before it, and a connection that was not made has none.                 *)
BgpdTyped ==
    /\ tlv \in BOOLEAN /\ steady \in BOOLEAN
    /\ sess \subseteq Insts \X Peers /\ IsFiniteSet(sess)
    /\ DOMAIN rib \subseteq Known \X Keys /\ IsFiniteSet(DOMAIN rib)
    /\ \A e \in DOMAIN rib : rib[e] \in Attrs
    /\ devs \subseteq VRFNames
    /\ gen \in [Insts -> 0..MaxConns] /\ linked \subseteq Insts
    /\ \A i \in linked : gen[i] > 0
WireTyped ==
    /\ DOMAIN inq = Conns /\ \A c \in Conns : inq[c] \in Seq(Sendable(RD(c)))
    /\ \A c \in Conns : c[2] > gen[RD(c)] => inq[c] = <<>>
HandlersTyped ==
    \A c \in Conns :
        /\ pc[c] # "idle" => inq[c] # <<>> /\ PeerMsg(c) /\ Msg(c).peer \in Known
        /\ pc[c] \in {"refresh", "publish", "names", "learn"} => RD(c) \in RDs
        /\ pc[c] = "learn" => name[c] \in VRFNames
        /\ pc[c] = "write" => name[c] \in Instances
Typed == TypeOK /\ BgpdTyped /\ WireTyped /\ HandlersTyped

(* What happens to one queue keeps its type, and its head if it has one.   *)
LEMMA QueueType ==
  ASSUME NEW S, NEW q \in Seq(S)
  PROVE  /\ \A m \in S : Append(q, m) \in Seq(S) /\ Append(q, m) # <<>>
         /\ \A m : q # <<>> => Head(Append(q, m)) = Head(q)
         /\ \A n \in 0..Len(q) : SubSeq(q, 1, n) \in Seq(S)
         /\ \A n \in 1..Len(q) : SubSeq(q, 1, n) # <<>> /\ Head(SubSeq(q, 1, n)) = Head(q)
         /\ q # <<>> => Head(q) \in S /\ Tail(q) \in Seq(S)
<1>1. ASSUME NEW m \in S PROVE Append(q, m) \in Seq(S) /\ Append(q, m) # <<>>
  <2>1. Append(q, m) \in Seq(S) /\ Len(Append(q, m)) = Len(q) + 1 /\ Len(q) \in Nat
    OBVIOUS
  <2> QED BY <2>1
<1>2. ASSUME NEW m, q # <<>> PROVE Head(Append(q, m)) = Head(q)
  BY <1>2
<1>3. ASSUME NEW n \in 0..Len(q) PROVE SubSeq(q, 1, n) \in Seq(S)
  OBVIOUS
<1>4. ASSUME NEW n \in 1..Len(q)
      PROVE  SubSeq(q, 1, n) # <<>> /\ Head(SubSeq(q, 1, n)) = Head(q)
  <2>1. Len(SubSeq(q, 1, n)) = n /\ SubSeq(q, 1, n)[1] = q[1] /\ n > 0
    OBVIOUS
  <2> QED BY <2>1
<1> QED BY <1>1, <1>2, <1>3, <1>4

(* Tell appends to the queue of the connection that is up, if there is one.*)
LEMMA TellType ==
  ASSUME Typed, NEW i \in Insts, NEW m \in Sendable(i), Tell(i, m)
  PROVE  /\ DOMAIN inq' = Conns
         /\ \A c \in Conns : inq'[c] \in Seq(Sendable(RD(c)))
         /\ \A c \in Conns : inq'[c] = inq[c]
                             \/ (c = <<i, gen[i]>> /\ i \in linked /\ inq'[c] = Append(inq[c], m))
         /\ \A c \in Conns : inq[c] # <<>> => inq'[c] # <<>> /\ Head(inq'[c]) = Head(inq[c])
<1> USE DEF Typed, WireTyped
<1>1. CASE i \notin linked
  BY <1>1 DEF Tell
<1>2. CASE i \in linked
  <2>1. <<i, gen[i]>> \in Conns /\ RD(<<i, gen[i]>>) = i
    BY <1>2, BMPAssumption DEF BgpdTyped, Conns, RD
  <2>2. inq' = [inq EXCEPT ![<<i, gen[i]>>] = Append(@, m)]
    BY <1>2 DEF Tell
  <2>3. ASSUME NEW c \in Conns
        PROVE  inq'[c] = IF c = <<i, gen[i]>> THEN Append(inq[c], m) ELSE inq[c]
    BY <2>1, <2>2
  <2>4. ASSUME NEW c \in Conns, c = <<i, gen[i]>>
        PROVE  /\ Append(inq[c], m) \in Seq(Sendable(RD(c))) /\ Append(inq[c], m) # <<>>
               /\ inq[c] # <<>> => Head(Append(inq[c], m)) = Head(inq[c])
    <3>1. inq[c] \in Seq(Sendable(i)) /\ RD(c) = i
      BY <2>1, <2>4
    <3> QED BY <3>1, QueueType
  <2> QED BY <1>2, <2>2, <2>3, <2>4
<1> QED BY <1>1, <1>2

(* A step of bgpd leaves the handlers where they are, if the messages they *)
(* are about stay at the heads of the queues.                              *)
LEMMA HandlersKeep ==
  ASSUME Typed, tlv' = tlv, UNCHANGED handlers,
         \A c \in Conns : pc[c] # "idle" => inq'[c] # <<>> /\ Head(inq'[c]) = Head(inq[c])
  PROVE  TypeOK' /\ HandlersTyped'
<1>1. TypeOK'
  BY DEF Typed, TypeOK, handlers
<1>2. ASSUME NEW c \in Conns
      PROVE  /\ pc'[c] # "idle" => inq'[c] # <<>> /\ PeerMsg(c)' /\ Msg(c)'.peer \in Known
             /\ pc'[c] \in {"refresh", "publish", "names", "learn"} => RD(c) \in RDs
             /\ pc'[c] = "learn" => name'[c] \in VRFNames
             /\ pc'[c] = "write" => name'[c] \in Instances
  <2>1. pc'[c] = pc[c] /\ name'[c] = name[c]
    BY DEF handlers
  <2>2. pc[c] # "idle" => Msg(c)' = Msg(c) /\ inq'[c] # <<>>
    BY DEF Msg
  <2>3. pc[c] # "idle" => PeerMsg(c)' /\ Msg(c)'.peer \in Known
    BY <2>2 DEF Typed, HandlersTyped, PeerMsg
  <2> QED BY <2>1, <2>2, <2>3 DEF Typed, HandlersTyped
<1>3. HandlersTyped'
  BY <1>2 DEF HandlersTyped, RD
<1> QED BY <1>1, <1>3

(* What can be sent is known once it is known whether names are sent.      *)
LEMMA SendableSame ==
  ASSUME tlv' = tlv, NEW i \in Insts
  PROVE  Sendable(i)' = Sendable(i)
<1>1. \A p \in Peers : Up(i, p)' = Up(i, p)
  BY DEF Up
<1> QED BY <1>1 DEF Sendable

(* A connection that is made sends its sessions and routes, which are      *)
(* finitely many.                                                          *)
LEMMA ConnectSends ==
  ASSUME Typed, NEW i \in Insts
  PROVE  LET ups == {Up(i, p) : p \in {q \in Peers : <<i, q>> \in sess}}
             rms == {Reach(e[1], e[2], rib[e]) : e \in IF i = Default THEN DOMAIN rib ELSE {}}
         IN /\ IsFiniteSet(ups) /\ ups \subseteq Sendable(i)
            /\ IsFiniteSet(rms) /\ rms \subseteq Sendable(i)
<1> DEFINE P == {q \in Peers : <<i, q>> \in sess}
           ups == {Up(i, p) : p \in P}
           D == IF i = Default THEN DOMAIN rib ELSE {}
           rms == {Reach(e[1], e[2], rib[e]) : e \in D}
<1>1. IsFiniteSet(sess) /\ IsFiniteSet(DOMAIN rib) /\ DOMAIN rib \subseteq Known \X Keys
      /\ \A e \in DOMAIN rib : rib[e] \in Attrs
  BY DEF Typed, BgpdTyped
<1>2. IsFiniteSet(ups)
  <2>1. IsFiniteSet({e \in sess : e[1] = i /\ e[2] \in Peers})
    BY <1>1, FS_Subset
  <2> DEFINE E == {e \in sess : e[1] = i /\ e[2] \in Peers}
             f == [e \in E |-> Up(i, e[2])]
  <2>2. ASSUME NEW m \in ups PROVE \E e \in E : f[e] = m
    <3>1. PICK p \in P : m = Up(i, p)
      OBVIOUS
    <3>2. <<i, p>> \in E
      OBVIOUS
    <3> QED BY <3>1, <3>2
  <2>3. f \in [E -> ups]
    <3>1. ASSUME NEW e \in E PROVE Up(i, e[2]) \in ups
      <4>1. e[2] \in P
        BY DEF Typed, BgpdTyped
      <4> QED BY <4>1
    <3> QED BY <3>1
  <2>4. f \in Surjection(E, ups)
    BY <2>2, <2>3 DEF Surjection
  <2> QED BY <2>1, <2>4, FS_Surjection
<1>3. IsFiniteSet(rms)
  <2>1. IsFiniteSet(D)
    BY <1>1, FS_EmptySet
  <2> DEFINE f == [e \in D |-> Reach(e[1], e[2], rib[e])]
  <2>2. f \in Surjection(D, rms)
    BY DEF Surjection
  <2> QED BY <2>1, <2>2, FS_Surjection
<1>4. ups \subseteq Sendable(i)
  <2>1. ASSUME NEW m \in ups PROVE m \in Sendable(i)
    <3>1. PICK p \in P : m = Up(i, p)
      OBVIOUS
    <3>2. \E q \in Peers : m = Up(i, q)
      BY <3>1
    <3> HIDE DEF P
    <3> QED BY <3>2 DEF Sendable
  <2> QED BY <2>1
<1>5. rms \subseteq Sendable(i)
  <2>1. ASSUME NEW e \in D PROVE Reach(e[1], e[2], rib[e]) \in Sendable(i)
    <3>1. i = Default /\ e \in DOMAIN rib
      OBVIOUS
    <3>2. e[1] \in Known /\ e[2] \in Keys /\ rib[e] \in Attrs
      BY <1>1, <3>1
    <3> QED BY <3>1, <3>2 DEF Sendable
  <2> QED BY <2>1
<1> QED BY <1>2, <1>3, <1>4, <1>5

(* A new connection starts with what the instance has, in any order: all   *)
(* of it is sendable.                                                      *)
LEMMA ConnectType ==
  ASSUME BMPAssumption, Typed, NEW i \in Insts, Connect(i)
  PROVE  Typed'
<1> DEFINE ups == {Up(i, p) : p \in {q \in Peers : <<i, q>> \in sess}}
           rms == {Reach(e[1], e[2], rib[e]) : e \in IF i = Default THEN DOMAIN rib ELSE {}}
           q == Listed(ups) \o Listed(rms)
           d == <<i, gen[i] + 1>>
<1>1. q \in Seq(Sendable(i))
  <2>1. IsFiniteSet(ups) /\ ups \subseteq Sendable(i)
        /\ IsFiniteSet(rms) /\ rms \subseteq Sendable(i)
    BY ConnectSends
  <2> HIDE DEF ups, rms
  <2>2. Listed(ups) \in Seq(ups) /\ Listed(rms) \in Seq(rms)
    BY <2>1, ListedIs
  <2>3. Listed(ups) \in Seq(Sendable(i)) /\ Listed(rms) \in Seq(Sendable(i))
    BY <2>1, <2>2
  <2> QED BY <2>3
<1>2. gen[i] \in Nat /\ gen[i] < MaxConns /\ gen' = [gen EXCEPT ![i] = @ + 1]
      /\ linked' = linked \cup {i} /\ gen \in [Insts -> 0..MaxConns] /\ MaxConns \in Nat
  BY BMPAssumption DEF Connect, Typed, BgpdTyped
<1>3. d \in Conns /\ RD(d) = i /\ d[2] = gen[i] + 1
  BY <1>2 DEF Conns, RD
<1>4. DOMAIN inq' = Conns /\ \A c \in Conns : inq'[c] = IF c = d THEN q ELSE inq[c]
  BY <1>3 DEF Connect, Typed, WireTyped
<1>5. inq[d] = <<>>
  BY <1>2, <1>3 DEF Typed, WireTyped
<1>6. UNCHANGED <<tlv, sess, rib, devs, steady>> /\ UNCHANGED handlers
  BY DEF Connect
<1> HIDE DEF q
<1>7. BgpdTyped'
  <2>1. gen' \in [Insts -> 0..MaxConns] /\ linked' \subseteq Insts
        /\ \A j \in linked' : gen'[j] > 0
    BY <1>2 DEF Typed, BgpdTyped
  <2> QED BY <2>1, <1>6 DEF Typed, BgpdTyped
<1>8. WireTyped'
  <2>1. ASSUME NEW c \in Conns PROVE inq'[c] \in Seq(Sendable(RD(c))')
    <3>1. RD(c) \in Insts
      BY DEF RD, Conns
    <3>2. Sendable(RD(c))' = Sendable(RD(c))
      BY <1>6, <3>1, SendableSame DEF RD
    <3>3. CASE c = d
      BY <3>2, <3>3, <1>1, <1>3, <1>4
    <3>4. CASE c # d
      <4>1. inq'[c] = inq[c] /\ inq[c] \in Seq(Sendable(RD(c)))
        BY <3>4, <1>4 DEF Typed, WireTyped
      <4> QED BY <3>2, <4>1
    <3> QED BY <3>3, <3>4
  <2>2. ASSUME NEW c \in Conns, c[2] > gen'[RD(c)] PROVE inq'[c] = <<>>
    <3>1. RD(c) \in Insts /\ c = <<RD(c), c[2]>> /\ c[2] \in Nat
      BY <1>2 DEF RD, Conns
    <3>2. c # d
      BY <2>2, <1>2, <1>3
    <3>3. c[2] > gen[RD(c)]
      BY <2>2, <1>2, <3>1
    <3> QED BY <3>2, <3>3, <1>4 DEF Typed, WireTyped
  <2> QED BY <2>1, <2>2, <1>4 DEF WireTyped, RD
<1>9. ASSUME NEW c \in Conns, pc[c] # "idle"
      PROVE  inq'[c] # <<>> /\ Head(inq'[c]) = Head(inq[c])
  <2>1. inq[c] # <<>>
    BY <1>9 DEF Typed, HandlersTyped
  <2> QED BY <2>1, <1>4, <1>5
<1>10. TypeOK' /\ HandlersTyped'
  BY <1>6, <1>9, HandlersKeep
<1> QED BY <1>7, <1>8, <1>10 DEF Typed

(* A broken connection keeps a prefix of its queue.                        *)
LEMMA DisconnectType ==
  ASSUME BMPAssumption, Typed, NEW i \in Insts, Disconnect(i)
  PROVE  Typed'
<1> DEFINE d == <<i, gen[i]>>
<1>1. PICK n \in 0..Len(inq[d]) :
         /\ pc[d] # "idle" => n > 0
         /\ inq' = [inq EXCEPT ![d] = SubSeq(@, 1, n)]
  BY DEF Disconnect
<1>2. d \in Conns /\ RD(d) = i
  BY BMPAssumption DEF Disconnect, Typed, BgpdTyped, Conns, RD
<1>3. inq[d] \in Seq(Sendable(i))
  BY <1>2 DEF Typed, WireTyped
<1>4. /\ SubSeq(inq[d], 1, n) \in Seq(Sendable(i))
      /\ n > 0 => SubSeq(inq[d], 1, n) # <<>> /\ Head(SubSeq(inq[d], 1, n)) = Head(inq[d])
      /\ inq[d] = <<>> => SubSeq(inq[d], 1, n) = <<>>
  <2>1. \A k \in 0..Len(inq[d]) : SubSeq(inq[d], 1, k) \in Seq(Sendable(i))
    BY <1>3, QueueType
  <2>2. \A k \in 1..Len(inq[d]) :
           SubSeq(inq[d], 1, k) # <<>> /\ Head(SubSeq(inq[d], 1, k)) = Head(inq[d])
    BY <1>3, QueueType
  <2>3. inq[d] = <<>> => SubSeq(inq[d], 1, n) = <<>>
    OBVIOUS
  <2>4. Len(inq[d]) \in Nat
    BY <1>3
  <2> HIDE DEF d
  <2>5. n > 0 => n \in 1..Len(inq[d])
    BY <2>4
  <2> QED BY <2>1, <2>2, <2>3, <2>5
<1>5. DOMAIN inq' = Conns
      /\ \A c \in Conns : inq'[c] = IF c = d THEN SubSeq(inq[d], 1, n) ELSE inq[c]
  BY <1>1, <1>2 DEF Typed, WireTyped
<1>6. UNCHANGED <<tlv, sess, rib, devs, steady, gen>> /\ UNCHANGED handlers
      /\ linked' = linked \ {i}
  BY DEF Disconnect
<1> DEFINE q == SubSeq(inq[d], 1, n)
<1> HIDE DEF q, d
<1>7. BgpdTyped'
  BY <1>6 DEF Typed, BgpdTyped
<1>8. WireTyped'
  <2>1. ASSUME NEW c \in Conns PROVE inq'[c] \in Seq(Sendable(RD(c))')
    <3>1. RD(c) \in Insts
      BY DEF RD, Conns
    <3>2. Sendable(RD(c))' = Sendable(RD(c))
      BY <1>6, <3>1, SendableSame DEF RD
    <3> QED BY <3>2, <1>2, <1>4, <1>5 DEF Typed, WireTyped
  <2>2. ASSUME NEW c \in Conns, c[2] > gen'[RD(c)] PROVE inq'[c] = <<>>
    BY <2>2, <1>4, <1>5, <1>6 DEF Typed, WireTyped
  <2> QED BY <2>1, <2>2, <1>5 DEF WireTyped, RD
<1>9. ASSUME NEW c \in Conns, pc[c] # "idle"
      PROVE  inq'[c] # <<>> /\ Head(inq'[c]) = Head(inq[c])
  <2>1. inq[c] # <<>>
    BY <1>9 DEF Typed, HandlersTyped
  <2> QED BY <2>1, <1>9, <1>1, <1>4, <1>5
<1>10. TypeOK' /\ HandlersTyped'
  BY <1>6, <1>9, HandlersKeep
<1> QED BY <1>7, <1>8, <1>10 DEF Typed

(* An instance that tells of a change, whatever the change is.             *)
LEMMA ToldType ==
  ASSUME BMPAssumption, Typed, BgpdTyped', NEW i \in Insts, NEW m \in Sendable(i), Tell(i, m),
         tlv' = tlv, gen' = gen, UNCHANGED handlers
  PROVE  Typed'
<1>1. /\ DOMAIN inq' = Conns
      /\ \A c \in Conns : inq'[c] \in Seq(Sendable(RD(c)))
      /\ \A c \in Conns : inq'[c] = inq[c]
                          \/ (c = <<i, gen[i]>> /\ i \in linked /\ inq'[c] = Append(inq[c], m))
      /\ \A c \in Conns : inq[c] # <<>> => inq'[c] # <<>> /\ Head(inq'[c]) = Head(inq[c])
  BY TellType
<1>2. WireTyped'
  <2>1. ASSUME NEW c \in Conns PROVE inq'[c] \in Seq(Sendable(RD(c))')
    <3>1. RD(c) \in Insts
      BY DEF RD, Conns
    <3>2. Sendable(RD(c))' = Sendable(RD(c))
      BY <3>1, SendableSame DEF RD
    <3> QED BY <3>2, <1>1
  <2>2. ASSUME NEW c \in Conns, c[2] > gen'[RD(c)] PROVE inq'[c] = <<>>
    <3>1. ~(c = <<i, gen[i]>>)
      BY <2>2, BMPAssumption DEF RD, Typed, BgpdTyped
    <3> QED BY <3>1, <2>2, <1>1 DEF Typed, WireTyped
  <2> QED BY <2>1, <2>2, <1>1 DEF WireTyped, RD
<1>3. TypeOK' /\ HandlersTyped'
  <2>1. \A c \in Conns : pc[c] # "idle" => inq[c] # <<>>
    BY DEF Typed, HandlersTyped
  <2> QED BY <1>1, <2>1, HandlersKeep
<1> QED BY <1>2, <1>3 DEF Typed

(* A session that comes up or goes down is sent on a connection that       *)
(* stands.                                                                 *)
LEMMA SayType ==
  ASSUME BMPAssumption, Typed, NEW i \in Insts, NEW p \in Peers,
         SessionUp(i, p) \/ SessionDown(i, p)
  PROVE  Typed'
<1>1. Up(i, p) \in Sendable(i) /\ Down(i, p) \in Sendable(i)
  <2>1. (\E q \in Peers : Up(i, p) = Up(i, q)) /\ (\E q \in Peers : Down(i, p) = Down(i, q))
    OBVIOUS
  <2> QED BY <2>1 DEF Sendable
<1>2. CASE SessionUp(i, p)
  <2>1. IsFiniteSet(sess \cup {<<i, p>>})
    BY FS_AddElement DEF Typed, BgpdTyped
  <2>2. BgpdTyped'
    BY <1>2, <2>1 DEF SessionUp, Typed, BgpdTyped
  <2> QED BY <1>1, <1>2, <2>2, ToldType DEF SessionUp
<1>3. CASE SessionDown(i, p)
  <2> DEFINE gone == {e \in DOMAIN rib : i = Default /\ e[1] = p}
  <2>1. IsFiniteSet(sess \ {<<i, p>>}) /\ IsFiniteSet(DOMAIN rib \ gone)
    BY FS_Subset DEF Typed, BgpdTyped
  <2>2. DOMAIN rib' = DOMAIN rib \ gone /\ \A e \in DOMAIN rib' : rib'[e] = rib[e]
    BY <1>3 DEF SessionDown, Drop
  <2>3. BgpdTyped'
    BY <1>3, <2>1, <2>2 DEF SessionDown, Typed, BgpdTyped
  <2> QED BY <1>1, <1>3, <2>3, ToldType DEF SessionDown
<1> QED BY <1>2, <1>3

(* A VPN route that is announced or withdrawn is one of the default        *)
(* instance.                                                               *)
LEMMA RouteType ==
  ASSUME BMPAssumption, Typed, NEW p \in Peers, NEW k \in Keys,
         Withdraw(p, k) \/ \E a \in Attrs : Announce(p, k, a)
  PROVE  Typed'
<1>1. ASSUME NEW a \in Attrs, Announce(p, k, a) PROVE Typed'
  <2>1. p \in Known /\ Default \in Insts
    BY <1>1 DEF Announce, Known, Insts
  <2>2. Reach(p, k, a) \in Sendable(Default)
    BY <2>1 DEF Sendable
  <2>3. IsFiniteSet(DOMAIN rib \cup {<<p, k>>})
    BY FS_AddElement DEF Typed, BgpdTyped
  <2>4. DOMAIN rib' = DOMAIN rib \cup {<<p, k>>}
        /\ \A e \in DOMAIN rib' : rib'[e] = IF e = <<p, k>> THEN a ELSE rib[e]
    BY <1>1 DEF Announce, Put
  <2>5. BgpdTyped'
    BY <1>1, <2>1, <2>3, <2>4 DEF Announce, Typed, BgpdTyped
  <2> QED BY <1>1, <2>1, <2>2, <2>5, ToldType DEF Announce
<1>2. CASE Withdraw(p, k)
  <2>1. p \in Known /\ Default \in Insts
    BY <1>2 DEF Withdraw, Insts, Typed, BgpdTyped
  <2>2. \A b \in BOOLEAN : Unreach(p, k, b) \in Sendable(Default)
    BY <2>1 DEF Sendable
  <2>3. IsFiniteSet(DOMAIN rib \ {<<p, k>>})
    BY FS_Subset DEF Typed, BgpdTyped
  <2>4. DOMAIN rib' = DOMAIN rib \ {<<p, k>>} /\ \A e \in DOMAIN rib' : rib'[e] = rib[e]
    BY <1>2 DEF Withdraw, Drop
  <2>5. BgpdTyped'
    BY <1>2, <2>3, <2>4 DEF Withdraw, Typed, BgpdTyped
  <2> QED BY <1>2, <2>1, <2>2, <2>5, ToldType DEF Withdraw
<1> QED BY <1>1, <1>2

(* A VRF device appears or disappears; no message tells of it.             *)
LEMMA DeviceType ==
  ASSUME Typed, NEW n \in VRFNames, Device(n)
  PROVE  Typed'
<1>1. UNCHANGED <<tlv, sess, rib, gen, linked, inq>> /\ UNCHANGED handlers
      /\ devs' \subseteq VRFNames /\ steady' = FALSE
  BY DEF Device, Typed, BgpdTyped
<1>2. BgpdTyped'
  BY <1>1 DEF Typed, BgpdTyped
<1>3. WireTyped'
  <2>1. ASSUME NEW c \in Conns PROVE inq'[c] \in Seq(Sendable(RD(c))')
    <3>1. RD(c) \in Insts
      BY DEF RD, Conns
    <3>2. Sendable(RD(c))' = Sendable(RD(c))
      BY <1>1, <3>1, SendableSame DEF RD
    <3> QED BY <1>1, <3>2 DEF Typed, WireTyped
  <2> QED BY <1>1, <2>1 DEF Typed, WireTyped, RD
<1>4. TypeOK' /\ HandlersTyped'
  <2>1. \A c \in Conns : pc[c] # "idle" => inq'[c] # <<>> /\ Head(inq'[c]) = Head(inq[c])
    BY <1>1 DEF Typed, HandlersTyped
  <2> QED BY <1>1, <2>1, HandlersKeep
<1> QED BY <1>2, <1>3, <1>4 DEF Typed

-----------------------------------------------------------------------------
(* A step of a handler, by what it does with its connection: it goes on    *)
(* with the message at the head, or it is done with it.                    *)
LEMMA GoesOn ==
  ASSUME Typed, NEW c \in Conns, NEW place, UNCHANGED <<bgpd, inq>>, Goto(c, place),
         TypeOK', inq[c] # <<>>, PeerMsg(c), Msg(c).peer \in Known,
         \A d \in Conns \ {c} : name'[d] = name[d],
         place \in {"refresh", "publish", "names", "learn"} => RD(c) \in RDs,
         place = "learn" => name'[c] \in VRFNames,
         place = "write" => name'[c] \in Instances
  PROVE  Typed'
<1>1. \A d \in Conns : pc'[d] = IF d = c THEN place ELSE pc[d]
  BY DEF Goto, Typed, TypeOK
<1>2. inq' = inq /\ tlv' = tlv /\ gen' = gen
  BY DEF bgpd
<1>3. BgpdTyped'
  BY DEF bgpd, Typed, BgpdTyped
<1>4. WireTyped'
  <2>1. ASSUME NEW d \in Conns PROVE inq'[d] \in Seq(Sendable(RD(d))')
    <3>1. RD(d) \in Insts
      BY DEF RD, Conns
    <3>2. Sendable(RD(d))' = Sendable(RD(d))
      BY <1>2, <3>1, SendableSame DEF RD
    <3> QED BY <1>2, <3>2 DEF Typed, WireTyped
  <2> QED BY <1>2, <2>1 DEF Typed, WireTyped, RD
<1>5. HandlersTyped'
  <2>1. ASSUME NEW d \in Conns
        PROVE  /\ pc'[d] # "idle" => inq'[d] # <<>> /\ PeerMsg(d)' /\ Msg(d)'.peer \in Known
               /\ pc'[d] \in {"refresh", "publish", "names", "learn"} => RD(d) \in RDs
               /\ pc'[d] = "learn" => name'[d] \in VRFNames
               /\ pc'[d] = "write" => name'[d] \in Instances
    <3>1. Msg(d)' = Msg(d) /\ (PeerMsg(d)' <=> PeerMsg(d))
      BY <1>2 DEF Msg, PeerMsg
    <3> QED BY <1>1, <1>2, <3>1 DEF Typed, HandlersTyped
  <2> QED BY <2>1 DEF HandlersTyped, RD
<1> QED BY <1>3, <1>4, <1>5 DEF Typed

(* A handler that ends a message takes it off its queue and is idle.       *)
LEMMA IsDone ==
  ASSUME Typed, NEW c \in Conns, UNCHANGED bgpd, Done(c), inq[c] # <<>>, TypeOK',
         \A d \in Conns \ {c} : name'[d] = name[d]
  PROVE  Typed'
<1>1. \A d \in Conns : pc'[d] = IF d = c THEN "idle" ELSE pc[d]
  BY DEF Done, Goto, Typed, TypeOK
<1>2. DOMAIN inq' = Conns /\ \A d \in Conns : inq'[d] = IF d = c THEN Tail(inq[c]) ELSE inq[d]
  BY DEF Done, Typed, WireTyped
<1>3. tlv' = tlv /\ gen' = gen
  BY DEF bgpd
<1>4. BgpdTyped'
  BY DEF bgpd, Typed, BgpdTyped
<1>5. WireTyped'
  <2>1. ASSUME NEW d \in Conns PROVE inq'[d] \in Seq(Sendable(RD(d))')
    <3>1. RD(d) \in Insts
      BY DEF RD, Conns
    <3>2. Sendable(RD(d))' = Sendable(RD(d))
      BY <1>3, <3>1, SendableSame DEF RD
    <3>3. inq[d] \in Seq(Sendable(RD(d)))
      BY DEF Typed, WireTyped
    <3>4. inq[d] # <<>> => Tail(inq[d]) \in Seq(Sendable(RD(d)))
      BY <3>3, QueueType
    <3> QED BY <1>2, <3>2, <3>3, <3>4
  <2>2. ASSUME NEW d \in Conns, d[2] > gen'[RD(d)] PROVE inq'[d] = <<>>
    BY <2>2, <1>2, <1>3 DEF Typed, WireTyped
  <2> QED BY <1>2, <2>1, <2>2 DEF WireTyped, RD
<1>6. HandlersTyped'
  <2>1. ASSUME NEW d \in Conns
        PROVE  /\ pc'[d] # "idle" => inq'[d] # <<>> /\ PeerMsg(d)' /\ Msg(d)'.peer \in Known
               /\ pc'[d] \in {"refresh", "publish", "names", "learn"} => RD(d) \in RDs
               /\ pc'[d] = "learn" => name'[d] \in VRFNames
               /\ pc'[d] = "write" => name'[d] \in Instances
    <3>1. CASE d = c
      BY <1>1, <3>1
    <3>2. CASE d # c
      <4>1. inq'[d] = inq[d] /\ pc'[d] = pc[d] /\ name'[d] = name[d]
        BY <1>1, <1>2, <3>2
      <4>2. Msg(d)' = Msg(d) /\ (PeerMsg(d)' <=> PeerMsg(d))
        BY <4>1 DEF Msg, PeerMsg
      <4> QED BY <4>1, <4>2 DEF Typed, HandlersTyped
    <3> QED BY <3>1, <3>2
  <2> QED BY <2>1 DEF HandlersTyped, RD
<1> QED BY <1>4, <1>5, <1>6 DEF Typed

(* The message a handler has before it, as its instance sent it.           *)
LEMMA MsgIs ==
  ASSUME Typed, NEW c \in Conns, inq[c] # <<>>
  PROVE  /\ RD(c) \in Insts /\ Msg(c) \in Sendable(RD(c))
         /\ Msg(c).op \in {"up", "down", "reach", "unreach"}
         /\ Msg(c).op \in {"up", "down"} =>
               Msg(c).peer \in Peers /\ Msg(c).about = <<RD(c), Msg(c).peer>>
         /\ Msg(c).op = "up" =>
               Msg(c).tlv = IF tlv /\ RD(c) # Default THEN VRFOf[RD(c)] ELSE NoName
         /\ Msg(c).op \in {"reach", "unreach"} =>
               RD(c) = Default /\ Msg(c).peer \in Known /\ Msg(c).about \in Keys
         /\ Msg(c).op = "reach" => Msg(c).attr \in Attrs /\ Msg(c).bottom = TRUE
         /\ Msg(c).op = "unreach" => Msg(c).bottom \in BOOLEAN
<1>1. RD(c) \in Insts
  BY DEF RD, Conns
<1>2. inq[c] \in Seq(Sendable(RD(c)))
  BY DEF Typed, WireTyped
<1>3. Msg(c) \in Sendable(RD(c))
  BY <1>2, QueueType DEF Msg
<1> QED BY <1>1, <1>3, SendableAre

(* The stretches of peerState (bmp.go:141-190) and of routeMon keep the    *)
(* types.                                                                  *)
LEMMA HandlerType ==
  ASSUME BMPAssumption, Typed, NEW c \in Conns, Handler(c)
  PROVE  Typed'
<1> USE DEF Typed
<1>1. CASE SkipPeer(c)
  <2>1. inq[c] # <<>> /\ Done(c) /\ UNCHANGED bgpd /\ name' = name
    BY <1>1 DEF SkipPeer, At
  <2>2. TypeOK'
    BY <1>1 DEF SkipPeer, TypeOK, Done, Goto
  <2> QED BY <2>1, <2>2, IsDone
<1>2. CASE Lookup(c)
  <2>1. inq[c] # <<>> /\ PeerMsg(c) /\ UNCHANGED <<bgpd, inq>>
        /\ UNCHANGED <<list, vnames, rdVRF, nbr, routes>>
    BY <1>2 DEF Lookup, At
  <2>2. Msg(c).peer \in Known /\ Msg(c).op \in {"up", "down"}
    BY <1>2, <2>1, MsgIs DEF Lookup, PeerMsg, Known
  <2>3. ASSUME NEW place \in {"refresh", "learn", "write"}, NEW n \in Instances \cup {NoName},
               Goto(c, place), name' = [name EXCEPT ![c] = n],
               place \in {"refresh", "learn"} => RD(c) \in RDs,
               place = "learn" => n \in VRFNames, place = "write" => n \in Instances
        PROVE  Typed'
    <3>1. TypeOK'
      BY <2>1, <2>3 DEF TypeOK, Goto
    <3>2. name'[c] = n /\ \A d \in Conns \ {c} : name'[d] = name[d]
      BY <2>3 DEF TypeOK
    <3> QED BY <2>1, <2>2, <2>3, <3>1, <3>2, GoesOn
  <2>4. CASE RD(c) = Default /\ name' = [name EXCEPT ![c] = Default] /\ Goto(c, "write")
    BY <2>3, <2>4 DEF Instances
  <2>5. RD(c) # Default => RD(c) \in RDs
    BY <2>1, MsgIs DEF Insts
  <2>6. CASE RD(c) # Default /\ Named(c) /\ name' = [name EXCEPT ![c] = rdVRF[RD(c)]]
             /\ Goto(c, "write")
    <3>1. rdVRF[RD(c)] \in Instances
      BY <2>6 DEF Named, TypeOK, Instances
    <3> QED BY <2>3, <2>6, <3>1
  <2>7. CASE RD(c) # Default /\ ~Named(c) /\ Told(c) /\ name' = [name EXCEPT ![c] = Msg(c).tlv]
             /\ Goto(c, "learn")
    <3>1. Msg(c).tlv = VRFOf[RD(c)] /\ Msg(c).tlv \in VRFNames
      BY <2>1, <2>5, <2>7, MsgIs, BMPAssumption DEF Told
    <3> QED BY <2>3, <2>5, <2>7, <3>1 DEF Instances
  <2>8. CASE RD(c) # Default /\ Goto(c, "refresh") /\ UNCHANGED name
    <3>1. name' = [name EXCEPT ![c] = name[c]] /\ name[c] \in Instances \cup {NoName}
      BY <2>8 DEF TypeOK
    <3> QED BY <2>3, <2>5, <2>8, <3>1
  <2> QED BY <1>2, <2>4, <2>6, <2>7, <2>8 DEF Lookup
<1>3. ASSUME pc[c] \in {"refresh", "publish", "names", "learn"}
      PROVE  PeerMsg(c) /\ Msg(c).peer \in Known /\ RD(c) \in RDs /\ RD(c) \in Instances
  BY <1>3 DEF HandlersTyped, Instances
<1>4. CASE Refresh(c)
  <2>1. inq[c] # <<>> /\ pc[c] = "refresh" /\ UNCHANGED <<bgpd, inq>> /\ name' = name
    BY <1>4 DEF Refresh, At
  <2>2. CASE list' = [list EXCEPT ![c] = devs] /\ Goto(c, "publish")
    <3>1. TypeOK'
      BY <1>4, <2>2 DEF Refresh, TypeOK, BgpdTyped, Goto
    <3> QED BY <1>3, <2>1, <2>2, <3>1, GoesOn
  <2>3. CASE Goto(c, "names") /\ UNCHANGED list
    <3>1. TypeOK'
      BY <1>4, <2>3 DEF Refresh, TypeOK, Goto
    <3> QED BY <1>3, <2>1, <2>3, <3>1, GoesOn
  <2> QED BY <1>4, <2>2, <2>3 DEF Refresh
<1>5. CASE Publish(c)
  <2>1. inq[c] # <<>> /\ pc[c] = "publish" /\ UNCHANGED <<bgpd, inq>> /\ name' = name
        /\ Goto(c, "names")
    BY <1>5 DEF Publish, At
  <2>2. TypeOK'
    BY <1>5 DEF Publish, TypeOK, Goto
  <2> QED BY <1>3, <2>1, <2>2, GoesOn
<1>6. CASE ReadNames(c)
  <2>1. inq[c] # <<>> /\ pc[c] = "names" /\ UNCHANGED <<bgpd, inq>>
    BY <1>6 DEF ReadNames, At
  <2>2. ASSUME NEW place \in {"learn", "write"}, NEW n \in Instances, Goto(c, place),
               name' = [name EXCEPT ![c] = n], place = "learn" => n \in VRFNames
        PROVE  Typed'
    <3>1. TypeOK'
      BY <1>6, <2>2 DEF ReadNames, TypeOK, Goto
    <3>2. name'[c] = n /\ \A d \in Conns \ {c} : name'[d] = name[d]
      BY <2>2 DEF TypeOK
    <3> QED BY <1>3, <2>1, <2>2, <3>1, <3>2, GoesOn
  <2>3. CASE Cardinality(vnames) = 1 /\ name' = [name EXCEPT ![c] = CHOOSE n \in vnames : TRUE]
             /\ Goto(c, "learn")
    <3>1. vnames # {}
      BY <2>3, FS_EmptySet
    <3>2. (CHOOSE n \in vnames : TRUE) \in vnames /\ vnames \subseteq VRFNames
      BY <3>1 DEF TypeOK
    <3> QED BY <2>2, <2>3, <3>2 DEF Instances
  <2>4. CASE name' = [name EXCEPT ![c] = RD(c)] /\ Goto(c, "write")
    BY <1>3, <2>1, <2>2, <2>4
  <2> QED BY <1>6, <2>3, <2>4 DEF ReadNames
<1>7. CASE Learn(c)
  <2>1. inq[c] # <<>> /\ pc[c] = "learn" /\ UNCHANGED <<bgpd, inq>> /\ name' = name
        /\ Goto(c, "write") /\ name[c] \in VRFNames
    BY <1>7 DEF Learn, At, HandlersTyped
  <2>2. RD(c) \in RDs
    BY <1>3, <2>1
  <2>3. DOMAIN rdVRF' \subseteq RDs /\ \A r \in DOMAIN rdVRF' : rdVRF'[r] \in VRFNames
    BY <1>7, <2>1, <2>2 DEF Learn, Put, TypeOK
  <2>4. TypeOK'
    BY <1>7, <2>3 DEF Learn, TypeOK, Goto
  <2> QED BY <1>3, <2>1, <2>4, GoesOn DEF Instances
<1>8. CASE WritePeer(c)
  <2>1. inq[c] # <<>> /\ pc[c] = "write" /\ UNCHANGED bgpd /\ Done(c)
        /\ name' = [name EXCEPT ![c] = NoName]
    BY <1>8 DEF WritePeer, At
  <2>2. Msg(c).peer \in Known /\ name[c] \in Instances
    BY <2>1 DEF HandlersTyped
  <2>3. DOMAIN nbr' \subseteq Instances \X Known
        /\ \A e \in DOMAIN nbr' : nbr'[e] \in {"ESTABLISHED", "IDLE"}
    <3>1. nbr' = Put(nbr, <<name[c], Msg(c).peer>>, StateOf(Msg(c)))
      BY <1>8 DEF WritePeer
    <3>2. StateOf(Msg(c)) \in {"ESTABLISHED", "IDLE"}
      BY DEF StateOf
    <3> QED BY <2>2, <3>1, <3>2 DEF Put, TypeOK
  <2>4. TypeOK'
    BY <1>8, <2>1, <2>3 DEF WritePeer, TypeOK, Done, Goto
  <2>5. \A d \in Conns \ {c} : name'[d] = name[d]
    BY <2>1 DEF TypeOK
  <2> QED BY <2>1, <2>4, <2>5, IsDone
<1>9. CASE WriteRoute(c)
  <2>1. inq[c] # <<>> /\ UNCHANGED bgpd /\ Done(c) /\ name' = name /\ Msg(c).op = "reach"
    BY <1>9 DEF WriteRoute, At
  <2>2. Msg(c).peer \in Known /\ Msg(c).about \in Keys /\ Msg(c).attr \in Attrs
    BY <2>1, MsgIs
  <2>3. DOMAIN routes' \subseteq Keys
        /\ \A k \in DOMAIN routes' : routes'[k] \in [peer : Known, attr : Attrs]
    <3> DEFINE r == [peer |-> Msg(c).peer, attr |-> Msg(c).attr]
    <3>1. routes' = Put(routes, Msg(c).about, r) /\ r \in [peer : Known, attr : Attrs]
      BY <1>9, <2>2 DEF WriteRoute
    <3> HIDE DEF r
    <3> QED BY <2>2, <3>1 DEF Put, TypeOK
  <2>4. TypeOK'
    BY <1>9, <2>1, <2>3 DEF WriteRoute, TypeOK, Done, Goto
  <2> QED BY <2>1, <2>4, IsDone
<1>10. CASE WithdrawRoute(c)
  <2>1. inq[c] # <<>> /\ UNCHANGED bgpd /\ Done(c) /\ name' = name
    BY <1>10 DEF WithdrawRoute, At
  <2>2. DOMAIN routes' \subseteq Keys
        /\ \A k \in DOMAIN routes' : routes'[k] \in [peer : Known, attr : Attrs]
    BY <1>10 DEF WithdrawRoute, Drop, TypeOK
  <2>3. TypeOK'
    BY <1>10, <2>1, <2>2 DEF WithdrawRoute, TypeOK, Done, Goto
  <2> QED BY <2>1, <2>3, IsDone
<1> QED BY <1>1, <1>2, <1>4, <1>5, <1>6, <1>7, <1>8, <1>9, <1>10 DEF Handler

(* Every step keeps the types.                                             *)
LEMMA TypeStep ==
  ASSUME BMPAssumption, Typed, [Next]_vars
  PROVE  Typed'
<1>1. ASSUME NEW i \in Insts, Connect(i) \/ Disconnect(i) PROVE Typed'
  BY <1>1, ConnectType, DisconnectType
<1>2. ASSUME NEW i \in Insts, NEW p \in Peers, SessionUp(i, p) \/ SessionDown(i, p) PROVE Typed'
  BY <1>2, SayType
<1>3. ASSUME NEW p \in Peers, NEW k \in Keys, Withdraw(p, k) \/ \E a \in Attrs : Announce(p, k, a)
      PROVE  Typed'
  BY <1>3, RouteType
<1>4. ASSUME NEW n \in VRFNames, Device(n) PROVE Typed'
  BY <1>4, DeviceType
<1>5. ASSUME NEW c \in Conns, Handler(c) PROVE Typed'
  BY <1>5, HandlerType
<1>6. CASE UNCHANGED vars
  BY <1>6, SMTT(30) DEF vars, bgpd, handlers, Typed, TypeOK, BgpdTyped, WireTyped, HandlersTyped,
              Sendable, Up, Msg, PeerMsg, RD
<1> QED BY <1>1, <1>2, <1>3, <1>4, <1>5, <1>6 DEF Next, Environment

(* The initial states are typed.                                           *)
LEMMA TypeInit ==
  ASSUME BMPAssumption, Init
  PROVE  Typed
<1>1. TypeOK
  BY DEF Init, TypeOK, EmptyMap
<1>2. BgpdTyped
  <2>1. IsFiniteSet({}) /\ DOMAIN EmptyMap = {}
    BY FS_EmptySet DEF EmptyMap
  <2> QED BY <2>1, BMPAssumption DEF Init, BgpdTyped
<1>3. WireTyped
  BY DEF Init, WireTyped
<1>4. HandlersTyped
  BY DEF Init, HandlersTyped
<1> QED BY <1>1, <1>2, <1>3, <1>4 DEF Typed

(* TypeOK is invariant: whatever a handler had read before the others ran  *)
(* (bmp.go:146-194), its fields, the shared maps and the cache hold what   *)
(* they should, and no neighbor is the Loc-RIB peer.                       *)
THEOREM TypeCorrect == Spec => [](TypeOK /\ BgpdTyped /\ WireTyped /\ HandlersTyped)
<1>1. Init => Typed
  BY TypeInit, BMPAssumption
<1>2. Typed /\ [Next]_vars => Typed'
  BY TypeStep, BMPAssumption
<1>3. Typed => TypeOK /\ BgpdTyped /\ WireTyped /\ HandlersTyped
  BY DEF Typed
<1> QED BY <1>1, <1>2, <1>3, PTL DEF Spec

-----------------------------------------------------------------------------
(* What a step does to the queues, from which all that follows starts.     *)
LEMMA ConnectEffect ==
  ASSUME BMPAssumption, Typed, NEW i \in Insts, Connect(i)
  PROVE  /\ <<i, gen[i] + 1>> \in Conns /\ inq[<<i, gen[i] + 1>>] = <<>>
         /\ gen[i] \in Nat /\ gen' = [gen EXCEPT ![i] = @ + 1] /\ linked' = linked \cup {i}
         /\ \E q \in Seq(Sendable(i)) :
               /\ \A c \in Conns : inq'[c] = IF c = <<i, gen[i] + 1>> THEN q ELSE inq[c]
               /\ \A n \in 1..Len(q) :
                     \/ \E p \in Peers : <<i, p>> \in sess /\ q[n] = Up(i, p)
                     \/ i = Default /\ \E e \in DOMAIN rib : q[n] = Reach(e[1], e[2], rib[e])
               /\ \A p \in Peers : <<i, p>> \in sess => \E n \in 1..Len(q) : q[n] = Up(i, p)
               /\ i = Default => \A e \in DOMAIN rib :
                     \E n \in 1..Len(q) : q[n] = Reach(e[1], e[2], rib[e])
<1> DEFINE ups == {Up(i, p) : p \in {q \in Peers : <<i, q>> \in sess}}
           rms == {Reach(e[1], e[2], rib[e]) : e \in IF i = Default THEN DOMAIN rib ELSE {}}
           q == Listed(ups) \o Listed(rms)
           d == <<i, gen[i] + 1>>
<1>1. IsFiniteSet(ups) /\ ups \subseteq Sendable(i)
      /\ IsFiniteSet(rms) /\ rms \subseteq Sendable(i)
  BY ConnectSends
<1>2. /\ \A p \in Peers : <<i, p>> \in sess => Up(i, p) \in ups
      /\ \A m \in ups : \E p \in Peers : <<i, p>> \in sess /\ m = Up(i, p)
      /\ \A m \in rms : i = Default /\ \E e \in DOMAIN rib : m = Reach(e[1], e[2], rib[e])
      /\ i = Default => \A e \in DOMAIN rib : Reach(e[1], e[2], rib[e]) \in rms
  OBVIOUS
<1>3. gen[i] \in Nat /\ gen[i] < MaxConns /\ gen' = [gen EXCEPT ![i] = @ + 1]
      /\ linked' = linked \cup {i} /\ MaxConns \in Nat
  BY BMPAssumption DEF Connect, Typed, BgpdTyped
<1>4. d \in Conns /\ RD(d) = i /\ d[2] = gen[i] + 1
  BY <1>3 DEF Conns, RD
<1>5. \A c \in Conns : inq'[c] = IF c = d THEN q ELSE inq[c]
  BY <1>4 DEF Connect, Typed, WireTyped
<1>6. inq[d] = <<>>
  BY <1>3, <1>4 DEF Typed, WireTyped
<1> HIDE DEF ups, rms
<1>7. /\ Listed(ups) \in Seq(ups) /\ Listed(rms) \in Seq(rms)
      /\ \A m \in ups : \E n \in 1..Len(Listed(ups)) : Listed(ups)[n] = m
      /\ \A m \in rms : \E n \in 1..Len(Listed(rms)) : Listed(rms)[n] = m
  BY <1>1, ListedIs
<1>8. /\ q \in Seq(Sendable(i))
      /\ \A n \in 1..Len(q) : q[n] \in ups \/ q[n] \in rms
      /\ \A m \in ups : \E n \in 1..Len(q) : q[n] = m
      /\ \A m \in rms : \E n \in 1..Len(q) : q[n] = m
  <2> DEFINE a == Listed(ups)
             b == Listed(rms)
  <2> HIDE DEF a, b
  <2>0. a \in Seq(ups) /\ b \in Seq(rms) /\ q = a \o b
        /\ (\A m \in ups : \E n \in 1..Len(a) : a[n] = m)
        /\ (\A m \in rms : \E n \in 1..Len(b) : b[n] = m)
    BY <1>7 DEF a, b
  <2>1. a \in Seq(Sendable(i)) /\ b \in Seq(Sendable(i))
    BY <1>1, <2>0
  <2>2. /\ Len(q) = Len(a) + Len(b) /\ Len(a) \in Nat /\ Len(b) \in Nat
        /\ \A n \in 1..Len(a) : q[n] = a[n]
        /\ \A n \in 1..Len(b) : q[Len(a) + n] = b[n]
        /\ \A n \in 1..Len(q) : q[n] = IF n <= Len(a) THEN a[n] ELSE b[n - Len(a)]
    BY <2>0, <2>1
  <2>3. q \in Seq(Sendable(i))
    BY <2>0, <2>1
  <2> HIDE DEF q
  <2>4. ASSUME NEW n \in 1..Len(q) PROVE q[n] \in ups \/ q[n] \in rms
    <3>1. CASE n <= Len(a)
      <4>1. n \in 1..Len(a) /\ q[n] = a[n]
        BY <2>2, <3>1
      <4> QED BY <4>1, <2>0
    <3>2. CASE ~(n <= Len(a))
      <4>1. n - Len(a) \in 1..Len(b) /\ q[n] = b[n - Len(a)]
        BY <2>2, <3>2
      <4> QED BY <4>1, <2>0
    <3> QED BY <3>1, <3>2
  <2>5. ASSUME NEW m \in ups PROVE \E n \in 1..Len(q) : q[n] = m
    <3>1. PICK n \in 1..Len(a) : a[n] = m
      BY <2>0
    <3>2. n \in 1..Len(q) /\ q[n] = m
      BY <2>2, <3>1
    <3> QED BY <3>2
  <2>6. ASSUME NEW m \in rms PROVE \E n \in 1..Len(q) : q[n] = m
    <3>1. PICK n \in 1..Len(b) : b[n] = m
      BY <2>0
    <3>2. Len(a) + n \in 1..Len(q) /\ q[Len(a) + n] = m
      BY <2>2, <3>1
    <3> QED BY <3>2
  <2> QED BY <2>3, <2>4, <2>5, <2>6
<1> HIDE DEF q, d
<1>9. /\ \A n \in 1..Len(q) :
            \/ \E p \in Peers : <<i, p>> \in sess /\ q[n] = Up(i, p)
            \/ i = Default /\ \E e \in DOMAIN rib : q[n] = Reach(e[1], e[2], rib[e])
      /\ \A p \in Peers : <<i, p>> \in sess => \E n \in 1..Len(q) : q[n] = Up(i, p)
      /\ i = Default => \A e \in DOMAIN rib :
            \E n \in 1..Len(q) : q[n] = Reach(e[1], e[2], rib[e])
  BY <1>2, <1>8
<1> QED BY <1>3, <1>4, <1>5, <1>6, <1>8, <1>9 DEF d

(* What Disconnect does to the queues and to the record of doubt.          *)
LEMMA DisconnectEffect ==
  ASSUME BMPAssumption, Typed, NEW i \in Insts, Disconnect(i)
  PROVE  /\ <<i, gen[i]>> \in Conns
         /\ \E n \in 0..Len(inq[<<i, gen[i]>>]) :
               /\ \A c \in Conns : inq'[c] = IF c = <<i, gen[i]>> THEN SubSeq(inq[c], 1, n) ELSE inq[c]
               /\ doubt' = doubt \cup {inq[<<i, gen[i]>>][j].about :
                                          j \in n + 1..Len(inq[<<i, gen[i]>>])}
         /\ UNCHANGED <<tlv, sess, rib, devs, gen, mixed, steady>> /\ UNCHANGED handlers
         /\ linked' = linked \ {i}
<1>1. <<i, gen[i]>> \in Conns
  BY BMPAssumption DEF Disconnect, Typed, BgpdTyped, Conns
<1> QED BY <1>1 DEF Disconnect, Typed, WireTyped

(* What a message does to the queues: it goes to the end of the instance's *)
(* last connection, if that stands.                                        *)
LEMMA TellEffect ==
  ASSUME Typed, NEW i \in Insts, NEW m, Tell(i, m), BMPAssumption
  PROVE  /\ i \in linked => <<i, gen[i]>> \in Conns
         /\ \A c \in Conns : inq'[c] = IF c = <<i, gen[i]>> /\ i \in linked
                                       THEN Append(inq[c], m) ELSE inq[c]
<1>1. i \in linked => <<i, gen[i]>> \in Conns
  BY BMPAssumption DEF Typed, BgpdTyped, Conns
<1> QED BY <1>1 DEF Tell, Typed, WireTyped

(* What a handler may disturb: its own connection, from whose queue it     *)
(* takes the head or nothing.                                              *)
LEMMA HandlerEffect ==
  ASSUME Typed, NEW c \in Conns, Handler(c)
  PROVE  /\ UNCHANGED bgpd /\ inq[c] # <<>>
         /\ \A d \in Conns \ {c} : /\ inq'[d] = inq[d] /\ pc'[d] = pc[d]
                                   /\ name'[d] = name[d] /\ list'[d] = list[d]
         /\ \/ inq'[c] = inq[c]
            \/ inq'[c] = Tail(inq[c]) /\ pc'[c] = "idle"
<1>1. UNCHANGED bgpd /\ inq[c] # <<>>
  BY DEF Handler, At, SkipPeer, Lookup, Refresh, Publish, ReadNames, Learn, WritePeer,
         WriteRoute, WithdrawRoute
<1>2. \A d \in Conns \ {c} : pc'[d] = pc[d]
  BY DEF Handler, SkipPeer, Lookup, Refresh, Publish, ReadNames, Learn, WritePeer,
         WriteRoute, WithdrawRoute, Done, Goto, Typed, TypeOK
<1>3. \A d \in Conns \ {c} : name'[d] = name[d]
  BY DEF Handler, SkipPeer, Lookup, Refresh, Publish, ReadNames, Learn, WritePeer,
         WriteRoute, WithdrawRoute, Typed, TypeOK
<1>4. \A d \in Conns \ {c} : list'[d] = list[d]
  BY DEF Handler, SkipPeer, Lookup, Refresh, Publish, ReadNames, Learn, WritePeer,
         WriteRoute, WithdrawRoute, Typed, TypeOK
<1>5. CASE inq' = inq
  <2>1. inq'[c] = inq[c] /\ \A d \in Conns \ {c} : inq'[d] = inq[d]
    BY <1>5
  <2> QED BY <1>1, <1>2, <1>3, <1>4, <2>1
<1>6. CASE Done(c)
  <2>1. pc'[c] = "idle" /\ \A d \in Conns : inq'[d] = IF d = c THEN Tail(inq[c]) ELSE inq[d]
    BY <1>6 DEF Done, Goto, Typed, TypeOK, WireTyped
  <2> QED BY <1>1, <1>2, <1>3, <1>4, <2>1
<1> QED BY <1>5, <1>6 DEF Handler, SkipPeer, Lookup, Refresh, Publish, ReadNames, Learn,
           WritePeer, WriteRoute, WithdrawRoute

-----------------------------------------------------------------------------
(* Connections of an instance that did not overlap: only the last one has  *)
(* messages, and its handler gives the RD a name only if it has none.      *)
LastTalks == \A c \in Conns : RD(c) \notin mixed /\ c[2] < gen[RD(c)] => inq[c] = <<>>
NamesOnce ==
    \A c \in Conns : RD(c) \notin mixed /\ pc[c] \in {"refresh", "publish", "names", "learn"} =>
        RD(c) \notin DOMAIN rdVRF

(* LastTalks is kept: Connect records an instance in mixed when its old    *)
(* connection still has messages.                                          *)
LEMMA LastTalksStep ==
  ASSUME BMPAssumption, Typed, LastTalks, [Next]_vars
  PROVE  LastTalks'
<1>1. ASSUME NEW i \in Insts, Connect(i) PROVE LastTalks'
  <2>1. PICK q \in Seq(Sendable(i)) :
           \A c \in Conns : inq'[c] = IF c = <<i, gen[i] + 1>> THEN q ELSE inq[c]
    BY <1>1, ConnectEffect, ZenonT(60)
  <2>2. /\ gen[i] \in Nat /\ gen' = [gen EXCEPT ![i] = @ + 1]
        /\ mixed' = IF gen[i] > 0 /\ inq[<<i, gen[i]>>] # <<>> THEN mixed \cup {i} ELSE mixed
        /\ gen \in [Insts -> 0..MaxConns] /\ MaxConns \in Nat
    <3>1. gen \in [Insts -> 0..MaxConns] /\ MaxConns \in Nat
      BY BMPAssumption DEF Typed, BgpdTyped
    <3>2. mixed' = IF gen[i] > 0 /\ inq[<<i, gen[i]>>] # <<>> THEN mixed \cup {i} ELSE mixed
      BY <1>1 DEF Connect
    <3>3. gen' = [gen EXCEPT ![i] = @ + 1]
      BY <1>1 DEF Connect
    <3> QED BY <3>1, <3>2, <3>3
  <2>3. ASSUME NEW c \in Conns, RD(c) \notin mixed', c[2] < gen'[RD(c)]
        PROVE  inq'[c] = <<>>
    <3>1. RD(c) \in Insts /\ c = <<RD(c), c[2]>> /\ c[2] \in Nat \ {0} /\ RD(c) \notin mixed
      <4>1. RD(c) \in Insts /\ c = <<RD(c), c[2]>> /\ c[2] \in Nat \ {0}
        BY <2>2 DEF RD, Conns
      <4>2. mixed \subseteq mixed'
        BY <2>2
      <4>3. c[1] \notin mixed'
        BY <2>3 DEF RD
      <4> QED BY <4>1, <4>2, <4>3 DEF RD
    <3>2. CASE RD(c) = i
      <4>1. c[2] <= gen[i] /\ c # <<i, gen[i] + 1>>
        BY <2>2, <2>3, <3>1, <3>2
      <4>2. CASE c[2] = gen[i]
        <5>1. c = <<i, gen[i]>> /\ gen[i] > 0
          BY <3>1, <3>2, <4>2
        <5>2. i \notin mixed'
          BY <2>3, <3>2 DEF RD
        <5> QED BY <2>1, <2>2, <4>1, <5>1, <5>2
      <4>3. CASE c[2] < gen[i]
        BY <2>1, <3>1, <3>2, <4>1, <4>3 DEF LastTalks
      <4> QED BY <2>2, <3>1, <4>1, <4>2, <4>3
    <3>3. CASE RD(c) # i
      <4>1. gen'[RD(c)] = gen[RD(c)] /\ c # <<i, gen[i] + 1>>
        BY <2>2, <3>1, <3>3
      <4> QED BY <2>1, <2>3, <3>1, <4>1 DEF LastTalks
    <3> QED BY <3>2, <3>3
  <2> QED BY <2>3 DEF LastTalks, RD
<1>2. ASSUME NEW i \in Insts, Disconnect(i) PROVE LastTalks'
  <2>1. PICK n \in 0..Len(inq[<<i, gen[i]>>]) :
           \A c \in Conns : inq'[c] = IF c = <<i, gen[i]>> THEN SubSeq(inq[c], 1, n) ELSE inq[c]
    BY <1>2, DisconnectEffect
  <2>2. UNCHANGED <<gen, mixed>>
    BY <1>2, DisconnectEffect
  <2>3. ASSUME NEW c \in Conns, RD(c) \notin mixed, c[2] < gen[RD(c)]
        PROVE  inq'[c] = <<>>
    <3>1. c # <<i, gen[i]>> /\ inq[c] = <<>>
      BY <1>2, <2>3 DEF LastTalks, RD, Typed, BgpdTyped
    <3> QED BY <2>1, <3>1
  <2> QED BY <2>2, <2>3 DEF LastTalks, RD
<1>3. ASSUME NEW i \in Insts, NEW m, Tell(i, m), UNCHANGED <<gen, mixed>> PROVE LastTalks'
  <2>1. \A c \in Conns : inq'[c] = IF c = <<i, gen[i]>> /\ i \in linked
                                   THEN Append(inq[c], m) ELSE inq[c]
    BY <1>3, TellEffect
  <2>2. ASSUME NEW c \in Conns, RD(c) \notin mixed, c[2] < gen[RD(c)]
        PROVE  inq'[c] = <<>>
    <3>1. c # <<i, gen[i]>> /\ inq[c] = <<>>
      BY <2>2 DEF LastTalks, RD, Typed, BgpdTyped
    <3> QED BY <2>1, <3>1
  <2> QED BY <1>3, <2>2 DEF LastTalks, RD
<1>4. ASSUME NEW i \in Insts, NEW p \in Peers, SessionUp(i, p) \/ SessionDown(i, p)
      PROVE  LastTalks'
  BY <1>3, <1>4 DEF SessionUp, SessionDown
<1>5. ASSUME NEW p \in Peers, NEW k \in Keys, Withdraw(p, k) \/ \E a \in Attrs : Announce(p, k, a)
      PROVE  LastTalks'
  <2>1. Default \in Insts
    BY DEF Insts
  <2> QED BY <1>3, <1>5, <2>1 DEF Withdraw, Announce
<1>6. ASSUME NEW n \in VRFNames, Device(n) PROVE LastTalks'
  BY <1>6 DEF Device, LastTalks, RD
<1>7. ASSUME NEW c \in Conns, Handler(c) PROVE LastTalks'
  <2>1. UNCHANGED bgpd /\ inq[c] # <<>> /\ \A d \in Conns \ {c} : inq'[d] = inq[d]
    BY <1>7, HandlerEffect
  <2>2. UNCHANGED <<gen, mixed>>
    BY <2>1 DEF bgpd
  <2> QED BY <2>1, <2>2 DEF LastTalks, RD
<1>8. CASE UNCHANGED vars
  BY <1>8 DEF vars, bgpd, handlers, LastTalks, RD
<1> QED BY <1>1, <1>2, <1>4, <1>5, <1>6, <1>7, <1>8 DEF Next, Environment

(* Two connections of one instance that both have messages did overlap.    *)
LEMMA SoleTalker ==
  ASSUME BMPAssumption, Typed, LastTalks, NEW c \in Conns, NEW d \in Conns, RD(c) = RD(d),
         RD(c) \notin mixed, inq[c] # <<>>, inq[d] # <<>>
  PROVE  c = d
<1>1. gen[RD(c)] \in Nat /\ c[2] \in Nat /\ d[2] \in Nat
  BY BMPAssumption DEF Conns, RD, Typed, BgpdTyped
<1>2. c[2] = gen[RD(c)] /\ d[2] = gen[RD(c)]
  BY <1>1 DEF LastTalks, Typed, WireTyped
<1> QED BY <1>2 DEF Conns, RD

(* NamesOnce is kept: a second handler for the RD would need a second      *)
(* connection of the instance with messages.                               *)
LEMMA NamesOnceStep ==
  ASSUME BMPAssumption, Typed, LastTalks, NamesOnce, [Next]_vars
  PROVE  NamesOnce'
<1>1. CASE Environment
  <2>1. UNCHANGED <<pc, rdVRF>> /\ mixed \subseteq mixed'
    BY <1>1 DEF Environment, Connect, Disconnect, SessionUp, SessionDown, Withdraw, Announce,
                Device, handlers
  <2> QED BY <2>1 DEF NamesOnce, RD
<1>2. ASSUME NEW c \in Conns, Handler(c) PROVE NamesOnce'
  <2>1. UNCHANGED bgpd /\ inq[c] # <<>> /\ \A d \in Conns \ {c} : pc'[d] = pc[d]
    BY <1>2, HandlerEffect
  <2>2. mixed' = mixed
    BY <2>1 DEF bgpd
  <2>3. CASE rdVRF' = rdVRF
    <3>1. pc'[c] \in {"refresh", "publish", "names", "learn"} =>
             \/ pc[c] \in {"refresh", "publish", "names", "learn"}
             \/ RD(c) \notin DOMAIN rdVRF
      BY <1>2 DEF Handler, SkipPeer, Lookup, Refresh, Publish, ReadNames, Learn, WritePeer,
         WriteRoute, WithdrawRoute, Done, Goto, Typed, TypeOK, At, Named
    <3> QED BY <2>1, <2>2, <2>3, <3>1 DEF NamesOnce, RD
  <2>4. CASE Learn(c)
    <3>1. DOMAIN rdVRF' = DOMAIN rdVRF \cup {RD(c)} /\ pc'[c] = "write"
      BY <2>4 DEF Learn, Put, Goto, Typed, TypeOK
    <3>2. ASSUME NEW d \in Conns, RD(d) \notin mixed,
                 pc'[d] \in {"refresh", "publish", "names", "learn"}
          PROVE  RD(d) \notin DOMAIN rdVRF'
      <4>1. d # c /\ pc'[d] = pc[d]
        BY <2>1, <3>1, <3>2
      <4>2. inq[d] # <<>>
        BY <3>2, <4>1 DEF Typed, HandlersTyped
      <4>3. RD(d) # RD(c)
        BY <2>1, <3>2, <4>1, <4>2, SoleTalker
      <4> QED BY <3>1, <3>2, <4>1, <4>3 DEF NamesOnce
    <3> QED BY <2>2, <3>2 DEF NamesOnce, RD
  <2> QED BY <1>2, <2>3, <2>4 DEF Handler, SkipPeer, Lookup, Refresh, Publish, ReadNames,
             WritePeer, WriteRoute, WithdrawRoute
<1>3. CASE UNCHANGED vars
  BY <1>3 DEF vars, bgpd, handlers, NamesOnce, RD
<1> QED BY <1>1, <1>2, <1>3 DEF Next

-----------------------------------------------------------------------------
(* A session runs over the device of its VRF, which then is there; as long *)
(* as no device came or went, the resolver has just those that there are.  *)
DeviceUp == \A e \in sess : e[1] # Default => VRFOf[e[1]] \in devs
DevicesKnown ==
    steady =>
        /\ vnames = devs
        /\ \A c \in Conns :
              /\ pc[c] = "publish" => list[c] = devs
              /\ RD(c) # Default /\ inq[c] # <<>> => VRFOf[RD(c)] \in devs

(* DeviceUp is kept: a device is not removed while its instance has a      *)
(* session.                                                                *)
LEMMA DeviceUpStep ==
  ASSUME DeviceUp, [Next]_vars
  PROVE  DeviceUp'
<1>1. ASSUME NEW i \in Insts, NEW p \in Peers, SessionUp(i, p) \/ SessionDown(i, p)
      PROVE  DeviceUp'
  <2>1. devs' = devs /\ \A e \in sess' : e \in sess \/ (e = <<i, p>> /\ (i # Default => VRFOf[i] \in devs))
    BY <1>1 DEF SessionUp, SessionDown
  <2> QED BY <2>1 DEF DeviceUp
<1>2. ASSUME NEW n \in VRFNames, Device(n) PROVE DeviceUp'
  BY <1>2 DEF Device, DeviceUp
<1>3. CASE UNCHANGED <<sess, devs>>
  BY <1>3 DEF DeviceUp
<1> QED BY <1>1, <1>2, <1>3 DEF Next, Environment, Connect, Disconnect, Withdraw, Announce, vars,
           bgpd, Handler, SkipPeer, Lookup, Refresh, Publish, ReadNames, Learn, WritePeer,
           WriteRoute, WithdrawRoute

(* DevicesKnown is kept: a change of the devices ends steady, and a        *)
(* session needs its instance's device.                                    *)
LEMMA DevicesKnownStep ==
  ASSUME BMPAssumption, Typed, DeviceUp, DevicesKnown, [Next]_vars
  PROVE  DevicesKnown'
<1>1. ASSUME UNCHANGED <<devs, steady>>, UNCHANGED handlers,
             \A c \in Conns : RD(c) # Default /\ inq'[c] # <<>> =>
                                 inq[c] # <<>> \/ VRFOf[RD(c)] \in devs
      PROVE  DevicesKnown'
  BY <1>1 DEF DevicesKnown, handlers, RD
<1>2. ASSUME NEW i \in Insts, Connect(i) PROVE DevicesKnown'
  <2>1. PICK q \in Seq(Sendable(i)) :
           /\ \A c \in Conns : inq'[c] = IF c = <<i, gen[i] + 1>> THEN q ELSE inq[c]
           /\ \A n \in 1..Len(q) :
                 \/ \E p \in Peers : <<i, p>> \in sess /\ q[n] = Up(i, p)
                 \/ i = Default /\ \E e \in DOMAIN rib : q[n] = Reach(e[1], e[2], rib[e])
    BY <1>2, ConnectEffect
  <2>2. ASSUME i # Default, q # <<>> PROVE VRFOf[i] \in devs
    <3>1. 1 \in 1..Len(q)
      BY <2>2
    <3>2. \E p \in Peers : <<i, p>> \in sess
      BY <2>1, <2>2, <3>1
    <3> QED BY <2>2, <3>2 DEF DeviceUp
  <2> HIDE DEF DevicesKnown
  <2>3. ASSUME NEW c \in Conns, RD(c) # Default, inq'[c] # <<>>
        PROVE  inq[c] # <<>> \/ VRFOf[RD(c)] \in devs
    <3>1. CASE c = <<i, gen[i] + 1>>
      BY <2>1, <2>2, <2>3, <3>1 DEF RD
    <3>2. CASE c # <<i, gen[i] + 1>>
      BY <2>1, <2>3, <3>2
    <3> QED BY <3>1, <3>2
  <2> QED BY <1>1, <1>2, <2>3 DEF Connect
<1>3. ASSUME NEW i \in Insts, Disconnect(i) PROVE DevicesKnown'
  <2>1. PICK n \in 0..Len(inq[<<i, gen[i]>>]) :
           \A c \in Conns : inq'[c] = IF c = <<i, gen[i]>> THEN SubSeq(inq[c], 1, n) ELSE inq[c]
    BY <1>3, DisconnectEffect
  <2>2. \A c \in Conns : inq'[c] # <<>> => inq[c] # <<>>
    <3>1. ASSUME NEW c \in Conns, inq[c] = <<>> PROVE inq'[c] = <<>>
      <4>1. SubSeq(inq[c], 1, n) = <<>> \/ c # <<i, gen[i]>>
        BY <3>1
      <4> QED BY <2>1, <3>1, <4>1
    <3> QED BY <3>1
  <2> QED BY <1>1, <1>3, <2>2 DEF Disconnect
<1>4. ASSUME NEW i \in Insts, NEW m, Tell(i, m), i # Default => VRFOf[i] \in devs,
             UNCHANGED <<devs, steady>>, UNCHANGED handlers
      PROVE  DevicesKnown'
  <2>1. \A c \in Conns : inq'[c] = IF c = <<i, gen[i]>> /\ i \in linked
                                   THEN Append(inq[c], m) ELSE inq[c]
    BY <1>4, TellEffect
  <2>2. ASSUME NEW c \in Conns, RD(c) # Default, inq'[c] # <<>>
        PROVE  inq[c] # <<>> \/ VRFOf[RD(c)] \in devs
    <3>1. CASE c = <<i, gen[i]>>
      BY <1>4, <2>2, <3>1 DEF RD
    <3> QED BY <2>1, <2>2, <3>1
  <2> QED BY <1>1, <1>4, <2>2
<1>5. ASSUME NEW i \in Insts, NEW p \in Peers, SessionUp(i, p) \/ SessionDown(i, p)
      PROVE  DevicesKnown'
  <2>1. i # Default => VRFOf[i] \in devs
    BY <1>5 DEF SessionUp, SessionDown, DeviceUp
  <2> QED BY <1>4, <1>5, <2>1 DEF SessionUp, SessionDown
<1>6. ASSUME NEW p \in Peers, NEW k \in Keys, Withdraw(p, k) \/ \E a \in Attrs : Announce(p, k, a)
      PROVE  DevicesKnown'
  <2>1. Default \in Insts
    BY DEF Insts
  <2> QED BY <1>4, <1>6, <2>1 DEF Withdraw, Announce
<1>7. ASSUME NEW n \in VRFNames, Device(n) PROVE DevicesKnown'
  BY <1>7 DEF Device, DevicesKnown
<1>8. ASSUME NEW c \in Conns, Handler(c) PROVE DevicesKnown'
  <2>1. /\ UNCHANGED bgpd /\ inq[c] # <<>>
        /\ \A d \in Conns \ {c} : inq'[d] = inq[d] /\ pc'[d] = pc[d] /\ list'[d] = list[d]
    BY <1>8, HandlerEffect
  <2>2. UNCHANGED <<devs, steady>>
    BY <2>1 DEF bgpd
  <2>3. ASSUME steady PROVE vnames' = devs
    <3>1. CASE Publish(c)
      BY <2>3, <3>1 DEF Publish, At, DevicesKnown
    <3>2. CASE vnames' = vnames
      BY <2>3, <3>2 DEF DevicesKnown
    <3> QED BY <1>8, <3>1, <3>2 DEF Handler, SkipPeer, Lookup, Refresh, ReadNames, Learn,
               WritePeer, WriteRoute, WithdrawRoute
  <2>4. ASSUME pc'[c] = "publish" PROVE list'[c] = devs
    BY <1>8, <2>4 DEF Handler, SkipPeer, Lookup, Refresh, Publish, ReadNames, Learn, WritePeer,
         WriteRoute, WithdrawRoute, Done, Goto, Typed, TypeOK
  <2>5. ASSUME NEW d \in Conns, steady
        PROVE  /\ pc'[d] = "publish" => list'[d] = devs
               /\ RD(d) # Default /\ inq'[d] # <<>> => VRFOf[RD(d)] \in devs
    <3>1. CASE d = c
      BY <2>1, <2>4, <2>5, <3>1 DEF DevicesKnown
    <3>2. CASE d # c
      BY <2>1, <2>5, <3>2 DEF DevicesKnown
    <3> QED BY <3>1, <3>2
  <2> QED BY <2>2, <2>3, <2>5 DEF DevicesKnown, RD
<1>9. CASE UNCHANGED vars
  BY <1>9 DEF vars, bgpd, handlers, DevicesKnown, RD
<1> QED BY <1>2, <1>3, <1>5, <1>6, <1>7, <1>8, <1>9 DEF Next, Environment

-----------------------------------------------------------------------------
(* A Peer Down comes after the Peer Up of its session on the same          *)
(* connection: if bgpd sends names, the RD has been told when it comes, and*)
(* nothing is ever guessed.                                                *)
IsUp(m) == m.op = "up" /\ m.peer \in Known
IsDown(m) == m.op = "down" /\ m.peer \in Known
HasUp(q) == \E n \in 1..Len(q) : IsUp(q[n])
UpBefore(q) == \A n \in 1..Len(q) : IsDown(q[n]) => \E j \in 1..n - 1 : IsUp(q[j])
UpFirst ==
    tlv =>
        /\ \A c \in Conns :
              /\ pc[c] \notin {"refresh", "publish", "names"}
              /\ pc[c] = "write" /\ RD(c) # Default => RD(c) \in DOMAIN rdVRF
              /\ RD(c) \in RDs \ DOMAIN rdVRF => UpBefore(inq[c])
        /\ \A e \in sess : e[1] \in linked /\ e[1] \in RDs \ DOMAIN rdVRF /\ e[2] \in Known =>
              HasUp(inq[<<e[1], gen[e[1]]>>])

(* A queue in which a Peer Up comes before each Peer Down stays one.       *)
LEMMA UpBeforeKept ==
  ASSUME NEW S, NEW q \in Seq(S), UpBefore(q)
  PROVE  /\ \A m \in S : (IsDown(m) => HasUp(q)) => UpBefore(Append(q, m))
         /\ \A n \in 0..Len(q) : UpBefore(SubSeq(q, 1, n))
         /\ q # <<>> => ~IsDown(Head(q))
         /\ q # <<>> /\ ~IsUp(Head(q)) => UpBefore(Tail(q))
<1>1. ASSUME NEW m \in S, IsDown(m) => HasUp(q) PROVE UpBefore(Append(q, m))
  <2> DEFINE a == Append(q, m)
  <2>1. Len(a) = Len(q) + 1 /\ Len(q) \in Nat /\ a[Len(q) + 1] = m
        /\ \A n \in 1..Len(q) : a[n] = q[n]
    OBVIOUS
  <2> HIDE DEF a
  <2>2. ASSUME NEW n \in 1..Len(a), IsDown(a[n]) PROVE \E j \in 1..n - 1 : IsUp(a[j])
    <3>1. CASE n \in 1..Len(q)
      <4>1. PICK j \in 1..n - 1 : IsUp(q[j])
        BY <2>1, <2>2, <3>1 DEF UpBefore
      <4> QED BY <2>1, <3>1, <4>1
    <3>2. CASE n = Len(q) + 1
      <4>1. PICK j \in 1..Len(q) : IsUp(q[j])
        BY <1>1, <2>1, <2>2, <3>2 DEF HasUp
      <4> QED BY <2>1, <3>2, <4>1
    <3> QED BY <2>1, <3>1, <3>2
  <2> QED BY <2>2 DEF UpBefore, a
<1>2. ASSUME NEW n \in 0..Len(q) PROVE UpBefore(SubSeq(q, 1, n))
  <2> DEFINE a == SubSeq(q, 1, n)
  <2>1. Len(a) = n /\ n \in Nat /\ n <= Len(q) /\ Len(q) \in Nat
        /\ \A k \in 1..n : a[k] = q[k]
    OBVIOUS
  <2> HIDE DEF a
  <2>2. ASSUME NEW k \in 1..Len(a), IsDown(a[k]) PROVE \E j \in 1..k - 1 : IsUp(a[j])
    <3>1. PICK j \in 1..k - 1 : IsUp(q[j])
      BY <2>1, <2>2 DEF UpBefore
    <3> QED BY <2>1, <3>1
  <2> QED BY <2>2 DEF UpBefore, a
<1>3. ASSUME q # <<>> PROVE ~IsDown(Head(q))
  <2>1. 1 \in 1..Len(q) /\ Head(q) = q[1]
    BY <1>3
  <2> QED BY <2>1 DEF UpBefore
<1>4. ASSUME q # <<>>, ~IsUp(Head(q)) PROVE UpBefore(Tail(q))
  <2> DEFINE a == Tail(q)
  <2>1. /\ Len(a) = Len(q) - 1 /\ Len(q) \in Nat /\ Len(q) > 0 /\ Head(q) = q[1]
        /\ \A k \in 1..Len(a) : a[k] = q[k + 1]
    BY <1>4
  <2> HIDE DEF a
  <2>2. ASSUME NEW k \in 1..Len(a), IsDown(a[k]) PROVE \E j \in 1..k - 1 : IsUp(a[j])
    <3>1. k + 1 \in 1..Len(q) /\ IsDown(q[k + 1])
      BY <2>1, <2>2
    <3>2. PICK j \in 1..k : IsUp(q[j])
      BY <2>1, <3>1 DEF UpBefore
    <3>3. j # 1
      BY <1>4, <2>1, <3>2
    <3>4. j - 1 \in 1..k - 1 /\ a[j - 1] = q[j]
      BY <2>1, <3>2, <3>3
    <3> QED BY <3>2, <3>4
  <2> QED BY <2>2 DEF UpBefore, a
<1> QED BY <1>1, <1>2, <1>3, <1>4

(* A Peer Up that waits stays so until it is taken.                        *)
LEMMA HasUpKept ==
  ASSUME NEW S, NEW q \in Seq(S)
  PROVE  /\ \A m \in S : HasUp(q) \/ IsUp(m) => HasUp(Append(q, m))
         /\ q # <<>> /\ ~IsUp(Head(q)) /\ HasUp(q) => HasUp(Tail(q))
<1>1. ASSUME NEW m \in S, HasUp(q) \/ IsUp(m) PROVE HasUp(Append(q, m))
  <2> DEFINE a == Append(q, m)
  <2>1. Len(a) = Len(q) + 1 /\ Len(q) \in Nat /\ a[Len(q) + 1] = m
        /\ \A n \in 1..Len(q) : a[n] = q[n]
    OBVIOUS
  <2> HIDE DEF a
  <2>2. CASE HasUp(q)
    <3>1. PICK n \in 1..Len(q) : IsUp(q[n])
      BY <2>2 DEF HasUp
    <3>2. n \in 1..Len(a) /\ IsUp(a[n])
      BY <2>1, <3>1
    <3> QED BY <3>2 DEF HasUp, a
  <2>3. CASE IsUp(m)
    <3>1. Len(q) + 1 \in 1..Len(a) /\ IsUp(a[Len(q) + 1])
      BY <2>1, <2>3
    <3> QED BY <3>1 DEF HasUp, a
  <2> QED BY <1>1, <2>2, <2>3
<1>2. ASSUME q # <<>>, ~IsUp(Head(q)), HasUp(q) PROVE HasUp(Tail(q))
  <2>1. PICK n \in 1..Len(q) : IsUp(q[n])
    BY <1>2 DEF HasUp
  <2>2. n # 1
    BY <1>2, <2>1
  <2>3. n - 1 \in 1..Len(Tail(q)) /\ Tail(q)[n - 1] = q[n]
    BY <1>2, <2>1, <2>2
  <2> QED BY <2>1, <2>3 DEF HasUp
<1> QED BY <1>1, <1>2

(* Of a queue that starts, an Up per session and the routes.               *)
LEMMA UpFirstConnect ==
  ASSUME BMPAssumption, Typed, UpFirst, NEW i \in Insts, Connect(i)
  PROVE  UpFirst'
<1> DEFINE d == <<i, gen[i] + 1>>
<1>1. PICK q \in Seq(Sendable(i)) :
         /\ \A c \in Conns : inq'[c] = IF c = d THEN q ELSE inq[c]
         /\ \A n \in 1..Len(q) :
               \/ \E p \in Peers : <<i, p>> \in sess /\ q[n] = Up(i, p)
               \/ i = Default /\ \E e \in DOMAIN rib : q[n] = Reach(e[1], e[2], rib[e])
         /\ \A p \in Peers : <<i, p>> \in sess => \E n \in 1..Len(q) : q[n] = Up(i, p)
  BY ConnectEffect
<1>2. /\ d \in Conns /\ gen[i] \in Nat /\ linked' = linked \cup {i}
      /\ gen' = [gen EXCEPT ![i] = @ + 1]
  BY ConnectEffect
<1>3. UNCHANGED <<tlv, sess>> /\ UNCHANGED handlers
  BY DEF Connect
<1>4. UpBefore(q)
  <2>1. ASSUME NEW n \in 1..Len(q) PROVE ~IsDown(q[n])
    <3>1. ASSUME NEW p \in Peers, q[n] = Up(i, p) PROVE ~IsDown(q[n])
      BY <3>1 DEF Up, IsDown
    <3>2. ASSUME NEW e \in DOMAIN rib, q[n] = Reach(e[1], e[2], rib[e]) PROVE ~IsDown(q[n])
      BY <3>2 DEF Reach, IsDown
    <3> QED BY <1>1, <3>1, <3>2
  <2> QED BY <2>1 DEF UpBefore
<1>5. ASSUME NEW p \in Known, <<i, p>> \in sess PROVE HasUp(q)
  <2>1. PICK n \in 1..Len(q) : q[n] = Up(i, p)
    BY <1>1, <1>5 DEF Known
  <2>2. IsUp(q[n])
    BY <2>1 DEF Up, IsUp
  <2> QED BY <2>2 DEF HasUp
<1> HIDE DEF d
<1>6. ASSUME tlv, NEW c \in Conns
      PROVE  /\ pc[c] \notin {"refresh", "publish", "names"}
             /\ pc[c] = "write" /\ RD(c) # Default => RD(c) \in DOMAIN rdVRF
             /\ RD(c) \in RDs \ DOMAIN rdVRF => UpBefore(inq'[c])
  <2>1. CASE c = d
    BY <1>1, <1>2, <1>4, <1>6, <2>1 DEF UpFirst
  <2>2. CASE c # d
    BY <1>1, <1>6, <2>2 DEF UpFirst
  <2> QED BY <2>1, <2>2
<1>7. ASSUME tlv, NEW e \in sess, e[1] \in linked', e[1] \in RDs \ DOMAIN rdVRF, e[2] \in Known
      PROVE  HasUp(inq'[<<e[1], gen'[e[1]]>>])
  <2>1. e[1] \in Insts /\ e = <<e[1], e[2]>>
    BY DEF Typed, BgpdTyped
  <2>2. CASE e[1] = i
    <3>1. gen'[i] = gen[i] + 1
      BY <1>2 DEF Typed, BgpdTyped
    <3>2. inq'[d] = q
      BY <1>1, <1>2
    <3> QED BY <1>5, <1>7, <2>1, <2>2, <3>1, <3>2 DEF d
  <2>3. CASE e[1] # i
    <3>1. gen'[e[1]] = gen[e[1]] /\ e[1] \in linked /\ gen[e[1]] > 0
      BY <1>2, <1>7, <2>1, <2>3 DEF Typed, BgpdTyped
    <3>2. <<e[1], gen[e[1]]>> \in Conns /\ <<e[1], gen[e[1]]>> # d
      BY <2>1, <2>3, <3>1, BMPAssumption DEF Conns, Typed, BgpdTyped, d
    <3>3. HasUp(inq[<<e[1], gen[e[1]]>>])
      BY <1>7, <3>1 DEF UpFirst
    <3> QED BY <1>1, <3>1, <3>2, <3>3
  <2> QED BY <2>2, <2>3
<1> QED BY <1>3, <1>6, <1>7 DEF UpFirst, handlers, RD

(* UpFirst is kept when the wire is cut: a prefix of a queue has the same  *)
(* messages in front.                                                      *)
LEMMA UpFirstDisconnect ==
  ASSUME BMPAssumption, Typed, UpFirst, NEW i \in Insts, Disconnect(i)
  PROVE  UpFirst'
<1> DEFINE d == <<i, gen[i]>>
<1>1. PICK n \in 0..Len(inq[d]) :
         \A c \in Conns : inq'[c] = IF c = d THEN SubSeq(inq[c], 1, n) ELSE inq[c]
  BY DisconnectEffect
<1>2. UNCHANGED <<tlv, sess, gen>> /\ UNCHANGED handlers /\ linked' = linked \ {i} /\ d \in Conns
  BY DisconnectEffect
<1> HIDE DEF d
<1>3. ASSUME NEW c \in Conns, UpBefore(inq[c]) PROVE UpBefore(inq'[c])
  <2>1. inq[c] \in Seq(Sendable(RD(c)))
    BY DEF Typed, WireTyped
  <2>2. \A k \in 0..Len(inq[c]) : UpBefore(SubSeq(inq[c], 1, k))
    BY <1>3, <2>1, UpBeforeKept
  <2> QED BY <1>1, <1>3, <2>2
<1>4. ASSUME tlv, NEW e \in sess, e[1] \in linked', e[1] \in RDs \ DOMAIN rdVRF, e[2] \in Known
      PROVE  HasUp(inq'[<<e[1], gen[e[1]]>>])
  <2>1. e[1] \in Insts /\ e[1] \in linked /\ e[1] # i /\ gen[e[1]] > 0
    BY <1>2, <1>4 DEF Typed, BgpdTyped
  <2>2. <<e[1], gen[e[1]]>> \in Conns /\ <<e[1], gen[e[1]]>> # d
    BY <2>1, BMPAssumption DEF Conns, Typed, BgpdTyped, d
  <2>3. HasUp(inq[<<e[1], gen[e[1]]>>])
    BY <1>4, <2>1 DEF UpFirst
  <2> QED BY <1>1, <2>2, <2>3
<1> QED BY <1>2, <1>3, <1>4 DEF UpFirst, handlers, RD

(* An instance tells of a session that is up, or was until now; or of a    *)
(* route.                                                                  *)
LEMMA UpFirstTell ==
  ASSUME BMPAssumption, Typed, UpFirst, NEW i \in Insts, NEW m \in Sendable(i), Tell(i, m),
         UNCHANGED <<tlv, gen, linked>>, UNCHANGED handlers,
         IsDown(m) => <<i, m.peer>> \in sess,
         \A e \in sess' : e \in sess \/ (e[1] = i /\ (e[2] \in Known => IsUp(m)))
  PROVE  UpFirst'
<1> DEFINE d == <<i, gen[i]>>
<1>1. \A c \in Conns : inq'[c] = IF c = d /\ i \in linked THEN Append(inq[c], m) ELSE inq[c]
  BY TellEffect
<1>2. i \in linked => d \in Conns /\ RD(d) = i /\ inq[d] \in Seq(Sendable(i))
  BY TellEffect DEF RD, Typed, WireTyped
<1>3. ASSUME tlv, NEW c \in Conns, RD(c) \in RDs \ DOMAIN rdVRF PROVE UpBefore(inq'[c])
  <2>1. UpBefore(inq[c])
    BY <1>3 DEF UpFirst
  <2>2. CASE c = d /\ i \in linked
    <3>1. ASSUME IsDown(m) PROVE HasUp(inq[d])
      <4>1. <<i, m.peer>> \in sess /\ m.peer \in Known /\ i \in RDs \ DOMAIN rdVRF
        BY <1>2, <1>3, <2>2, <3>1 DEF IsDown
      <4> QED BY <1>3, <2>2, <4>1 DEF UpFirst
    <3>2. UpBefore(Append(inq[d], m))
      BY <1>2, <2>1, <2>2, <3>1, UpBeforeKept
    <3> QED BY <1>1, <2>2, <3>2
  <2>3. CASE ~(c = d /\ i \in linked)
    BY <1>1, <2>1, <2>3
  <2> QED BY <2>2, <2>3
<1>4. ASSUME tlv, NEW e \in sess', e[1] \in linked, e[1] \in RDs \ DOMAIN rdVRF, e[2] \in Known
      PROVE  HasUp(inq'[<<e[1], gen[e[1]]>>])
  <2>1. linked \subseteq Insts /\ gen[e[1]] > 0 /\ e[1] \in Insts
    BY <1>4 DEF Typed, BgpdTyped
  <2>2. <<e[1], gen[e[1]]>> \in Conns
    BY <2>1, BMPAssumption DEF Conns, Typed, BgpdTyped
  <2>3. e \in sess => HasUp(inq[<<e[1], gen[e[1]]>>])
    BY <1>4 DEF UpFirst
  <2>4. CASE e[1] = i
    <3>1. HasUp(inq[d]) \/ IsUp(m)
      BY <1>4, <2>3, <2>4
    <3>2. HasUp(Append(inq[d], m))
      BY <1>2, <1>4, <2>4, <3>1, HasUpKept
    <3> QED BY <1>1, <1>2, <1>4, <2>4, <3>2
  <2>5. CASE e[1] # i
    BY <1>1, <1>4, <2>2, <2>3, <2>5
  <2> QED BY <2>4, <2>5
<1> QED BY <1>3, <1>4 DEF UpFirst, handlers, RD

(* UpFirst is kept by a handler, which takes the head.                     *)
LEMMA UpFirstHandler ==
  ASSUME BMPAssumption, Typed, UpFirst, NEW c \in Conns, Handler(c)
  PROVE  UpFirst'
<1>1. /\ UNCHANGED bgpd /\ inq[c] # <<>>
      /\ \A d \in Conns \ {c} : inq'[d] = inq[d] /\ pc'[d] = pc[d]
      /\ \/ inq'[c] = inq[c]
         \/ inq'[c] = Tail(inq[c]) /\ pc'[c] = "idle"
  BY HandlerEffect
<1>2. UNCHANGED <<tlv, sess, linked, gen>>
  BY <1>1 DEF bgpd
<1>3. DOMAIN rdVRF \subseteq DOMAIN rdVRF'
  BY DEF Handler, SkipPeer, Lookup, Refresh, Publish, ReadNames, Learn, WritePeer,
         WriteRoute, WithdrawRoute, Put
<1>4. inq[c] \in Seq(Sendable(RD(c))) /\ RD(c) \in Insts
  BY DEF Typed, WireTyped, RD, Conns
<1>5. ASSUME tlv, pc[c] \notin {"refresh", "publish", "names"},
             RD(c) \in RDs \ DOMAIN rdVRF => UpBefore(inq[c]),
             pc[c] = "write" /\ RD(c) # Default => RD(c) \in DOMAIN rdVRF
      PROVE  /\ pc'[c] \notin {"refresh", "publish", "names"}
             /\ pc'[c] = "write" /\ RD(c) # Default => RD(c) \in DOMAIN rdVRF'
             /\ RD(c) \in RDs \ DOMAIN rdVRF' => inq'[c] = inq[c] \/ ~IsUp(Head(inq[c]))
  <2>1. CASE SkipPeer(c)
    <3>1. pc'[c] = "idle" /\ Head(inq[c]).peer = Unspecified
      BY <2>1 DEF SkipPeer, Done, Goto, Typed, TypeOK, Msg
    <3> QED BY <3>1 DEF IsUp, Known
  <2>2. CASE Lookup(c)
    <3>1. inq' = inq /\ rdVRF' = rdVRF /\ PeerMsg(c) /\ Msg(c).peer \in Known
      BY <1>1, <2>2, MsgIs DEF Lookup, PeerMsg, Known
    <3>2. CASE RD(c) = Default /\ Goto(c, "write")
      BY <3>1, <3>2 DEF Goto, Typed, TypeOK
    <3>3. CASE RD(c) # Default /\ Named(c) /\ Goto(c, "write")
      BY <3>1, <3>3 DEF Goto, Typed, TypeOK, Named
    <3>4. CASE Goto(c, "learn")
      BY <3>1, <3>4 DEF Goto, Typed, TypeOK
    <3>5. CASE RD(c) # Default /\ ~Named(c) /\ ~Told(c)
      <4>1. RD(c) \in RDs \ DOMAIN rdVRF
        BY <1>4, <3>5 DEF Named, Insts
      <4>2. ~IsDown(Head(inq[c]))
        BY <1>1, <1>4, <1>5, <4>1, UpBeforeKept
      <4>3. Msg(c).op = "up"
        BY <3>1, <4>2 DEF PeerMsg, IsDown, Msg
      <4>4. Msg(c).tlv = VRFOf[RD(c)] /\ VRFOf[RD(c)] # NoName
        BY <1>1, <1>5, <3>5, <4>1, <4>3, MsgIs, BMPAssumption
      <4> QED BY <3>5, <4>3, <4>4 DEF Told
    <3> QED BY <2>2, <3>2, <3>3, <3>4, <3>5 DEF Lookup
  <2>3. CASE Refresh(c) \/ Publish(c) \/ ReadNames(c)
    BY <1>5, <2>3 DEF Refresh, Publish, ReadNames, At
  <2>4. CASE Learn(c)
    BY <2>4 DEF Learn, Goto, Typed, TypeOK, Put
  <2>5. CASE WritePeer(c)
    <3>1. pc[c] = "write" /\ pc'[c] = "idle" /\ rdVRF' = rdVRF
      BY <2>5 DEF WritePeer, At, Done, Goto, Typed, TypeOK
    <3>2. RD(c) # Default => RD(c) \in DOMAIN rdVRF
      BY <1>5, <3>1
    <3> QED BY <3>1, <3>2, BMPAssumption
  <2>6. CASE WriteRoute(c) \/ WithdrawRoute(c)
    <3>1. Msg(c).op \in {"reach", "unreach"} /\ pc'[c] = "idle"
      BY <2>6 DEF WriteRoute, WithdrawRoute, Done, Goto, Typed, TypeOK
    <3>2. RD(c) = Default
      BY <1>1, <3>1, MsgIs
    <3> QED BY <3>1, <3>2, BMPAssumption
  <2> QED BY <2>1, <2>2, <2>3, <2>4, <2>5, <2>6 DEF Handler
<1>6. ASSUME tlv, NEW d \in Conns
      PROVE  /\ pc'[d] \notin {"refresh", "publish", "names"}
             /\ pc'[d] = "write" /\ RD(d) # Default => RD(d) \in DOMAIN rdVRF'
             /\ RD(d) \in RDs \ DOMAIN rdVRF' => UpBefore(inq'[d])
  <2>1. /\ pc[d] \notin {"refresh", "publish", "names"}
        /\ pc[d] = "write" /\ RD(d) # Default => RD(d) \in DOMAIN rdVRF
        /\ RD(d) \in RDs \ DOMAIN rdVRF => UpBefore(inq[d])
    BY <1>6 DEF UpFirst
  <2>2. CASE d = c
    <3>1. /\ pc'[c] \notin {"refresh", "publish", "names"}
          /\ pc'[c] = "write" /\ RD(c) # Default => RD(c) \in DOMAIN rdVRF'
          /\ RD(c) \in RDs \ DOMAIN rdVRF' => inq'[c] = inq[c] \/ ~IsUp(Head(inq[c]))
      BY <1>5, <1>6, <2>1, <2>2
    <3>2. ASSUME RD(c) \in RDs \ DOMAIN rdVRF' PROVE UpBefore(inq'[c])
      <4>1. UpBefore(inq[c])
        BY <1>3, <2>1, <2>2, <3>2
      <4>2. CASE inq'[c] = inq[c]
        BY <4>1, <4>2
      <4>3. CASE inq'[c] = Tail(inq[c]) /\ ~IsUp(Head(inq[c]))
        BY <1>1, <1>4, <4>1, <4>3, UpBeforeKept
      <4> QED BY <1>1, <3>1, <3>2, <4>2, <4>3
    <3> QED BY <2>2, <3>1, <3>2
  <2>3. CASE d # c
    BY <1>1, <1>3, <2>1, <2>3
  <2> QED BY <2>2, <2>3
<1>7. ASSUME tlv, NEW e \in sess, e[1] \in linked, e[1] \in RDs \ DOMAIN rdVRF', e[2] \in Known
      PROVE  HasUp(inq'[<<e[1], gen[e[1]]>>])
  <2> DEFINE d == <<e[1], gen[e[1]]>>
  <2>1. HasUp(inq[d])
    BY <1>3, <1>7 DEF UpFirst
  <2>2. d \in Conns /\ RD(d) = e[1]
    BY <1>7, BMPAssumption DEF Conns, RD, Typed, BgpdTyped
  <2> HIDE DEF d
  <2>3. CASE d # c \/ inq'[c] = inq[c]
    BY <1>1, <2>1, <2>2, <2>3 DEF d
  <2>4. CASE d = c /\ inq'[c] # inq[c]
    <3>1. /\ pc[c] \notin {"refresh", "publish", "names"}
          /\ pc[c] = "write" /\ RD(c) # Default => RD(c) \in DOMAIN rdVRF
          /\ RD(c) \in RDs \ DOMAIN rdVRF => UpBefore(inq[c])
      BY <1>7 DEF UpFirst
    <3>2. ~IsUp(Head(inq[c]))
      BY <1>5, <1>7, <2>2, <2>4, <3>1
    <3>3. HasUp(Tail(inq[c]))
      BY <1>1, <1>4, <2>1, <2>4, <3>2, HasUpKept
    <3> QED BY <1>1, <2>4, <3>3 DEF d
  <2> QED BY <2>3, <2>4
<1> QED BY <1>2, <1>6, <1>7 DEF UpFirst, RD

(* UpFirst is kept by every step.                                          *)
LEMMA UpFirstStep ==
  ASSUME BMPAssumption, Typed, UpFirst, [Next]_vars
  PROVE  UpFirst'
<1>1. ASSUME NEW i \in Insts, Connect(i) \/ Disconnect(i) PROVE UpFirst'
  BY <1>1, UpFirstConnect, UpFirstDisconnect
<1>2. ASSUME NEW i \in Insts, NEW p \in Peers, SessionUp(i, p) PROVE UpFirst'
  <2>1. Up(i, p) \in Sendable(i)
    <3>1. \E q \in Peers : Up(i, p) = Up(i, q)
      OBVIOUS
    <3> QED BY <3>1 DEF Sendable
  <2>2. ~IsDown(Up(i, p)) /\ (p \in Known => IsUp(Up(i, p)))
    BY DEF IsDown, IsUp, Up
  <2>3. \A e \in sess' : e \in sess \/ (e[1] = i /\ e[2] = p)
    BY <1>2 DEF SessionUp
  <2> QED BY <1>2, <2>1, <2>2, <2>3, UpFirstTell, ZenonT(60) DEF SessionUp
<1>3. ASSUME NEW i \in Insts, NEW p \in Peers, SessionDown(i, p) PROVE UpFirst'
  <2>1. Down(i, p) \in Sendable(i)
    <3>1. \E q \in Peers : Down(i, p) = Down(i, q)
      OBVIOUS
    <3> QED BY <3>1 DEF Sendable
  <2>2. Down(i, p).peer = p
    BY DEF Down
  <2>3. sess' \subseteq sess /\ <<i, p>> \in sess
    BY <1>3 DEF SessionDown
  <2> QED BY <1>3, <2>1, <2>2, <2>3, UpFirstTell DEF SessionDown
<1>4. ASSUME NEW p \in Peers, NEW k \in Keys, Withdraw(p, k) PROVE UpFirst'
  <2>1. p \in Known /\ Default \in Insts
    BY <1>4 DEF Withdraw, Insts, Typed, BgpdTyped
  <2>2. \A b \in BOOLEAN : Unreach(p, k, b) \in Sendable(Default) /\ ~IsDown(Unreach(p, k, b))
    BY <2>1 DEF Sendable, Unreach, IsDown
  <2> QED BY <1>4, <2>1, <2>2, UpFirstTell DEF Withdraw
<1>5. ASSUME NEW p \in Peers, NEW k \in Keys, NEW a \in Attrs, Announce(p, k, a) PROVE UpFirst'
  <2>1. p \in Known /\ Default \in Insts
    BY <1>5 DEF Announce, Insts, Known
  <2>2. Reach(p, k, a) \in Sendable(Default)
    BY <2>1 DEF Sendable
  <2>3. ~IsDown(Reach(p, k, a))
    BY DEF Reach, IsDown
  <2> QED BY <1>5, <2>1, <2>2, <2>3, UpFirstTell DEF Announce
<1>6. ASSUME NEW n \in VRFNames, Device(n) PROVE UpFirst'
  BY <1>6 DEF Device, UpFirst, handlers, RD
<1>7. ASSUME NEW c \in Conns, Handler(c) PROVE UpFirst'
  BY <1>7, UpFirstHandler
<1>8. CASE UNCHANGED vars
  BY <1>8 DEF vars, bgpd, handlers, UpFirst, RD
<1> QED BY <1>1, <1>2, <1>3, <1>4, <1>5, <1>6, <1>7, <1>8 DEF Next, Environment

-----------------------------------------------------------------------------
(* So what is learned, looked up, guessed and written is the instance's    *)
(* home.                                                                   *)
NamesRight ==
    tlv \/ steady =>
        /\ \A r \in DOMAIN rdVRF : rdVRF[r] = Home(r)
        /\ \A c \in Conns : pc[c] \in {"learn", "write"} => name[c] = Home(RD(c))
        /\ \A e \in DOMAIN nbr : \E i \in Insts : e[1] = Home(i)

(* The home of an instance of a VRF does not change, unless devices do and *)
(* bgpd does not name it.                                                  *)
LEMMA HomeIs ==
  ASSUME BMPAssumption
  PROVE  /\ Home(Default) = Default
         /\ \A r \in RDs : Home(r) = IF tlv \/ Cardinality(devs) = 1 THEN VRFOf[r] ELSE r
  BY DEF BMPAssumption, Home

(* Where an RD belongs does not change while the names are fixed, or told  *)
(* by bgpd.                                                                *)
LEMMA HomeStays ==
  ASSUME [Next]_vars, tlv' \/ steady'
  PROVE  /\ tlv \/ steady
         /\ \A i : Home(i)' = Home(i)
<1>1. tlv' = tlv /\ (tlv \/ (devs' = devs /\ steady))
  <2>1. CASE \E n \in VRFNames : Device(n)
    BY <2>1 DEF Device
  <2>2. CASE UNCHANGED <<tlv, devs, steady>>
    BY <2>2
  <2>3. CASE UNCHANGED bgpd
    BY <2>2, <2>3 DEF bgpd
  <2>4. ASSUME NEW c \in Conns, Handler(c) PROVE UNCHANGED bgpd
    BY <2>4 DEF Handler, SkipPeer, Lookup, Refresh, Publish, ReadNames, Learn, WritePeer,
                WriteRoute, WithdrawRoute
  <2>5. CASE Environment
    BY <2>1, <2>2, <2>5 DEF Environment, Connect, Disconnect, SessionUp, SessionDown, Withdraw,
                            Announce
  <2> QED BY <2>3, <2>4, <2>5 DEF Next, vars
<1>2. (tlv' \/ Cardinality(devs') = 1) <=> (tlv \/ Cardinality(devs) = 1)
  BY <1>1
<1> QED BY <1>1, <1>2 DEF Home

(* The one element of a set that has one.                                  *)
LEMMA SoleIs ==
  ASSUME NEW S, IsFiniteSet(S), Cardinality(S) = 1, NEW x \in S
  PROVE  (CHOOSE n \in S : TRUE) = x
<1>1. PICK y : S = {y}
  BY FS_Singleton
<1> QED BY <1>1

(* NamesRight is kept: the name that Learn and WritePeer use is the TLV's, *)
(* the one learned before, or the sole device's, as UpFirst and            *)
(* DevicesKnown say.                                                       *)
LEMMA NamesRightStep ==
  ASSUME BMPAssumption, Typed, DevicesKnown, UpFirst, NamesRight, [Next]_vars
  PROVE  NamesRight'
<1> SUFFICES ASSUME tlv' \/ steady'
             PROVE  /\ \A r \in DOMAIN rdVRF' : rdVRF'[r] = Home(r)
                    /\ \A c \in Conns : pc'[c] \in {"learn", "write"} => name'[c] = Home(RD(c))
                    /\ \A e \in DOMAIN nbr' : \E i \in Insts : e[1] = Home(i)
  BY HomeStays DEF NamesRight, RD
<1>1. /\ tlv \/ steady
      /\ \A r \in DOMAIN rdVRF : rdVRF[r] = Home(r)
      /\ \A c \in Conns : pc[c] \in {"learn", "write"} => name[c] = Home(RD(c))
      /\ \A e \in DOMAIN nbr : \E i \in Insts : e[1] = Home(i)
  BY HomeStays DEF NamesRight
<1>2. CASE UNCHANGED handlers
  BY <1>1, <1>2 DEF handlers
<1>3. ASSUME NEW c \in Conns, Handler(c)
      PROVE  /\ \A r \in DOMAIN rdVRF' : rdVRF'[r] = Home(r)
             /\ \A d \in Conns : pc'[d] \in {"learn", "write"} => name'[d] = Home(RD(d))
             /\ \A e \in DOMAIN nbr' : \E i \in Insts : e[1] = Home(i)
  <2>1. /\ inq[c] # <<>> /\ RD(c) \in Insts
        /\ \A d \in Conns \ {c} : pc'[d] = pc[d] /\ name'[d] = name[d]
    BY <1>3, HandlerEffect DEF RD, Conns
  <2>2. pc'[c] \in {"learn", "write"} => name'[c] = Home(RD(c))
    <3>1. CASE Lookup(c)
      <4>1. ASSUME NEW n, name' = [name EXCEPT ![c] = n] PROVE name'[c] = n
        BY <4>1 DEF Typed, TypeOK
      <4>2. CASE RD(c) = Default /\ name' = [name EXCEPT ![c] = Default]
        BY <4>1, <4>2, HomeIs
      <4>3. CASE Named(c) /\ name' = [name EXCEPT ![c] = rdVRF[RD(c)]]
        BY <1>1, <4>1, <4>3 DEF Named
      <4>4. CASE RD(c) # Default /\ Told(c) /\ name' = [name EXCEPT ![c] = Msg(c).tlv]
        <5>1. RD(c) \in RDs
          BY <2>1, <4>4 DEF Insts
        <5>2. Msg(c).tlv = VRFOf[RD(c)] /\ tlv
          BY <2>1, <4>4, MsgIs DEF Told
        <5> QED BY <4>1, <4>4, <5>1, <5>2, HomeIs
      <4>5. CASE Goto(c, "refresh")
        BY <4>5 DEF Goto, Typed, TypeOK
      <4> QED BY <3>1, <4>2, <4>3, <4>4, <4>5 DEF Lookup
    <3>2. CASE ReadNames(c)
      <4>1. pc[c] = "names" /\ ~tlv /\ steady
        BY <1>1, <3>2 DEF ReadNames, At, UpFirst
      <4>2. RD(c) \in RDs /\ RD(c) # Default
        BY <4>1, BMPAssumption DEF Typed, HandlersTyped
      <4>3. vnames = devs /\ VRFOf[RD(c)] \in devs
        BY <2>1, <4>1, <4>2 DEF DevicesKnown
      <4>4. IsFiniteSet(devs)
        BY BMPAssumption, FS_Subset DEF Typed, BgpdTyped
      <4>5. CASE Cardinality(vnames) = 1 /\ name' = [name EXCEPT ![c] = CHOOSE n \in vnames : TRUE]
        <5>1. (CHOOSE n \in vnames : TRUE) = VRFOf[RD(c)]
          BY <4>3, <4>4, <4>5, SoleIs
        <5>2. name'[c] = VRFOf[RD(c)]
          BY <4>5, <5>1 DEF Typed, TypeOK
        <5>3. Home(RD(c)) = VRFOf[RD(c)]
          BY <4>2, <4>3, <4>5, HomeIs
        <5> QED BY <5>2, <5>3
      <4>6. CASE Cardinality(vnames) # 1 /\ name' = [name EXCEPT ![c] = RD(c)]
        <5>1. name'[c] = RD(c)
          BY <4>6 DEF Typed, TypeOK
        <5>2. Home(RD(c)) = RD(c)
          BY <4>1, <4>2, <4>3, <4>6, HomeIs
        <5> QED BY <5>1, <5>2
      <4> QED BY <3>2, <4>5, <4>6 DEF ReadNames
    <3>3. CASE Learn(c)
      BY <1>1, <3>3 DEF Learn, At
    <3>4. CASE pc'[c] \notin {"learn", "write"}
      BY <3>4
    <3> QED BY <1>3, <3>1, <3>2, <3>3, <3>4 DEF Handler, SkipPeer, Refresh, Publish, WritePeer,
               WriteRoute, WithdrawRoute, Done, Goto, Typed, TypeOK
  <2>3. ASSUME NEW r \in DOMAIN rdVRF' PROVE rdVRF'[r] = Home(r)
    <3>1. CASE Learn(c)
      <4>1. name[c] = Home(RD(c))
        BY <1>1, <3>1 DEF Learn, At
      <4> QED BY <1>1, <2>3, <3>1, <4>1 DEF Learn, Put
    <3>2. CASE rdVRF' = rdVRF
      BY <1>1, <2>3, <3>2
    <3> QED BY <1>3, <3>1, <3>2 DEF Handler, SkipPeer, Lookup, Refresh, Publish, ReadNames,
               WritePeer, WriteRoute, WithdrawRoute
  <2>4. ASSUME NEW e \in DOMAIN nbr' PROVE \E i \in Insts : e[1] = Home(i)
    <3>1. CASE WritePeer(c)
      <4>1. name[c] = Home(RD(c))
        BY <1>1, <3>1 DEF WritePeer, At
      <4>2. e \in DOMAIN nbr \/ e[1] = name[c]
        BY <2>4, <3>1 DEF WritePeer, Put
      <4> QED BY <1>1, <2>1, <4>1, <4>2
    <3>2. CASE nbr' = nbr
      BY <1>1, <2>4, <3>2
    <3> QED BY <1>3, <3>1, <3>2 DEF Handler, SkipPeer, Lookup, Refresh, Publish, ReadNames, Learn,
               WriteRoute, WithdrawRoute
  <2>5. ASSUME NEW d \in Conns, pc'[d] \in {"learn", "write"} PROVE name'[d] = Home(RD(d))
    BY <1>1, <2>1, <2>2, <2>5
  <2> QED BY <2>3, <2>4, <2>5
<1> QED BY <1>2, <1>3 DEF Next, Environment, Connect, Disconnect, SessionUp, SessionDown, Withdraw,
           Announce, Device, vars, handlers

-----------------------------------------------------------------------------
(* The invariant the theorems follow from.                                 *)
Filed ==
    Typed /\ LastTalks /\ NamesOnce /\ DeviceUp /\ DevicesKnown /\ UpFirst /\ NamesRight

(* The strengthening is invariant.                                         *)
LEMMA FiledInvariant == Spec => []Filed
<1>1. ASSUME Init PROVE Filed
  <2>1. Typed
    BY <1>1, TypeInit, BMPAssumption
  <2>2. UpBefore(<<>>)
    BY DEF UpBefore
  <2>3. LastTalks /\ NamesOnce /\ DeviceUp /\ DevicesKnown /\ UpFirst /\ NamesRight
    BY <1>1, <2>2 DEF Init, LastTalks, NamesOnce, DeviceUp, DevicesKnown, UpFirst, NamesRight,
                      EmptyMap
  <2> QED BY <2>1, <2>3 DEF Filed
<1>2. Filed /\ [Next]_vars => Filed'
  BY BMPAssumption, TypeStep, LastTalksStep, NamesOnceStep, DeviceUpStep, DevicesKnownStep,
     UpFirstStep, NamesRightStep DEF Filed
<1> QED BY <1>1, <1>2, PTL DEF Spec

(* FiledRight is invariant: a neighbor is filed under the VRF of its       *)
(* instance, however the handlers of its connections interleave between    *)
(* the two holds of the lock (bmp.go:161-183).                             *)
THEOREM FiledRightInvariant == Spec => []FiledRight
<1>1. Filed => FiledRight
  BY DEF Filed, NamesRight, FiledRight
<1> QED BY <1>1, FiledInvariant, PTL

(* LearnedOnce: no step gives an RD that has a name another one            *)
(* (bmp.go:162-177).                                                       *)
THEOREM NamesAreLearnedOnce == Spec => LearnedOnce
<1> DEFINE Kept == \A r \in DOMAIN rdVRF : tlv \/ r \notin mixed =>
                      r \in DOMAIN rdVRF' /\ rdVRF'[r] = rdVRF[r]
<1>1. ASSUME Filed, Filed', [Next]_vars PROVE [Kept]_vars
  <2>1. ASSUME NEW c \in Conns, Learn(c) PROVE Kept
    <3>1. /\ pc[c] = "learn"
          /\ DOMAIN rdVRF' = DOMAIN rdVRF \cup {RD(c)}
          /\ \A r \in DOMAIN rdVRF' : rdVRF'[r] = IF r = RD(c) THEN name[c] ELSE rdVRF[r]
      BY <2>1 DEF Learn, At, Put
    <3>2. ASSUME RD(c) \in DOMAIN rdVRF, tlv \/ RD(c) \notin mixed PROVE name[c] = rdVRF[RD(c)]
      <4>1. tlv
        BY <3>1, <3>2, <1>1 DEF Filed, NamesOnce
      <4> QED BY <3>1, <3>2, <4>1, <1>1 DEF Filed, NamesRight
    <3> QED BY <3>1, <3>2
  <2>2. CASE rdVRF' = rdVRF
    BY <2>2
  <2>3. CASE UNCHANGED handlers
    BY <2>2, <2>3 DEF handlers
  <2> QED BY <1>1, <2>1, <2>2, <2>3 DEF Next, Environment, Connect, Disconnect, SessionUp,
             SessionDown, Withdraw, Announce, Device, Handler, SkipPeer, Lookup, Refresh, Publish,
             ReadNames, WritePeer, WriteRoute, WithdrawRoute, vars
<1> QED BY <1>1, FiledInvariant, PTL DEF Spec, LearnedOnce

-----------------------------------------------------------------------------
(* The last message about x in a queue, if there is one.                   *)
NoneAbout(q, x) == \A n \in 1..Len(q) : q[n].about # x
IsLast(q, x, n) == q[n].about = x /\ \A k \in n + 1..Len(q) : q[k].about # x
Word(q, x) == {q[n] : n \in {n \in 1..Len(q) : IsLast(q, x, n)}}

(* A word is a message of the queue.                                       *)
LEMMA WordIs ==
  ASSUME NEW S, NEW q \in Seq(S), NEW x
  PROVE  /\ NoneAbout(<<>>, x) /\ Word(<<>>, x) = {}
         /\ \A m \in Word(q, x) : m \in S /\ m.about = x /\ \E n \in 1..Len(q) : q[n] = m
<1>1. NoneAbout(<<>>, x) /\ Word(<<>>, x) = {}
  BY DEF NoneAbout, Word
<1>2. ASSUME NEW m \in Word(q, x)
      PROVE  m \in S /\ m.about = x /\ \E n \in 1..Len(q) : q[n] = m
  <2>1. PICK n \in 1..Len(q) : IsLast(q, x, n) /\ m = q[n]
    BY DEF Word
  <2>2. q[n] \in S
    OBVIOUS
  <2> QED BY <2>1, <2>2 DEF IsLast
<1> QED BY <1>1, <1>2

(* A message that is appended is the word about its subject and leaves the *)
(* other words as they are.                                                *)
LEMMA WordAppend ==
  ASSUME NEW S, NEW q \in Seq(S), NEW x, NEW m \in S
  PROVE  IF m.about = x THEN Word(Append(q, m), x) = {m} /\ ~NoneAbout(Append(q, m), x)
         ELSE Word(Append(q, m), x) = Word(q, x)
              /\ (NoneAbout(Append(q, m), x) <=> NoneAbout(q, x))
<1> DEFINE a == Append(q, m)
<1>1. Len(a) = Len(q) + 1 /\ Len(q) \in Nat /\ a[Len(q) + 1] = m
      /\ \A n \in 1..Len(q) : a[n] = q[n]
  OBVIOUS
<1> HIDE DEF a
<1>2. CASE m.about = x
  <2>1. IsLast(a, x, Len(q) + 1) /\ Len(q) + 1 \in 1..Len(a)
    BY <1>1, <1>2 DEF IsLast
  <2>2. ASSUME NEW n \in 1..Len(a), IsLast(a, x, n) PROVE n = Len(q) + 1
    BY <1>1, <1>2, <2>2 DEF IsLast
  <2>3. Word(a, x) = {m}
    BY <1>1, <2>1, <2>2 DEF Word
  <2>4. ~NoneAbout(a, x)
    BY <1>1, <1>2, <2>1 DEF NoneAbout
  <2> QED BY <1>2, <2>3, <2>4 DEF a
<1>3. CASE m.about # x
  <2>1. \A n \in 1..Len(a) : IsLast(a, x, n) <=> n \in 1..Len(q) /\ IsLast(q, x, n)
    BY <1>1, <1>3 DEF IsLast
  <2>2. Word(a, x) = Word(q, x)
    BY <1>1, <2>1 DEF Word
  <2>3. NoneAbout(a, x) <=> NoneAbout(q, x)
    BY <1>1, <1>3 DEF NoneAbout
  <2> QED BY <1>3, <2>2, <2>3 DEF a
<1> QED BY <1>2, <1>3

(* A handler that takes the head takes a word only if it is the last       *)
(* message about its subject.                                              *)
LEMMA WordTail ==
  ASSUME NEW S, NEW q \in Seq(S), NEW x, q # <<>>
  PROVE  /\ Word(Tail(q), x) \subseteq Word(q, x)
         /\ NoneAbout(Tail(q), x) /\ Head(q).about = x => Word(q, x) = {Head(q)}
         /\ NoneAbout(Tail(q), x) /\ Head(q).about # x => NoneAbout(q, x)
         /\ NoneAbout(q, x) => Head(q).about # x
<1> DEFINE a == Tail(q)
<1>1. /\ Len(a) = Len(q) - 1 /\ Len(q) \in Nat /\ Len(q) > 0 /\ Head(q) = q[1]
      /\ \A k \in 1..Len(a) : a[k] = q[k + 1]
  OBVIOUS
<1> HIDE DEF a
<1>2. ASSUME NEW n \in 1..Len(a), IsLast(a, x, n) PROVE n + 1 \in 1..Len(q) /\ IsLast(q, x, n + 1)
  <2>1. ASSUME NEW k \in n + 2..Len(q) PROVE q[k].about # x
    <3>1. k - 1 \in n + 1..Len(a) /\ k - 1 \in 1..Len(a) /\ q[k] = a[k - 1]
      BY <1>1
    <3> QED BY <1>2, <3>1 DEF IsLast
  <2> QED BY <1>1, <1>2, <2>1 DEF IsLast
<1>3. Word(a, x) \subseteq Word(q, x)
  <2>1. ASSUME NEW m \in Word(a, x) PROVE m \in Word(q, x)
    <3>1. PICK n \in 1..Len(a) : IsLast(a, x, n) /\ m = a[n]
      BY DEF Word
    <3>2. n + 1 \in 1..Len(q) /\ IsLast(q, x, n + 1) /\ m = q[n + 1]
      BY <1>1, <1>2, <3>1
    <3> QED BY <3>2 DEF Word
  <2> QED BY <2>1
<1>4. ASSUME NoneAbout(a, x) PROVE \A n \in 2..Len(q) : q[n].about # x
  <2>1. ASSUME NEW n \in 2..Len(q) PROVE q[n].about # x
    <3>1. n - 1 \in 1..Len(a) /\ q[n] = a[n - 1]
      BY <1>1
    <3> QED BY <1>4, <3>1 DEF NoneAbout
  <2> QED BY <2>1
<1>5. ASSUME NoneAbout(a, x), Head(q).about = x PROVE Word(q, x) = {Head(q)}
  <2>1. IsLast(q, x, 1) /\ 1 \in 1..Len(q)
    BY <1>1, <1>4, <1>5 DEF IsLast
  <2>2. ASSUME NEW n \in 1..Len(q), IsLast(q, x, n) PROVE n = 1
    BY <1>1, <1>4, <1>5, <2>2 DEF IsLast
  <2> QED BY <1>1, <2>1, <2>2 DEF Word
<1>6. ASSUME NoneAbout(a, x), Head(q).about # x PROVE NoneAbout(q, x)
  BY <1>1, <1>4, <1>6 DEF NoneAbout
<1>7. NoneAbout(q, x) => Head(q).about # x
  BY <1>1 DEF NoneAbout
<1> QED BY <1>3, <1>5, <1>6, <1>7 DEF a

(* Cutting a queue behind the last message about a subject keeps the word. *)
LEMMA WordTake ==
  ASSUME NEW S, NEW q \in Seq(S), NEW x, NEW n \in 0..Len(q),
         \A k \in n + 1..Len(q) : q[k].about # x
  PROVE  Word(SubSeq(q, 1, n), x) = Word(q, x)
         /\ (NoneAbout(SubSeq(q, 1, n), x) <=> NoneAbout(q, x))
<1> DEFINE a == SubSeq(q, 1, n)
<1>1. Len(a) = n /\ n \in Nat /\ n <= Len(q) /\ Len(q) \in Nat
      /\ \A k \in 1..n : a[k] = q[k]
  OBVIOUS
<1> HIDE DEF a
<1>2. \A k \in 1..Len(q) : IsLast(q, x, k) <=> k \in 1..Len(a) /\ IsLast(a, x, k)
  <2>1. ASSUME NEW k \in 1..Len(q), IsLast(q, x, k) PROVE k \in 1..Len(a) /\ IsLast(a, x, k)
    <3>1. k \in 1..n
      BY <1>1, <2>1 DEF IsLast
    <3> QED BY <1>1, <2>1, <3>1 DEF IsLast
  <2>2. ASSUME NEW k \in 1..Len(a), IsLast(a, x, k) PROVE IsLast(q, x, k)
    <3>1. ASSUME NEW j \in k + 1..Len(q) PROVE q[j].about # x
      <4>1. CASE j \in k + 1..n
        BY <1>1, <2>2, <4>1 DEF IsLast
      <4>2. CASE j \in n + 1..Len(q)
        BY <4>2
      <4> QED BY <1>1, <4>1, <4>2
    <3> QED BY <1>1, <2>2, <3>1 DEF IsLast
  <2> QED BY <1>1, <2>1, <2>2
<1>3. Word(a, x) = Word(q, x)
  BY <1>1, <1>2 DEF Word
<1>4. NoneAbout(a, x) <=> NoneAbout(q, x)
  <2>1. ASSUME NoneAbout(a, x), NEW k \in 1..Len(q) PROVE q[k].about # x
    <3>1. CASE k \in 1..n
      BY <1>1, <2>1, <3>1 DEF NoneAbout
    <3>2. CASE k \in n + 1..Len(q)
      BY <3>2
    <3> QED BY <1>1, <3>1, <3>2
  <2> QED BY <1>1, <2>1 DEF NoneAbout
<1> QED BY <1>3, <1>4 DEF a

-----------------------------------------------------------------------------
(* What the queues say of x, and what a step leaves of it.                 *)
Silent(i, x) == \A c \in Conns : RD(c) = i => NoneAbout(inq[c], x)
Undisturbed(i, x) ==
    \A c \in Conns : RD(c) = i =>
        /\ Word(inq'[c], x) = Word(inq[c], x)
        /\ NoneAbout(inq'[c], x) <=> NoneAbout(inq[c], x)

(* Of an instance whose connections did not overlap only the last talks.   *)
LEMMA OnlyLast ==
  ASSUME BMPAssumption, Typed, LastTalks, NEW c \in Conns, RD(c) \notin mixed,
         c # <<RD(c), gen[RD(c)]>>
  PROVE  inq[c] = <<>>
<1>1. c = <<RD(c), c[2]>> /\ RD(c) \in Insts /\ c[2] \in Nat /\ gen[RD(c)] \in Nat
  BY BMPAssumption DEF Conns, RD, Typed, BgpdTyped
<1>2. c[2] < gen[RD(c)] \/ c[2] > gen[RD(c)]
  BY <1>1
<1> QED BY <1>2 DEF LastTalks, Typed, WireTyped

(* A message about something else, or of another instance, disturbs no     *)
(* word.                                                                   *)
LEMMA TellKeeps ==
  ASSUME BMPAssumption, Typed, NEW i \in Insts, NEW m \in Sendable(i), Tell(i, m), NEW j, NEW x,
         i # j \/ m.about # x
  PROVE  Undisturbed(j, x)
<1>1. \A c \in Conns : inq'[c] = IF c = <<i, gen[i]>> /\ i \in linked
                                 THEN Append(inq[c], m) ELSE inq[c]
  BY TellEffect
<1>2. ASSUME NEW c \in Conns, RD(c) = j
      PROVE  /\ Word(inq'[c], x) = Word(inq[c], x)
             /\ NoneAbout(inq'[c], x) <=> NoneAbout(inq[c], x)
  <2>1. CASE c = <<i, gen[i]>> /\ i \in linked
    <3>1. RD(c) = i /\ inq[c] \in Seq(Sendable(i)) /\ m.about # x
      BY <1>2, <2>1 DEF RD, Typed, WireTyped
    <3> QED BY <1>1, <2>1, <3>1, WordAppend
  <2>2. CASE inq'[c] = inq[c]
    BY <2>2
  <2> QED BY <1>1, <2>1, <2>2
<1> QED BY <1>2 DEF Undisturbed

(* What was lost on the wire is in doubt.                                  *)
LEMMA DisconnectKeeps ==
  ASSUME BMPAssumption, Typed, NEW i \in Insts, Disconnect(i), NEW j, NEW x, x \notin doubt'
  PROVE  Undisturbed(j, x) /\ x \notin doubt
<1> DEFINE d == <<i, gen[i]>>
<1>1. PICK n \in 0..Len(inq[d]) :
         /\ \A c \in Conns : inq'[c] = IF c = d THEN SubSeq(inq[c], 1, n) ELSE inq[c]
         /\ doubt' = doubt \cup {inq[d][k].about : k \in n + 1..Len(inq[d])}
  BY DisconnectEffect
<1>2. d \in Conns /\ x \notin doubt /\ \A k \in n + 1..Len(inq[d]) : inq[d][k].about # x
  BY <1>1, DisconnectEffect
<1>3. inq[d] \in Seq(Sendable(RD(d)))
  BY <1>2 DEF Typed, WireTyped
<1> HIDE DEF d
<1>4. /\ Word(SubSeq(inq[d], 1, n), x) = Word(inq[d], x)
      /\ NoneAbout(SubSeq(inq[d], 1, n), x) <=> NoneAbout(inq[d], x)
  BY <1>2, <1>3, WordTake
<1> QED BY <1>1, <1>2, <1>4 DEF Undisturbed

(* The connection of another instance disturbs no word.                    *)
LEMMA OtherConnects ==
  ASSUME BMPAssumption, Typed, NEW i \in Insts, Connect(i), NEW j, i # j, NEW x
  PROVE  Undisturbed(j, x)
<1>1. \A c \in Conns : c # <<i, gen[i] + 1>> => inq'[c] = inq[c]
  BY ConnectEffect
<1>2. \A c \in Conns : RD(c) = j => inq'[c] = inq[c]
  BY <1>1 DEF RD
<1> QED BY <1>2 DEF Undisturbed

(* A handler takes the messages from the heads of the queues.              *)
LEMMA HandlerTakes ==
  ASSUME Typed, NEW c \in Conns, Handler(c), NEW i, NEW x
  PROVE  /\ \A d \in Conns : Word(inq'[d], x) \subseteq Word(inq[d], x)
         /\ Silent(i, x)' => IF RD(c) = i /\ Msg(c).about = x
                             THEN Word(inq[c], x) = {Msg(c)} ELSE Silent(i, x)
<1>1. /\ inq[c] # <<>> /\ \A d \in Conns \ {c} : inq'[d] = inq[d]
      /\ inq'[c] = inq[c] \/ inq'[c] = Tail(inq[c])
  BY HandlerEffect
<1>2. inq[c] \in Seq(Sendable(RD(c)))
  BY DEF Typed, WireTyped
<1>3. /\ Word(Tail(inq[c]), x) \subseteq Word(inq[c], x)
      /\ NoneAbout(Tail(inq[c]), x) /\ Msg(c).about = x => Word(inq[c], x) = {Msg(c)}
      /\ NoneAbout(Tail(inq[c]), x) /\ Msg(c).about # x => NoneAbout(inq[c], x)
      /\ NoneAbout(inq[c], x) => Msg(c).about # x
  BY <1>1, <1>2, WordTail DEF Msg
<1>4. ASSUME Silent(i, x)'
      PROVE  IF RD(c) = i /\ Msg(c).about = x THEN Word(inq[c], x) = {Msg(c)} ELSE Silent(i, x)
  <2>1. \A d \in Conns : RD(d) = i => NoneAbout(inq'[d], x)
    BY <1>4 DEF Silent, RD
  <2>2. CASE RD(c) = i /\ Msg(c).about = x
    <3>1. NoneAbout(inq'[c], x)
      BY <2>1, <2>2
    <3> QED BY <1>1, <1>3, <2>2, <3>1
  <2>3. CASE ~(RD(c) = i /\ Msg(c).about = x)
    <3>1. ASSUME NEW d \in Conns, RD(d) = i PROVE NoneAbout(inq[d], x)
      <4>1. NoneAbout(inq'[d], x)
        BY <2>1, <3>1
      <4>2. CASE d = c
        BY <1>1, <1>3, <2>3, <3>1, <4>1, <4>2
      <4>3. CASE d # c
        BY <1>1, <4>1, <4>3
      <4> QED BY <4>2, <4>3
    <3> QED BY <2>3, <3>1 DEF Silent
  <2> QED BY <2>2, <2>3
<1>5. \A d \in Conns : Word(inq'[d], x) \subseteq Word(inq[d], x)
  BY <1>1, <1>3
<1> QED BY <1>4, <1>5

-----------------------------------------------------------------------------
(* A route that is not in doubt: the last message about it says what bgpd  *)
(* has now, and once none waits the cache has it.                          *)
RouteTrue(m, k) ==
    \/ m.op = "reach" /\ Holders(k) = {m.peer} /\ rib[<<m.peer, k>>] = m.attr
    \/ m.op = "unreach" /\ m.bottom /\ Holders(k) = {}
RouteRight(k) ==
    /\ k \in DOMAIN routes <=> Holders(k) # {}
    /\ \A p \in Holders(k) : routes[k] = [peer |-> p, attr |-> rib[<<p, k>>]]
RouteOK(k) ==
    /\ \A c \in Conns : RD(c) = Default => \A m \in Word(inq[c], k) : RouteTrue(m, k)
    /\ Silent(Default, k) => RouteRight(k)
RoutesInv == Default \notin mixed => \A k \in Keys \ doubt : RouteOK(k)

(* A step that changes neither the words about a route, nor the route, nor *)
(* the cache keeps what is said of it.                                     *)
LEMMA RouteKept ==
  ASSUME NEW k, RouteOK(k), Undisturbed(Default, k), Holders(k)' = Holders(k),
         \A p \in Holders(k) : rib'[<<p, k>>] = rib[<<p, k>>], routes' = routes
  PROVE  RouteOK(k)'
<1>1. ASSUME NEW m, RouteTrue(m, k) PROVE RouteTrue(m, k)'
  <2>1. CASE m.op = "reach" /\ Holders(k) = {m.peer} /\ rib[<<m.peer, k>>] = m.attr
    <3>1. m.peer \in Holders(k)
      BY <2>1
    <3> QED BY <2>1, <3>1 DEF RouteTrue
  <2>2. CASE m.op = "unreach" /\ m.bottom /\ Holders(k) = {}
    BY <2>2 DEF RouteTrue
  <2> QED BY <1>1, <2>1, <2>2 DEF RouteTrue
<1>2. RouteRight(k) => RouteRight(k)'
  BY DEF RouteRight
<1>3. Silent(Default, k)' => Silent(Default, k)
  BY DEF Silent, Undisturbed, RD
<1>4. \A c \in Conns : RD(c) = Default => \A m \in Word(inq'[c], k) : RouteTrue(m, k)'
  BY <1>1 DEF RouteOK, Undisturbed
<1> QED BY <1>2, <1>3, <1>4 DEF RouteOK, RD

(* The default instance dials in: it sends every route.                    *)
LEMMA RouteConnect ==
  ASSUME BMPAssumption, Typed, LastTalks, LastTalks', Typed', RoutesInv, Connect(Default),
         Default \notin mixed', NEW k \in Keys \ doubt'
  PROVE  RouteOK(k)'
<1> DEFINE d == <<Default, gen[Default] + 1>>
<1>0. Default \in Insts
  BY DEF Insts
<1>1. PICK q \in Seq(Sendable(Default)) :
         /\ \A c \in Conns : inq'[c] = IF c = d THEN q ELSE inq[c]
         /\ \A n \in 1..Len(q) :
               \/ \E p \in Peers : <<Default, p>> \in sess /\ q[n] = Up(Default, p)
               \/ Default = Default /\ \E e \in DOMAIN rib : q[n] = Reach(e[1], e[2], rib[e])
         /\ \A p \in Peers : <<Default, p>> \in sess => \E n \in 1..Len(q) : q[n] = Up(Default, p)
         /\ Default = Default => \A e \in DOMAIN rib :
               \E n \in 1..Len(q) : q[n] = Reach(e[1], e[2], rib[e])
  BY <1>0, ConnectEffect
<1>2. d \in Conns /\ RD(d) = Default /\ inq[d] = <<>> /\ gen' = [gen EXCEPT ![Default] = @ + 1]
  BY <1>0, ConnectEffect DEF RD
<1>3. rib' = rib /\ routes' = routes /\ Default \notin mixed
  BY DEF Connect, handlers
<1>4. ASSUME NEW c \in Conns, RD(c) = Default, c # d PROVE inq'[c] = <<>> /\ inq[c] = <<>>
  <2>1. gen'[Default] = gen[Default] + 1
    BY <1>0, <1>2 DEF Typed, BgpdTyped
  <2>2. c[1] = Default /\ c = <<Default, c[2]>> /\ c[2] \in Nat /\ gen[Default] \in Nat
    BY <1>0, <1>4, BMPAssumption DEF RD, Conns, Typed, BgpdTyped
  <2>3. c[2] < gen'[Default] \/ c[2] > gen'[Default]
    BY <1>4, <2>1, <2>2
  <2>4. inq'[c] = <<>>
    BY <2>2, <2>3 DEF LastTalks, Typed, WireTyped, RD
  <2> QED BY <1>1, <1>4, <2>4
<1>5. Silent(Default, k)
  <2>1. \A c \in Conns : RD(c) = Default => inq[c] = <<>>
    BY <1>2, <1>4
  <2> QED BY <2>1 DEF Silent, NoneAbout
<1>6. Holders(k)' = Holders(k)
  BY <1>3 DEF Holders
<1>7. ASSUME NEW p \in Holders(k)
      PROVE  Holders(k) = {p} /\ \E n \in 1..Len(q) : q[n] = Reach(p, k, rib[<<p, k>>])
  <2>1. <<p, k>> \in DOMAIN rib
    BY <1>7 DEF Holders
  <2>2. CASE k \notin doubt
    <3>1. RouteRight(k)
      BY <1>3, <1>5, <2>2 DEF RoutesInv, RouteOK
    <3>2. ASSUME NEW r \in Holders(k) PROVE r = p
      <4>1. routes[k] = [peer |-> r, attr |-> rib[<<r, k>>]]
            /\ routes[k] = [peer |-> p, attr |-> rib[<<p, k>>]]
        BY <1>7, <3>1, <3>2 DEF RouteRight
      <4> QED BY <4>1
    <3> QED BY <1>1, <1>7, <2>1, <3>2
  <2>3. CASE k \in doubt
    <3> DEFINE ups == {Up(Default, r) : r \in {r \in Peers : <<Default, r>> \in sess}}
               rms == {Reach(e[1], e[2], rib[e]) : e \in DOMAIN rib}
    <3>1. doubt' = doubt \ ({m.about : m \in ups}
                             \cup {m.about : m \in {n \in rms : Holders(n.about) = {n.peer}}})
      BY DEF Connect
    <3>2. \A m \in ups : m.about # k
      <4>1. \A r \in Peers : Up(Default, r).about = <<Default, r>> /\ <<Default, r>> \notin Keys
        BY <1>0, BMPAssumption DEF Up
      <4> QED BY <4>1
    <3>3. PICK m \in rms : m.about = k /\ Holders(k) = {m.peer}
      BY <2>3, <3>1, <3>2
    <3> QED BY <1>1, <1>7, <2>1, <3>3
  <2> QED BY <2>2, <2>3
<1>8. ASSUME NEW m \in Word(q, k) PROVE RouteTrue(m, k)
  <2>1. PICK n \in 1..Len(q) : q[n] = m /\ m.about = k
    BY WordIs
  <2>2. ASSUME NEW p \in Peers, m = Up(Default, p) PROVE FALSE
    <3>1. m.about = <<Default, p>> /\ <<Default, p>> \notin Keys
      BY <1>0, <2>2, BMPAssumption DEF Up
    <3> QED BY <2>1, <3>1
  <2>3. PICK e \in DOMAIN rib : m = Reach(e[1], e[2], rib[e])
    BY <1>1, <2>1, <2>2
  <2>4. e[2] = k /\ e[1] \in Peers /\ e = <<e[1], k>> /\ m.peer = e[1] /\ m.attr = rib[e]
        /\ m.op = "reach"
    BY <2>1, <2>3 DEF Reach, Typed, BgpdTyped, Known
  <2>5. e[1] \in Holders(k)
    BY <2>4 DEF Holders
  <2>6. Holders(k) = {e[1]}
    BY <1>7, <2>5
  <2> QED BY <2>4, <2>6 DEF RouteTrue
<1>9. ASSUME NEW c \in Conns, RD(c) = Default, NEW m \in Word(inq'[c], k) PROVE RouteTrue(m, k)'
  <2>1. c = d
    BY <1>4, <1>9, WordIs
  <2>2. RouteTrue(m, k)
    BY <1>1, <1>2, <1>8, <1>9, <2>1
  <2> QED BY <1>3, <1>6, <2>2 DEF RouteTrue
<1>10. ASSUME Silent(Default, k)' PROVE RouteRight(k)'
  <2>1. NoneAbout(q, k)
    BY <1>1, <1>2, <1>10 DEF Silent, RD
  <2>2. Holders(k) = {}
    <3>1. ASSUME NEW p \in Holders(k) PROVE FALSE
      <4>1. PICK n \in 1..Len(q) : q[n] = Reach(p, k, rib[<<p, k>>])
        BY <1>7
      <4> QED BY <2>1, <4>1 DEF NoneAbout, Reach
    <3> QED BY <3>1
  <2>3. k \notin doubt
    <3> DEFINE rms == {Reach(e[1], e[2], rib[e]) : e \in DOMAIN rib}
               ups == {Up(Default, r) : r \in {r \in Peers : <<Default, r>> \in sess}}
    <3>1. doubt' = doubt \ ({m.about : m \in ups}
                             \cup {m.about : m \in {n \in rms : Holders(n.about) = {n.peer}}})
      BY DEF Connect
    <3>2. \A m \in ups : m.about # k
      <4>1. \A r \in Peers : Up(Default, r).about = <<Default, r>> /\ <<Default, r>> \notin Keys
        BY <1>0, BMPAssumption DEF Up
      <4> QED BY <4>1
    <3>3. k \notin {m.about : m \in {n \in rms : Holders(n.about) = {n.peer}}}
      BY <2>2
    <3> QED BY <3>1, <3>2, <3>3
  <2>4. RouteRight(k)
    BY <1>3, <1>5, <2>3 DEF RoutesInv, RouteOK
  <2> QED BY <1>3, <1>6, <2>4 DEF RouteRight
<1> QED BY <1>9, <1>10 DEF RouteOK, RD

(* A route that bgpd tells of.                                             *)
LEMMA RouteTold ==
  ASSUME BMPAssumption, Typed, LastTalks, Default \notin mixed, Default \in linked, NEW k \in Keys,
         NEW m \in Sendable(Default), Tell(Default, m), m.about = k, RouteTrue(m, k)'
  PROVE  RouteOK(k)'
<1> DEFINE d == <<Default, gen[Default]>>
<1>1. Default \in Insts
  BY DEF Insts
<1>2. d \in Conns /\ RD(d) = Default
      /\ \A c \in Conns : inq'[c] = IF c = d THEN Append(inq[c], m) ELSE inq[c]
  BY <1>1, TellEffect DEF RD
<1>3. inq[d] \in Seq(Sendable(Default))
  BY <1>2 DEF Typed, WireTyped
<1>4. Word(inq'[d], k) = {m} /\ ~NoneAbout(inq'[d], k)
  BY <1>2, <1>3, WordAppend
<1>5. ASSUME NEW c \in Conns, RD(c) = Default, c # d PROVE inq'[c] = <<>>
  BY <1>2, <1>5, OnlyLast
<1> HIDE DEF d
<1>6. ASSUME NEW c \in Conns, RD(c) = Default, NEW w \in Word(inq'[c], k) PROVE w = m
  <2>1. Word(<<>>, k) = {}
    BY DEF Word
  <2>2. c = d
    BY <1>5, <1>6, <2>1
  <2> QED BY <1>4, <1>6, <2>2
<1>7. ~Silent(Default, k)'
  BY <1>2, <1>4 DEF Silent, RD
<1> QED BY <1>6, <1>7 DEF RouteOK, RD

(* An announcement: the route is in doubt, or the new word is true.        *)
LEMMA RouteAnnounce ==
  ASSUME BMPAssumption, Typed, LastTalks, RoutesInv, Default \notin mixed,
         NEW p \in Peers, NEW j \in Keys, NEW a \in Attrs, Announce(p, j, a), NEW k \in Keys \ doubt'
  PROVE  RouteOK(k)'
<1>1. /\ rib' = Put(rib, <<p, j>>, a) /\ routes' = routes /\ Tell(Default, Reach(p, j, a))
      /\ doubt' = IF Default \in linked /\ Holders(j) \subseteq {p} THEN doubt \ {j} ELSE doubt \cup {j}
  BY DEF Announce, handlers, Clears
<1>2. DOMAIN rib' = DOMAIN rib \cup {<<p, j>>} /\ rib'[<<p, j>>] = a
      /\ \A e \in DOMAIN rib : e # <<p, j>> => rib'[e] = rib[e]
  BY <1>1 DEF Put
<1>3. Default \in Insts /\ p \in Known
  BY DEF Announce, Insts, Known
<1>4. Reach(p, j, a) \in Sendable(Default)
  BY <1>3 DEF Sendable
<1>5. CASE k = j
  <2>1. Default \in linked /\ Holders(j) \subseteq {p}
    BY <1>1, <1>5
  <2>2. Holders(j)' = {p}
    BY <1>2, <2>1 DEF Holders
  <2>3. RouteTrue(Reach(p, j, a), j)'
    BY <1>2, <2>2 DEF RouteTrue, Reach
  <2>4. Reach(p, j, a).about = j
    BY DEF Reach
  <2> QED BY <1>1, <1>4, <1>5, <2>1, <2>3, <2>4, RouteTold
<1>6. CASE k # j
  <2>1. RouteOK(k)
    BY <1>1, <1>6 DEF RoutesInv
  <2>2. Reach(p, j, a).about # k
    BY <1>6 DEF Reach
  <2>3. Undisturbed(Default, k)
    BY <1>1, <1>3, <1>4, <2>2, TellKeeps
  <2>4. Holders(k)' = Holders(k)
    BY <1>2, <1>6 DEF Holders
  <2>5. \A r \in Holders(k) : rib'[<<r, k>>] = rib[<<r, k>>]
    BY <1>2, <1>6 DEF Holders
  <2> QED BY <1>1, <2>1, <2>3, <2>4, <2>5, RouteKept
<1> QED BY <1>5, <1>6

(* A withdrawal, likewise; it leaves no doubt only when it can be read and *)
(* no other peer holds the route.                                          *)
LEMMA RouteWithdraw ==
  ASSUME BMPAssumption, Typed, LastTalks, RoutesInv, Default \notin mixed,
         NEW p \in Peers, NEW j \in Keys, Withdraw(p, j), NEW k \in Keys \ doubt'
  PROVE  RouteOK(k)'
<1>1. PICK b \in BOOLEAN :
         /\ Tell(Default, Unreach(p, j, b))
         /\ doubt' = IF Default \in linked /\ (Holders(j) = {p} /\ b)
                     THEN doubt \ {j} ELSE doubt \cup {j}
  BY DEF Withdraw, Clears
<1>2. DOMAIN rib' = DOMAIN rib \ {<<p, j>>} /\ routes' = routes
      /\ \A e \in DOMAIN rib' : rib'[e] = rib[e]
  BY DEF Withdraw, handlers, Drop
<1>3. Default \in Insts /\ p \in Known
  BY DEF Withdraw, Insts, Typed, BgpdTyped
<1>4. Unreach(p, j, b) \in Sendable(Default)
  BY <1>3 DEF Sendable
<1>5. CASE k = j
  <2>1. Default \in linked /\ Holders(j) = {p} /\ b
    BY <1>1, <1>5
  <2>2. Holders(j)' = {}
    BY <1>2, <2>1 DEF Holders
  <2>3. RouteTrue(Unreach(p, j, b), j)'
    BY <2>1, <2>2 DEF RouteTrue, Unreach
  <2>4. Unreach(p, j, b).about = j
    BY DEF Unreach
  <2> QED BY <1>1, <1>4, <1>5, <2>1, <2>3, <2>4, RouteTold
<1>6. CASE k # j
  <2>1. RouteOK(k)
    BY <1>1, <1>6 DEF RoutesInv
  <2>2. Unreach(p, j, b).about # k
    BY <1>6 DEF Unreach
  <2>3. Undisturbed(Default, k)
    BY <1>1, <1>3, <1>4, <2>2, TellKeeps
  <2>4. Holders(k)' = Holders(k)
    BY <1>2, <1>6 DEF Holders
  <2>5. \A r \in Holders(k) : rib'[<<r, k>>] = rib[<<r, k>>]
    BY <1>2, <1>6 DEF Holders
  <2> QED BY <1>2, <2>1, <2>3, <2>4, <2>5, RouteKept
<1> QED BY <1>5, <1>6

(* A session that goes down leaves only routes behind that it did not have.*)
LEMMA RouteSession ==
  ASSUME BMPAssumption, Typed, RoutesInv, Default \notin mixed, NEW i \in Insts, NEW p \in Peers,
         SessionUp(i, p) \/ SessionDown(i, p), NEW k \in Keys \ doubt'
  PROVE  RouteOK(k)'
<1>1. <<i, p>> \notin Keys /\ Default \in Insts
  BY BMPAssumption DEF Insts
<1>2. PICK m \in {Up(i, p), Down(i, p)} : Tell(i, m)
  BY DEF SessionUp, SessionDown
<1>3. m \in Sendable(i) /\ m.about = <<i, p>>
  <2>1. (\E q \in Peers : Up(i, p) = Up(i, q)) /\ (\E q \in Peers : Down(i, p) = Down(i, q))
    OBVIOUS
  <2>2. Up(i, p) \in Sendable(i) /\ Down(i, p) \in Sendable(i)
    BY <2>1 DEF Sendable
  <2>3. Up(i, p).about = <<i, p>> /\ Down(i, p).about = <<i, p>>
    BY DEF Up, Down
  <2> QED BY <2>2, <2>3
<1>4. Undisturbed(Default, k)
  BY <1>1, <1>2, <1>3, TellKeeps
<1>5. /\ k \notin doubt /\ routes' = routes
      /\ \A r : <<r, k>> \in DOMAIN rib' <=> <<r, k>> \in DOMAIN rib
      /\ \A r : <<r, k>> \in DOMAIN rib => rib'[<<r, k>>] = rib[<<r, k>>]
  <2>1. CASE SessionUp(i, p)
    BY <1>1, <2>1 DEF SessionUp, Clears, handlers
  <2>2. CASE SessionDown(i, p)
    <3> DEFINE gone == {e \in DOMAIN rib : i = Default /\ e[1] = p}
    <3>1. /\ rib' = Drop(rib, gone) /\ routes' = routes
          /\ doubt' = {e[2] : e \in gone}
                      \cup (IF i \in linked THEN doubt \ {<<i, p>>} ELSE doubt \cup {<<i, p>>})
      BY <2>2 DEF SessionDown, handlers
    <3>2. k \notin doubt /\ \A e \in gone : e[2] # k
      BY <1>1, <3>1
    <3>3. DOMAIN rib' = DOMAIN rib \ gone /\ \A e \in DOMAIN rib \ gone : rib'[e] = rib[e]
      BY <3>1 DEF Drop
    <3>4. \A r : <<r, k>> \notin gone
      BY <3>2
    <3> HIDE DEF gone
    <3> QED BY <3>1, <3>2, <3>3, <3>4
  <2> QED BY <2>1, <2>2
<1>6. RouteOK(k)
  BY <1>5 DEF RoutesInv
<1>7. Holders(k)' = Holders(k) /\ \A r \in Holders(k) : rib'[<<r, k>>] = rib[<<r, k>>]
  BY <1>5 DEF Holders
<1> QED BY <1>4, <1>5, <1>6, <1>7, RouteKept

(* Handlers either serve a route or a peer.                                *)
LEMMA PeerMsgs ==
  ASSUME Typed, NEW c \in Conns, Handler(c)
  PROVE  WriteRoute(c) \/ WithdrawRoute(c) \/ PeerMsg(c)
<1>1. pc[c] # "idle" => PeerMsg(c)
  BY DEF Typed, HandlersTyped
<1> QED BY <1>1 DEF Handler, SkipPeer, Lookup, Refresh, Publish, ReadNames, Learn, WritePeer, At

(* A handler that applies the word about a route makes the cache right,    *)
(* because the word is true.                                               *)
LEMMA RouteHandler ==
  ASSUME BMPAssumption, Typed, RoutesInv, Default \notin mixed, NEW c \in Conns, Handler(c),
         NEW k \in Keys \ doubt'
  PROVE  RouteOK(k)'
<1>1. UNCHANGED bgpd /\ inq[c] # <<>>
  BY HandlerEffect
<1>2. rib' = rib /\ RouteOK(k)
  BY <1>1 DEF bgpd, RoutesInv
<1>3. /\ \A d \in Conns : Word(inq'[d], k) \subseteq Word(inq[d], k)
      /\ Silent(Default, k)' => IF RD(c) = Default /\ Msg(c).about = k
                                THEN Word(inq[c], k) = {Msg(c)} ELSE Silent(Default, k)
  BY HandlerTakes
<1>4. Holders(k)' = Holders(k)
  BY <1>2 DEF Holders
<1>5. ASSUME NEW m, RouteTrue(m, k) PROVE RouteTrue(m, k)'
  BY <1>2, <1>4, <1>5 DEF RouteTrue
<1>6. ASSUME Silent(Default, k)' PROVE RouteRight(k)'
  <2>1. CASE routes' = routes /\ Silent(Default, k)
    BY <1>2, <1>4, <2>1 DEF RouteOK, RouteRight
  <2>2. ASSUME RD(c) = Default, Msg(c).about = k PROVE RouteTrue(Msg(c), k)
    <3>1. Msg(c) \in Word(inq[c], k)
      BY <1>3, <1>6, <2>2
    <3> QED BY <1>2, <2>2, <3>1 DEF RouteOK
  <2>3. ASSUME Msg(c).about # k, (k \in DOMAIN routes' <=> k \in DOMAIN routes),
               k \in DOMAIN routes => routes'[k] = routes[k]
        PROVE  RouteRight(k)'
    <3>1. RouteRight(k)
      BY <1>2, <1>3, <1>6, <2>3 DEF RouteOK
    <3> QED BY <1>2, <1>4, <2>3, <3>1 DEF RouteRight
  <2>4. CASE WriteRoute(c)
    <3>1. routes' = Put(routes, Msg(c).about, [peer |-> Msg(c).peer, attr |-> Msg(c).attr])
          /\ Msg(c).op = "reach"
      BY <2>4 DEF WriteRoute
    <3>2. RD(c) = Default
      BY <1>1, <3>1, MsgIs
    <3>3. CASE Msg(c).about = k
      <4>1. Holders(k) = {Msg(c).peer} /\ rib[<<Msg(c).peer, k>>] = Msg(c).attr
        BY <2>2, <3>1, <3>2, <3>3 DEF RouteTrue
      <4>2. k \in DOMAIN routes' /\ routes'[k] = [peer |-> Msg(c).peer, attr |-> Msg(c).attr]
        BY <3>1, <3>3 DEF Put
      <4> QED BY <1>2, <1>4, <4>1, <4>2 DEF RouteRight
    <3>4. CASE Msg(c).about # k
      BY <2>3, <3>1, <3>4 DEF Put
    <3> QED BY <3>3, <3>4
  <2>5. CASE WithdrawRoute(c)
    <3>1. routes' = Drop(routes, ParseVPNNLRI(Msg(c))) /\ Msg(c).op = "unreach"
      BY <2>5 DEF WithdrawRoute
    <3>2. RD(c) = Default
      BY <1>1, <3>1, MsgIs
    <3>3. CASE Msg(c).about = k
      <4>1. Holders(k) = {} /\ Msg(c).bottom
        BY <2>2, <3>1, <3>2, <3>3 DEF RouteTrue
      <4>2. k \notin DOMAIN routes'
        BY <3>1, <3>3, <4>1 DEF Drop, ParseVPNNLRI
      <4> QED BY <1>4, <4>1, <4>2 DEF RouteRight
    <3>4. CASE Msg(c).about # k
      BY <2>3, <3>1, <3>4 DEF Drop, ParseVPNNLRI
    <3> QED BY <3>3, <3>4
  <2>6. CASE PeerMsg(c) /\ ~WriteRoute(c) /\ ~WithdrawRoute(c)
    <3>1. Msg(c).about # k
      <4>1. Msg(c).about = <<RD(c), Msg(c).peer>> /\ RD(c) \in Insts /\ Msg(c).peer \in Peers
        BY <1>1, <2>6, MsgIs DEF PeerMsg
      <4> QED BY <4>1, BMPAssumption
    <3>2. routes' = routes
      BY <2>6 DEF Handler, SkipPeer, Lookup, Refresh, Publish, ReadNames, Learn, WritePeer
    <3> QED BY <1>3, <1>6, <2>1, <3>1, <3>2
  <2> QED BY <2>4, <2>5, <2>6, PeerMsgs
<1>7. \A d \in Conns : RD(d) = Default => \A m \in Word(inq'[d], k) : RouteTrue(m, k)'
  BY <1>2, <1>3, <1>5 DEF RouteOK
<1> QED BY <1>6, <1>7 DEF RouteOK, RD

(* Every step keeps RoutesInv.                                             *)
LEMMA RoutesStep ==
  ASSUME BMPAssumption, Typed, Typed', LastTalks, LastTalks', RoutesInv, [Next]_vars
  PROVE  RoutesInv'
<1> SUFFICES ASSUME Default \notin mixed', NEW k \in Keys \ doubt' PROVE RouteOK(k)'
  BY DEF RoutesInv
<1>1. CASE Environment
  <2>0. Default \notin mixed
    BY <1>1 DEF Environment, Connect, Disconnect, SessionUp, SessionDown, Withdraw, Announce, Device
  <2>1. ASSUME NEW i \in Insts, Connect(i) PROVE RouteOK(k)'
    <3>1. CASE i = Default
      BY <2>1, <3>1, RouteConnect
    <3>2. CASE i # Default
      <4>1. Undisturbed(Default, k)
        BY <2>1, <3>2, OtherConnects
      <4>2. k \notin doubt
        <5> DEFINE ups == {Up(i, p) : p \in {q \in Peers : <<i, q>> \in sess}}
        <5>1. doubt' = doubt \ ({m.about : m \in ups} \cup
                {m.about : m \in {n \in {Reach(e[1], e[2], rib[e]) :
                                          e \in IF i = Default THEN DOMAIN rib ELSE {}} :
                                   Holders(n.about) = {n.peer}}})
          BY <2>1 DEF Connect
        <5>2. \A m \in ups : m.about # k
          <6>1. \A r \in Peers : Up(i, r).about = <<i, r>> /\ <<i, r>> \notin Keys
            BY BMPAssumption DEF Up
          <6> QED BY <6>1
        <5> QED BY <3>2, <5>1, <5>2
      <4>3. RouteOK(k) /\ rib' = rib /\ routes' = routes
        BY <2>0, <2>1, <4>2 DEF RoutesInv, Connect, handlers
      <4>4. Holders(k)' = Holders(k)
        BY <4>3 DEF Holders
      <4> QED BY <4>1, <4>3, <4>4, RouteKept
    <3> QED BY <3>1, <3>2
  <2>2. ASSUME NEW i \in Insts, Disconnect(i) PROVE RouteOK(k)'
    <3>1. Undisturbed(Default, k) /\ k \notin doubt
      BY <2>2, DisconnectKeeps
    <3>2. RouteOK(k) /\ rib' = rib /\ routes' = routes
      BY <2>0, <2>2, <3>1 DEF RoutesInv, Disconnect, handlers
    <3>3. Holders(k)' = Holders(k)
      BY <3>2 DEF Holders
    <3> QED BY <3>1, <3>2, <3>3, RouteKept
  <2>3. ASSUME NEW i \in Insts, NEW p \in Peers, SessionUp(i, p) \/ SessionDown(i, p)
        PROVE  RouteOK(k)'
    BY <2>0, <2>3, RouteSession
  <2>4. ASSUME NEW p \in Peers, NEW j \in Keys, Withdraw(p, j) PROVE RouteOK(k)'
    BY <2>0, <2>4, RouteWithdraw
  <2>5. ASSUME NEW p \in Peers, NEW j \in Keys, NEW a \in Attrs, Announce(p, j, a) PROVE RouteOK(k)'
    BY <2>0, <2>5, RouteAnnounce
  <2>6. ASSUME NEW n \in VRFNames, Device(n) PROVE RouteOK(k)'
    <3>1. RouteOK(k) /\ rib' = rib /\ routes' = routes /\ inq' = inq
      BY <2>0, <2>6 DEF RoutesInv, Device, handlers
    <3>2. Undisturbed(Default, k) /\ Holders(k)' = Holders(k)
      BY <3>1 DEF Undisturbed, Holders
    <3> QED BY <3>1, <3>2, RouteKept
  <2> QED BY <1>1, <2>1, <2>2, <2>3, <2>4, <2>5, <2>6 DEF Environment
<1>2. ASSUME NEW c \in Conns, Handler(c) PROVE RouteOK(k)'
  <2>1. Default \notin mixed
    BY <1>2, HandlerEffect DEF bgpd
  <2> QED BY <1>2, <2>1, RouteHandler
<1>3. CASE UNCHANGED vars
  <2>1. RouteOK(k) /\ rib' = rib /\ routes' = routes /\ inq' = inq
    BY <1>3 DEF RoutesInv, vars, bgpd, handlers
  <2>2. Undisturbed(Default, k) /\ Holders(k)' = Holders(k)
    BY <2>1 DEF Undisturbed, Holders
  <2> QED BY <2>1, <2>2, RouteKept
<1> QED BY <1>1, <1>2, <1>3 DEF Next

(* RibAccurate is invariant: the routes in the cache are bgpd's once the   *)
(* messages about them are handled (bmp.go:298-393).                       *)
THEOREM RibAccurateInvariant == Spec => []RibAccurate
<1>1. ASSUME Init PROVE RoutesInv
  <2>1. ASSUME NEW k \in Keys PROVE RouteOK(k)
    <3>1. Holders(k) = {} /\ k \notin DOMAIN routes
      BY <1>1 DEF Init, Holders, EmptyMap
    <3>2. \A c \in Conns : Word(inq[c], k) = {}
      BY <1>1 DEF Init, Word
    <3> QED BY <3>1, <3>2 DEF RouteOK, RouteRight
  <2> QED BY <2>1 DEF RoutesInv
<1>2. Filed /\ Filed' /\ RoutesInv /\ [Next]_vars => RoutesInv'
  BY BMPAssumption, RoutesStep DEF Filed
<1>3. RoutesInv => RibAccurate
  <2> SUFFICES ASSUME RoutesInv, Quiet, Default \notin mixed, NEW k \in Keys \ doubt
               PROVE  RouteRight(k)
    BY DEF RibAccurate, RouteRight
  <2>1. Silent(Default, k)
    BY DEF Quiet, Silent, NoneAbout
  <2> QED BY <2>1 DEF RoutesInv, RouteOK
<1> QED BY <1>1, <1>2, <1>3, FiledInvariant, PTL DEF Spec

-----------------------------------------------------------------------------
(* A session that is not in doubt, likewise.                               *)
SessionRight(i, p) ==
    <<i, p>> \in sess <=> <<Home(i), p>> \in DOMAIN nbr /\ nbr[<<Home(i), p>>] = "ESTABLISHED"
SessionOK(i, p) ==
    /\ \A c \in Conns : RD(c) = i =>
          \A m \in Word(inq[c], <<i, p>>) : (m.op = "up") <=> (<<i, p>> \in sess)
    /\ (tlv \/ steady) /\ Silent(i, <<i, p>>) => SessionRight(i, p)
SessionsInv ==
    \A i \in Insts \ mixed : \A p \in Known : <<i, p>> \notin doubt => SessionOK(i, p)

(* No two instances share a home.                                          *)
LEMMA OwnHome ==
  ASSUME BMPAssumption, NEW i \in Insts, NEW j \in Insts, Home(i) = Home(j)
  PROVE  i = j
<1>1. Home(Default) = Default
      /\ \A r \in RDs : Home(r) = IF tlv \/ Cardinality(devs) = 1 THEN VRFOf[r] ELSE r
  BY HomeIs
<1>2. /\ Default \notin RDs /\ \A r \in RDs : VRFOf[r] # Default
      /\ \A r, s \in RDs : VRFOf[r] = VRFOf[s] => r = s
  BY BMPAssumption
<1>3. i \in RDs \cup {Default} /\ j \in RDs \cup {Default}
  BY DEF Insts
<1> QED BY <1>1, <1>2, <1>3

(* A step that changes neither the words about a session, nor the session, *)
(* nor the cache keeps what is said of it.                                 *)
LEMMA SessionKept ==
  ASSUME [Next]_vars, NEW i \in Insts, NEW p \in Known, SessionOK(i, p),
         Undisturbed(i, <<i, p>>), <<i, p>> \in sess' <=> <<i, p>> \in sess, nbr' = nbr
  PROVE  SessionOK(i, p)'
<1>1. ASSUME tlv' \/ steady', Silent(i, <<i, p>>)' PROVE SessionRight(i, p)'
  <2>1. (tlv \/ steady) /\ Home(i)' = Home(i)
    BY <1>1, HomeStays
  <2>2. Silent(i, <<i, p>>)
    BY <1>1 DEF Silent, Undisturbed, RD
  <2> QED BY <2>1, <2>2 DEF SessionOK, SessionRight
<1>2. \A c \in Conns : RD(c) = i =>
         \A m \in Word(inq'[c], <<i, p>>) : (m.op = "up") <=> (<<i, p>> \in sess')
  BY DEF SessionOK, Undisturbed
<1> QED BY <1>1, <1>2 DEF SessionOK, RD

(* The instance dials in: it sends every session.                          *)
LEMMA SessionConnect ==
  ASSUME BMPAssumption, Typed, Typed', LastTalks', SessionsInv, NEW i \in Insts, Connect(i),
         i \notin mixed', NEW p \in Known, <<i, p>> \notin doubt'
  PROVE  SessionOK(i, p)'
<1> DEFINE d == <<i, gen[i] + 1>>
           x == <<i, p>>
<1>1. PICK q \in Seq(Sendable(i)) :
         /\ \A c \in Conns : inq'[c] = IF c = d THEN q ELSE inq[c]
         /\ \A n \in 1..Len(q) :
               \/ \E r \in Peers : <<i, r>> \in sess /\ q[n] = Up(i, r)
               \/ i = Default /\ \E e \in DOMAIN rib : q[n] = Reach(e[1], e[2], rib[e])
         /\ \A r \in Peers : <<i, r>> \in sess => \E n \in 1..Len(q) : q[n] = Up(i, r)
  BY ConnectEffect
<1>2. /\ d \in Conns /\ inq[d] = <<>> /\ gen' = [gen EXCEPT ![i] = @ + 1]
      /\ RD(d) = i
  BY ConnectEffect DEF RD
<1>3. sess' = sess /\ nbr' = nbr /\ tlv' = tlv /\ devs' = devs /\ steady' = steady
      /\ i \notin mixed
  BY DEF Connect, handlers
<1>4. ASSUME NEW c \in Conns, RD(c) = i, c # d PROVE inq'[c] = <<>> /\ inq[c] = <<>>
  <2>1. gen'[i] = gen[i] + 1
    BY <1>2 DEF Typed, BgpdTyped
  <2>2. c[1] = i /\ c = <<i, c[2]>> /\ c[2] \in Nat /\ gen[i] \in Nat
    BY <1>4, BMPAssumption DEF RD, Conns, Typed, BgpdTyped
  <2>3. c[2] < gen'[i] \/ c[2] > gen'[i]
    BY <1>4, <2>1, <2>2
  <2>4. inq'[c] = <<>>
    BY <2>2, <2>3 DEF LastTalks, Typed, WireTyped, RD
  <2> QED BY <1>1, <1>4, <2>4
<1>5. Silent(i, x)
  <2>1. \A c \in Conns : RD(c) = i => inq[c] = <<>>
    BY <1>2, <1>4
  <2> QED BY <2>1 DEF Silent, NoneAbout
<1>6. x \notin Keys
  BY BMPAssumption DEF Known
<1>7. ASSUME NEW m \in Word(q, x) PROVE m.op = "up" /\ x \in sess
  <2>1. PICK n \in 1..Len(q) : q[n] = m /\ m.about = x
    BY WordIs
  <2>2. ASSUME NEW e \in DOMAIN rib, m = Reach(e[1], e[2], rib[e]) PROVE FALSE
    <3>1. m.about = e[2] /\ e[2] \in Keys
      BY <2>2 DEF Reach, Typed, BgpdTyped
    <3> QED BY <1>6, <2>1, <3>1
  <2>3. PICK r \in Peers : <<i, r>> \in sess /\ m = Up(i, r)
    BY <1>1, <2>1, <2>2
  <2> QED BY <2>1, <2>3 DEF Up
<1>8. ASSUME NEW c \in Conns, RD(c) = i, NEW m \in Word(inq'[c], x)
      PROVE  (m.op = "up") <=> (x \in sess')
  <2>1. Word(<<>>, x) = {}
    BY DEF Word
  <2>2. c = d
    BY <1>4, <1>8, <2>1
  <2> QED BY <1>1, <1>3, <1>7, <1>8, <2>2
<1>9. ASSUME Silent(i, x)', tlv' \/ steady' PROVE SessionRight(i, p)'
  <2>1. NoneAbout(q, x)
    BY <1>1, <1>2, <1>9, ZenonT(60) DEF Silent, RD
  <2>2. x \notin sess
    <3>1. ASSUME x \in sess PROVE FALSE
      <4>1. PICK n \in 1..Len(q) : q[n] = Up(i, p)
        BY <1>1, <3>1 DEF Known
      <4> QED BY <2>1, <4>1 DEF NoneAbout, Up
    <3> QED BY <3>1
  <2>3. x \notin doubt
    <3> DEFINE rms == {Reach(e[1], e[2], rib[e]) : e \in IF i = Default THEN DOMAIN rib ELSE {}}
               ups == {Up(i, r) : r \in {r \in Peers : <<i, r>> \in sess}}
    <3>1. doubt' = doubt \ ({m.about : m \in ups}
                             \cup {m.about : m \in {n \in rms : Holders(n.about) = {n.peer}}})
      BY DEF Connect
    <3>2. \A m \in ups : m.about # x
      <4>1. \A r \in Peers : <<i, r>> \in sess => Up(i, r).about = <<i, r>> /\ <<i, r>> # x
        BY <2>2 DEF Up
      <4> QED BY <4>1
    <3>3. \A m \in rms : m.about \in Keys
      BY DEF Reach, Typed, BgpdTyped
    <3> HIDE DEF ups, rms
    <3> QED BY <1>6, <3>1, <3>2, <3>3
  <2>4. SessionOK(i, p)
    BY <1>3, <2>3 DEF SessionsInv
  <2>5. SessionRight(i, p)
    BY <1>3, <1>5, <1>9, <2>4 DEF SessionOK
  <2>6. Home(i)' = Home(i)
    BY <1>3 DEF Home
  <2> QED BY <1>3, <2>5, <2>6 DEF SessionRight
<1> QED BY <1>8, <1>9 DEF SessionOK, RD

(* A session that goes up or down.                                         *)
LEMMA SessionSaid ==
  ASSUME BMPAssumption, Typed, LastTalks, [Next]_vars, SessionsInv, NEW j \in Insts, NEW r \in Peers,
         SessionUp(j, r) \/ SessionDown(j, r),
         NEW i \in Insts \ mixed', NEW p \in Known, <<i, p>> \notin doubt'
  PROVE  SessionOK(i, p)'
<1> DEFINE d == <<i, gen[i]>>
           x == <<i, p>>
<1>1. nbr' = nbr /\ mixed' = mixed /\ x \notin Keys
  <2>1. nbr' = nbr /\ mixed' = mixed
    BY DEF SessionUp, SessionDown, handlers
  <2>2. x \notin Keys
    BY BMPAssumption DEF Known
  <2> QED BY <2>1, <2>2
<1>2. PICK m \in {Up(j, r), Down(j, r)} :
         Tell(j, m) /\ ((m.op = "up") <=> (<<j, r>> \in sess'))
  <2>1. Up(j, r).op = "up" /\ Down(j, r).op = "down"
    BY DEF Up, Down
  <2>2. CASE SessionUp(j, r)
    BY <2>1, <2>2 DEF SessionUp
  <2>3. CASE SessionDown(j, r)
    BY <2>1, <2>3 DEF SessionDown
  <2> QED BY <2>2, <2>3
<1>3. m \in Sendable(j) /\ m.about = <<j, r>>
  <2>1. (\E q \in Peers : Up(j, r) = Up(j, q)) /\ (\E q \in Peers : Down(j, r) = Down(j, q))
    OBVIOUS
  <2>2. Up(j, r) \in Sendable(j) /\ Down(j, r) \in Sendable(j)
    BY <2>1 DEF Sendable
  <2>3. Up(j, r).about = <<j, r>> /\ Down(j, r).about = <<j, r>>
    BY DEF Up, Down
  <2> QED BY <2>2, <2>3
<1>4. CASE <<j, r>> # x
  <2>1. (x \in sess' <=> x \in sess) /\ x \notin doubt
    BY <1>1, <1>4 DEF SessionUp, SessionDown, Clears
  <2>2. SessionOK(i, p)
    BY <1>1, <2>1 DEF SessionsInv
  <2>3. Undisturbed(i, x)
    BY <1>2, <1>3, <1>4, TellKeeps
  <2> QED BY <1>1, <2>1, <2>2, <2>3, SessionKept
<1>5. CASE <<j, r>> = x
  <2>1. j = i /\ r = p /\ i \in linked
    BY <1>1, <1>5 DEF SessionUp, SessionDown, Clears
  <2>2. d \in Conns /\ RD(d) = i
        /\ \A c \in Conns : inq'[c] = IF c = d THEN Append(inq[c], m) ELSE inq[c]
    BY <1>2, <2>1, TellEffect DEF RD
  <2>3. inq[d] \in Seq(Sendable(i))
    BY <2>2 DEF Typed, WireTyped
  <2>4. Word(inq'[d], x) = {m} /\ ~NoneAbout(inq'[d], x)
    <3>1. m \in Sendable(i) /\ m.about = x
      BY <1>3, <1>5, <2>1
    <3>2. inq'[d] = Append(inq[d], m)
      BY <2>2
    <3> HIDE DEF x, d
    <3>3. Word(Append(inq[d], m), x) = {m} /\ ~NoneAbout(Append(inq[d], m), x)
      BY <2>3, <3>1, WordAppend
    <3> QED BY <3>2, <3>3
  <2>5. ASSUME NEW c \in Conns, RD(c) = i, c # d PROVE inq'[c] = <<>>
    BY <1>1, <2>2, <2>5, OnlyLast
  <2> HIDE DEF d
  <2>6. ASSUME NEW c \in Conns, RD(c) = i, NEW w \in Word(inq'[c], x) PROVE w = m
    <3>1. Word(<<>>, x) = {}
      BY DEF Word
    <3>2. c = d
      BY <2>5, <2>6, <3>1
    <3> QED BY <2>4, <2>6, <3>2
  <2>7. ~Silent(i, x)'
    BY <2>2, <2>4 DEF Silent, RD
  <2>8. (m.op = "up") <=> (x \in sess')
    BY <1>2, <1>5
  <2> QED BY <2>6, <2>7, <2>8 DEF SessionOK, RD
<1> QED BY <1>4, <1>5

(* A handler that applies the word about a session makes the cache right:  *)
(* the word is true, and NamesRight says where it is filed.                *)
LEMMA SessionHandler ==
  ASSUME BMPAssumption, Typed, NamesRight, SessionsInv, [Next]_vars, NEW c \in Conns, Handler(c),
         NEW i \in Insts \ mixed', NEW p \in Known, <<i, p>> \notin doubt'
  PROVE  SessionOK(i, p)'
<1> DEFINE x == <<i, p>>
<1>1. UNCHANGED bgpd /\ inq[c] # <<>> /\ RD(c) \in Insts
  BY HandlerEffect DEF RD, Conns
<1>2. sess' = sess /\ SessionOK(i, p)
  BY <1>1 DEF bgpd, SessionsInv
<1>3. /\ \A e \in Conns : Word(inq'[e], x) \subseteq Word(inq[e], x)
      /\ Silent(i, x)' => IF RD(c) = i /\ Msg(c).about = x
                         THEN Word(inq[c], x) = {Msg(c)} ELSE Silent(i, x)
  BY HandlerTakes
<1>4. ASSUME Silent(i, x)', tlv' \/ steady' PROVE SessionRight(i, p)'
  <2>1. (tlv \/ steady) /\ Home(i)' = Home(i)
    BY <1>4, HomeStays
  <2>2. CASE WritePeer(c)
    <3>1. /\ nbr' = Put(nbr, <<name[c], Msg(c).peer>>, StateOf(Msg(c)))
          /\ pc[c] = "write"
      BY <2>2 DEF WritePeer, At
    <3>2. name[c] = Home(RD(c))
      BY <2>1, <3>1 DEF NamesRight
    <3>3. PeerMsg(c) /\ Msg(c).about = <<RD(c), Msg(c).peer>>
      BY <1>1, <3>1, MsgIs DEF PeerMsg, Typed, HandlersTyped
    <3>4. CASE Msg(c).about = x
      <4>1. RD(c) = i /\ Msg(c).peer = p
        BY <3>3, <3>4
      <4>2. (Msg(c).op = "up") <=> (x \in sess)
        <5>1. Msg(c) \in Word(inq[c], x)
          BY <1>3, <1>4, <3>4, <4>1
        <5> QED BY <1>2, <4>1, <5>1 DEF SessionOK
      <4>3. <<Home(i), p>> \in DOMAIN nbr' /\ nbr'[<<Home(i), p>>] = StateOf(Msg(c))
        BY <3>1, <3>2, <4>1 DEF Put
      <4>4. (StateOf(Msg(c)) = "ESTABLISHED") <=> (Msg(c).op = "up")
        BY DEF StateOf
      <4> QED BY <1>2, <2>1, <4>2, <4>3, <4>4 DEF SessionRight
    <3>5. CASE Msg(c).about # x
      <4>1. SessionRight(i, p)
        BY <1>2, <1>3, <1>4, <2>1, <3>5 DEF SessionOK
      <4>2. <<name[c], Msg(c).peer>> # <<Home(i), p>>
        <5>1. RD(c) # i \/ Msg(c).peer # p
          BY <3>3, <3>5
        <5>2. RD(c) # i => Home(RD(c)) # Home(i)
          BY <1>1, OwnHome
        <5> QED BY <3>2, <5>1, <5>2
      <4>3. (<<Home(i), p>> \in DOMAIN nbr' <=> <<Home(i), p>> \in DOMAIN nbr)
            /\ (<<Home(i), p>> \in DOMAIN nbr => nbr'[<<Home(i), p>>] = nbr[<<Home(i), p>>])
        BY <3>1, <4>2 DEF Put
      <4> QED BY <1>2, <2>1, <4>1, <4>3 DEF SessionRight
    <3> QED BY <3>4, <3>5
  <2>3. CASE ~WritePeer(c)
    <3>1. nbr' = nbr
      BY <2>3 DEF Handler, SkipPeer, Lookup, Refresh, Publish, ReadNames, Learn, WriteRoute,
                  WithdrawRoute
    <3>2. ~(RD(c) = i /\ Msg(c).about = x)
      <4>1. ASSUME RD(c) = i, Msg(c).about = x PROVE FALSE
        <5>1. x \notin Keys
          BY BMPAssumption DEF Known
        <5>2. PeerMsg(c)
          BY <1>1, <4>1, <5>1, MsgIs DEF PeerMsg
        <5>3. Msg(c).peer = p
          <6>1. Msg(c).about = <<RD(c), Msg(c).peer>>
            BY <1>1, <5>2, MsgIs DEF PeerMsg
          <6> QED BY <4>1, <6>1
        <5>4. ~SkipPeer(c)
          BY <5>3 DEF SkipPeer, Known
        <5>5. ~WriteRoute(c) /\ ~WithdrawRoute(c)
          BY <5>2 DEF PeerMsg, WriteRoute, WithdrawRoute
        <5>6. inq' = inq
          BY <2>3, <5>4, <5>5 DEF Handler, Lookup, Refresh, Publish, ReadNames, Learn
        <5>7. NoneAbout(inq[c], x)
          BY <1>4, <4>1, <5>6 DEF Silent, RD
        <5>8. inq[c] \in Seq(Sendable(RD(c)))
          BY DEF Typed, WireTyped
        <5>9. Head(inq[c]).about # x
          BY <1>1, <5>7, <5>8, WordTail
        <5> QED BY <4>1, <5>9 DEF Msg
      <4> QED BY <4>1
    <3>3. SessionRight(i, p)
      BY <1>2, <1>3, <1>4, <2>1, <3>2 DEF SessionOK
    <3> QED BY <1>2, <2>1, <3>1, <3>3 DEF SessionRight
  <2> QED BY <2>2, <2>3
<1>5. \A e \in Conns : RD(e) = i => \A m \in Word(inq'[e], x) : (m.op = "up") <=> (x \in sess')
  BY <1>2, <1>3 DEF SessionOK
<1> QED BY <1>4, <1>5 DEF SessionOK, RD

(* Every step keeps SessionsInv.                                           *)
LEMMA SessionsStep ==
  ASSUME BMPAssumption, Typed, Typed', LastTalks, LastTalks', NamesRight, SessionsInv, [Next]_vars
  PROVE  SessionsInv'
<1> SUFFICES ASSUME NEW i \in Insts \ mixed', NEW p \in Known, <<i, p>> \notin doubt'
             PROVE  SessionOK(i, p)'
  BY DEF SessionsInv
<1> DEFINE x == <<i, p>>
<1>1. x \notin Keys /\ p \in Peers
  BY BMPAssumption DEF Known
<1>2. CASE Environment
  <2>0. i \notin mixed
    BY <1>2 DEF Environment, Connect, Disconnect, SessionUp, SessionDown, Withdraw, Announce, Device
  <2>1. ASSUME x \notin doubt, Undisturbed(i, x), sess' = sess, UNCHANGED handlers
        PROVE  SessionOK(i, p)'
    <3>1. SessionOK(i, p)
      BY <2>0, <2>1 DEF SessionsInv
    <3> QED BY <2>1, <3>1, SessionKept DEF handlers
  <2>2. ASSUME NEW j \in Insts, Connect(j) PROVE SessionOK(i, p)'
    <3>1. CASE j = i
      BY <2>2, <3>1, SessionConnect
    <3>2. CASE j # i
      <4>1. Undisturbed(i, x)
        BY <2>2, <3>2, OtherConnects
      <4>2. x \notin doubt
        <5> DEFINE rms == {Reach(e[1], e[2], rib[e]) : e \in IF j = Default THEN DOMAIN rib ELSE {}}
                   ups == {Up(j, r) : r \in {r \in Peers : <<j, r>> \in sess}}
        <5>1. doubt' = doubt \ ({m.about : m \in ups}
                                 \cup {m.about : m \in {n \in rms : Holders(n.about) = {n.peer}}})
          BY <2>2 DEF Connect
        <5>2. \A m \in ups : m.about # x
          <6>1. \A r \in Peers : Up(j, r).about = <<j, r>> /\ <<j, r>> # x
            BY <3>2 DEF Up
          <6> QED BY <6>1
        <5>3. \A m \in rms : m.about \in Keys
          BY DEF Reach, Typed, BgpdTyped
        <5> HIDE DEF ups, rms
        <5> QED BY <1>1, <5>1, <5>2, <5>3
      <4> QED BY <2>1, <2>2, <4>1, <4>2 DEF Connect
    <3> QED BY <3>1, <3>2
  <2>3. ASSUME NEW j \in Insts, Disconnect(j) PROVE SessionOK(i, p)'
    <3>1. Undisturbed(i, x) /\ x \notin doubt
      BY <2>3, DisconnectKeeps
    <3> QED BY <2>1, <2>3, <3>1 DEF Disconnect
  <2>4. ASSUME NEW j \in Insts, NEW r \in Peers, SessionUp(j, r) \/ SessionDown(j, r)
        PROVE  SessionOK(i, p)'
    BY <2>4, SessionSaid
  <2>5. ASSUME NEW r \in Peers, NEW k \in Keys, Withdraw(r, k) PROVE SessionOK(i, p)'
    <3>1. Default \in Insts /\ r \in Known
      BY <2>5 DEF Withdraw, Insts, Typed, BgpdTyped
    <3>2. PICK b \in BOOLEAN :
             /\ Tell(Default, Unreach(r, k, b)) /\ Clears(Default, k, Holders(k) = {r} /\ b)
      BY <2>5 DEF Withdraw
    <3>3. Unreach(r, k, b) \in Sendable(Default)
      BY <3>1 DEF Sendable
    <3>4. Unreach(r, k, b).about # x
      BY <1>1 DEF Unreach
    <3>5. x \notin doubt
      BY <1>1, <3>2 DEF Clears
    <3>6. Undisturbed(i, x)
      BY <3>1, <3>2, <3>3, <3>4, TellKeeps
    <3> QED BY <2>1, <2>5, <3>5, <3>6 DEF Withdraw
  <2>6. ASSUME NEW r \in Peers, NEW k \in Keys, NEW a \in Attrs, Announce(r, k, a)
        PROVE  SessionOK(i, p)'
    <3>1. Default \in Insts /\ r \in Known
      BY <2>6 DEF Announce, Insts, Known
    <3>2. Reach(r, k, a) \in Sendable(Default)
      BY <3>1 DEF Sendable
    <3>3. Reach(r, k, a).about # x
      BY <1>1 DEF Reach
    <3>4. x \notin doubt
      BY <1>1, <2>6 DEF Announce, Clears
    <3>5. Undisturbed(i, x)
      BY <2>6, <3>1, <3>2, <3>3, TellKeeps DEF Announce
    <3> QED BY <2>1, <2>6, <3>4, <3>5 DEF Announce
  <2>7. ASSUME NEW n \in VRFNames, Device(n) PROVE SessionOK(i, p)'
    BY <2>1, <2>7 DEF Device, Undisturbed
  <2> QED BY <1>2, <2>2, <2>3, <2>4, <2>5, <2>6, <2>7 DEF Environment
<1>3. ASSUME NEW c \in Conns, Handler(c) PROVE SessionOK(i, p)'
  BY <1>3, SessionHandler
<1>4. CASE UNCHANGED vars
  <2>1. SessionOK(i, p) /\ nbr' = nbr /\ inq' = inq /\ sess' = sess
    BY <1>4 DEF SessionsInv, vars, bgpd, handlers
  <2>2. Undisturbed(i, x)
    BY <2>1 DEF Undisturbed
  <2> QED BY <2>1, <2>2, SessionKept
<1> QED BY <1>2, <1>3, <1>4 DEF Next

(* SessionsAccurate is invariant: with every message handled the neighbors *)
(* shown are bgpd's sessions, in the network-instances of their VRFs, and  *)
(* the Loc-RIB peer is none of them (bmp.go:146-194).                      *)
THEOREM SessionsAccurateInvariant == Spec => []SessionsAccurate
<1>1. ASSUME Init PROVE SessionsInv
  <2>1. ASSUME NEW i \in Insts, NEW p \in Known PROVE SessionOK(i, p)
    <3>1. sess = {} /\ DOMAIN nbr = {}
      BY <1>1 DEF Init, EmptyMap
    <3>2. \A c \in Conns : Word(inq[c], <<i, p>>) = {}
      BY <1>1 DEF Init, Word
    <3> QED BY <3>1, <3>2 DEF SessionOK, SessionRight
  <2> QED BY <2>1 DEF SessionsInv
<1>2. Filed /\ Filed' /\ SessionsInv /\ [Next]_vars => SessionsInv'
  BY BMPAssumption, SessionsStep DEF Filed
<1>3. Filed /\ SessionsInv => SessionsAccurate
  <2> SUFFICES ASSUME Filed, SessionsInv, Quiet, tlv \/ steady, NEW i \in Insts \ mixed,
                      NEW p \in Peers, <<i, p>> \notin doubt
               PROVE  (<<i, p>> \in sess /\ p # Unspecified)
                        <=> (<<Home(i), p>> \in DOMAIN nbr /\ nbr[<<Home(i), p>>] = "ESTABLISHED")
    BY DEF SessionsAccurate
  <2>1. CASE p = Unspecified
    <3>1. p \notin Known /\ DOMAIN nbr \subseteq Instances \X Known
      BY <2>1 DEF Known, Filed, Typed, TypeOK
    <3>2. <<Home(i), p>> \notin DOMAIN nbr
      BY <3>1
    <3> QED BY <2>1, <3>2
  <2>2. CASE p # Unspecified
    <3>1. SessionOK(i, p)
      BY <2>2 DEF SessionsInv, Known
    <3>2. Silent(i, <<i, p>>)
      BY DEF Quiet, Silent, NoneAbout
    <3> QED BY <2>2, <3>1, <3>2 DEF SessionOK, SessionRight
  <2> QED BY <2>1, <2>2
<1> QED BY <1>1, <1>2, <1>3, FiledInvariant, PTL DEF Spec
=============================================================================
