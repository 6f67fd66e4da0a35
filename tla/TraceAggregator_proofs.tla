----------------------- MODULE TraceAggregator_proofs ------------------------
(***************************************************************************)
(* Proofs about TraceAggregator, for every inventory, whatever the         *)
(* correlators publish (traces with spans before their start and with any  *)
(* number of spans included), any window, any size of the rings, and any   *)
(* number of failures.                                                     *)
(*                                                                         *)
(* What the recursions compute, over the traces of a round and over the    *)
(* spans of a group, is shown by induction: the least number for which a   *)
(* claim fails is led to a contradiction.                                  *)
(***************************************************************************)
EXTENDS TraceAggregator, SequenceTheorems, FiniteSetTheorems, WellFoundedInduction, TLAPS

(* Induction: a set of numbers that is not empty has a least element.      *)
(* Below, that set is the numbers for which a claim fails.                 *)
LEMMA LeastNumber ==
  ASSUME NEW S \in SUBSET Nat, S # {}
  PROVE  \E n \in S : \A m \in S : n <= m
<1>1. PICK n \in S : \A m \in S : <<m, n>> \notin OpToRel(<, Nat)
  BY WFMin, NatLessThanWellFounded, Zenon
<1>2. \A m \in S : ~(m < n)
  BY <1>1, Zenon DEF OpToRel
<1> QED BY <1>2

(* The greatest, if there is a bound.                                      *)
LEMMA GreatestNumber ==
  ASSUME NEW b \in Nat, NEW S \in SUBSET (0..b), S # {}
  PROVE  Max(S) \in S /\ \A m \in S : Max(S) >= m
<1> DEFINE D == {n \in 0..b : b - n \in S}
<1>1. D \in SUBSET Nat /\ D # {}
  <2>1. PICK l \in S : TRUE
    OBVIOUS
  <2>2. l \in 0..b /\ b - l \in 0..b /\ b - (b - l) = l
    OBVIOUS
  <2> QED BY <2>2
<1>2. PICK n \in D : \A m \in D : n <= m
  <2> HIDE DEF D
  <2> QED BY <1>1, LeastNumber
<1>3. ASSUME NEW k \in S PROVE b - n >= k
  <2>1. k \in 0..b /\ b - k \in 0..b /\ b - (b - k) = k /\ n \in Nat
    OBVIOUS
  <2>2. b - k \in D
    BY <2>1
  <2>3. n <= b - k
    BY <2>2, <1>2
  <2> QED BY <2>1, <2>3
<1> QED BY <1>2, <1>3 DEF Max

(* The least of a set that is not empty, which Groups goes on from.        *)
LEMMA SmallestNumber ==
  ASSUME NEW S \in SUBSET Nat, S # {}
  PROVE  Min(S) \in S /\ \A m \in S : Min(S) <= m
<1>1. PICK n \in S : \A m \in S : n <= m
  BY LeastNumber
<1> QED BY <1>1 DEF Min

-----------------------------------------------------------------------------
(* What joins sequences end to end: flatten[n] joins the first n of them.  *)
LEMMA FlattenIs ==
  ASSUME NEW X, NEW s \in Seq(Seq(X) \ {<<>>}), s # <<>>
  PROVE  FlattenSeq(s) \in Seq(X) \ {<<>>}
<1> DEFINE L == Len(s)
           Solves(f, n) == f = [i \in 1..n |-> IF i = 1 THEN s[i] ELSE f[i - 1] \o s[i]]
           Bad == {n \in Nat : ~ \E f : Solves(f, n)}
<1>0. L \in Nat \ {0}
  BY EmptySeq
<1>1. Bad = {}
  <2> SUFFICES ASSUME Bad # {} PROVE FALSE
    OBVIOUS
  <2>1. PICK n \in Bad : \A m \in Bad : n <= m
    <3> HIDE DEF Solves
    <3> QED BY LeastNumber
  <2>2. CASE n = 0
    <3>1. Solves(<<>>, 0)
      OBVIOUS
    <3> QED BY <2>2, <3>1
  <2>3. CASE n # 0
    <3>1. n \in Nat /\ n - 1 \in Nat /\ n - 1 \notin Bad
      <4> HIDE DEF Bad
      <4>1. n \in Nat
        BY DEF Bad
      <4>2. ~(n <= n - 1)
        BY <4>1
      <4> QED BY <4>1, <4>2, <2>1, <2>3
    <3>2. PICK f : Solves(f, n - 1)
      BY <3>1
    <3> DEFINE g == [i \in 1..n |-> IF i < n THEN f[i]
                                    ELSE IF i = 1 THEN s[i] ELSE f[i - 1] \o s[i]]
    <3>3. \A i \in 1..n : g[i] = IF i = 1 THEN s[i] ELSE g[i - 1] \o s[i]
      <4> SUFFICES ASSUME NEW i \in 1..n PROVE g[i] = IF i = 1 THEN s[i] ELSE g[i - 1] \o s[i]
        OBVIOUS
      <4>1. i # 1 => i - 1 \in 1..n /\ i - 1 < n
        BY <3>1
      <4>2. i # 1 => g[i - 1] = f[i - 1]
        BY <4>1
      <4>3. CASE i < n
        <5>1. i \in 1..n - 1
          BY <4>3, <3>1
        <5>2. f[i] = IF i = 1 THEN s[i] ELSE f[i - 1] \o s[i]
          BY <5>1, <3>2, Zenon
        <5> QED BY <4>2, <4>3, <5>2
      <4> QED BY <4>2, <4>3
    <3>4. Solves(g, n)
      BY <3>3, Zenon
    <3> QED BY <3>4, <2>1
  <2> QED BY <2>2, <2>3
<1>2. \E f : Solves(f, L)
  BY <1>0, <1>1
<1>3. PICK f : Solves(f, L) /\ FlattenSeq(s) = f[L]
  <2>1. FlattenSeq(s) = (CHOOSE f : Solves(f, L))[L]
    BY <1>0 DEF FlattenSeq
  <2> QED BY <1>2, <2>1
<1>4. \A n \in 1..L : f[n] = IF n = 1 THEN s[n] ELSE f[n - 1] \o s[n]
  BY <1>3, Zenon
<1> DEFINE Wrong == {n \in 1..L : f[n] \notin Seq(X) \ {<<>>}}
<1>5. Wrong = {}
  <2> SUFFICES ASSUME Wrong # {} PROVE FALSE
    OBVIOUS
  <2>1. PICK n \in Wrong : \A m \in Wrong : n <= m
    <3>1. Wrong \in SUBSET Nat
      BY <1>0
    <3> HIDE DEF Wrong
    <3> QED BY <3>1, LeastNumber
  <2>2. n \in 1..L /\ s[n] \in Seq(X) \ {<<>>}
    BY ElementOfSeq
  <2>3. n # 1 => n - 1 \in 1..L /\ ~(n <= n - 1)
    BY <1>0, <2>2
  <2>4. n # 1 => f[n - 1] \in Seq(X) \ {<<>>}
    BY <2>1, <2>3
  <2>5. n # 1 => f[n - 1] \o s[n] \in Seq(X) \ {<<>>}
    BY <2>2, <2>4, ConcatProperties, ConcatEqualIffEmpty
  <2> QED BY <1>4, <2>2, <2>5
<1>6. L \in 1..L
  BY <1>0
<1>7. f[L] \in Seq(X) \ {<<>>}
  BY <1>5, <1>6
<1> QED BY <1>3, <1>7

-----------------------------------------------------------------------------
(* Sorting by time: every moment has a position of its own, and no moment  *)
(* is put before an earlier one.                                           *)
Timed == [node : Nodes, abs : Int]
Before(m, j, k) == m[j].abs < m[k].abs \/ (m[j].abs = m[k].abs /\ j <= k)

(* A position is a place of the sequence, and what is before another has a *)
(* smaller one.                                                            *)
LEMMA PositionIs ==
  ASSUME NEW m \in Seq(Timed)
  PROVE  /\ \A k \in DOMAIN m : Position(m, k) \in DOMAIN m
         /\ \A j, k \in DOMAIN m : Before(m, j, k) /\ j # k => Position(m, j) < Position(m, k)
<1> DEFINE n == Len(m)
           Upto(k) == {j \in DOMAIN m : Before(m, j, k)}
<1>1. n \in Nat /\ DOMAIN m = 1..n /\ \A k \in 1..n : m[k].abs \in Int
  <2>1. n \in Nat /\ DOMAIN m = 1..n /\ \A k \in 1..n : m[k] \in Timed
    BY LenProperties, ElementOfSeq
  <2> QED BY <2>1 DEF Timed
<1>2. IsFiniteSet(1..n) /\ Cardinality(1..n) = n
  <2> HIDE DEF n
  <2>1. IsFiniteSet(1..n) /\ Cardinality(1..n) = IF 1 > n THEN 0 ELSE n - 1 + 1
    BY <1>1, FS_Interval
  <2> QED BY <1>1, <2>1
<1>3. \A k : Position(m, k) = Cardinality(Upto(k))
  BY DEF Position, Before
<1>4. ASSUME NEW k \in 1..n
      PROVE  /\ IsFiniteSet(Upto(k)) /\ Cardinality(Upto(k)) \in 1..n
  <2>1. Upto(k) \in SUBSET (1..n) /\ k \in Upto(k)
    BY <1>1 DEF Before
  <2> HIDE DEF Upto, n
  <2>2. IsFiniteSet(Upto(k)) /\ Cardinality(Upto(k)) <= n
    BY <1>2, <2>1, FS_Subset
  <2>3. Cardinality(Upto(k)) \in Nat /\ Cardinality(Upto(k)) # 0
    BY <2>1, <2>2, FS_CardinalityType, FS_EmptySet
  <2> QED BY <1>1, <2>2, <2>3
<1>5. ASSUME NEW j \in 1..n, NEW k \in 1..n, Before(m, j, k), j # k
      PROVE  Cardinality(Upto(j)) < Cardinality(Upto(k))
  <2>1. Upto(j) \in SUBSET Upto(k)
    BY <1>1, <1>5 DEF Before
  <2>2. k \in Upto(k) /\ k \notin Upto(j)
    BY <1>1, <1>5 DEF Before
  <2>3. IsFiniteSet(Upto(k)) /\ Cardinality(Upto(k)) \in 1..n /\ Cardinality(Upto(j)) \in 1..n
    BY <1>4
  <2> HIDE DEF Upto
  <2>4. Cardinality(Upto(j)) <= Cardinality(Upto(k)) /\ Cardinality(Upto(k)) # Cardinality(Upto(j))
    BY <2>1, <2>2, <2>3, FS_Subset
  <2>5. \A x, y \in 1..n : x <= y /\ y # x => x < y
    BY <1>1
  <2> QED BY <2>3, <2>4, <2>5
<1> HIDE DEF Upto, n
<1>6. \A k \in 1..n : Position(m, k) \in 1..n
  BY <1>3, <1>4, Zenon
<1>7. \A j, k \in 1..n : Before(m, j, k) /\ j # k => Position(m, j) < Position(m, k)
  BY <1>3, <1>5, Zenon
<1> QED BY <1>1, <1>6, <1>7

(* So the sorted sequence has at every place a moment, and every moment.   *)
LEMMA SortedIs ==
  ASSUME NEW m \in Seq(Timed),
         NEW s, s = [i \in DOMAIN m |-> m[CHOOSE k \in DOMAIN m : Position(m, k) = i]]
  PROVE  /\ s \in Seq(Timed) /\ Len(s) = Len(m)
         /\ \A i, j \in DOMAIN s : i < j => s[i].abs <= s[j].abs
<1> DEFINE n == Len(m)
           at == [k \in 1..n |-> Position(m, k)]
           from(i) == CHOOSE k \in DOMAIN m : Position(m, k) = i
<1>1. n \in Nat /\ DOMAIN m = 1..n /\ \A k \in 1..n : m[k] \in Timed /\ m[k].abs \in Int
  <2>1. n \in Nat /\ DOMAIN m = 1..n /\ \A k \in 1..n : m[k] \in Timed
    BY LenProperties, ElementOfSeq
  <2> QED BY <2>1 DEF Timed
<1>2. /\ at \in [1..n -> 1..n]
      /\ \A j, k \in 1..n : Before(m, j, k) /\ j # k => Position(m, j) < Position(m, k)
      /\ \A k \in 1..n : Position(m, k) \in Nat
  <2>1. \A k \in 1..n : Position(m, k) \in 1..n
    BY <1>1, PositionIs
  <2>2. \A j, k \in 1..n : Before(m, j, k) /\ j # k => Position(m, j) < Position(m, k)
    BY <1>1, PositionIs
  <2> QED BY <2>1, <2>2, <1>1
<1>3. \A j, k \in 1..n : j # k => Before(m, j, k) \/ Before(m, k, j)
  BY <1>1 DEF Before
<1>4. at \in Surjection(1..n, 1..n)
  <2>1. at \in Injection(1..n, 1..n)
    <3>1. ASSUME NEW j \in 1..n, NEW k \in 1..n, at[j] = at[k] PROVE j = k
      BY <1>2, <1>3, <3>1
    <3> HIDE DEF at
    <3> QED BY <1>2, <3>1 DEF Injection, IsInjective
  <2>2. IsFiniteSet(1..n)
    BY <1>1, FS_Interval
  <2> HIDE DEF at
  <2> QED BY <2>1, <2>2, FS_Injection
<1>5. \A i \in 1..n : from(i) \in 1..n /\ Position(m, from(i)) = i
  <2> SUFFICES ASSUME NEW i \in 1..n PROVE from(i) \in 1..n /\ Position(m, from(i)) = i
    OBVIOUS
  <2>1. \E k \in 1..n : at[k] = i
    <3> HIDE DEF at
    <3> QED BY <1>4 DEF Surjection
  <2>2. \E k \in DOMAIN m : Position(m, k) = i
    BY <1>1, <2>1
  <2> QED BY <1>1, <2>2
<1>6. DOMAIN s = 1..n /\ \A i \in 1..n : s[i] = m[from(i)]
  BY <1>1
<1> HIDE DEF from
<1>7. s \in Seq(Timed) /\ Len(s) = n
  BY <1>1, <1>5, <1>6
<1>8. ASSUME NEW i \in 1..n, NEW j \in 1..n, i < j PROVE s[i].abs <= s[j].abs
  <2>1. ~Before(m, from(j), from(i)) \/ from(i) = from(j)
    <3>1. Before(m, from(j), from(i)) /\ from(i) # from(j) => j < i
      BY <1>2, <1>5
    <3> QED BY <1>1, <1>8, <3>1
  <2>2. from(i) # from(j)
    BY <1>5, <1>8
  <2>3. Before(m, from(i), from(j))
    BY <1>3, <1>5, <2>1, <2>2
  <2>4. m[from(i)].abs <= m[from(j)].abs
    BY <1>1, <1>5, <2>3 DEF Before
  <2> QED BY <1>6, <2>4
<1> QED BY <1>6, <1>7, <1>8

-----------------------------------------------------------------------------
(* A distributed trace is a group of traces that correlators published.    *)
AllTraces == UNION {Traces(n) : n \in Nodes}
IsGroup(g) == g \in Seq(AllTraces) \ {<<>>}

(* What the correlators publish are traces.                                *)
LEMMA TraceIs == \A t \in AllTraces : IsTrace(t)
BY AggregatorAssumption DEF AllTraces

(* merge collects the spans of a group, at least one, with their times.    *)
LEMMA MomentsAre == ASSUME NEW g, IsGroup(g) PROVE Moments(g) \in Seq(Timed) \ {<<>>}
<1> DEFINE of(i) == [j \in DOMAIN g[i].offs |->
                        [node |-> g[i].node, abs |-> g[i].start + g[i].offs[j] * Ms]]
           all0 == [i \in DOMAIN g |-> of(i)]
<1>1. Len(g) \in Nat \ {0} /\ DOMAIN g = 1..Len(g)
  BY EmptySeq, LenProperties DEF IsGroup
<1>2. ASSUME NEW i \in 1..Len(g) PROVE of(i) \in Seq(Timed) \ {<<>>}
  <2>1. IsTrace(g[i])
    BY <1>2, TraceIs, ElementOfSeq DEF IsGroup
  <2>2. /\ g[i].node \in Nodes /\ g[i].start \in Int /\ Len(g[i].offs) \in Nat \ {0}
        /\ DOMAIN g[i].offs = 1..Len(g[i].offs)
        /\ \A j \in 1..Len(g[i].offs) : g[i].offs[j] \in Int
    <3> DEFINE o == g[i].offs
    <3>1. g[i].node \in Nodes /\ g[i].start \in Int /\ o \in Seq(Int) /\ o # <<>>
      BY <2>1 DEF IsTrace
    <3> HIDE DEF o
    <3>2. /\ Len(o) \in Nat \ {0} /\ DOMAIN o = 1..Len(o) /\ \A j \in 1..Len(o) : o[j] \in Int
      BY <3>1, EmptySeq, LenProperties, ElementOfSeq
    <3> QED BY <3>1, <3>2 DEF o
  <2>3. \A j \in 1..Len(g[i].offs) : of(i)[j] \in Timed
    <3> SUFFICES ASSUME NEW j \in 1..Len(g[i].offs) PROVE of(i)[j] \in Timed
      OBVIOUS
    <3>1. Ms \in Int /\ g[i].offs[j] \in Int /\ g[i].start \in Int
      BY <2>2, AggregatorAssumption
    <3>2. \A x, y, z \in Int : x + y * z \in Int
      OBVIOUS
    <3>3. g[i].start + g[i].offs[j] * Ms \in Int
      BY <3>1, <3>2
    <3> QED BY <2>2, <3>3 DEF Timed
  <2>4. of(i) \in [1..Len(g[i].offs) -> Timed]
    BY <2>2, <2>3
  <2>5. of(i) \in Seq(Timed)
    BY <2>2, <2>4
  <2> QED BY <2>2, <2>5
<1> HIDE DEF of
<1>3. all0 \in Seq(Seq(Timed) \ {<<>>}) /\ all0 # <<>>
  BY <1>1, <1>2
<1>4. FlattenSeq(all0) \in Seq(Timed) \ {<<>>}
  <2> HIDE DEF all0
  <2> QED BY <1>3, FlattenIs
<1> QED BY <1>4 DEF Moments, of

(* The spans by time: the earliest first, whose time is the trace's start. *)
LEMMA SpansAre ==
  ASSUME NEW g, IsGroup(g)
  PROVE  /\ Len(Moments(g)) \in Nat \ {0} /\ DOMAIN Moments(g) = 1..Len(Moments(g))
         /\ Len(Spans(g)) = Len(Moments(g)) /\ DOMAIN Spans(g) = DOMAIN Moments(g)
         /\ \A i \in DOMAIN Spans(g) : Spans(g)[i].abs \in Int
         /\ \A i, j \in DOMAIN Spans(g) : i < j => Spans(g)[i].abs <= Spans(g)[j].abs
         /\ StartOf(g) \in Int
         /\ \A i \in DOMAIN Spans(g) : Spans(g)[i].abs - StartOf(g) \in Nat
<1> DEFINE m == Moments(g)
           s == Spans(g)
<1>1. m \in Seq(Timed) /\ m # <<>>
  BY MomentsAre
<1>2. s = [i \in DOMAIN m |-> m[CHOOSE k \in DOMAIN m : Position(m, k) = i]]
  BY DEF Spans
<1> HIDE DEF m, s
<1>3. /\ s \in Seq(Timed) /\ Len(s) = Len(m)
      /\ \A i, j \in DOMAIN s : i < j => s[i].abs <= s[j].abs
  BY <1>1, <1>2, SortedIs
<1>4. Len(m) \in Nat \ {0} /\ DOMAIN m = 1..Len(m) /\ DOMAIN s = 1..Len(m)
  BY <1>1, <1>3, EmptySeq, LenProperties
<1>5. \A i \in 1..Len(m) : s[i].abs \in Int
  <2>1. \A i \in 1..Len(m) : s[i] \in Timed
    BY <1>3, ElementOfSeq
  <2> QED BY <2>1 DEF Timed
<1>6. 1 \in 1..Len(m) /\ StartOf(g) = s[1].abs
  BY <1>4 DEF StartOf, s
<1>7. \A i \in 1..Len(m) : s[i].abs - s[1].abs \in Nat
  <2> SUFFICES ASSUME NEW i \in 1..Len(m) PROVE s[i].abs - s[1].abs \in Nat
    OBVIOUS
  <2>1. i = 1 \/ 1 < i
    BY <1>4
  <2>2. s[i].abs \in Int /\ s[1].abs \in Int /\ (s[i].abs = s[1].abs \/ s[1].abs <= s[i].abs)
    BY <1>3, <1>4, <1>5, <1>6, <2>1
  <2>3. \A x, y \in Int : (x = y \/ y <= x) => x - y \in Nat
    OBVIOUS
  <2> QED BY <2>2, <2>3
<1> QED BY <1>3, <1>4, <1>5, <1>6, <1>7 DEF m, s

(* Milliseconds: what is later has no smaller offset, and an offset loses  *)
(* less than a millisecond.                                                *)
LEMMA DivIs ==
  ASSUME NEW x \in Nat
  PROVE  x \div Ms \in Nat /\ x - (x \div Ms) * Ms \in 0..Ms - 1
<1>1. Ms \in Nat /\ Ms > 0
  BY AggregatorAssumption
<1>2. x = Ms * (x \div Ms) + (x % Ms) /\ x % Ms \in 0..Ms - 1 /\ x \div Ms \in Int
  BY <1>1
<1>3. x \div Ms >= 0
  BY <1>1
<1> QED BY <1>1, <1>2, <1>3

(* A later time has no smaller millisecond.                                *)
LEMMA DivMonotone ==
  ASSUME NEW x \in Nat, NEW y \in Nat, x <= y
  PROVE  x \div Ms <= y \div Ms /\ (x \div Ms) * Ms <= (y \div Ms) * Ms
<1>1. Ms \in Nat /\ Ms > 0
  BY AggregatorAssumption
<1> DEFINE p == x \div Ms
           q == y \div Ms
<1>2. p \in Nat /\ q \in Nat /\ x - p * Ms \in 0..Ms - 1 /\ y - q * Ms \in 0..Ms - 1
  BY DivIs
<1> HIDE DEF p, q
<1>3. \A a, b \in Nat : a <= b => a * Ms <= b * Ms
  BY <1>1
<1>4. ASSUME q < p PROVE FALSE
  <2>1. q + 1 \in Nat /\ q + 1 <= p
    BY <1>2, <1>4
  <2>2. (q + 1) * Ms <= p * Ms
    BY <1>2, <1>3, <2>1
  <2>3. (q + 1) * Ms = q * Ms + Ms /\ q * Ms \in Nat /\ p * Ms \in Nat
    BY <1>1, <1>2
  <2> QED BY <1>1, <1>2, <2>2, <2>3
<1>5. p <= q
  BY <1>2, <1>4
<1> QED BY <1>2, <1>3, <1>5 DEF p, q

(* The offsets of the spans, and the length of the whole.                  *)
LEMMA OffsetsAre ==
  ASSUME NEW g, IsGroup(g)
  PROVE  /\ Len(Offsets(g)) = Len(Moments(g)) /\ DOMAIN Offsets(g) = 1..Len(Moments(g))
         /\ Offsets(g)[1] = 0
         /\ \A i \in DOMAIN Offsets(g) : Offsets(g)[i] \in Nat
         /\ \A i, j \in DOMAIN Offsets(g) : i < j =>
               Offsets(g)[i] <= Offsets(g)[j] /\ Offsets(g)[i] * Ms <= Offsets(g)[j] * Ms
         /\ SpanMs(g) = Offsets(g)[Len(Offsets(g))] /\ SpanMs(g) \in Nat
<1> DEFINE n == Len(Moments(g))
           s == Spans(g)
           o == Offsets(g)
           at(i) == s[i].abs - StartOf(g)
<1>1. n \in Nat \ {0} /\ DOMAIN Moments(g) = 1..n /\ DOMAIN s = 1..n
  BY SpansAre
<1>2. o = [i \in 1..n |-> at(i) \div Ms]
  BY <1>1 DEF Offsets
<1>3. \A i \in 1..n : at(i) \in Nat
  BY <1>1, SpansAre
<1>4. \A i, j \in 1..n : i < j => at(i) <= at(j)
  <2> SUFFICES ASSUME NEW i \in 1..n, NEW j \in 1..n, i < j PROVE at(i) <= at(j)
    OBVIOUS
  <2>1. s[i].abs \in Int /\ s[j].abs \in Int /\ StartOf(g) \in Int /\ s[i].abs <= s[j].abs
    BY <1>1, SpansAre
  <2>2. \A x, y, z \in Int : x <= y => x - z <= y - z
    OBVIOUS
  <2> QED BY <2>1, <2>2
<1>5. at(1) = 0 /\ 1 \in 1..n
  <2>1. 1 \in 1..n /\ s[1].abs \in Int /\ StartOf(g) = s[1].abs
    BY <1>1, SpansAre DEF StartOf
  <2>2. \A x \in Int : x - x = 0
    OBVIOUS
  <2> QED BY <2>1, <2>2
<1> HIDE DEF at, o, n
<1>6. \A i \in 1..n : o[i] \in Nat
  BY <1>2, <1>3, DivIs
<1>7. \A i, j \in 1..n : i < j => o[i] <= o[j] /\ o[i] * Ms <= o[j] * Ms
  BY <1>2, <1>3, <1>4, DivMonotone
<1>8. o[1] = 0
  <2>1. 0 \div Ms = 0
    <3>1. 0 - (0 \div Ms) * Ms \in 0..Ms - 1 /\ 0 \div Ms \in Nat /\ Ms \in Nat /\ Ms > 0
      BY DivIs, AggregatorAssumption
    <3> QED BY <3>1
  <2> QED BY <1>2, <1>5, <2>1
<1>9. Len(o) = n /\ DOMAIN o = 1..n
  BY <1>1, <1>2
<1>10. SpanMs(g) = o[n] /\ o[n] \in Nat
  <2> DEFINE S == {0} \cup ToSet(o)
  <2>1. ToSet(o) = {o[i] : i \in 1..n}
    BY <1>9 DEF ToSet
  <2>2. n \in 1..n /\ o[n] \in Nat /\ o[n] \in S
    BY <1>1, <1>6, <2>1
  <2>3. \A x \in S : x \in Nat /\ x <= o[n]
    <3> SUFFICES ASSUME NEW x \in S PROVE x \in Nat /\ x <= o[n]
      OBVIOUS
    <3>1. CASE x = 0
      BY <2>2, <3>1
    <3>2. CASE x \in ToSet(o)
      <4>1. PICK i \in 1..n : x = o[i]
        BY <2>1, <3>2
      <4>2. i = n \/ i < n
        BY <1>1
      <4> QED BY <1>6, <1>7, <2>2, <4>1, <4>2
    <3> QED BY <3>1, <3>2
  <2> HIDE DEF S
  <2>4. S \in SUBSET (0..o[n]) /\ S # {}
    BY <2>2, <2>3
  <2>5. Max(S) \in S /\ Max(S) >= o[n]
    BY <2>2, <2>4, GreatestNumber
  <2>6. Max(S) = o[n]
    BY <2>2, <2>3, <2>5
  <2> QED BY <2>2, <2>6 DEF SpanMs, S, o
<1> QED BY <1>6, <1>7, <1>8, <1>9, <1>10 DEF n, o

(* What TimelineMerged says of one distributed trace.                      *)
LEMMA TimelineIs ==
  ASSUME NEW g, IsGroup(g)
  PROVE  LET offs  == Offsets(g)
             times == ZipkinTimes(g)
         IN /\ offs[1] = 0 /\ SpanMs(g) = Last(offs)
            /\ \A i \in DOMAIN times :
                  /\ i > 1 => times[i - 1] <= times[i]
                  /\ Spans(g)[i].abs - times[i] \in 0..Ms - 1
<1> DEFINE o == Offsets(g)
           t == ZipkinTimes(g)
           n == Len(Moments(g))
           b == StartOf(g)
<1>1. /\ n \in Nat \ {0} /\ DOMAIN o = 1..n /\ o[1] = 0 /\ SpanMs(g) = o[Len(o)]
      /\ \A i \in 1..n : o[i] \in Nat
      /\ \A i, j \in 1..n : i < j => o[i] * Ms <= o[j] * Ms
  BY OffsetsAre, SpansAre
<1>2. /\ b \in Int /\ DOMAIN Spans(g) = 1..n /\ DOMAIN Moments(g) = 1..n
      /\ \A i \in 1..n : Spans(g)[i].abs \in Int /\ Spans(g)[i].abs - b \in Nat
  BY SpansAre
<1>3. \A i \in 1..n : o[i] = (Spans(g)[i].abs - b) \div Ms
  BY <1>2 DEF Offsets
<1>4. t = [i \in 1..n |-> b + o[i] * Ms]
  BY <1>1 DEF ZipkinTimes
<1> HIDE DEF o, t, n, b
<1>5. Ms \in Nat /\ \A i \in 1..n : o[i] * Ms \in Int
  <2>1. Ms \in Nat /\ \A x \in Nat : x * Ms \in Int
    BY AggregatorAssumption
  <2> QED BY <1>1, <2>1
<1>6. ASSUME NEW i \in 1..n, i > 1 PROVE t[i - 1] <= t[i]
  <2>1. i - 1 \in 1..n /\ i - 1 < i
    BY <1>1, <1>6
  <2>2. o[i - 1] * Ms <= o[i] * Ms /\ o[i - 1] * Ms \in Int /\ o[i] * Ms \in Int
    BY <1>1, <1>5, <2>1
  <2>3. \A x, y \in Int : x <= y => b + x <= b + y
    BY <1>2
  <2>4. b + o[i - 1] * Ms <= b + o[i] * Ms
    BY <2>2, <2>3
  <2> QED BY <1>4, <2>1, <2>4
<1>7. ASSUME NEW i \in 1..n PROVE Spans(g)[i].abs - t[i] \in 0..Ms - 1
  <2> DEFINE x == Spans(g)[i].abs
             y == x - b
  <2>1. x \in Int /\ y \in Nat /\ o[i] = y \div Ms
    BY <1>2, <1>3
  <2> HIDE DEF y
  <2>2. y - (y \div Ms) * Ms \in 0..Ms - 1
    BY <2>1, DivIs
  <2>3. y - o[i] * Ms \in 0..Ms - 1
    BY <2>1, <2>2
  <2> HIDE DEF x
  <2>4. \A z \in Int : (x - b) - z = x - (b + z)
    BY <1>2, <2>1
  <2>5. x - (b + o[i] * Ms) \in 0..Ms - 1
    BY <1>5, <2>3, <2>4 DEF y
  <2> QED BY <1>4, <2>5 DEF x
<1> QED BY <1>1, <1>4, <1>6, <1>7 DEF o, t, Last

-----------------------------------------------------------------------------
(* What build's second loop makes of sorted traces: from trace j on, the   *)
(* rest is one group, or a group up to a first trace that does not join    *)
(* and what is made from that one on.                                      *)
Others(s, j) == {i \in j + 1..Len(s) : ~Joins(s, j, i)}
From(s, f, j) ==
    IF Others(s, j) = {} THEN <<SubSeq(s, j, Len(s))>>
    ELSE <<SubSeq(s, j, Min(Others(s, j)) - 1)>> \o f[Min(Others(s, j))]

(* The first that does not join, and those before it, which do.            *)
LEMMA FirstOther ==
  ASSUME NEW s, Len(s) \in Nat, NEW j \in 1..Len(s), Others(s, j) # {}
  PROVE  /\ Min(Others(s, j)) \in j + 1..Len(s) /\ ~Joins(s, j, Min(Others(s, j)))
         /\ \A i \in j + 1..Min(Others(s, j)) - 1 : Joins(s, j, i)
<1> DEFINE O == Others(s, j)
           m == Min(O)
<1>1. O \in SUBSET Nat /\ \A i \in O : i \in j + 1..Len(s) /\ ~Joins(s, j, i)
  BY DEF Others
<1>2. \A i \in j + 1..Len(s) : i \notin O => Joins(s, j, i)
  BY DEF Others
<1> HIDE DEF O
<1>3. m \in O /\ \A i \in O : m <= i
  BY <1>1, SmallestNumber DEF O
<1>4. m \in j + 1..Len(s) /\ ~Joins(s, j, m)
  BY <1>1, <1>3
<1>5. ASSUME NEW i \in j + 1..m - 1 PROVE Joins(s, j, i)
  <2>1. i \in j + 1..Len(s) /\ ~(m <= i)
    BY <1>4
  <2> QED BY <1>2, <1>3, <2>1
<1> QED BY <1>4, <1>5 DEF O

(* The recursion of Groups has a solution, so there is one it uses.        *)
LEMMA GroupsFrom ==
  ASSUME NEW s, Len(s) \in Nat \ {0}, DOMAIN s = 1..Len(s), s # <<>>
  PROVE  \E f : /\ Groups(s) = f[1]
                /\ \A j \in 1..Len(s) : f[j] = From(s, f, j)
<1> DEFINE n == Len(s)
           Solves(f, d) == f = [j \in n - d + 1..n |-> From(s, f, j)]
           Bad == {d \in 0..n : ~ \E f : Solves(f, d)}
<1>1. Bad = {}
  <2> SUFFICES ASSUME Bad # {} PROVE FALSE
    OBVIOUS
  <2>1. PICK d \in Bad : \A e \in Bad : d <= e
    <3>1. Bad \in SUBSET Nat
      OBVIOUS
    <3> HIDE DEF Bad
    <3> QED BY <3>1, LeastNumber
  <2>2. n \in Nat /\ d \in 0..n
    OBVIOUS
  <2>3. CASE d = 0
    <3>1. Solves(<<>>, 0)
      <4>1. n - 0 + 1..n = {}
        BY <2>2
      <4> QED BY <4>1
    <3> QED BY <2>3, <3>1
  <2>4. CASE d # 0
    <3> DEFINE j0 == n - d + 1
    <3>1. d - 1 \in 0..n /\ ~(d <= d - 1) /\ n - (d - 1) + 1 = j0 + 1 /\ j0 \in 1..n
      BY <2>2, <2>4
    <3>2. PICK f : Solves(f, d - 1)
      BY <2>1, <3>1
    <3>3. f = [j \in j0 + 1..n |-> From(s, f, j)]
      BY <3>1, <3>2
    <3> DEFINE g == [j \in j0..n |-> IF j = j0 THEN From(s, f, j) ELSE f[j]]
    <3> HIDE DEF j0
    <3>4. \A j \in j0..n : g[j] = From(s, g, j)
      <4> SUFFICES ASSUME NEW j \in j0..n PROVE g[j] = From(s, g, j)
        OBVIOUS
      <4>1. g[j] = From(s, f, j)
        <5>1. CASE j = j0
          BY <5>1
        <5>2. CASE j # j0
          <6>1. j \in j0 + 1..n
            BY <3>1, <5>2
          <6>2. f[j] = From(s, f, j)
            BY <3>3, <6>1, Zenon
          <6> QED BY <5>2, <6>2
        <5> QED BY <5>1, <5>2
      <4>2. CASE Others(s, j) = {}
        BY <4>1, <4>2 DEF From
      <4>3. CASE Others(s, j) # {}
        <5>1. j \in 1..n
          BY <3>1
        <5>2. Min(Others(s, j)) \in j + 1..n
          BY <2>2, <4>3, <5>1, FirstOther
        <5>3. Min(Others(s, j)) \in j0..n /\ Min(Others(s, j)) # j0
          BY <3>1, <5>2
        <5>4. g[Min(Others(s, j))] = f[Min(Others(s, j))]
          BY <5>3
        <5> QED BY <4>1, <4>3, <5>4 DEF From
      <4> QED BY <4>2, <4>3
    <3>5. g = [j \in j0..n |-> From(s, g, j)]
      <4> HIDE DEF n
      <4> QED BY <3>4, Zenon
    <3>6. Solves(g, d)
      BY <3>5 DEF j0
    <3> HIDE DEF g, Solves
    <3> QED BY <3>6
  <2> QED BY <2>3, <2>4
<1>2. \E f : Solves(f, n)
  BY <1>1
<1>3. n - n + 1 = 1
  OBVIOUS
<1>4. Groups(s) = (CHOOSE f : f = [j \in DOMAIN s |-> From(s, f, j)])[1]
  BY DEF Groups, From, Others
<1>5. \E f : f = [j \in 1..n |-> From(s, f, j)]
  BY <1>2, <1>3
<1>6. PICK f : f = [j \in 1..n |-> From(s, f, j)] /\ Groups(s) = f[1]
  BY <1>4, <1>5
<1> QED BY <1>6, Zenon

(* A stretch of sorted traces that is a group: all join the trace that     *)
(* opened it, and the one after them does not.                             *)
Sorted(s) == s \in Seq(AllTraces) /\ \A i, j \in DOMAIN s : i < j => s[i].start <= s[j].start
Stretch(s, a, b) ==
    /\ a \in 1..Len(s) /\ b \in a..Len(s) /\ \A i \in a..b : Joins(s, a, i)
    /\ b < Len(s) => ~Joins(s, a, b + 1)
Grouping(gs, s, j) ==
    /\ gs \in Seq(Seq(AllTraces))
    /\ \A x \in 1..Len(gs) : \E a, b : Stretch(s, a, b) /\ gs[x] = SubSeq(s, a, b)
    /\ \A i \in j..Len(s) : \E x \in 1..Len(gs) : \E a, b :
          Stretch(s, a, b) /\ i \in a..b /\ gs[x] = SubSeq(s, a, b)

(* A trace joins itself: the window is not negative.                       *)
LEMMA JoinsItself == ASSUME NEW s, Sorted(s), NEW i \in 1..Len(s) PROVE Joins(s, i, i)
<1>1. s[i].start \in Int
  BY TraceIs, ElementOfSeq DEF Sorted, IsTrace
<1>2. Window \in Nat /\ \A x \in Int : x - x = 0
  BY AggregatorAssumption
<1> QED BY <1>1, <1>2 DEF Joins

(* A group is a sequence of published traces, at least one: those of the   *)
(* stretch in their order.                                                 *)
LEMMA StretchType ==
  ASSUME NEW s, Sorted(s), NEW a, NEW b, Stretch(s, a, b)
  PROVE  /\ SubSeq(s, a, b) \in Seq(AllTraces) \ {<<>>}
         /\ DOMAIN SubSeq(s, a, b) = 1..b - a + 1
         /\ \A i \in 1..b - a + 1 : SubSeq(s, a, b)[i] = s[a + i - 1]
<1>1. Len(s) \in Nat /\ a \in Int /\ b \in Int /\ a <= b /\ a \in 1..Len(s) /\ b \in 1..Len(s)
  BY LenProperties DEF Stretch, Sorted
<1>2. \A i \in a..b : s[i] \in AllTraces
  BY <1>1, ElementOfSeq DEF Sorted
<1>3. /\ SubSeq(s, a, b) \in Seq(AllTraces) /\ Len(SubSeq(s, a, b)) = b - a + 1
      /\ \A i \in 1..b - a + 1 : SubSeq(s, a, b)[i] = s[a + i - 1]
  BY <1>1, <1>2, SubSeqProperties
<1>4. DOMAIN SubSeq(s, a, b) = 1..b - a + 1
  BY <1>3, LenProperties
<1>5. SubSeq(s, a, b) # <<>>
  BY <1>1, <1>3, EmptySeq
<1> QED BY <1>3, <1>4, <1>5

(* Every trace is in a group, and every group is such a stretch.           *)
LEMMA GroupingIs ==
  ASSUME NEW s, Sorted(s), s # <<>> PROVE Grouping(Groups(s), s, 1)
<1> DEFINE n == Len(s)
<1>0. n \in Nat \ {0} /\ DOMAIN s = 1..n
  BY EmptySeq, LenProperties DEF Sorted
<1>1. PICK f : Groups(s) = f[1] /\ \A j \in 1..n : f[j] = From(s, f, j)
  BY <1>0, GroupsFrom
<1> DEFINE Bad == {d \in 0..n - 1 : ~Grouping(f[n - d], s, n - d)}
<1>2. Bad = {}
  <2> SUFFICES ASSUME Bad # {} PROVE FALSE
    OBVIOUS
  <2>1. PICK d \in Bad : \A e \in Bad : d <= e
    <3>1. Bad \in SUBSET Nat
      BY <1>0
    <3> HIDE DEF Bad
    <3> QED BY <3>1, LeastNumber
  <2> DEFINE j == n - d
  <2>2. d \in 0..n - 1 /\ j \in 1..n /\ f[j] = From(s, f, j) /\ ~Grouping(f[j], s, j)
    BY <1>0, <1>1
  <2> HIDE DEF j
  <2>3. Joins(s, j, j)
    BY <2>2, JoinsItself
  <2>4. CASE Others(s, j) = {}
    <3>1. f[j] = <<SubSeq(s, j, n)>>
      BY <2>2, <2>4 DEF From
    <3>2. \A i \in j..n : Joins(s, j, i)
      <4>1. \A i \in j..n : i = j \/ i \in j + 1..n
        BY <2>2
      <4> QED BY <2>3, <2>4, <4>1 DEF Others
    <3>3. Stretch(s, j, n)
      BY <1>0, <2>2, <3>2 DEF Stretch
    <3>4. SubSeq(s, j, n) \in Seq(AllTraces)
      BY <3>3, StretchType
    <3>5. /\ f[j] \in Seq(Seq(AllTraces)) /\ Len(f[j]) = 1 /\ f[j][1] = SubSeq(s, j, n)
      <4>1. \A X, x : x \in X => <<x>> \in Seq(X) /\ Len(<<x>>) = 1 /\ <<x>>[1] = x
        OBVIOUS
      <4> QED BY <3>1, <3>4, <4>1, Zenon
    <3>6. \A x \in 1..Len(f[j]) : f[j][x] = SubSeq(s, j, n)
      BY <3>5
    <3>7. \A i \in j..n : 1 \in 1..Len(f[j]) /\ i \in j..n
      BY <3>5
    <3> HIDE DEF n
    <3>8. \A x \in 1..Len(f[j]) : \E a, b : Stretch(s, a, b) /\ f[j][x] = SubSeq(s, a, b)
      BY <3>3, <3>6, Zenon
    <3>9. \A i \in j..n : \E x \in 1..Len(f[j]) : \E a, b :
             Stretch(s, a, b) /\ i \in a..b /\ f[j][x] = SubSeq(s, a, b)
      BY <3>3, <3>6, <3>7, Zenon
    <3>10. Grouping(f[j], s, j)
      BY <3>5, <3>8, <3>9 DEF Grouping, n
    <3> QED BY <2>2, <3>10
  <2>5. CASE Others(s, j) # {}
    <3> DEFINE m == Min(Others(s, j))
               h == SubSeq(s, j, m - 1)
    <3>1. m \in j + 1..n /\ ~Joins(s, j, m) /\ \A i \in j + 1..m - 1 : Joins(s, j, i)
      BY <1>0, <2>2, <2>5, FirstOther
    <3>2. f[j] = <<h>> \o f[m]
      BY <2>2, <2>5 DEF From
    <3> HIDE DEF m
    <3>3. n - m \in 0..n - 1 /\ ~(d <= n - m) /\ n - (n - m) = m
      BY <1>0, <2>2, <3>1 DEF j
    <3>4. Grouping(f[m], s, m)
      BY <2>1, <3>3
    <3>5. Stretch(s, j, m - 1)
      <4>1. j \in 1..n /\ m - 1 \in j..n /\ (m - 1) + 1 = m
        BY <1>0, <2>2, <3>1
      <4>2. \A i \in j..m - 1 : i = j \/ i \in j + 1..m - 1
        BY <2>2, <4>1
      <4> QED BY <2>3, <3>1, <4>1, <4>2 DEF Stretch
    <3>6. h \in Seq(AllTraces) /\ f[m] \in Seq(Seq(AllTraces)) /\ Len(f[m]) \in Nat
      <4>1. h \in Seq(AllTraces)
        BY <3>5, StretchType
      <4>2. f[m] \in Seq(Seq(AllTraces))
        BY <3>4 DEF Grouping
      <4> QED BY <4>1, <4>2, LenProperties
    <3> HIDE DEF h
    <3>7. /\ f[j] \in Seq(Seq(AllTraces)) /\ Len(f[j]) = Len(f[m]) + 1 /\ f[j][1] = h
          /\ \A x \in 1..Len(f[m]) : x + 1 \in 1..Len(f[j]) /\ f[j][x + 1] = f[m][x]
      BY <3>2, <3>6
    <3>8. \A x \in 1..Len(f[j]) : x = 1 \/ (x - 1 \in 1..Len(f[m]) /\ f[j][x] = f[m][x - 1])
      BY <3>2, <3>6
    <3>9. ASSUME NEW x \in 1..Len(f[j])
          PROVE  \E a, b : Stretch(s, a, b) /\ f[j][x] = SubSeq(s, a, b)
      <4>1. CASE x = 1
        BY <3>5, <3>7, <4>1 DEF h
      <4>2. CASE x - 1 \in 1..Len(f[m]) /\ f[j][x] = f[m][x - 1]
        <5>1. \A y \in 1..Len(f[m]) : \E a, b : Stretch(s, a, b) /\ f[m][y] = SubSeq(s, a, b)
          BY <3>4, Zenon DEF Grouping
        <5>2. \E a, b : Stretch(s, a, b) /\ f[m][x - 1] = SubSeq(s, a, b)
          BY <4>2, <5>1, Zenon
        <5> QED BY <4>2, <5>2, Zenon
      <4> QED BY <3>8, <4>1, <4>2
    <3>10. ASSUME NEW i \in j..Len(s)
           PROVE  \E x \in 1..Len(f[j]) : \E a, b :
                     Stretch(s, a, b) /\ i \in a..b /\ f[j][x] = SubSeq(s, a, b)
      <4>1. i \in j..m - 1 \/ i \in m..Len(s)
        BY <1>0, <2>2, <3>1
      <4>2. CASE i \in j..m - 1
        <5>1. 1 \in 1..Len(f[j])
          BY <3>6, <3>7
        <5> QED BY <3>5, <3>7, <4>2, <5>1 DEF h
      <4>3. CASE i \in m..Len(s)
        <5>1. PICK x \in 1..Len(f[m]) : \E a, b :
                 Stretch(s, a, b) /\ i \in a..b /\ f[m][x] = SubSeq(s, a, b)
          BY <3>4, <4>3 DEF Grouping
        <5>2. x + 1 \in 1..Len(f[j]) /\ f[j][x + 1] = f[m][x]
          BY <3>7
        <5> QED BY <5>1, <5>2
      <4> QED BY <4>1, <4>2, <4>3
    <3>11. Grouping(f[j], s, j)
      BY <3>7, <3>9, <3>10 DEF Grouping
    <3> QED BY <2>2, <3>11
  <2> QED BY <2>4, <2>5
<1>3. n - 1 \in 0..n - 1 /\ n - (n - 1) = 1
  BY <1>0
<1>4. Grouping(f[1], s, 1)
  BY <1>2, <1>3
<1> QED BY <1>1, <1>4


-----------------------------------------------------------------------------
(* What build leaves in dt: the stretches that are groups, all of them, of *)
(* traces sorted by their start.                                           *)
Clusters(ds, s) ==
    /\ Len(ds) \in Nat /\ DOMAIN ds = 1..Len(ds)
    /\ \A x \in 1..Len(ds) : \E a, b : Stretch(s, a, b) /\ ds[x].group = SubSeq(s, a, b)
    /\ \A i \in 1..Len(s) : \E x \in 1..Len(ds) : \E a, b :
          Stretch(s, a, b) /\ i \in a..b /\ ds[x].group = SubSeq(s, a, b)

(* The traces of a group are those of its stretch.                         *)
LEMMA StretchHas ==
  ASSUME NEW s, Sorted(s), NEW a, NEW b, Stretch(s, a, b)
  PROVE  /\ \A i \in a..b : s[i] \in ToSet(SubSeq(s, a, b)) /\ i \in 1..Len(s)
         /\ \A t \in ToSet(SubSeq(s, a, b)) : \E i \in a..b : t = s[i]
<1> DEFINE g == SubSeq(s, a, b)
<1>1. Len(s) \in Nat /\ a \in 1..Len(s) /\ b \in a..Len(s)
  BY LenProperties DEF Stretch, Sorted
<1>2. DOMAIN g = 1..b - a + 1 /\ \A i \in 1..b - a + 1 : g[i] = s[a + i - 1]
  BY StretchType
<1> HIDE DEF g
<1>3. ASSUME NEW i \in a..b PROVE s[i] \in ToSet(g) /\ i \in 1..Len(s)
  <2>1. i - a + 1 \in 1..b - a + 1 /\ a + (i - a + 1) - 1 = i
    BY <1>1
  <2>2. g[i - a + 1] = s[i] /\ i - a + 1 \in DOMAIN g
    BY <1>2, <2>1
  <2> QED BY <1>1, <2>2 DEF ToSet
<1>4. ASSUME NEW t \in ToSet(g) PROVE \E i \in a..b : t = s[i]
  <2>1. PICK k \in 1..b - a + 1 : t = g[k]
    BY <1>2 DEF ToSet
  <2>2. a + k - 1 \in a..b
    BY <1>1
  <2> QED BY <1>2, <2>1, <2>2
<1> QED BY <1>3, <1>4 DEF g

(* Sorted traces are numbers in order.                                     *)
LEMMA StartsAre ==
  ASSUME NEW s, Sorted(s)
  PROVE  /\ Len(s) \in Nat /\ Window \in Nat
         /\ \A i \in 1..Len(s) : s[i].start \in Int
         /\ \A i, j \in 1..Len(s) : i <= j => s[i].start <= s[j].start
<1>1. Len(s) \in Nat /\ DOMAIN s = 1..Len(s)
  BY LenProperties DEF Sorted
<1>2. \A i \in 1..Len(s) : s[i].start \in Int
  BY TraceIs, ElementOfSeq DEF Sorted, IsTrace
<1>3. ASSUME NEW i \in 1..Len(s), NEW j \in 1..Len(s), i <= j PROVE s[i].start <= s[j].start
  <2>1. i = j \/ i < j
    BY <1>1, <1>3
  <2> QED BY <1>1, <1>2, <2>1 DEF Sorted
<1> QED BY <1>1, <1>2, <1>3, AggregatorAssumption

(* What is together is near: the starts of a group differ by the window at *)
(* most.                                                                   *)
LEMMA StretchIsNear ==
  ASSUME NEW s, Sorted(s), NEW a, NEW b, Stretch(s, a, b), NEW i \in a..b, NEW k \in a..b
  PROVE  s[k].start - s[i].start <= Window
<1>1. /\ a \in 1..Len(s) /\ i \in 1..Len(s) /\ k \in 1..Len(s) /\ a <= i
      /\ Joins(s, a, k)
  BY StartsAre DEF Stretch
<1>2. /\ s[a].start \in Int /\ s[i].start \in Int /\ s[k].start \in Int /\ Window \in Int
      /\ s[a].start <= s[i].start
  BY <1>1, StartsAre
<1> QED BY <1>1, <1>2 DEF Joins

(* Two traces of clusters, each in a stretch: BurstsTogether says no more. *)
LEMMA BurstsAre ==
  ASSUME NEW s, Sorted(s), Clusters(dt, s)
  PROVE  BurstsTogether
<1>1. \A d \in ToSet(dt) : \E a, b : Stretch(s, a, b) /\ d.group = SubSeq(s, a, b)
  <2>1. ASSUME NEW d \in ToSet(dt)
        PROVE  \E a, b : Stretch(s, a, b) /\ d.group = SubSeq(s, a, b)
    <3>1. PICK x \in 1..Len(dt) : d = dt[x]
      BY DEF ToSet, Clusters
    <3>2. \E a, b : Stretch(s, a, b) /\ dt[x].group = SubSeq(s, a, b)
      BY DEF Clusters
    <3> QED BY <3>1, <3>2
  <2> QED BY <2>1, Zenon
<1>2. ASSUME NEW i \in 1..Len(s)
      PROVE  \E d \in ToSet(dt) : \E a, b :
                Stretch(s, a, b) /\ i \in a..b /\ d.group = SubSeq(s, a, b)
  <2>1. PICK x \in 1..Len(dt) : \E a, b :
           Stretch(s, a, b) /\ i \in a..b /\ dt[x].group = SubSeq(s, a, b)
    BY DEF Clusters
  <2>2. dt[x] \in ToSet(dt)
    BY DEF ToSet, Clusters
  <2> QED BY <2>1, <2>2, Zenon
<1>3. ASSUME NEW t \in Clustered PROVE \E i \in 1..Len(s) : t = s[i]
  <2>1. PICK d \in ToSet(dt) : t \in ToSet(d.group)
    BY DEF Clustered
  <2>2. PICK a, b : Stretch(s, a, b) /\ d.group = SubSeq(s, a, b)
    BY <1>1
  <2>3. PICK i \in a..b : t = s[i]
    BY <2>1, <2>2, StretchHas
  <2> QED BY <2>2, <2>3, StretchHas
<1> SUFFICES ASSUME NEW t \in Clustered, NEW u \in Clustered, t.start <= u.start
             PROVE  IF u.start - t.start > Window THEN ~Together(t, u)
                    ELSE Together(t, u) \/ TakenBefore(t, u)
  BY DEF BurstsTogether
<1>4. CASE u.start - t.start > Window
  <2> SUFFICES ASSUME Together(t, u) PROVE FALSE
    BY <1>4
  <2>1. PICK d \in ToSet(dt) : t \in ToSet(d.group) /\ u \in ToSet(d.group)
    BY DEF Together
  <2>2. PICK a, b : Stretch(s, a, b) /\ d.group = SubSeq(s, a, b)
    BY <1>1
  <2>3. PICK i \in a..b : t = s[i]
    BY <2>1, <2>2, StretchHas
  <2>4. PICK k \in a..b : u = s[k]
    BY <2>1, <2>2, StretchHas
  <2>5. i \in 1..Len(s) /\ k \in 1..Len(s)
    BY <2>2, StretchHas
  <2>6. t.start \in Int /\ u.start \in Int /\ Window \in Int
    BY <2>3, <2>4, <2>5, StartsAre
  <2>7. u.start - t.start <= Window
    BY <2>2, <2>3, <2>4, StretchIsNear
  <2> QED BY <1>4, <2>6, <2>7
<1>5. CASE ~(u.start - t.start > Window)
  <2>1. PICK i \in 1..Len(s) : t = s[i]
    BY <1>3
  <2>2. PICK k \in 1..Len(s) : u = s[k]
    BY <1>3
  <2>3. PICK d \in ToSet(dt) : \E a, b :
           Stretch(s, a, b) /\ i \in a..b /\ d.group = SubSeq(s, a, b)
    BY <1>2
  <2>4. PICK a, b : Stretch(s, a, b) /\ i \in a..b /\ d.group = SubSeq(s, a, b)
    BY <2>3
  <2>5. /\ Len(s) \in Nat /\ Window \in Nat /\ t.start \in Int /\ u.start \in Int
        /\ a \in 1..Len(s) /\ b \in a..Len(s) /\ s[a].start \in Int
    BY <2>1, <2>2, <2>4, StartsAre DEF Stretch
  <2>6. CASE k \in a..b
    <3>1. s[i] \in ToSet(d.group) /\ s[k] \in ToSet(d.group)
      BY <2>4, <2>6, StretchHas
    <3> QED BY <1>5, <2>1, <2>2, <3>1 DEF Together
  <2>7. CASE k > b
    <3>1. b + 1 \in 1..Len(s) /\ b + 1 <= k /\ ~Joins(s, a, b + 1)
      BY <2>4, <2>5, <2>7 DEF Stretch
    <3>2. s[b + 1].start \in Int /\ s[b + 1].start <= u.start
      BY <2>2, <3>1, StartsAre
    <3>3. u.start - s[a].start > Window /\ s[a].start < t.start
      <4>1. ~(s[b + 1].start - s[a].start <= Window)
        BY <3>1, Zenon DEF Joins
      <4>2. \A x, y, z, v \in Int, w \in Nat :
               ~(y - x <= w) /\ y <= z /\ ~(z - v > w) => z - x > w /\ x < v
        OBVIOUS
      <4> QED BY <1>5, <2>5, <3>2, <4>1, <4>2, Zenon
    <3>4. a \in a..b
      BY <2>5
    <3>5. s[a] \in ToSet(d.group) /\ t \in ToSet(d.group)
      BY <2>1, <2>4, <3>4, StretchHas
    <3>6. s[a] \in Clustered /\ Together(s[a], t)
      BY <3>5 DEF Clustered, Together
    <3> QED BY <1>5, <3>3, <3>6 DEF TakenBefore
  <2>8. CASE k < a
    <3>1. PICK e \in ToSet(dt) : \E x, y :
             Stretch(s, x, y) /\ k \in x..y /\ e.group = SubSeq(s, x, y)
      BY <1>2
    <3>2. PICK x, y : Stretch(s, x, y) /\ k \in x..y /\ e.group = SubSeq(s, x, y)
      BY <3>1
    <3>3. x \in 1..Len(s) /\ y \in x..Len(s) /\ x <= k /\ k <= y /\ k < i
      BY <2>4, <2>5, <2>8, <3>2 DEF Stretch
    <3>4. CASE i <= y
      <4>1. i \in x..y
        BY <3>3, <3>4
      <4>2. s[i] \in ToSet(e.group) /\ s[k] \in ToSet(e.group)
        BY <3>2, <4>1, StretchHas
      <4> QED BY <1>5, <2>1, <2>2, <4>2 DEF Together
    <3>5. CASE i > y
      <4>1. y + 1 \in 1..Len(s) /\ y + 1 <= i /\ k <= y + 1 /\ ~Joins(s, x, y + 1) /\ Joins(s, x, k)
        BY <2>5, <3>2, <3>3, <3>5 DEF Stretch
      <4>2. /\ s[y + 1].start \in Int /\ s[k].start \in Int /\ s[x].start \in Int
            /\ s[y + 1].start <= t.start
        BY <2>1, <3>3, <4>1, StartsAre
      <4>3. s[y + 1].start <= s[k].start
        BY <2>2, <2>5, <4>2
      <4>4. ~(s[y + 1].start - s[x].start <= Window) /\ s[k].start - s[x].start <= Window
        BY <4>1, Zenon DEF Joins
      <4>5. \A p, q, r \in Int, w \in Nat : ~(p - r <= w) /\ q - r <= w => ~(p <= q)
        OBVIOUS
      <4> QED BY <2>5, <4>2, <4>3, <4>4, <4>5, Zenon
    <3> QED BY <2>5, <3>3, <3>4, <3>5
  <2> QED BY <2>2, <2>5, <2>6, <2>7, <2>8
<1> QED BY <1>4, <1>5

-----------------------------------------------------------------------------
(* However sort.Slice orders the traces of one start, the result is sorted.*)
LEMMA SortingsAre ==
  ASSUME NEW S, IsFiniteSet(S), S \subseteq AllTraces, NEW s \in Sortings(S)
  PROVE  Sorted(s)
<1>1. Cardinality(S) \in Nat
  BY FS_CardinalityType
<1>2. s \in [1..Cardinality(S) -> S]
  BY DEF Sortings, SetToSeqs
<1>3. s \in [1..Cardinality(S) -> AllTraces]
  BY <1>2
<1>4. s \in Seq(AllTraces)
  <2> HIDE DEF AllTraces
  <2> QED BY <1>1, <1>3
<1> QED BY <1>4 DEF Sorted, Sortings

(* A ring is finite, so what build collects from the rings is.             *)
LEMMA RingIsFinite ==
  ASSUME NEW T, NEW r \in Seq(T)
  PROVE  IsFiniteSet(ToSet(r)) /\ ToSet(r) \subseteq T
<1>1. Len(r) \in Nat /\ DOMAIN r = 1..Len(r) /\ \A i \in 1..Len(r) : r[i] \in T
  BY LenProperties, ElementOfSeq
<1>2. r \in Surjection(1..Len(r), ToSet(r))
  <2>1. r \in [1..Len(r) -> ToSet(r)]
    BY <1>1 DEF ToSet
  <2>2. \A t \in ToSet(r) : \E i \in 1..Len(r) : r[i] = t
    BY <1>1 DEF ToSet
  <2> QED BY <2>1, <2>2 DEF Surjection
<1>3. IsFiniteSet(1..Len(r))
  BY <1>1, FS_Interval
<1>4. IsFiniteSet(ToSet(r))
  BY <1>2, <1>3, FS_Surjection
<1> QED BY <1>1, <1>4 DEF ToSet

(* The cut leaves at most RingMax of the traces of a ring.                 *)
LEMMA KeepIs ==
  ASSUME NEW T, NEW r \in Seq(T)
  PROVE  Keep(r) \in Seq(T) /\ Len(Keep(r)) <= RingMax
<1>1. Len(r) \in Nat /\ \A i \in 1..Len(r) : r[i] \in T
  BY LenProperties, ElementOfSeq
<1>2. RingMax \in Nat \ {0}
  BY AggregatorAssumption
<1>3. CASE Len(r) > RingMax
  <2>1. /\ Len(r) - RingMax + 1 \in 1..Len(r) /\ Len(r) - (Len(r) - RingMax + 1) + 1 = RingMax
        /\ Len(r) - RingMax + 1 <= Len(r)
    BY <1>1, <1>2, <1>3
  <2>2. \A i \in Len(r) - RingMax + 1..Len(r) : r[i] \in T
    BY <1>1, <2>1
  <2>3. /\ SubSeq(r, Len(r) - RingMax + 1, Len(r)) \in Seq(T)
        /\ Len(SubSeq(r, Len(r) - RingMax + 1, Len(r))) = RingMax
    BY <1>1, <2>1, <2>2, SubSeqProperties
  <2> QED BY <1>2, <1>3, <2>3 DEF Keep
<1>4. CASE ~(Len(r) > RingMax)
  <2>1. /\ SubSeq(r, 1, Len(r)) \in Seq(T)
        /\ Len(SubSeq(r, 1, Len(r))) = IF 1 <= Len(r) THEN Len(r) - 1 + 1 ELSE 0
    BY <1>1, SubSeqProperties
  <2> QED BY <1>1, <1>2, <1>4, <2>1 DEF Keep
<1> QED BY <1>3, <1>4

-----------------------------------------------------------------------------
(* The inductive invariant.  What is still to be published and what is     *)
(* collected are traces of the correlators; dt holds the clusters of some  *)
(* sorted traces, which is why every group is one of published traces.     *)
RingsKept ==
    /\ DOMAIN todo = Nodes /\ DOMAIN rings = Nodes
    /\ \A n \in Nodes : todo[n] \in Seq(Traces(n))
    /\ \A n \in Nodes : rings[n] \in Seq(Traces(n)) /\ Len(rings[n]) <= RingMax
Fetched == IsFiniteSet(all) /\ all \subseteq AllTraces
Built == \E s : Sorted(s) /\ Clusters(dt, s)
RoundKept ==
    /\ left \subseteq Nodes /\ next \in 0..Len(dt) + 1
    /\ next > 0 => left = {}
    /\ faults \in 0..MaxFaults
    /\ \A id \in pushed : DOMAIN id = {"start", "link", "roots"}
IInv == RingsKept /\ Fetched /\ Built /\ RoundKept

(* No traces, no clusters: dt before the first round and between rounds.   *)
LEMMA NothingIsBuilt == Sorted(<<>>) /\ Clusters(<<>>, <<>>)
<1>1. <<>> \in Seq(AllTraces) /\ Len(<<>>) = 0 /\ DOMAIN <<>> = 1..0
  OBVIOUS
<1>2. \A i \in 1..0 : FALSE
  OBVIOUS
<1>3. Sorted(<<>>)
  BY <1>1, <1>2 DEF Sorted
<1>4. Clusters(<<>>, <<>>)
  BY <1>1, <1>2 DEF Clusters
<1> QED BY <1>3, <1>4

(* Nothing is published, fetched or built yet.                             *)
LEMMA InitIs == Init => IInv
<1> SUFFICES ASSUME Init PROVE IInv
  OBVIOUS
<1>1. RingsKept
  <2>1. DOMAIN todo = Nodes /\ \A n \in Nodes : todo[n] \in Seq(Traces(n))
    BY AggregatorAssumption DEF Init
  <2>2. RingMax \in Nat /\ \A T : <<>> \in Seq(T) /\ Len(<<>>) = 0
    BY AggregatorAssumption
  <2> QED BY <2>1, <2>2 DEF Init, RingsKept
<1>2. Fetched
  BY FS_EmptySet DEF Init, Fetched
<1>3. Built
  BY NothingIsBuilt DEF Init, Built
<1>4. RoundKept
  BY AggregatorAssumption DEF Init, RoundKept
<1> QED BY <1>1, <1>2, <1>3, <1>4 DEF IInv

(* Every group of dt is one the lemmas on groups are about.                *)
LEMMA GroupsAre == ASSUME Built PROVE \A x \in DOMAIN dt : IsGroup(dt[x].group)
<1>1. PICK s : Sorted(s) /\ Clusters(dt, s)
  BY DEF Built
<1>2. ASSUME NEW x \in DOMAIN dt PROVE IsGroup(dt[x].group)
  <2>1. PICK a, b : Stretch(s, a, b) /\ dt[x].group = SubSeq(s, a, b)
    BY <1>1 DEF Clusters
  <2> QED BY <1>1, <2>1, StretchType DEF IsGroup
<1> QED BY <1>2

(* A correlator's step.                                                    *)
LEMMA PublishIs == ASSUME IInv, NEW n \in Nodes, Publish(n) PROVE IInv'
<1>1. /\ todo[n] \in Seq(Traces(n)) /\ todo[n] # <<>> /\ rings[n] \in Seq(Traces(n))
      /\ DOMAIN todo = Nodes /\ DOMAIN rings = Nodes
  BY DEF IInv, RingsKept, Publish
<1>2. Head(todo[n]) \in Traces(n) /\ Tail(todo[n]) \in Seq(Traces(n))
  BY <1>1, HeadTailProperties
<1>3. Append(rings[n], Head(todo[n])) \in Seq(Traces(n))
  BY <1>1, <1>2, AppendProperties
<1>4. /\ Keep(Append(rings[n], Head(todo[n]))) \in Seq(Traces(n))
      /\ Len(Keep(Append(rings[n], Head(todo[n])))) <= RingMax
  BY <1>3, KeepIs
<1>5. /\ rings' = [rings EXCEPT ![n] = Keep(Append(rings[n], Head(todo[n])))]
      /\ todo' = [todo EXCEPT ![n] = Tail(todo[n])]
  BY DEF Publish
<1>6. /\ DOMAIN todo' = Nodes /\ DOMAIN rings' = Nodes
      /\ \A m \in Nodes : todo'[m] = IF m = n THEN Tail(todo[n]) ELSE todo[m]
      /\ \A m \in Nodes :
            rings'[m] = IF m = n THEN Keep(Append(rings[n], Head(todo[n]))) ELSE rings[m]
  BY <1>1, <1>5
<1>7. RingsKept'
  BY <1>2, <1>4, <1>6 DEF IInv, RingsKept, Traces
<1>8. UNCHANGED <<left, all, dt, next, pushed, faults>>
  BY DEF Publish
<1>9. Fetched' /\ Built' /\ RoundKept'
  BY <1>8 DEF IInv, Fetched, Built, RoundKept, Clusters
<1> QED BY <1>7, <1>9 DEF IInv

(* One answer, or none, of a node.                                         *)
LEMMA FetchIs == ASSUME IInv, NEW n \in Nodes, Fetch(n) \/ FetchFails(n) PROVE IInv'
<1>1. UNCHANGED <<todo, rings, dt, next, pushed>>
  BY DEF Fetch, FetchFails
<1>2. RingsKept'
  BY <1>1 DEF IInv, RingsKept
<1>3. Built'
  BY <1>1 DEF IInv, Built, Clusters
<1>4. Fetched'
  <2>1. CASE Fetch(n)
    <3>1. IsFiniteSet(ToSet(rings[n])) /\ ToSet(rings[n]) \subseteq Traces(n)
      BY RingIsFinite DEF IInv, RingsKept
    <3>2. IsFiniteSet(all \cup ToSet(rings[n]))
      BY <3>1, FS_Union DEF IInv, Fetched
    <3>3. all' = all \cup ToSet(rings[n])
      BY <2>1 DEF Fetch
    <3> QED BY <3>1, <3>2, <3>3 DEF IInv, Fetched, AllTraces
  <2>2. CASE FetchFails(n)
    BY <2>2 DEF IInv, Fetched, FetchFails
  <2> QED BY <2>1, <2>2
<1>5. RoundKept'
  <2>1. left' = left \ {n} /\ next = 0
    BY DEF Fetch, FetchFails
  <2>2. faults' \in 0..MaxFaults
    BY AggregatorAssumption DEF Fetch, FetchFails, IInv, RoundKept
  <2> QED BY <1>1, <2>1, <2>2 DEF IInv, RoundKept
<1> QED BY <1>2, <1>3, <1>4, <1>5 DEF IInv

(* build's second loop, whatever order the sort leaves.                    *)
LEMMA BuildIs == ASSUME IInv, Build PROVE IInv'
<1>1. PICK s \in Sortings(all) : \E link :
         dt' = [i \in DOMAIN Groups(s) |-> [group |-> Groups(s)[i], link |-> link[i]]]
  BY DEF Build
<1>2. PICK link : dt' = [i \in DOMAIN Groups(s) |-> [group |-> Groups(s)[i], link |-> link[i]]]
  BY <1>1
<1>3. Sorted(s)
  BY SortingsAre DEF IInv, Fetched
<1> DEFINE gs == Groups(s)
<1>4. Grouping(gs, s, 1)
  <2>1. CASE s = <<>>
    <3>1. gs = <<>> /\ Len(s) = 0
      BY <2>1 DEF Groups
    <3>2. gs \in Seq(Seq(AllTraces)) /\ Len(gs) = 0
      BY <3>1
    <3>3. \A i \in 1..0 : FALSE
      OBVIOUS
    <3> QED BY <3>1, <3>2, <3>3 DEF Grouping
  <2>2. CASE s # <<>>
    BY <1>3, <2>2, GroupingIs
  <2> QED BY <2>1, <2>2
<1> HIDE DEF gs
<1>5. gs \in Seq(Seq(AllTraces)) /\ Len(gs) \in Nat /\ DOMAIN gs = 1..Len(gs)
  BY <1>4, LenProperties DEF Grouping
<1>6. dt' = [i \in 1..Len(gs) |-> [group |-> gs[i], link |-> link[i]]]
  BY <1>2, <1>5 DEF gs
<1>7. Len(dt') = Len(gs) /\ DOMAIN dt' = 1..Len(gs) /\ \A i \in 1..Len(gs) : dt'[i].group = gs[i]
  BY <1>5, <1>6
<1>8. Clusters(dt', s)
  <2>1. ASSUME NEW x \in 1..Len(dt')
        PROVE  \E a, b : Stretch(s, a, b) /\ dt'[x].group = SubSeq(s, a, b)
    <3>1. PICK a, b : Stretch(s, a, b) /\ gs[x] = SubSeq(s, a, b)
      BY <1>4, <1>7 DEF Grouping
    <3> QED BY <1>7, <3>1
  <2>2. ASSUME NEW i \in 1..Len(s)
        PROVE  \E x \in 1..Len(dt') : \E a, b :
                  Stretch(s, a, b) /\ i \in a..b /\ dt'[x].group = SubSeq(s, a, b)
    <3>1. PICK x \in 1..Len(gs) : \E a, b :
             Stretch(s, a, b) /\ i \in a..b /\ gs[x] = SubSeq(s, a, b)
      BY <1>4 DEF Grouping
    <3>2. PICK a, b : Stretch(s, a, b) /\ i \in a..b /\ gs[x] = SubSeq(s, a, b)
      BY <3>1
    <3> QED BY <1>7, <3>2
  <2>3. Len(dt') \in Nat /\ DOMAIN dt' = 1..Len(dt')
    BY <1>5, <1>7
  <2> QED BY <2>1, <2>2, <2>3 DEF Clusters
<1>9. Built'
  BY <1>3, <1>8 DEF Built, Sorted, Stretch, Joins, Clusters
<1>10. /\ next' = 1 /\ all' = {} /\ left' = {} /\ left = {}
       /\ UNCHANGED <<todo, rings, pushed, faults>>
  BY DEF Build
<1>11. RingsKept'
  BY <1>10 DEF IInv, RingsKept
<1>12. Fetched'
  BY <1>10, FS_EmptySet DEF Fetched
<1>13. RoundKept'
  <2>1. next' \in 0..Len(dt') + 1
    BY <1>5, <1>7, <1>10
  <2> QED BY <1>10, <2>1 DEF IInv, RoundKept
<1> QED BY <1>9, <1>11, <1>12, <1>13 DEF IInv

(* The four ends of an export.                                             *)
Export == Skip \/ Post \/ PostRefused \/ PostFails

(* Each moves on to the next of dt, which none of them changes.            *)
LEMMA ExportIs == ASSUME IInv, Export PROVE IInv'
<1>1. /\ next \in 1..Len(dt) /\ next' = next + 1 /\ pushed' \in {pushed, pushed \cup {Id(Current)}}
      /\ UNCHANGED <<todo, rings, left, all, dt>>
  BY DEF Export, Skip, Post, PostRefused, PostFails, Exporting, PushedNow
<1>2. RingsKept' /\ Fetched'
  BY <1>1 DEF IInv, RingsKept, Fetched
<1>3. Built'
  BY <1>1 DEF IInv, Built, Clusters
<1>4. faults' \in 0..MaxFaults
  BY AggregatorAssumption DEF Export, Skip, Post, PostRefused, PostFails, IInv, RoundKept
<1>5. Len(dt) \in Nat
  BY DEF IInv, Built, Clusters
<1>6. next' \in 0..Len(dt') + 1 /\ left' = {}
  BY <1>1, <1>5 DEF IInv, RoundKept
<1>7. DOMAIN Id(Current) = {"start", "link", "roots"}
  BY DEF Id
<1>8. \A id \in pushed' : DOMAIN id = {"start", "link", "roots"}
  BY <1>1, <1>7 DEF IInv, RoundKept
<1>9. RoundKept'
  BY <1>4, <1>6, <1>8 DEF RoundKept
<1> QED BY <1>2, <1>3, <1>9 DEF IInv

(* time.Sleep: the clusters of the round are dropped.                      *)
LEMMA SleepIs == ASSUME IInv, Sleep PROVE IInv'
<1>1. /\ next' = 0 /\ left' = Nodes /\ dt' = <<>>
      /\ UNCHANGED <<todo, rings, all, pushed, faults>>
  BY DEF Sleep
<1>2. RingsKept' /\ Fetched'
  BY <1>1 DEF IInv, RingsKept, Fetched
<1>3. Built'
  BY <1>1, NothingIsBuilt DEF Built, Clusters
<1>4. RoundKept'
  <2>1. next' \in 0..Len(dt') + 1
    BY <1>1
  <2> QED BY <1>1, <2>1 DEF IInv, RoundKept
<1> QED BY <1>2, <1>3, <1>4 DEF IInv

(* The inductive invariant holds.                                          *)
LEMMA StepIs == IInv /\ [Next]_vars => IInv'
<1> SUFFICES ASSUME IInv, [Next]_vars PROVE IInv'
  OBVIOUS
<1>1. CASE Next
  <2>1. CASE \E n \in Nodes : Publish(n)
    BY <2>1, PublishIs
  <2>2. CASE \E n \in Nodes : Fetch(n) \/ FetchFails(n)
    BY <2>2, FetchIs
  <2>3. CASE Build
    BY <2>3, BuildIs
  <2>4. CASE Skip \/ Post \/ PostRefused \/ PostFails
    BY <2>4, ExportIs DEF Export
  <2>5. CASE Sleep
    BY <2>5, SleepIs
  <2> QED BY <1>1, <2>1, <2>2, <2>3, <2>4, <2>5 DEF Next, Aggregator
<1>2. CASE UNCHANGED vars
  BY <1>2 DEF vars, IInv, RingsKept, Fetched, Built, Clusters, RoundKept
<1> QED BY <1>1, <1>2

(* So it holds of every state.                                             *)
LEMMA InvariantHolds == Spec => []IInv
BY InitIs, StepIs, PTL DEF Spec

-----------------------------------------------------------------------------
(* TypeOK: rings keep to their limit whatever the correlators publish, and *)
(* every distributed trace that build makes is of one trace at least, with *)
(* a start and a length (main.go:126-141, 164-179).                        *)
THEOREM TypeCorrect == Spec => []TypeOK
<1>1. ASSUME IInv PROVE TypeOK
  <2>1. ASSUME NEW d \in ToSet(dt)
        PROVE  d.group # <<>> /\ SpanMs(d.group) \in Nat /\ StartOf(d.group) \in Int
    <3>1. IsGroup(d.group)
      BY <1>1, GroupsAre DEF ToSet, IInv
    <3>2. d.group # <<>>
      BY <3>1 DEF IsGroup
    <3> QED BY <3>1, <3>2, OffsetsAre, SpansAre
  <2> QED BY <1>1, <2>1 DEF TypeOK, IInv, RingsKept, RoundKept
<1> QED BY <1>1, InvariantHolds, PTL

(* The merged timeline of every distributed trace starts at offset zero, is*)
(* in the order of time and loses less than a millisecond of it, whatever  *)
(* the offsets of the spans are (main.go:164-175, 279-300).                *)
THEOREM TimelineMergedInvariant == Spec => []TimelineMerged
<1>1. ASSUME IInv PROVE TimelineMerged
  <2>1. ASSUME NEW d \in ToSet(dt) PROVE IsGroup(d.group)
    BY <1>1, GroupsAre DEF ToSet, IInv
  <2> QED BY <2>1, TimelineIs DEF TimelineMerged
<1> QED BY <1>1, InvariantHolds, PTL

(* Two traces that start within the window are one distributed trace, unless*)
(* one before them both has taken the first; what is together is within the*)
(* window.  It holds however sort.Slice orders equal starts, and of rounds in*)
(* which nodes did not answer (main.go:126-141).                           *)
THEOREM BurstsTogetherInvariant == Spec => []BurstsTogether
<1>1. ASSUME IInv PROVE BurstsTogether
  BY <1>1, BurstsAre DEF IInv, Built
<1> QED BY <1>1, InvariantHolds, PTL

-----------------------------------------------------------------------------
(* StoredOnce, strengthened: an id that is not pushed yet is in Tempo only as*)
(* often as an answer to a POST of it was lost.                            *)
Counts ==
    /\ \A id \in DOMAIN stored : stored[id] \in Nat
    /\ \A id \in DOMAIN unsure : unsure[id] \in Nat
Accounted ==
    \A id \in DOMAIN stored :
        stored[id] <= (IF id \in pushed THEN 1 ELSE 0) + Count(unsure, id)

(* One more for one id, and no change for the others.                      *)
LEMMA CountedIs ==
  ASSUME NEW f, \A id \in DOMAIN f : f[id] \in Nat, NEW id0
  PROVE  /\ DOMAIN Counted(f, id0) = DOMAIN f \cup {id0}
         /\ \A id \in DOMAIN Counted(f, id0) : Counted(f, id0)[id] \in Nat
         /\ \A id : Count(f, id) \in Nat
         /\ Counted(f, id0)[id0] = Count(f, id0) + 1
         /\ \A id \in DOMAIN Counted(f, id0) :
               id # id0 => id \in DOMAIN f /\ Counted(f, id0)[id] = f[id]
         /\ \A id : Count(Counted(f, id0), id) = IF id = id0 THEN Count(f, id) + 1 ELSE Count(f, id)
<1>1. \A id : Count(f, id) \in Nat
  BY DEF Count
<1>2. /\ DOMAIN Counted(f, id0) = DOMAIN f \cup {id0}
      /\ \A id \in DOMAIN f \cup {id0} :
            Counted(f, id0)[id] = IF id = id0 THEN Count(f, id0) + 1 ELSE f[id]
  BY DEF Counted
<1>3. \A id \in DOMAIN f \cup {id0} : Counted(f, id0)[id] \in Nat
  BY <1>1, <1>2
<1>4. \A id : Count(Counted(f, id0), id) = IF id = id0 THEN Count(f, id) + 1 ELSE Count(f, id)
  BY <1>2 DEF Count
<1> QED BY <1>1, <1>2, <1>3, <1>4

(* Tempo stores a distributed trace a second time only when the answer to the*)
(* first POST was lost: pushed is written before the loop can see the id   *)
(* again (main.go:264-306).                                                *)
THEOREM StoredOnceInvariant == Spec => []StoredOnce
<1>1. Init => Counts /\ Accounted
  BY DEF Init, Counts, Accounted
<1>2. Counts /\ Accounted /\ [Next]_vars => (Counts /\ Accounted)'
  <2> SUFFICES ASSUME Counts, Accounted, [Next]_vars PROVE Counts' /\ Accounted'
    OBVIOUS
  <2> DEFINE cur == Id(Current)
  <2>1. CASE UNCHANGED <<stored, unsure>> /\ pushed \subseteq pushed'
    <3>1. Counts' /\ \A id : Count(unsure, id) \in Nat /\ Count(unsure, id)' = Count(unsure, id)
      BY <2>1 DEF Counts, Count
    <3> QED BY <2>1, <3>1 DEF Counts, Accounted
  <2>2. CASE Post
    <3>1. /\ cur \notin pushed /\ stored' = Counted(stored, cur) /\ unsure' = unsure
          /\ pushed' = pushed \cup {cur}
      BY <2>2 DEF Post, Known, PushedNow
    <3> HIDE DEF cur
    <3>2. Counts' /\ \A id : Count(unsure, id)' = Count(unsure, id) /\ Count(unsure, id) \in Nat
      BY <3>1, CountedIs DEF Counts, Count
    <3>3. Count(stored, cur) <= Count(unsure, cur)
      BY <3>1, <3>2 DEF Accounted, Count
    <3>4. ASSUME NEW id \in DOMAIN stored'
          PROVE  stored'[id] <= (IF id \in pushed' THEN 1 ELSE 0) + Count(unsure, id)
      <4>1. CASE id = cur
        <5>1. stored'[id] = Count(stored, cur) + 1 /\ Count(stored, cur) \in Nat
          BY <3>1, <4>1, CountedIs DEF Counts
        <5> QED BY <3>1, <3>2, <3>3, <4>1, <5>1
      <4>2. CASE id # cur
        <5>1. \A j \in DOMAIN Counted(stored, cur) :
                 j # cur => j \in DOMAIN stored /\ Counted(stored, cur)[j] = stored[j]
          BY CountedIs, Zenon DEF Counts
        <5>2. id \in DOMAIN stored /\ stored'[id] = stored[id]
          BY <3>1, <4>2, <5>1
        <5> QED BY <3>1, <4>2, <5>2 DEF Accounted
      <4> QED BY <4>1, <4>2
    <3> QED BY <3>2, <3>4 DEF Accounted
  <2>3. CASE PostFails /\ stored' = Counted(stored, cur) /\ unsure' = Counted(unsure, cur)
    <3>1. /\ stored' = Counted(stored, cur) /\ unsure' = Counted(unsure, cur)
          /\ cur \notin pushed /\ pushed' = pushed
      BY <2>3 DEF PostFails, Known
    <3> HIDE DEF cur
    <3>2. /\ Counts'
          /\ \A id : Count(unsure, id) \in Nat /\ Count(stored, id) \in Nat
          /\ \A id : Count(unsure, id)' = IF id = cur THEN Count(unsure, id) + 1 ELSE Count(unsure, id)
      <4>1. Counts' /\ \A id : Count(unsure, id) \in Nat /\ Count(stored, id) \in Nat
        BY <3>1, CountedIs DEF Counts
      <4>2. \A id : Count(unsure', id) = IF id = cur THEN Count(unsure, id) + 1 ELSE Count(unsure, id)
        <5>1. \A id : Count(Counted(unsure, cur), id)
                        = IF id = cur THEN Count(unsure, id) + 1 ELSE Count(unsure, id)
          BY CountedIs, Zenon DEF Counts
        <5> QED BY <3>1, <5>1
      <4> QED BY <4>1, <4>2 DEF Count
    <3>3. Count(stored, cur) <= Count(unsure, cur)
      BY <3>1, <3>2 DEF Accounted, Count
    <3>4. ASSUME NEW id \in DOMAIN stored'
          PROVE  stored'[id] <= (IF id \in pushed' THEN 1 ELSE 0) + Count(unsure, id)'
      <4>1. CASE id = cur
        <5>1. stored'[id] = Count(stored, cur) + 1
          BY <3>1, <4>1, CountedIs DEF Counts
        <5> QED BY <3>1, <3>2, <3>3, <4>1, <5>1
      <4>2. CASE id # cur
        <5>1. \A j \in DOMAIN Counted(stored, cur) :
                 j # cur => j \in DOMAIN stored /\ Counted(stored, cur)[j] = stored[j]
          BY CountedIs, Zenon DEF Counts
        <5>2. id \in DOMAIN stored /\ stored'[id] = stored[id]
          BY <3>1, <4>2, <5>1
        <5> QED BY <3>1, <3>2, <4>2, <5>2 DEF Accounted
      <4> QED BY <4>1, <4>2
    <3> QED BY <3>2, <3>4 DEF Accounted
  <2>4. \/ UNCHANGED <<stored, unsure>> /\ pushed \subseteq pushed'
        \/ Post
        \/ PostFails /\ stored' = Counted(stored, cur) /\ unsure' = Counted(unsure, cur)
    BY DEF vars, Next, Aggregator, Publish, Fetch, FetchFails, Build, Skip, PostRefused, PushedNow,
           PostFails, Sleep
  <2> QED BY <2>1, <2>2, <2>3, <2>4
<1>3. Counts /\ Accounted => StoredOnce
  <2> SUFFICES ASSUME Counts, Accounted, NEW id \in DOMAIN stored
               PROVE  stored[id] <= 1 + Count(unsure, id)
    BY DEF StoredOnce
  <2>1. Count(unsure, id) \in Nat /\ stored[id] \in Nat
    BY DEF Counts, Count
  <2> QED BY <2>1 DEF Accounted
<1> QED BY <1>1, <1>2, <1>3, PTL DEF Spec
=============================================================================
