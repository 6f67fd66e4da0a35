-------------------------- MODULE StateCache_proofs --------------------------
(***************************************************************************)
(* Proofs about StateCache, for every set of writers and leaves, any       *)
(* number of calls and any number of times the clock is set back: stamps   *)
(* taken before the update make every call take effect at one moment.      *)
(***************************************************************************)
EXTENDS StateCache, SequenceTheorems, TLAPS

(* A writer that is in no call has no leaf left to write (Update returns   *)
(* when GnmiUpdate has handled every leaf).                                *)
IdleHasNothingToDo == \A w \in Writers : call[w].todo # {} => InCall(w)

(* What call[w] may be: the record that TypeOK asks for.                   *)
CallRecords == [n : 0..calls, ts : Nat, del : BOOLEAN, todo : SUBSET Leaves,
                done : SUBSET Leaves, rivals : SUBSET Leaves]

(* One leaf of a GnmiUpdate only moves that leaf within the records of the *)
(* calls: numbers, stamps and kinds of calls stay.                         *)
LEMMA LeafStep ==
  ASSUME TypeOK, NEW w \in Writers, NEW l \in Leaves,
         TookEffect(w, l) \/ HadNone(w, l)
  PROVE  /\ call' \in [Writers -> CallRecords]
         /\ \A v \in Writers :
              /\ call'[v].n = call[v].n /\ call'[v].ts = call[v].ts
              /\ call'[v].del = call[v].del
              /\ call'[v].todo = IF v = w THEN call[v].todo \ {l} ELSE call[v].todo
              /\ call[v].done \subseteq call'[v].done
              /\ call[v].rivals \subseteq call'[v].rivals
<1> USE DEF TypeOK, CallRecords
<1>1. CASE TookEffect(w, l)
  <2>1. ASSUME NEW v \in Writers
        PROVE  call'[v] = IF v = w THEN [call[w] EXCEPT !.todo = @ \ {l}, !.done = @ \cup {l}]
                          ELSE IF v \in Others(w) THEN [call[v] EXCEPT !.rivals = @ \cup {l}]
                          ELSE call[v]
    BY <1>1 DEF TookEffect
  <2>2. call' = [v \in Writers |-> call'[v]]
    BY <1>1 DEF TookEffect
  <2>3. ASSUME NEW v \in Writers
        PROVE  /\ call'[v] \in CallRecords
               /\ call'[v].n = call[v].n /\ call'[v].ts = call[v].ts
               /\ call'[v].del = call[v].del
               /\ call'[v].todo = IF v = w THEN call[v].todo \ {l} ELSE call[v].todo
               /\ call[v].done \subseteq call'[v].done
               /\ call[v].rivals \subseteq call'[v].rivals
    <3>1. CASE v = w
      <4>1. call'[v] = [call[v] EXCEPT !.todo = @ \ {l}, !.done = @ \cup {l}]
        BY <2>1, <3>1
      <4>2. call[v] \in CallRecords
        OBVIOUS
      <4> HIDE DEF TypeOK
      <4>3. /\ call'[v].n = call[v].n /\ call'[v].ts = call[v].ts
            /\ call'[v].del = call[v].del /\ call'[v].rivals = call[v].rivals
            /\ call'[v].todo = call[v].todo \ {l} /\ call'[v].done = call[v].done \cup {l}
        BY <4>1, <4>2
      <4>4. call'[v] \in CallRecords
        BY <4>1, <4>2, ZenonT(60)
      <4> QED BY <4>3, <4>4, <3>1
    <3>2. CASE v # w /\ v \in Others(w)
      <4>1. call'[v] = [call[v] EXCEPT !.rivals = @ \cup {l}]
        BY <2>1, <3>2
      <4>2. call[v] \in CallRecords
        OBVIOUS
      <4> HIDE DEF TypeOK
      <4> QED BY <4>1, <4>2, <3>2
    <3>3. CASE v # w /\ v \notin Others(w)
      BY <2>1, <3>3
    <3> QED BY <3>1, <3>2, <3>3
  <2> QED BY <2>2, <2>3
<1>2. CASE HadNone(w, l)
  BY <1>2, ZenonT(60) DEF HadNone
<1> QED BY <1>1, <1>2

(* What the stamp of Update leaves behind (cache.go:40).                   *)
LEMMA StampEffect ==
  ASSUME TypeOK, NEW w \in Writers, NEW del \in BOOLEAN, NEW ls \in (SUBSET Leaves) \ {{}},
         Stamp(w, del, ls)
  PROVE  /\ call[w].n = 0
         /\ clock' \in Nat /\ clock <= clock' /\ calls' = calls + 1
         /\ readings' = Append(readings, clock')
         /\ call'[w] = [n |-> calls + 1, ts |-> clock', del |-> del, todo |-> ls, done |-> {},
                        rivals |-> UNION {call[v].done : v \in Others(w)}]
         /\ call'[w].n = calls + 1 /\ call'[w].ts = clock' /\ call'[w].todo = ls
         /\ call'[w].rivals = UNION {call[v].done : v \in Others(w)}
         /\ \A v \in Writers \ {w} : call'[v] = call[v]
         /\ UNCHANGED <<tree, setBack, lapse, newest, revived>>
<1>1. PICK now \in {clock, clock + 1} :
        /\ clock' = now /\ readings' = Append(readings, now)
        /\ call' = [call EXCEPT ![w] =
               [n |-> calls + 1, ts |-> now, del |-> del, todo |-> ls,
                done |-> {}, rivals |-> UNION {call[v].done : v \in Others(w)}]]
  BY DEF Stamp, Timestamp
<1>2. call \in [Writers -> CallRecords] /\ clock \in Nat
  BY DEF TypeOK, CallRecords
<1>3. call[w].n = 0
  BY <1>2 DEF Stamp, InCall, CallRecords
<1>4. calls' = calls + 1 /\ UNCHANGED <<tree, setBack, lapse, newest, revived>>
  BY DEF Stamp
<1> DEFINE overlapping == UNION {call[v].done : v \in Others(w)}
<1>5. /\ call'[w] = [n |-> calls + 1, ts |-> clock', del |-> del, todo |-> ls, done |-> {},
                     rivals |-> overlapping]
      /\ \A v \in Writers \ {w} : call'[v] = call[v]
  BY <1>1, <1>2
<1> HIDE DEF overlapping
<1>6. /\ call'[w].n = calls + 1 /\ call'[w].ts = clock' /\ call'[w].todo = ls
      /\ call'[w].rivals = overlapping
  BY <1>5
<1> USE DEF overlapping
<1>7. clock' \in Nat /\ clock <= clock' /\ readings' = Append(readings, clock')
  BY <1>1, <1>2
<1> QED BY <1>3, <1>4, <1>5, <1>6, <1>7

-----------------------------------------------------------------------------
(* The type invariant: no leaf ever holds a stamp from before the epoch,   *)
(* and every value is that of a call that has begun.                       *)
LEMMA TypeStep == TypeOK /\ IdleHasNothingToDo /\ [Next]_vars => TypeOK' /\ IdleHasNothingToDo'
<1> USE StateCacheAssumption DEF StateCacheAssumption
<1> SUFFICES ASSUME TypeOK, IdleHasNothingToDo, [Next]_vars
             PROVE  TypeOK' /\ IdleHasNothingToDo'
  OBVIOUS
<1>1. ASSUME NEW w \in Writers, NEW del \in BOOLEAN, NEW ls \in (SUBSET Leaves) \ {{}},
             Stamp(w, del, ls)
      PROVE  TypeOK' /\ IdleHasNothingToDo'
  <2>1. /\ clock' \in Nat /\ calls' = calls + 1 /\ readings' = Append(readings, clock')
        /\ UNCHANGED <<tree, setBack, lapse, newest, revived>>
    BY <1>1, StampEffect
  <2>2. calls' \in 0..MaxCalls
    BY <1>1, <2>1 DEF Stamp, TypeOK
  <2>3. readings' \in Seq(Nat) /\ Len(readings') = calls'
    BY <2>1, <2>2, AppendProperties DEF TypeOK
  <2>4. UNION {call[v].done : v \in Others(w)} \in SUBSET Leaves
    BY DEF TypeOK, Others
  <2>5. call' \in [Writers -> CallRecords']
    <3>1. PICK R \in SUBSET Leaves :
            call'[w] = [n |-> calls + 1, ts |-> clock', del |-> del, todo |-> ls,
                        done |-> {}, rivals |-> R]
      <4> DEFINE R == UNION {call[v].done : v \in Others(w)}
      <4>1. call'[w] = [n |-> calls + 1, ts |-> clock', del |-> del, todo |-> ls,
                        done |-> {}, rivals |-> R]
        BY <1>1, StampEffect
      <4> HIDE DEF R
      <4>2. R \in SUBSET Leaves
        BY <2>4 DEF R
      <4> QED BY <4>1, <4>2
    <3>2. call'[w] \in CallRecords'
      <4>1. calls + 1 \in 0..calls'
        BY <2>1 DEF TypeOK
      <4>2. {} \in SUBSET Leaves /\ ls \in SUBSET Leaves
        OBVIOUS
      <4> QED BY <2>1, <3>1, <4>1, <4>2 DEF CallRecords
    <3>3. \A v \in Writers \ {w} : call'[v] = call[v] /\ call[v] \in CallRecords'
      <4>1. \A v \in Writers \ {w} : call'[v] = call[v]
        BY <1>1, StampEffect, ZenonT(60)
      <4>2. 0..calls \subseteq 0..calls'
        BY <2>1 DEF TypeOK
      <4>3. \A v \in Writers : call[v] \in CallRecords
        BY DEF TypeOK, CallRecords
      <4> QED BY <4>1, <4>2, <4>3 DEF CallRecords
    <3>4. call' = [v \in Writers |-> call'[v]]
      BY <1>1 DEF Stamp, TypeOK
    <3> QED BY <3>2, <3>3, <3>4
  <2>6. tree' \in [DOMAIN tree' -> [ts : Nat, by : 1..calls']]
    BY <2>1 DEF TypeOK
  <2>7. call'[w].n = calls + 1 /\ \A v \in Writers \ {w} : call'[v] = call[v]
    BY <1>1, StampEffect, ZenonT(60)
  <2>8. TypeOK'
    <3>1. lapse' \in 0..calls' /\ setBack' \in 0..MaxSetBack /\ DOMAIN tree' \subseteq Leaves
          /\ newest' \in [Leaves -> [up : Nat, del : Nat]] /\ revived' \subseteq Leaves
      BY <2>1 DEF TypeOK
    <3> QED BY <2>1, <2>2, <2>3, <2>5, <2>6, <3>1 DEF TypeOK, CallRecords
  <2>9. IdleHasNothingToDo'
    <3>1. calls + 1 > 0
      BY DEF TypeOK
    <3> QED BY <2>7, <3>1 DEF IdleHasNothingToDo, InCall
  <2> QED BY <2>8, <2>9
<1>2. ASSUME NEW w \in Writers, NEW l \in Leaves, GnmiUpdate(w, l)
      PROVE  TypeOK' /\ IdleHasNothingToDo'
  <2>1. TookEffect(w, l) \/ HadNone(w, l)
    BY <1>2 DEF GnmiUpdate, Write, WriteStale, Remove, RemoveStale
  <2>2. UNCHANGED <<clock, calls, readings, setBack, lapse>>
    BY <1>2 DEF GnmiUpdate
  <2>3. call[w].n \in 1..calls /\ call[w].ts \in Nat /\ Began(w) \in Nat
    BY <1>2, SMTT(30) DEF GnmiUpdate, IdleHasNothingToDo, InCall, TypeOK, Began
  <2>4. /\ DOMAIN tree' \subseteq Leaves
        /\ tree' \in [DOMAIN tree' -> [ts : Nat, by : 1..calls]]
    <3>1. CASE Write(w, l)
      BY <3>1, <2>3 DEF Write, TypeOK
    <3>2. CASE Remove(w, l)
      BY <3>2 DEF Remove, TypeOK
    <3>3. CASE UNCHANGED tree
      BY <3>3 DEF TypeOK
    <3> QED BY <1>2, <3>1, <3>2, <3>3 DEF GnmiUpdate, WriteStale, RemoveStale
  <2>5. newest' \in [Leaves -> [up : Nat, del : Nat]] /\ revived' \subseteq Leaves
    <3>1. RecordUpdate(w, l) \/ RecordDelete(w, l)
      BY <1>2 DEF GnmiUpdate, Write, WriteStale, Remove, RemoveStale
    <3>2. newest' \in [Leaves -> [up : Nat, del : Nat]]
      <4>1. newest \in [Leaves -> [up : Nat, del : Nat]]
        BY DEF TypeOK
      <4>2. Later(newest[l].up, Began(w)) \in Nat /\ Later(newest[l].del, Began(w)) \in Nat
        BY <2>3, <4>1 DEF Later
      <4>3. CASE RecordUpdate(w, l)
        BY <4>1, <4>2, <4>3 DEF RecordUpdate
      <4>4. CASE RecordDelete(w, l)
        BY <4>1, <4>2, <4>4 DEF RecordDelete
      <4> QED BY <3>1, <4>3, <4>4
    <3>3. revived' \subseteq Leaves
      BY <3>1 DEF RecordUpdate, RecordDelete, TypeOK
    <3> QED BY <3>2, <3>3
  <2>6. TypeOK'
    BY <2>1, <2>2, <2>4, <2>5, LeafStep DEF TypeOK, CallRecords
  <2>7. IdleHasNothingToDo'
    BY <2>1, LeafStep DEF IdleHasNothingToDo, InCall
  <2> QED BY <2>6, <2>7
<1>3. ASSUME NEW w \in Writers, Return(w) PROVE TypeOK' /\ IdleHasNothingToDo'
  BY <1>3 DEF Return, NoCall, TypeOK, IdleHasNothingToDo, InCall
<1>4. CASE SetBack
  BY <1>4, SMTT(30) DEF SetBack, TypeOK, IdleHasNothingToDo, InCall
<1>5. CASE UNCHANGED vars
  BY <1>5 DEF vars, TypeOK, IdleHasNothingToDo, InCall
<1> QED BY <1>1, <1>2, <1>3, <1>4, <1>5 DEF Next

(* No run of the cache leaves its type, for any number of writers.         *)
THEOREM TypeCorrect == Spec => [](TypeOK /\ IdleHasNothingToDo)
<1>1. Init => TypeOK /\ IdleHasNothingToDo
  BY StateCacheAssumption, EmptySeq
  DEF Init, TypeOK, IdleHasNothingToDo, NoCall, StateCacheAssumption
<1> QED BY <1>1, TypeStep, PTL DEF Spec

-----------------------------------------------------------------------------
(* The stamp of a call is what the clock showed when it began, that of a   *)
(* leaf what it showed when the call that wrote it began, and an update    *)
(* newer than the leaf has not been seen yet or is the leaf's own.         *)
StampsAreReadings ==
    /\ \A w \in Writers : InCall(w) => call[w].ts = readings[call[w].n]
    /\ \A l \in DOMAIN tree : /\ tree[l].ts = readings[tree[l].by]
                              /\ tree[l].ts <= newest[l].up

(* Every call writes with the reading it took, whatever the clock does.    *)
LEMMA StampsStep ==
  TypeOK /\ IdleHasNothingToDo /\ StampsAreReadings /\ [Next]_vars => StampsAreReadings'
<1> SUFFICES ASSUME TypeOK, IdleHasNothingToDo, StampsAreReadings, [Next]_vars
             PROVE  StampsAreReadings'
  OBVIOUS
<1>1. ASSUME NEW w \in Writers, NEW del \in BOOLEAN, NEW ls \in (SUBSET Leaves) \ {{}},
             Stamp(w, del, ls)
      PROVE  StampsAreReadings'
  <2>1. /\ readings' = Append(readings, clock') /\ clock' \in Nat
        /\ call'[w].n = calls + 1 /\ call'[w].ts = clock'
        /\ \A v \in Writers \ {w} : call'[v] = call[v]
        /\ UNCHANGED <<tree, newest>>
    BY <1>1, StampEffect, ZenonT(60)
  <2>2. readings'[calls + 1] = clock' /\ \A i \in 1..calls : readings'[i] = readings[i]
    BY <2>1, AppendProperties DEF TypeOK
  <2>3. ASSUME NEW v \in Writers, InCall(v)' PROVE call'[v].ts = readings'[call'[v].n]
    <3>1. CASE v = w
      BY <2>1, <2>2, <3>1
    <3>2. CASE v # w
      <4>1. call[v].n \in 1..calls /\ InCall(v)
        BY <2>1, <2>3, <3>2 DEF InCall, TypeOK
      <4>2. readings'[call[v].n] = readings[call[v].n] /\ call'[v] = call[v]
        BY <2>1, <2>2, <3>2, <4>1
      <4> QED BY <4>1, <4>2 DEF StampsAreReadings
    <3> QED BY <3>1, <3>2
  <2>4. ASSUME NEW l \in DOMAIN tree'
        PROVE  tree'[l].ts = readings'[tree'[l].by] /\ tree'[l].ts <= newest'[l].up
    <3>1. tree[l].by \in 1..calls
      BY <2>1 DEF TypeOK
    <3> QED BY <2>1, <2>2, <3>1 DEF StampsAreReadings
  <2> QED BY <2>3, <2>4 DEF StampsAreReadings
<1>2. ASSUME NEW w \in Writers, NEW l \in Leaves, GnmiUpdate(w, l)
      PROVE  StampsAreReadings'
  <2>1. (TookEffect(w, l) \/ HadNone(w, l)) /\ readings' = readings
    BY <1>2 DEF GnmiUpdate, Write, WriteStale, Remove, RemoveStale
  <2>2. \A v \in Writers : call'[v].n = call[v].n /\ call'[v].ts = call[v].ts
    BY <2>1, LeafStep
  <2>3. InCall(w) /\ call[w].ts \in Nat /\ Began(w) = call[w].ts
    BY <1>2 DEF GnmiUpdate, IdleHasNothingToDo, StampsAreReadings, Began, TypeOK
  <2>4. \A k \in Leaves : newest[k].up <= newest'[k].up /\ newest[k].up \in Nat
                        /\ newest'[k].up \in Nat
    <3>1. RecordUpdate(w, l) \/ RecordDelete(w, l)
      BY <1>2 DEF GnmiUpdate, Write, WriteStale, Remove, RemoveStale
    <3>2. newest \in [Leaves -> [up : Nat, del : Nat]]
      BY DEF TypeOK
    <3>3. CASE RecordUpdate(w, l)
      BY <2>3, <3>2, <3>3 DEF RecordUpdate, Later
    <3>4. CASE RecordDelete(w, l)
      BY <3>2, <3>4 DEF RecordDelete
    <3> QED BY <3>1, <3>3, <3>4
  <2>5. ASSUME NEW k \in DOMAIN tree'
        PROVE  tree'[k].ts = readings[tree'[k].by] /\ tree'[k].ts <= newest'[k].up
    <3>1. CASE k \in DOMAIN tree /\ tree'[k] = tree[k]
      <4>1. k \in Leaves /\ tree[k].ts \in Nat
        BY <3>1 DEF TypeOK
      <4> QED BY <2>4, <3>1, <4>1 DEF StampsAreReadings
    <3>2. CASE k = l /\ Write(w, l)
      <4>1. tree'[k] = [ts |-> call[w].ts, by |-> call[w].n]
        BY <3>2 DEF Write
      <4>2. newest'[k].up = Later(newest[k].up, call[w].ts)
        BY <2>3, <3>2 DEF Write, RecordUpdate, TypeOK
      <4>3. call[w].ts <= newest'[k].up
        BY <2>3, <2>4, <3>2, <4>2 DEF Later
      <4> QED BY <2>3, <4>1, <4>3 DEF StampsAreReadings
    <3> QED
      BY <1>2, <3>1, <3>2 DEF GnmiUpdate, Write, WriteStale, Remove, RemoveStale
  <2> QED BY <2>1, <2>2, <2>3, <2>5 DEF StampsAreReadings, InCall
<1>3. ASSUME NEW w \in Writers, Return(w) PROVE StampsAreReadings'
  BY <1>3 DEF Return, StampsAreReadings, InCall, NoCall, TypeOK
<1>4. CASE SetBack
  BY <1>4 DEF SetBack, StampsAreReadings, InCall
<1>5. CASE UNCHANGED vars
  BY <1>5 DEF vars, StampsAreReadings, InCall
<1> QED BY <1>1, <1>2, <1>3, <1>4, <1>5 DEF Next

-----------------------------------------------------------------------------
(* One step of a writer keeps the newest value of the leaf it is on: the   *)
(* update or delete is applied only if it is not older than the leaf, and  *)
(* rejected only if it is not newer (GnmiUpdate, called at cache.go:45).   *)
LEMMA NewestStep ==
  TypeOK /\ IdleHasNothingToDo /\ StampsAreReadings /\ NewestWins /\ [Next]_vars
  => NewestWins'
<1> SUFFICES ASSUME TypeOK, IdleHasNothingToDo, StampsAreReadings, NewestWins, [Next]_vars
             PROVE  NewestWins'
  OBVIOUS
<1>0. StampsAreReadings'
  BY StampsStep
<1>1. CASE UNCHANGED <<tree, newest, revived>> /\ \A i \in 1..calls : readings'[i] = readings[i]
  BY <1>1 DEF NewestWins, TypeOK
<1>2. ASSUME NEW w \in Writers, NEW l \in Leaves, GnmiUpdate(w, l)
      PROVE  NewestWins'
  <2> DEFINE ts == call[w].ts
  <2>1. Began(w) = ts /\ ts \in Nat
    BY <1>2 DEF GnmiUpdate, IdleHasNothingToDo, InCall, StampsAreReadings, Began, TypeOK
  <2>2. newest[l].up \in Nat /\ newest[l].del \in Nat /\ (l \in DOMAIN tree => tree[l].ts \in Nat)
    BY DEF TypeOK
  <2>3. l \in DOMAIN tree => tree[l].ts <= newest[l].up
    BY DEF StampsAreReadings
  <2>4. l \notin revived =>
          /\ l \in DOMAIN tree => tree[l].ts = newest[l].up /\ newest[l].up >= newest[l].del
          /\ l \notin DOMAIN tree => newest[l].del >= newest[l].up
    BY DEF NewestWins, StampsAreReadings
  <2>5. RecordUpdate(w, l) =>
          /\ newest'[l].up = Later(newest[l].up, ts) /\ newest'[l].del = newest[l].del
          /\ l \notin revived' => /\ l \notin revived \/ IsNewest(w, l)
                                  /\ l \in DOMAIN tree \/ ts >= newest[l].del
    BY <2>1, <2>2 DEF RecordUpdate, TypeOK
  <2>6. RecordDelete(w, l) =>
          /\ newest'[l].del = Later(newest[l].del, ts) /\ newest'[l].up = newest[l].up
          /\ l \notin revived' => l \notin revived \/ IsNewest(w, l)
    BY <2>1, <2>2 DEF RecordDelete, TypeOK
  <2>7. IsNewest(w, l) => ts >= newest[l].up /\ ts >= newest[l].del
    BY <2>1, <2>2 DEF IsNewest, Later
  <2> HIDE DEF ts
  <2>8. ASSUME l \notin revived'
        PROVE  /\ l \in DOMAIN tree' => /\ tree'[l].ts = newest'[l].up
                                        /\ newest'[l].up >= newest'[l].del
               /\ l \notin DOMAIN tree' => newest'[l].del >= newest'[l].up
    <3>1. CASE Write(w, l)
      <4>1. l \in DOMAIN tree' /\ tree'[l].ts = ts
        BY <3>1 DEF Write, ts
      <4>2. l \in DOMAIN tree => ts >= tree[l].ts
        BY <3>1 DEF Write, MayWrite, ts
      <4> QED
        BY <2>1, <2>2, <2>4, <2>5, <2>7, <2>8, <3>1, <4>1, <4>2 DEF Write, Later
    <3>2. CASE WriteStale(w, l)
      <4>1. l \in DOMAIN tree /\ ts <= tree[l].ts /\ tree' = tree
        BY <3>2 DEF WriteStale, MayIgnore, ts
      <4> QED
        BY <2>1, <2>2, <2>3, <2>4, <2>5, <2>7, <2>8, <3>2, <4>1 DEF WriteStale, Later
    <3>3. CASE Remove(w, l)
      <4>1. l \notin DOMAIN tree' /\ (l \in DOMAIN tree => ts >= tree[l].ts)
        BY <3>3 DEF Remove, MayRemove, ts
      <4> QED
        BY <2>1, <2>2, <2>4, <2>6, <2>7, <2>8, <3>3, <4>1 DEF Remove, Later
    <3>4. CASE RemoveStale(w, l)
      <4>1. l \in DOMAIN tree /\ ts <= tree[l].ts /\ tree' = tree
        BY <3>4 DEF RemoveStale, MayIgnore, ts
      <4> QED
        BY <2>1, <2>2, <2>3, <2>4, <2>6, <2>7, <2>8, <3>4, <4>1 DEF RemoveStale, Later
    <3> QED BY <1>2, <3>1, <3>2, <3>3, <3>4 DEF GnmiUpdate
  <2>9. ASSUME NEW k \in Leaves, k # l
        PROVE  /\ k \in DOMAIN tree' <=> k \in DOMAIN tree
               /\ k \in DOMAIN tree => tree'[k] = tree[k]
               /\ newest'[k] = newest[k]
               /\ k \in revived' <=> k \in revived
    <3>1. RecordUpdate(w, l) \/ RecordDelete(w, l)
      BY <1>2 DEF GnmiUpdate, Write, WriteStale, Remove, RemoveStale
    <3>2. newest'[k] = newest[k] /\ (k \in revived' <=> k \in revived)
      BY <2>9, <3>1 DEF RecordUpdate, RecordDelete, TypeOK
    <3> QED BY <1>2, <2>9, <3>2 DEF GnmiUpdate, Write, WriteStale, Remove, RemoveStale
  <2>10. readings' = readings
    BY <1>2 DEF GnmiUpdate
  <2>11. \A k \in DOMAIN tree' : tree'[k].ts = readings'[tree'[k].by]
    BY <1>0 DEF StampsAreReadings
  <2> QED BY <2>8, <2>9, <2>10, <2>11 DEF NewestWins
<1>3. ASSUME NEW w \in Writers, NEW del \in BOOLEAN, NEW ls \in (SUBSET Leaves) \ {{}},
             Stamp(w, del, ls)
      PROVE  NewestWins'
  <2>1. \A i \in 1..calls : readings'[i] = readings[i]
    <3>1. readings' = Append(readings, clock') /\ clock' \in Nat
      BY <1>3, StampEffect
    <3>2. readings \in Seq(Nat) /\ Len(readings) = calls
      BY DEF TypeOK
    <3> QED BY <3>1, <3>2, AppendProperties
  <2> QED BY <1>1, <1>3, <2>1, StampEffect
<1> QED BY <1>1, <1>2, <1>3 DEF Next, Return, SetBack, vars

(* Whatever the order in which GnmiUpdate applies the writers of a leaf,   *)
(* it holds the value of the update that began last, or is absent where a  *)
(* delete began later; the exception is the update that comes after a      *)
(* delete it should precede.  No bound on the clock is needed: it may be   *)
(* set back at any time.                                                   *)
THEOREM NewestWinsInvariant == Spec => []NewestWins
<1>1. Init => StampsAreReadings /\ NewestWins
  BY DEF Init, StampsAreReadings, NewestWins, InCall, NoCall
<1> QED BY <1>1, TypeCorrect, StampsStep, NewestStep, PTL DEF Spec
-----------------------------------------------------------------------------
(* Why a call may be rejected only where the promise of AtomicCache lets   *)
(* it.  Calls have numbers of their own, ...                               *)
CallsApart == \A w \in Writers : \A v \in Writers \ {w} : InCall(w) => call[v].n # call[w].n

(* ... no stamp taken since the clock was last set back is in the future,  *)
NotFromFuture ==
    /\ \A w \in Writers : call[w].n > lapse => call[w].ts <= clock
    /\ \A l \in DOMAIN tree : tree[l].by > lapse => tree[l].ts <= clock

(* ... a call that has written a leaf does not come to it again,           *)
OwnLeaves ==
    \A w \in Writers, l \in DOMAIN tree :
        InCall(w) /\ tree[l].by = call[w].n => l \notin call[w].todo

(* ... a leaf was written by a call that returned before the present, or   *)
(* by one that is still open and so becomes a rival of the next to begin,  *)
OldOrOpen ==
    \A l \in DOMAIN tree :
        tree[l].by > lapse =>
            \/ tree[l].ts < clock
            \/ \E v \in Writers : call[v].n = tree[l].by /\ l \in call[v].done

(* ... and so a leaf holds a stamp older than an open call's, unless the   *)
(* call itself or one that overlaps it has written the leaf.               *)
OlderOrRival ==
    \A w \in Writers : \A l \in DOMAIN tree \ call[w].rivals :
        InCall(w) /\ tree[l].by > lapse /\ tree[l].by # call[w].n
            => tree[l].ts < call[w].ts

OverlapInv == CallsApart /\ NotFromFuture /\ OwnLeaves /\ OldOrOpen /\ OlderOrRival

(* A call that takes effect on a leaf is a rival there of all that overlap *)
(* it (GnmiUpdate).                                                        *)
LEMMA EffectAdds ==
  ASSUME TypeOK, NEW w \in Writers, NEW l \in Leaves, TookEffect(w, l)
  PROVE  /\ l \in call'[w].done
         /\ \A v \in Writers \ {w} : InCall(v) => l \in call'[v].rivals
<1>1. call \in [Writers -> CallRecords]
  BY DEF TypeOK, CallRecords
<1>2. call'[w] = [call[w] EXCEPT !.todo = @ \ {l}, !.done = @ \cup {l}]
  BY DEF TookEffect
<1>3. l \in call'[w].done
  BY <1>1, <1>2 DEF CallRecords
<1>4. ASSUME NEW v \in Writers \ {w}, InCall(v) PROVE l \in call'[v].rivals
  <2>1. call'[v] = [call[v] EXCEPT !.rivals = @ \cup {l}]
    BY <1>4 DEF TookEffect, Others
  <2> QED BY <1>1, <2>1 DEF CallRecords
<1> QED BY <1>3, <1>4

(* Every step of Update keeps what the promise rests on.                   *)
LEMMA OverlapStep ==
  TypeOK /\ IdleHasNothingToDo /\ OverlapInv /\ [Next]_vars => OverlapInv'
<1> SUFFICES ASSUME TypeOK, IdleHasNothingToDo, OverlapInv, [Next]_vars
             PROVE  OverlapInv'
  OBVIOUS
<1> USE DEF OverlapInv
<1>0. /\ \A w \in Writers : call[w].n \in 0..calls /\ call[w].ts \in Nat
      /\ \A l \in DOMAIN tree : tree[l].by \in 1..calls /\ tree[l].ts \in Nat
      /\ calls \in Nat /\ clock \in Nat /\ lapse \in 0..calls
  BY StateCacheAssumption DEF TypeOK, StateCacheAssumption
<1>1. ASSUME NEW w \in Writers, NEW del \in BOOLEAN, NEW ls \in (SUBSET Leaves) \ {{}},
             Stamp(w, del, ls)
      PROVE  OverlapInv'
  <2>1. /\ call[w].n = 0 /\ call'[w].n = calls + 1 /\ call'[w].ts = clock'
        /\ call'[w].rivals = UNION {call[v].done : v \in Others(w)}
        /\ \A v \in Writers \ {w} : call'[v] = call[v]
        /\ clock' \in Nat /\ clock <= clock'
        /\ tree' = tree /\ lapse' = lapse
    BY <1>1, StampEffect, ZenonT(60)
  <2>2. CallsApart'
    BY <1>0, <2>1 DEF CallsApart, InCall
  <2>3. NotFromFuture'
    BY <1>0, <2>1 DEF NotFromFuture
  <2>4. OwnLeaves'
    BY <1>0, <2>1 DEF OwnLeaves, InCall
  <2>5. OldOrOpen'
    <3>1. ASSUME NEW l \in DOMAIN tree, tree[l].by > lapse
          PROVE  \/ tree[l].ts < clock'
                 \/ \E v \in Writers : call'[v].n = tree[l].by /\ l \in call'[v].done
      <4>1. CASE tree[l].ts < clock
        BY <1>0, <2>1, <4>1
      <4>2. ASSUME NEW v \in Writers, call[v].n = tree[l].by, l \in call[v].done
            PROVE  call'[v].n = tree[l].by /\ l \in call'[v].done
        BY <1>0, <2>1, <4>2
      <4> QED BY <3>1, <4>1, <4>2 DEF OldOrOpen
    <3> QED BY <2>1, <3>1 DEF OldOrOpen
  <2>6. OlderOrRival'
    <3>1. ASSUME NEW l \in DOMAIN tree, l \notin call'[w].rivals, tree[l].by > lapse
          PROVE  tree[l].ts < clock'
      <4>1. ASSUME NEW v \in Writers, call[v].n = tree[l].by PROVE l \notin call[v].done
        <5>1. v \in Others(w)
          BY <1>0, <2>1, <4>1 DEF Others, InCall
        <5> QED BY <2>1, <3>1, <5>1
      <4> QED BY <1>0, <2>1, <3>1, <4>1 DEF OldOrOpen
    <3> QED BY <1>0, <2>1, <3>1 DEF OlderOrRival, InCall
  <2> QED BY <2>2, <2>3, <2>4, <2>5, <2>6
<1>2. ASSUME NEW w \in Writers, NEW l \in Leaves, GnmiUpdate(w, l)
      PROVE  OverlapInv'
  <2>1. /\ TookEffect(w, l) \/ HadNone(w, l)
        /\ InCall(w) /\ clock' = clock /\ lapse' = lapse
    BY <1>2
    DEF GnmiUpdate, Write, WriteStale, Remove, RemoveStale, IdleHasNothingToDo
  <2>2. \A v \in Writers :
          /\ call'[v].n = call[v].n /\ call'[v].ts = call[v].ts
          /\ call'[v].todo \subseteq call[v].todo
          /\ call[v].done \subseteq call'[v].done
          /\ call[v].rivals \subseteq call'[v].rivals
    BY <2>1, LeafStep
  <2>3. l \notin call'[w].todo
    <3>1. \A v \in Writers :
            call'[v].todo = IF v = w THEN call[v].todo \ {l} ELSE call[v].todo
      BY <2>1, LeafStep
    <3> QED BY <3>1
  <2>4. CASE Write(w, l)
    <3>1. /\ l \in call'[w].done
          /\ \A v \in Writers \ {w} : InCall(v) => l \in call'[v].rivals
      BY <2>4, EffectAdds DEF Write
    <3>2. /\ DOMAIN tree' = DOMAIN tree \cup {l}
          /\ tree'[l].ts = call[w].ts /\ tree'[l].by = call[w].n
          /\ \A k \in DOMAIN tree \ {l} : tree'[k] = tree[k]
      BY <2>4 DEF Write
    <3>3. CallsApart'
      BY <2>2 DEF CallsApart, InCall
    <3>4. NotFromFuture'
      BY <2>1, <2>2, <3>2 DEF NotFromFuture
    <3>5. OwnLeaves'
      <4>1. ASSUME NEW v \in Writers, NEW k \in DOMAIN tree', InCall(v),
                   tree'[k].by = call[v].n
            PROVE  k \notin call'[v].todo
        <5>1. CASE k = l
          BY <2>1, <2>3, <3>2, <4>1, <5>1 DEF CallsApart
        <5>2. CASE k # l
          BY <2>2, <3>2, <4>1, <5>2 DEF OwnLeaves
        <5> QED BY <5>1, <5>2
      <4> QED BY <2>2, <4>1 DEF OwnLeaves, InCall
    <3>6. OldOrOpen'
      <4>1. ASSUME NEW k \in DOMAIN tree \ {l}, tree[k].by > lapse
            PROVE  \/ tree[k].ts < clock
                   \/ \E v \in Writers : call'[v].n = tree[k].by /\ k \in call'[v].done
        BY <2>2, <4>1 DEF OldOrOpen
      <4> QED BY <2>1, <2>2, <3>1, <3>2, <4>1 DEF OldOrOpen
    <3>7. OlderOrRival'
      <4>1. ASSUME NEW v \in Writers, NEW k \in DOMAIN tree' \ call'[v].rivals,
                   InCall(v), tree'[k].by > lapse, tree'[k].by # call[v].n
            PROVE  tree'[k].ts < call[v].ts
        <5>1. k # l
          BY <3>1, <3>2, <4>1
        <5> QED BY <2>2, <3>2, <4>1, <5>1 DEF OlderOrRival
      <4> QED BY <2>1, <2>2, <4>1 DEF OlderOrRival, InCall
    <3> QED BY <3>3, <3>4, <3>5, <3>6, <3>7
  <2>5. CASE DOMAIN tree' \subseteq DOMAIN tree /\ \A k \in DOMAIN tree' : tree'[k] = tree[k]
    <3>1. CallsApart' /\ NotFromFuture'
      BY <2>1, <2>2, <2>5 DEF CallsApart, NotFromFuture, InCall
    <3>2. OwnLeaves'
      BY <2>2, <2>5 DEF OwnLeaves, InCall
    <3>3. OldOrOpen'
      <4>1. ASSUME NEW k \in DOMAIN tree', tree[k].by > lapse
            PROVE  \/ tree[k].ts < clock
                   \/ \E v \in Writers : call'[v].n = tree[k].by /\ k \in call'[v].done
        BY <2>2, <2>5, <4>1 DEF OldOrOpen
      <4> QED BY <2>1, <2>5, <4>1 DEF OldOrOpen
    <3>4. OlderOrRival'
      BY <2>1, <2>2, <2>5 DEF OlderOrRival, InCall
    <3> QED BY <3>1, <3>2, <3>3, <3>4
  <2> QED
    BY <1>2, <2>4, <2>5 DEF GnmiUpdate, WriteStale, Remove, RemoveStale
<1>3. ASSUME NEW w \in Writers, Return(w) PROVE OverlapInv'
  <2>1. /\ call'[w].n = 0 /\ \A v \in Writers \ {w} : call'[v] = call[v]
        /\ clock' = clock + 1 /\ tree' = tree /\ lapse' = lapse
    BY <1>3 DEF Return, NoCall, TypeOK
  <2>2. CallsApart' /\ NotFromFuture'
    BY <1>0, <2>1 DEF CallsApart, NotFromFuture, InCall
  <2>3. OwnLeaves' /\ OlderOrRival'
    BY <1>0, <2>1 DEF OwnLeaves, OlderOrRival, InCall
  <2>4. OldOrOpen'
    BY <1>0, <2>1 DEF OldOrOpen, NotFromFuture
  <2> QED BY <2>2, <2>3, <2>4
<1>4. CASE SetBack
  <2>1. lapse' = calls /\ tree' = tree /\ call' = call
    BY <1>4 DEF SetBack
  <2>2. \A w \in Writers : ~(call[w].n > calls)
    BY <1>0
  <2>3. \A l \in DOMAIN tree : ~(tree[l].by > calls)
    BY <1>0
  <2>4. CallsApart' /\ OwnLeaves'
    BY <2>1 DEF CallsApart, OwnLeaves, InCall
  <2> QED BY <2>1, <2>2, <2>3, <2>4 DEF NotFromFuture, OldOrOpen, OlderOrRival
<1>5. CASE UNCHANGED vars
  BY <1>5
  DEF vars, CallsApart, NotFromFuture, OwnLeaves, OldOrOpen, OlderOrRival, InCall
<1> QED BY <1>1, <1>2, <1>3, <1>4, <1>5 DEF Next

(* The stamp before the update keeps the promise of AtomicCache: every     *)
(* call of Update takes effect at one moment between its beginning and its *)
(* return, and is without effect on a leaf only where one that overlaps it *)
(* took effect, or where a call from before the clock was set back is.     *)
THEOREM AtomicRefinement == Spec => ImplementsAtomic
<1> DEFINE content == [l \in Leaves |-> IF l \in DOMAIN tree THEN tree[l].by ELSE 0]
           open == [w \in Writers |->
                      [n |-> call[w].n, del |-> call[w].del, todo |-> call[w].todo,
                       done |-> call[w].done, rivals |-> call[w].rivals]]
<1>1. Init => Atomic!Init /\ OverlapInv
  <2> SUFFICES ASSUME Init PROVE Atomic!Init /\ OverlapInv
    OBVIOUS
  <2>1. Atomic!Init
    BY DEF Init, NoCall, Atomic!Init, Atomic!Closed
  <2>2. OverlapInv
    BY DEF Init, NoCall, InCall, OverlapInv, CallsApart, NotFromFuture, OwnLeaves,
           OldOrOpen, OlderOrRival
  <2> QED BY <2>1, <2>2
<1>2. TypeOK /\ IdleHasNothingToDo /\ OverlapInv /\ [Next]_vars => [Atomic!Next]_(Atomic!vars)
  <2> SUFFICES ASSUME TypeOK, IdleHasNothingToDo, OverlapInv, [Next]_vars
               PROVE  Atomic!Next \/ UNCHANGED Atomic!vars
    BY DEF Atomic!vars
  <2>0. call \in [Writers -> CallRecords]
    BY DEF TypeOK, CallRecords
  <2>1. ASSUME NEW w \in Writers, NEW del \in BOOLEAN, NEW ls \in (SUBSET Leaves) \ {{}},
               Stamp(w, del, ls)
        PROVE  Atomic!Begin(w, del, ls)
    <3> DEFINE R == UNION {call[v].done : v \in Others(w)}
    <3>1. /\ call[w].n = 0 /\ calls' = calls + 1 /\ UNCHANGED <<tree, lapse>>
          /\ call'[w] = [n |-> calls + 1, ts |-> clock', del |-> del, todo |-> ls, done |-> {},
                         rivals |-> R]
          /\ \A v \in Writers \ {w} : call'[v] = call[v]
      BY <2>1, StampEffect
    <3>2. R = UNION {open[v].done : v \in Atomic!Overlapping(w)}
      <4>1. Atomic!Overlapping(w) = Others(w)
        BY DEF Atomic!Overlapping, Others, InCall
      <4>2. \A v \in Others(w) : open[v].done = call[v].done
        BY DEF Others
      <4> QED BY <4>1, <4>2, ZenonT(60)
    <3> HIDE DEF R
    <3>3. open' = [open EXCEPT ![w] = [n |-> calls + 1, del |-> del, todo |-> ls, done |-> {},
                                       rivals |-> R]]
      <4>1. open'[w] = [n |-> calls + 1, del |-> del, todo |-> ls, done |-> {}, rivals |-> R]
        BY <3>1
      <4>2. \A v \in Writers \ {w} : open'[v] = open[v]
        BY <3>1
      <4>3. open' = [v \in Writers |-> open'[v]]
        OBVIOUS
      <4> HIDE DEF open
      <4>4. open = [v \in Writers |-> open[v]]
        BY DEF open
      <4> QED BY <4>1, <4>2, <4>3, <4>4
    <3>4. content' = content
      BY <3>1
    <3> QED BY <3>1, <3>2, <3>3, <3>4 DEF Atomic!Begin
  <2>2. ASSUME NEW w \in Writers, NEW l \in Leaves, GnmiUpdate(w, l)
        PROVE  Atomic!Effect(w, l) \/ Atomic!Skip(w, l)
    <3>1. /\ l \in call[w].todo /\ InCall(w) /\ UNCHANGED <<calls, lapse>>
      BY <2>2 DEF GnmiUpdate, IdleHasNothingToDo
    <3>2. l \in open[w].todo
      BY <3>1
    <3>3. ASSUME TookEffect(w, l), content' = [content EXCEPT ![l] = IF call[w].del THEN 0
                                                                     ELSE call[w].n]
          PROVE  Atomic!Effect(w, l)
      <4>1. open' = [v \in Writers |->
               IF v = w THEN [open[w] EXCEPT !.todo = @ \ {l}, !.done = @ \cup {l}]
               ELSE IF v \in Atomic!Overlapping(w) THEN [open[v] EXCEPT !.rivals = @ \cup {l}]
               ELSE open[v]]
        <5>1. Atomic!Overlapping(w) = Others(w)
          BY DEF Atomic!Overlapping, Others, InCall
        <5>2. open'[w] = [open[w] EXCEPT !.todo = @ \ {l}, !.done = @ \cup {l}]
          <6>1. call'[w] = [call[w] EXCEPT !.todo = @ \ {l}, !.done = @ \cup {l}]
            BY <3>3 DEF TookEffect
          <6>2. /\ call'[w].n = call[w].n /\ call'[w].del = call[w].del
                /\ call'[w].todo = call[w].todo \ {l}
                /\ call'[w].done = call[w].done \cup {l}
                /\ call'[w].rivals = call[w].rivals
            BY <2>0, <6>1 DEF CallRecords
          <6>3. /\ open[w] = [n |-> call[w].n, del |-> call[w].del, todo |-> call[w].todo,
                              done |-> call[w].done, rivals |-> call[w].rivals]
                /\ open'[w] = [n |-> call'[w].n, del |-> call'[w].del, todo |-> call'[w].todo,
                               done |-> call'[w].done, rivals |-> call'[w].rivals]
            OBVIOUS
          <6> HIDE DEF open
          <6>4. open'[w] = [n |-> call[w].n, del |-> call[w].del, todo |-> call[w].todo \ {l},
                            done |-> call[w].done \cup {l}, rivals |-> call[w].rivals]
            BY <6>2, <6>3
          <6> DEFINE mid == [open[w] EXCEPT !.todo = @ \ {l}]
          <6>5. mid = [n |-> call[w].n, del |-> call[w].del, todo |-> call[w].todo \ {l},
                       done |-> call[w].done, rivals |-> call[w].rivals]
            BY <6>3
          <6>6. [open[w] EXCEPT !.todo = @ \ {l}, !.done = @ \cup {l}]
                   = [mid EXCEPT !.done = call[w].done \cup {l}]
            BY <6>3
          <6> HIDE DEF mid
          <6>7. [mid EXCEPT !.done = call[w].done \cup {l}]
                   = [n |-> call[w].n, del |-> call[w].del, todo |-> call[w].todo \ {l},
                      done |-> call[w].done \cup {l}, rivals |-> call[w].rivals]
            BY <6>5
          <6> QED BY <6>4, <6>6, <6>7
        <5>3. ASSUME NEW v \in Writers \ {w}, v \in Others(w)
              PROVE  open'[v] = [open[v] EXCEPT !.rivals = @ \cup {l}]
          <6>1. call'[v] = [call[v] EXCEPT !.rivals = @ \cup {l}]
            BY <3>3, <5>3 DEF TookEffect
          <6>2. /\ call'[v].n = call[v].n /\ call'[v].del = call[v].del
                /\ call'[v].todo = call[v].todo /\ call'[v].done = call[v].done
                /\ call'[v].rivals = call[v].rivals \cup {l}
            BY <2>0, <6>1 DEF CallRecords
          <6>3. /\ open[v] = [n |-> call[v].n, del |-> call[v].del, todo |-> call[v].todo,
                              done |-> call[v].done, rivals |-> call[v].rivals]
                /\ open'[v] = [n |-> call'[v].n, del |-> call'[v].del, todo |-> call'[v].todo,
                               done |-> call'[v].done, rivals |-> call'[v].rivals]
            OBVIOUS
          <6> HIDE DEF open
          <6>4. open'[v] = [n |-> call[v].n, del |-> call[v].del, todo |-> call[v].todo,
                            done |-> call[v].done, rivals |-> call[v].rivals \cup {l}]
            BY <6>2, <6>3
          <6>5. open[v].rivals \cup {l} = call[v].rivals \cup {l}
            BY <6>3
          <6>6. [open[v] EXCEPT !.rivals = open[v].rivals \cup {l}]
                   = [n |-> call[v].n, del |-> call[v].del, todo |-> call[v].todo,
                      done |-> call[v].done, rivals |-> call[v].rivals \cup {l}]
            BY <6>3, <6>5, SMTT(30)
          <6> QED BY <6>4, <6>6
        <5>4. ASSUME NEW v \in Writers \ {w}, v \notin Others(w) PROVE open'[v] = open[v]
          BY <3>3, <5>4 DEF TookEffect
        <5>5. open' = [v \in Writers |-> open'[v]]
          OBVIOUS
        <5> HIDE DEF open
        <5> QED BY <5>1, <5>2, <5>3, <5>4, <5>5
      <4> QED BY <3>1, <3>2, <3>3, <4>1 DEF Atomic!Effect
    <3>4. CASE ~call[w].del /\ Write(w, l)
      <4>1. content' = [content EXCEPT ![l] = call[w].n]
        BY <3>4 DEF Write
      <4> QED BY <3>3, <3>4, <4>1 DEF Write
    <3>5. CASE call[w].del /\ Remove(w, l)
      <4>1. content' = [content EXCEPT ![l] = 0]
        BY <3>5 DEF Remove
      <4> QED BY <3>3, <3>5, <4>1 DEF Remove
    <3>6. CASE WriteStale(w, l) \/ RemoveStale(w, l)
      <4>1. l \in DOMAIN tree /\ call[w].ts <= tree[l].ts /\ HadNone(w, l) /\ tree' = tree
        BY <3>6 DEF WriteStale, RemoveStale, MayIgnore
      <4>2. /\ tree[l].by \in 1..calls /\ tree[l].ts \in Nat /\ call[w].ts \in Nat
            /\ lapse \in Nat
        BY <4>1 DEF TypeOK
      <4>3. l \in call[w].rivals \/ tree[l].by \in 1..lapse
        BY <3>1, <4>1, <4>2 DEF OverlapInv, OlderOrRival, OwnLeaves
      <4>4. l \in open[w].rivals \/ content[l] \in 1..lapse
        BY <4>1, <4>3
      <4>5. open' = [open EXCEPT ![w].todo = @ \ {l}]
        BY <2>0, <4>1 DEF HadNone, CallRecords
      <4> QED BY <3>1, <3>2, <4>1, <4>4, <4>5 DEF Atomic!Skip
    <3> QED BY <2>2, <3>4, <3>5, <3>6 DEF GnmiUpdate
  <2>3. ASSUME NEW w \in Writers, Return(w) PROVE Atomic!End(w)
    <3>1. open' = [open EXCEPT ![w] = Atomic!Closed]
      BY <2>0, <2>3 DEF Return, NoCall, Atomic!Closed
    <3> QED BY <2>3, <3>1 DEF Return, InCall, Atomic!End
  <2>4. CASE SetBack
    BY <2>4 DEF SetBack, Atomic!SetBack, Atomic!Next
  <2>5. CASE UNCHANGED vars
    BY <2>5 DEF vars, Atomic!vars
  <2> QED BY <2>1, <2>2, <2>3, <2>4, <2>5 DEF Next, Atomic!Next
<1> QED BY <1>1, <1>2, TypeCorrect, OverlapStep, PTL DEF Spec, ImplementsAtomic, Atomic!Spec
=============================================================================
