----------------------------- MODULE StateCache ------------------------------
(***************************************************************************)
(* The cache every ingester writes: internal/state/cache.go.  Update reads *)
(* the wall clock and then hands the stamped notification to the external  *)
(* openconfig/gnmi cache, which applies it leaf by leaf: a leaf takes an   *)
(* update unless it holds a newer stamp, a delete removes what is older    *)
(* than itself, and nothing is kept of a leaf that is gone.  Writers run   *)
(* between the stamp and the leaves of one another.                        *)
(*                                                                         *)
(* The value of a leaf is the number of the call that wrote it.            *)
(***************************************************************************)
EXTENDS Integers, Sequences

CONSTANTS
    Writers,    \* goroutines that call Update
    Leaves,     \* leaves of the tree
    MaxCalls,   \* bound of the model: calls of Update
    MaxSetBack  \* bound of the model: times the clock is set back

ASSUME StateCacheAssumption == MaxCalls \in Nat /\ MaxSetBack \in Nat

VARIABLES
    clock,      \* what time.Now() returns next, at the earliest
    tree,       \* the cache: a function on the leaves that are present
    call,       \* per writer: its call of Update, NoCall when it is in none
    calls,      \* calls begun so far; numbers the calls
    readings,   \* history: what the clock showed when each call began
    setBack,    \* history: times the clock was set back
    lapse,      \* history: calls begun when the clock was set back last
    newest,     \* history: per leaf, when its newest update and its newest delete began
    revived     \* history: leaves written by an update that began before a delete

vars == <<clock, tree, call, calls, readings, setBack, lapse, newest, revived>>

NoCall == [n |-> 0, ts |-> 0, del |-> FALSE, todo |-> {}, done |-> {}, rivals |-> {}]
InCall(w) == call[w].n > 0
Others(w) == {v \in Writers \ {w} : InCall(v)}

Init ==
    /\ clock = 1
    /\ tree = [l \in {} |-> 0]
    /\ call = [w \in Writers |-> NoCall]
    /\ calls = 0 /\ readings = <<>> /\ setBack = 0 /\ lapse = 0
    /\ newest = [l \in Leaves |-> [up |-> 0, del |-> 0]]
    /\ revived = {}
-----------------------------------------------------------------------------
(* Update: the notification is stamped.  Two readings of the clock may be  *)
(* equal.  done and rivals are history: the leaves on which this call, and *)
(* those that overlap it, took effect.                                     *)
TimestampInSeconds(now) == now \div 2   \* a fault: Unix() in place of UnixNano()
TimestampOfZeroTime(now) == -1      \* a fault: the stamp of an unset time.Time
Timestamp(now) == now

Stamp(w, del, ls) ==
    /\ ~InCall(w) /\ calls < MaxCalls
    /\ \E now \in {clock, clock + 1} :
          /\ clock' = now
          /\ readings' = Append(readings, now)
          /\ call' = [call EXCEPT ![w] =
                 [n |-> calls + 1, ts |-> Timestamp(now), del |-> del, todo |-> ls,
                  done |-> {}, rivals |-> UNION {call[v].done : v \in Others(w)}]]
    /\ calls' = calls + 1
    /\ UNCHANGED <<tree, setBack, lapse, newest, revived>>

(* GnmiUpdate, one leaf.  Equal stamps may be decided either way.          *)
MayWrite(w, l)   == l \in DOMAIN tree => call[w].ts >= tree[l].ts
MayIgnore(w, l)  == l \in DOMAIN tree /\ call[w].ts <= tree[l].ts
MayRemove(w, l)  == l \in DOMAIN tree => call[w].ts >= tree[l].ts

TookEffect(w, l) == call' =
    [v \in Writers |->
        IF v = w THEN [call[w] EXCEPT !.todo = @ \ {l}, !.done = @ \cup {l}]
        ELSE IF v \in Others(w) THEN [call[v] EXCEPT !.rivals = @ \cup {l}]
        ELSE call[v]]
HadNone(w, l) == call' = [call EXCEPT ![w].todo = @ \ {l}]

Later(a, b) == IF a > b THEN a ELSE b
Began(w) == readings[call[w].n]
IsNewest(w, l) == Began(w) >= Later(newest[l].up, newest[l].del)
RecordUpdate(w, l) ==
    /\ newest' = [newest EXCEPT ![l].up = Later(@, Began(w))]
    /\ revived' = IF l \notin DOMAIN tree /\ Began(w) < newest[l].del THEN revived \cup {l}
                  ELSE IF IsNewest(w, l) THEN revived \ {l} ELSE revived
RecordDelete(w, l) ==
    /\ newest' = [newest EXCEPT ![l].del = Later(@, Began(w))]
    /\ revived' = IF IsNewest(w, l) THEN revived \ {l} ELSE revived

Write(w, l) ==
    /\ MayWrite(w, l)
    /\ tree' = [k \in DOMAIN tree \cup {l} |->
                   IF k = l THEN [ts |-> call[w].ts, by |-> call[w].n] ELSE tree[k]]
    /\ TookEffect(w, l) /\ RecordUpdate(w, l)
WriteStale(w, l) ==             \* the leaf holds a newer stamp: rejected
    /\ MayIgnore(w, l)
    /\ HadNone(w, l) /\ RecordUpdate(w, l) /\ UNCHANGED tree
Remove(w, l) ==
    /\ MayRemove(w, l)
    /\ tree' = [k \in DOMAIN tree \ {l} |-> tree[k]]
    /\ TookEffect(w, l) /\ RecordDelete(w, l)
RemoveStale(w, l) ==
    /\ MayIgnore(w, l)
    /\ HadNone(w, l) /\ RecordDelete(w, l) /\ UNCHANGED tree

GnmiUpdate(w, l) ==
    /\ l \in call[w].todo
    /\ \/ ~call[w].del /\ (Write(w, l) \/ WriteStale(w, l))
       \/ call[w].del /\ (Remove(w, l) \/ RemoveStale(w, l))
    /\ UNCHANGED <<clock, calls, readings, setBack, lapse>>

(* A call takes longer than the clock's resolution.                        *)
Return(w) ==
    /\ InCall(w) /\ call[w].todo = {}
    /\ call' = [call EXCEPT ![w] = NoCall]
    /\ clock' = clock + 1
    /\ UNCHANGED <<tree, calls, readings, setBack, lapse, newest, revived>>
-----------------------------------------------------------------------------
(* The wall clock is set back, by NTP or by hand.                          *)
SetBack ==
    /\ setBack < MaxSetBack
    /\ setBack' = setBack + 1
    /\ \E t \in 0..clock - 1 : clock' = t
    /\ lapse' = calls
    /\ UNCHANGED <<tree, call, calls, readings, newest, revived>>

Next ==
    \/ \E w \in Writers :
          \/ \E del \in BOOLEAN, ls \in (SUBSET Leaves) \ {{}} : Stamp(w, del, ls)
          \/ \E l \in Leaves : GnmiUpdate(w, l)
          \/ Return(w)
    \/ SetBack

Spec == Init /\ [][Next]_vars
-----------------------------------------------------------------------------
(* Type invariant: in particular no leaf holds a stamp before the epoch,   *)
(* and every value is that of a call that has begun.                       *)
TypeOK ==
    /\ clock \in Nat /\ calls \in 0..MaxCalls /\ lapse \in 0..calls
    /\ setBack \in 0..MaxSetBack
    /\ readings \in Seq(Nat) /\ Len(readings) = calls
    /\ DOMAIN tree \subseteq Leaves
    /\ tree \in [DOMAIN tree -> [ts : Nat, by : 1..calls]]
    /\ call \in [Writers -> [n : 0..calls, ts : Nat, del : BOOLEAN, todo : SUBSET Leaves,
                             done : SUBSET Leaves, rivals : SUBSET Leaves]]
    /\ newest \in [Leaves -> [up : Nat, del : Nat]]
    /\ revived \subseteq Leaves

(* The stamp taken before the update (cache.go:40) keeps the promise of    *)
(* AtomicCache: a write is lost only to one that overlaps it, or to one    *)
(* that began before the clock was set back.                               *)
Atomic == INSTANCE AtomicCache WITH
    content <- [l \in Leaves |-> IF l \in DOMAIN tree THEN tree[l].by ELSE 0],
    begun   <- calls,
    open    <- [w \in Writers |->
                   [n |-> call[w].n, del |-> call[w].del, todo |-> call[w].todo,
                    done |-> call[w].done, rivals |-> call[w].rivals]],
    lapse   <- lapse
ImplementsAtomic == Atomic!Spec

(* Whatever the order in which the writers of a leaf were applied, it      *)
(* holds the value of the update that began last, and is absent where a    *)
(* delete began later than every update; the exception is an update that   *)
(* comes after a delete it should precede: the cache remembers nothing of  *)
(* a leaf that is gone.                                                    *)
NewestWins ==
    \A l \in Leaves \ revived :
        /\ l \in DOMAIN tree => /\ readings[tree[l].by] = newest[l].up
                                /\ newest[l].up >= newest[l].del
        /\ l \notin DOMAIN tree => newest[l].del >= newest[l].up
=============================================================================
