----------------------------- MODULE AtomicCache -----------------------------
(***************************************************************************)
(* What the ingesters expect of internal/state/cache.go: a call of Update  *)
(* takes effect on each of its leaves at one moment between its beginning  *)
(* and its return.  It may go without effect on a leaf only where a call   *)
(* that overlaps it took effect, or, after the clock was set back, where   *)
(* the leaf holds a call that began before that.  There are no timestamps  *)
(* here: this is the promise, StateCache is how it is kept.                *)
(***************************************************************************)
EXTENDS Naturals

CONSTANTS Writers,      \* goroutines that call Update
          Leaves        \* leaves of the tree

VARIABLES
    content,    \* per leaf: the number of the call whose value it holds, or 0
    begun,      \* calls begun so far
    open,       \* per writer: the call it is in, Closed when it is in none
    lapse       \* the calls up to this number began before the clock was set back

vars == <<content, begun, open, lapse>>

Closed == [n |-> 0, del |-> FALSE, todo |-> {}, done |-> {}, rivals |-> {}]
Overlapping(w) == {v \in Writers \ {w} : open[v].n > 0}

Init ==
    /\ content = [l \in Leaves |-> 0]
    /\ begun = 0 /\ lapse = 0
    /\ open = [w \in Writers |-> Closed]

(* rivals: the leaves on which overlapping calls have taken effect.        *)
Begin(w, del, ls) ==
    /\ open[w].n = 0
    /\ begun' = begun + 1
    /\ open' = [open EXCEPT ![w] =
           [n |-> begun + 1, del |-> del, todo |-> ls, done |-> {},
            rivals |-> UNION {open[v].done : v \in Overlapping(w)}]]
    /\ UNCHANGED <<content, lapse>>

Effect(w, l) ==
    /\ l \in open[w].todo
    /\ content' = [content EXCEPT ![l] = IF open[w].del THEN 0 ELSE open[w].n]
    /\ open' = [v \in Writers |->
           IF v = w THEN [open[w] EXCEPT !.todo = @ \ {l}, !.done = @ \cup {l}]
           ELSE IF v \in Overlapping(w) THEN [open[v] EXCEPT !.rivals = @ \cup {l}]
           ELSE open[v]]
    /\ UNCHANGED <<begun, lapse>>

Skip(w, l) ==
    /\ l \in open[w].todo
    /\ \/ l \in open[w].rivals
       \/ content[l] \in 1..lapse
    /\ open' = [open EXCEPT ![w].todo = @ \ {l}]
    /\ UNCHANGED <<content, begun, lapse>>

End(w) ==
    /\ open[w].n > 0 /\ open[w].todo = {}
    /\ open' = [open EXCEPT ![w] = Closed]
    /\ UNCHANGED <<content, begun, lapse>>

SetBack ==
    /\ lapse' = begun
    /\ UNCHANGED <<content, begun, open>>

Next ==
    \/ \E w \in Writers :
          \/ \E del \in BOOLEAN, ls \in (SUBSET Leaves) \ {{}} : Begin(w, del, ls)
          \/ \E l \in Leaves : Effect(w, l) \/ Skip(w, l)
          \/ End(w)
    \/ SetBack

Spec == Init /\ [][Next]_vars
=============================================================================
