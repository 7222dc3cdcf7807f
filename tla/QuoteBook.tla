------------------------------ MODULE QuoteBook ------------------------------
(***************************************************************************)
(* What the refresh machinery promises about the stored prices, whatever   *)
(* requests, refreshes, shutdowns and crashes do: a book with one quote    *)
(* time and one health mark per provider, that changes only by whole       *)
(* batches.  A batch is one refresh; it touches the providers it asked and *)
(* no other, so no quote is ever lost and no refresh undoes another.       *)
(***************************************************************************)
EXTENDS Integers

CONSTANT Provider

VARIABLES
    clock,     \* the latest the wall clock can have shown
    quotes,    \* provider -> second its quote was observed, for providers quoted so far
    marks      \* provider -> outcome of its last recorded attempt

bookVars == <<clock, quotes, marks>>

Init ==
    /\ clock \in Nat
    /\ quotes = [p \in {} |-> 0]
    /\ marks = [p \in {} |-> "SUCCESS"]

\* One committed batch: the providers in good answered no later than now, those
\* in bad failed.
Batch(good, bad) ==
    /\ good \intersect bad = {}
    /\ good \union bad # {}
    /\ DOMAIN quotes' = DOMAIN quotes \union good
    /\ \A p \in DOMAIN quotes \ good : quotes'[p] = quotes[p]
    /\ \A p \in good : quotes'[p] \in 0 .. clock
    /\ marks' = [p \in DOMAIN marks \union good \union bad |->
                    IF p \in good THEN "SUCCESS"
                    ELSE IF p \in bad THEN "FAILURE"
                    ELSE marks[p]]
    /\ UNCHANGED clock

Time ==
    /\ clock' \in Nat
    /\ UNCHANGED <<quotes, marks>>

Next ==
    \/ \E good, bad \in SUBSET Provider : Batch(good, bad)
    \/ Time

Spec == Init /\ [][Next]_bookVars
=============================================================================
