----------------------------- MODULE MCBackfill -----------------------------
(* A small instance of Backfill for TLC: every item costs one token.         *)
EXTENDS Backfill, TLC

\* Runs are interchangeable.
AnyRun == Permutations(Runs)

\* Nothing was edited.
OwnStamp == [i \in Items |-> i]

\* The oldest item was edited or answered after the newest one was sent.
EditedStamp == [i \in Items |-> IF i = N THEN 1 ELSE i]

UnitCost == [i \in Items |-> 1]
=============================================================================
