-------------------------- MODULE MCMenuSnapshots --------------------------
(* Instances of MenuSnapshots for TLC. *)
EXTENDS MenuSnapshots, TLC

Ids == Permutations(Dishes) \cup Permutations(Writers) \cup Permutations(Contents)

\* After three requests no consumer dies and no event is refused.
Explored == edits + deaths <= MaxEdits
=============================================================================
