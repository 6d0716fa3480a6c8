--------------------------- MODULE MCConsumerLoop ---------------------------
(* Instances of ConsumerLoop for TLC. *)
EXTENDS ConsumerLoop, TLC

Ids == Permutations(Messages)
=============================================================================
