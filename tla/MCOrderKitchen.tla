--------------------------- MODULE MCOrderKitchen ---------------------------
(* Instances of OrderKitchen for TLC. *)
EXTENDS OrderKitchen, TLC

Ids == Permutations(Orders) \cup Permutations(Tickets)
       \cup Permutations(Waiters) \cup Permutations(Staff)
=============================================================================
