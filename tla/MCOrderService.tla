--------------------------- MODULE MCOrderService ---------------------------
(* Instances of OrderService for TLC. *)
EXTENDS OrderService, TLC

\* Handlers that write under a lock, or write back a terminal status.
Locking == {"customer", "cancel", "admin", "kitchen", "close", "crash"}

\* Sessions are closed by update_status only, and nothing is rolled back.
AutoClose == AllHandlers \ {"close", "idle", "crash", "expiry"}

Ids == Permutations(Orders) \cup Permutations(Sessions) \cup Permutations(Users)
       \cup Permutations(Procs)
=============================================================================
