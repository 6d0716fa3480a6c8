SPECIFICATION Spec
CONSTANTS
  NoVal = NoVal
  Users = {u1, u2}
  Tables = {t1}
  Keys = {k1}
  Orders = {o1, o2}
  Sessions = {s1, s2}
  Procs = {p1, p2}
  Handlers <- Locking
  AdminTargets = {"COMPLETED"}
SYMMETRY Ids
CHECK_DEADLOCK FALSE
INVARIANTS TypeOK OneActiveSessionPerTable OneUserPerSession CancellationIsFinal
PROPERTIES OrdersJoinActiveSessions KitchenMovesLegal
