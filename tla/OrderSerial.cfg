SPECIFICATION Spec
CONSTANTS
  NoVal = NoVal
  Users = {u1, u2}
  Tables = {t1}
  Keys = {k1, k2}
  Orders = {o1, o2}
  Sessions = {s1, s2}
  Procs = {p1}
  Handlers <- AutoClose
  AdminTargets = {"CREATED", "ACCEPTED", "PREPARING", "READY", "PAID", "COMPLETED", "CANCELLED"}
SYMMETRY Ids
CHECK_DEADLOCK FALSE
INVARIANTS SessionsFollowOrders
PROPERTIES MovesLegal
