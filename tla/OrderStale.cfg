SPECIFICATION Spec
CONSTANTS
  NoVal = NoVal
  Users = {u1}
  Tables = {t1}
  Keys = {k1, k2}
  Orders = {o1, o2}
  Sessions = {s1, s2}
  Procs = {p1, p2}
  Handlers = {"customer", "cancel", "accept"}
  AdminTargets = {"COMPLETED"}
SYMMETRY Ids
CHECK_DEADLOCK FALSE
PROPERTIES MovesLegal
