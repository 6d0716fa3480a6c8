SPECIFICATION Spec
CONSTANTS
  NoVal = NoVal
  Orders = {o1}
  Tickets = {k1, k2}
  Staff = {w1}
  Waiters = {v1, v2}
  Sources = {"customer", "waiter", "accept"}
  Faults = {"consumer", "request", "database"}
  AdminTargets = {"COMPLETED"}
  MaxRetries = 1
  MaxRequests = 3
  MaxDeaths = 1
SYMMETRY Ids
CHECK_DEADLOCK FALSE
INVARIANTS OneTicketPerOrder OrderNotAheadOfTicket
