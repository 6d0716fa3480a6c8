SPECIFICATION FairSpec
CONSTANTS
  NoVal = NoVal
  Orders = {o1}
  Tickets = {k1, k2}
  Staff = {w1}
  Waiters = {}
  Sources = {"customer", "waiter", "admin", "cancel", "replay"}
  Faults = {"consumer", "others"}
  AdminTargets = {"ACCEPTED", "COMPLETED", "CANCELLED"}
  MaxRetries = 1
  MaxRequests = 3
  MaxDeaths = 1

CHECK_DEADLOCK FALSE
INVARIANTS CancelledNotQueued
PROPERTIES TrafficEnds ReadyArrives
