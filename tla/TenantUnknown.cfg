SPECIFICATION TenantSpec
CONSTANTS
  N = 2
  Faults = {}
CHECK_DEADLOCK FALSE
INVARIANTS KnownToOrders
