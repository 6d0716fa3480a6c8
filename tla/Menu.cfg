SPECIFICATION Spec
CONSTANTS
  NoVal = NoVal
  Dishes = {d1}
  Writers = {w1, w2}
  Replicas = {"order", "ai"}
  Contents = {c1, c2}
  MaxEdits = 3
  MaxDeaths = 1
CONSTRAINT Explored
SYMMETRY Ids
CHECK_DEADLOCK FALSE
INVARIANTS SnapshotsAgree
