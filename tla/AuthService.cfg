SPECIFICATION AuthSpec
CONSTANTS
  NoUser = NoUser
  NoEdit = NoEdit
  Users = {u1, u2}
  Admins = {a1, a2}
  MaxSessions = 2
  MaxEdits = 2
  MaxDeaths = 1
  Logins = {l1}
  Secrets = {u1, u2}
  Desks = {k1, k2}
  MaxIds = 2
  MaxCodes = 2
  Nothing = Nothing
  Places = {p1, p2, p3}
  Savers = {r1, r2}
  NoPlace = NoPlace
  Holders = {h1, h2}
  Chains = {s1}
  Calls = {k1, k2}
  MaxTokens = 3
  NoCall = NoCall
  Scanners = {u1, u2}
  Horizon = 2
  N = 5
  Faults = {"refuse", "migrate", "slow", "undo", "crash"}
CONSTRAINT Explored
SYMMETRY Ids
CHECK_DEADLOCK FALSE
INVARIANTS AuthTypeOK OccupancyFollows SnapshotFollows ProfilesKept CodesOnce LoginsEnd SeatsAgree
  CommittedIsProvisioned FailureIsUndone
