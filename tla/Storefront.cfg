SPECIFICATION Spec
CONSTANTS
  Guests = {g1}
  Foods = {u1, u2}
  Offers <- MCOffers
  Quantities <- MCQuantities
  Servers = {p1, p2}
  MaxQuantity = 1
  Entries = {m1}
  Contents = {c1, c2}
  Editors = {e1, e2}
  Readers = {p1, p2}
  MaxEdits = 2
  NoDish = NoDish
  Dishes = {d1}
  Users = {u1, u2}
  Stars = {1, 2}
  Admins = {g1}
  Posts = {p1, p2}
  None = None
  Events = {n1, n2}
  MaxRetries = 1
  MaxBreaks = 5
  NoWork = NoWork
  Persons = {u1, u2}
  Phones = {e1, e2, f3}
  Regs = {p1, p2}
  Pushes = {g1}
  Nobody = Nobody
  Portions = {u1, u2}
  Hands = {e1, e2}
  Calls = {p1, p2}
  Pods = {c1}
  MaxSaid = 3
  MaxRows = 2
  Webs = {c1, c2}
  Messages = {p1, p2}
  MaxWrites = 2
  Unasked = Unasked
  Lookups = {p1, p2}
  Tellers = {e1, e2}
  MaxChanges = 3
  NoSignal = NoSignal
  Orders = {u1, u2}
  Requests = {g1}
  Bills = {g1}
  NoRow = NoRow
SYMMETRY Sym
CHECK_DEADLOCK FALSE
INVARIANTS TypeOK ListsCurrent RatingsAgree NotifiedOnce DevicesFollow
           OrderedOnce AnswersFollow PaymentsKept BillsAgree
PROPERTIES CartIsAtomic
