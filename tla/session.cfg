CONSTANTS
  Null = Null
  ann = ann
  c1 = c1
  c2 = c2
  r1 = r1
  r2 = r2
  Users = {ann}
  Seeded = {}
  Clients = {c1, c2}
  Requests = {r1, r2}
  TTL = 2
  MaxTime = 2
  MaxRows = 2
SYMMETRY Interchangeable
SPECIFICATION Spec
INVARIANTS
  TypeOK
  SessionsHaveUsers
  CookieWasStored
  RetiredStaysRetired
CHECK_DEADLOCK FALSE
