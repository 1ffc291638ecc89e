SPECIFICATION CalmSpec
SYMMETRY Symmetry
CONSTANTS
  a1 = a1
  a2 = a2
  c1 = c1
  m1 = m1
  m2 = m2
  t1 = t1
  t2 = t2
  t3 = t3
  old = old
  User = {a1, c1, m1, m2}
  Token = {t1}
  Reset = {k1}
  Password = {old}
  Proc = {p1, p2}
  None = None
  AccessTTL = 2
  RefreshTTL = 2
  MaxTime = 1
  Population <- MCPopulation
  SignedIn <- MCSignedIn
  Offered = {"account", "assignment"}
  MaxWrites = 3
INVARIANTS ManagerLogged
PROPERTIES ApprovedHasManager
CHECK_DEADLOCK FALSE
