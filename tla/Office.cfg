SPECIFICATION MCSpec
CONSTANTS
  u1 = u1
  u2 = u2
  run1 = run1
  run2 = run2
  req1 = req1
  Users = {u1, u2}
  Runs = {run1, run2}
  Requests = {req1}
  NoUser = NoUser
  Troubled = {u1}
  MaxClaims = 2
  MaxPaid = 3
  MaxIncentiveEdits = 2
  i1 = i1
  i2 = i2
  n1 = n1
  n2 = n2
  Ids = {i1, i2}
  Names = {n1, n2}
  Clerks = {c1, c2}
  MaxEdits = 3
  LastRow = 6
  FirstRows = {2, 3, 4}
  Limit = 2
  MaxShifts = 3
  admin = admin
  rider = rider
  r1 = r1
  r2 = r2
  p1 = p1
  p2 = p2
  c1 = c1
  c2 = c2
  StaticRoles = {admin, rider}
  CustomRoles = {r1, r2}
  Members = {u1}
  Permissions = {p1, p2}
  Basic = {p1}
  Full = {p2}
  RoleCalls = {c1, c2}
  MaxRoleCalls = 4
INVARIANTS
  
  
  NamesUnique
  ReaderSeesAll
  RightsAsDecided

  
CHECK_DEADLOCK FALSE
