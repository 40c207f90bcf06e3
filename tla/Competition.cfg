SPECIFICATION CompFairSpec
CONSTANTS
  r1 = r1
  r2 = r2
  r3 = r3
  a1 = a1
  a2 = a2
  b = b
  c = c
  NoRider = NoRider
  Riders = {r1, r2, r3}
  Sessions = {a1, a2, b, c}
  RiderOf <- MCRiderOf
  Located = {r1, r2}
  Elite = {r2}
  MaxCompetitors = 2
  LockMayExpire = FALSE
  MaxRestarts = 1
INVARIANTS
  CompetitorsBounded
  
PROPERTIES
  ImplementsAward
  
CHECK_DEADLOCK FALSE
