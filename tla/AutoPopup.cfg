SPECIFICATION PopFairSpec
CONSTANTS
  r1 = r1
  r2 = r2
  r3 = r3
  a1 = a1
  a2 = a2
  b = b
  NoRider = NoRider
  Placer = Placer
  Riders = {r1, r2, r3}
  Calls = {a1, a2, b}
  RiderOf <- MCRiderOf
  MaxListed = 3
  SlowHandlers = FALSE
  SlowWorker = FALSE
  MaxRestarts = 1
INVARIANTS
  AskedInTurn
  AssignedIsGuarded
  
PROPERTIES
  ChainEnds
CHECK_DEADLOCK FALSE
