SPECIFICATION Spec
CONSTANTS
  r1 = r1
  r2 = r2
  s1 = s1
  s2 = s2
  c1 = c1
  NoRider = NoRider
  Placer = Placer
  Riders = {r1, r2}
  Sessions = {s1, s2}
  JoinerOf <- MCJoinerOf
  Located = {r1, r2}
  Elite = {}
  MaxCompetitors = 1
  Calls = {c1}
  CallerOf <- MCCallerOf
  MaxListed = 1
  MaxRestarts = 1
INVARIANTS
  RiderWasWilling
PROPERTY OnlyKnownOverwrites
CHECK_DEADLOCK FALSE
