SPECIFICATION Spec
CONSTANTS
  r1 = r1
  r2 = r2
  r3 = r3
  c1 = c1
  c2 = c2
  s1 = s1
  s2 = s2
  Rows = {r1, r2, r3}
  Dests = {"A", "B"}
  Services = {s1, s2}
  Fare = 3
  ServiceValue = 1
  PromoValue = 2
  Fee = 1
  Spend = 1
  CoinValue = 2
  Coins = 1
  Calls = {c1, c2}
  MaxEdits = 4
SYMMETRY MCSymmetry
INVARIANTS
  StopsInOrder
  CoinsConserved
  PriceExplained
  PlacedPriceStands
CHECK_DEADLOCK FALSE
