SPECIFICATION PlacementSpec
CONSTANTS
  i1 = i1
  o1 = o1
  c1 = c1
  c2 = c2
  NoIntent = NoIntent
  Deposits = {i1}
  Amounts = {1}
  Opening = 2
  Calls = {c1, c2}
  MaxAsked = 1
  Payments = {o1}
  Cost = 2
  Methods = {"WALLET", "ONLINE_PAY"}
  SetTo = {"PENDING", "CANCELLED"}
  Bulk = TRUE
  MaxPlaced = 2
SYMMETRY MCSymmetry
INVARIANTS
  MoneyFollowsOrder
CHECK_DEADLOCK FALSE
