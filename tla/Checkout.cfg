SPECIFICATION CheckoutSpec
CONSTANTS
  p = p
  d1 = d1
  c1 = c1
  c2 = c2
  x1 = x1
  x2 = x2
  w1 = w1
  NoStop = NoStop
  NoSession = NoSession
  Stops = {p, d1}
  Pickup = p
  Cash = {p, d1}
  Reported = {}
  Fixed = TRUE
  Calls = {c1, c2}
  CheckoutSessions = {x1, x2}
  Webhooks = {w1}
  MaxDeliveries = 2
SYMMETRY MCSymmetry
INVARIANT CardPaidDelivery
CHECK_DEADLOCK FALSE
