SPECIFICATION Spec
CONSTANTS
  p = p
  d1 = d1
  d2 = d2
  c1 = c1
  c2 = c2
  NoStop = NoStop
  Stops = {p, d1, d2}
  Pickup = p
  Cash = {d1}
  Reported = {p}
  Fixed = FALSE
  Calls = {c1, c2}
INVARIANT AllStopsDoneCompletesOrder
CHECK_DEADLOCK FALSE
