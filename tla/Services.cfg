SPECIFICATION MCSpec
CONSTANTS
  d1 = d1
  d2 = d2
  a1 = a1
  a2 = a2
  c1 = c1
  c2 = c2
  k1 = k1
  k2 = k2
  o1 = o1
  h1 = h1
  h2 = h2
  s1 = s1
  s2 = s2
  e1 = e1
  e2 = e2
  j1 = j1
  j2 = j2
  n1 = n1
  n2 = n2
  ed1 = ed1
  v1 = v1
  q1 = q1
  m1 = m1
  m2 = m2
  ad1 = ad1
  t1 = t1
  t2 = t2
  w1 = w1
  w2 = w2
  w3 = w3
  g1 = g1
  NoRow = NoRow
  Disputes = {d1, d2}
  Appeals = {a1, a2}
  Refund = 2
  Shares = {0, 1}
  RiderOpening = 1
  DisputeCalls = {c1, c2}
  MaxDecided = 3
  CoinOpening = 1
  Amounts = {1, 2}
  Configured = 1
  RewardCalls = {c1, c2}
  MaxAsked = 3
  MaxDays = 2
  Sockets = {k1, k2}
  Orders = {o1}
  Handlers = {h1, h2}
  MaxSessions = 2
  MaxEvents = 3
  NoStopYet = NoStopYet
  RouteStops = {s1, s2}
  Evaluations = {e1, e2}
  Jobs = {j1, j2}
  Attempts = 2
  SchedulerRuns = {n1, n2}
  Edits = {ed1}
  LastTime = 1
  MaxOrdered = 2
  MaxSends = 3
  TopTier = 3
  Evaluators = {v1}
  Switches = {q1}
  NoDevice = NoDevice
  Devices = {m1, m2}
  Admins = {ad1}
  MaxCodes = 2
  MaxLogins = 2
  MaxSignIns = 4
  Chatters = {t1, t2}
  Writers = {t1}
  ChatSockets = {w1, w2, w3}
  Messages = {g1}
  ChatOrders = {o1}
  MaxRestarts = 1
INVARIANTS
  OneActiveDispute
  RefundPerDecision
  DailyLoginOnce
  
  
  
  
  SentAsOrdered
  OverrideStands
  LoginFollowsToken
  MessageArrives
CHECK_DEADLOCK FALSE
