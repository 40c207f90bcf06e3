SPECIFICATION Spec
CONSTANTS
  i1 = i1
  i2 = i2
  c1 = c1
  c2 = c2
  NoIntent = NoIntent
  Deposits = {i1, i2}
  Amounts = {1}
  Opening = 1
  Calls = {c1, c2}
  MaxAsked = 2
INVARIANTS
  
  OverdraftNeedsStaleCheck
PROPERTIES
  ImplementsDeposit
  PaidIsSettled
CHECK_DEADLOCK FALSE
