SPECIFICATION SagaSpec
CONSTANTS
  r1 = r1  r2 = r2  p1 = p1  Nil = Nil
  MaxTxn = 1
  Request = {r1, r2}
  Page = {p1}
  Transient = FALSE
INVARIANT BarredUntilRolledBack
CHECK_DEADLOCK FALSE
