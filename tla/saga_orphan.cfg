SPECIFICATION SagaSpec
CONSTANTS
  r1 = r1  p1 = p1  Nil = Nil
  MaxTxn = 1
  Request = {r1}
  Page = {p1}
  Transient = TRUE
INVARIANT TargetIsRecoverable
CHECK_DEADLOCK FALSE
