SPECIFICATION Spec
CONSTANTS
  Digest = {d1}
  Session = {s1}
  MaxAge = 1
  MaxTime = 1
  Nil = Nil
INVARIANT
  InterruptedImportsRetry
CHECK_DEADLOCK FALSE
