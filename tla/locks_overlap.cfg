SPECIFICATION Spec
CONSTANTS
  p1 = p1  p2 = p2  h1 = h1  h2 = h2
  Alias = {a1}
  Asset = {x1}
  Conn = {k1}
  Process = {p1, p2}
  HostOf <- NewContainer
  Request = {r1, r2}
  Kinds = {"apply", "rollback", "audit"}
  Nil = Nil
  MaxTxn = 2
  MaxGen = 1
  SingleController = FALSE
INVARIANTS
  ChangeIsBarred
  RollbackNewestFirst
  ClosedRowsAreClean
PROPERTIES
  InterruptedUntilReconciled
SYMMETRY SymmetryOfRequests
\* A controller process that died is never started again, so a behaviour may
\* end when every process is down.
CHECK_DEADLOCK FALSE
