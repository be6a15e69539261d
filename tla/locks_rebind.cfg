SPECIFICATION Spec
CONSTANTS
  p1 = p1  p2 = p2  h1 = h1  h2 = h2
  Alias = {a1, a2}
  Asset = {x1, x2}
  Conn = {k1}
  Process = {p1}
  HostOf <- SameHost
  Request = {r1, r2}
  Kinds = {"apply", "rollback", "relocate", "rebind", "scan"}
  Nil = Nil
  MaxTxn = 1
  MaxGen = 2
  SingleController = TRUE
PROPERTIES
  ImplementsMachineLock
  BindingStaysUnderUse
SYMMETRY Symmetry
\* A controller process that died is never started again, so a behaviour may
\* end when every process is down.
CHECK_DEADLOCK FALSE
