SPECIFICATION ScenarioSpec
CONSTANTS
  p1 = p1  p2 = p2  h1 = h1  h2 = h2
  Alias = {a1, a2}
  Asset = {x1}
  Conn = {k1}
  Process = {p1}
  HostOf <- SameHost
  Request = {r1, r2}
  Kinds = {"apply", "rollback", "closeout", "audit", "direct", "scan"}
  Nil = Nil
  MaxTxn = 2
  MaxGen = 1
  SingleController = TRUE
INVARIANTS
  TypeOK
  OneUnresolvedPerAsset
  OneChangePerAsset
  LiveRunsExclusive
  CloseoutExcludesRemediation
SYMMETRY Symmetry
\* A controller process that died is never started again, so a behaviour may
\* end when every process is down.
CHECK_DEADLOCK FALSE
