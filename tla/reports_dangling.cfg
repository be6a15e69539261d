SPECIFICATION ScenarioSpec
CONSTANTS
  a1 = a1  a2 = a2  p1 = p1  p2 = p2  v1 = v1  v2 = v2  v3 = v3  g1 = g1  q1 = q1  q2 = q2
  Audit = {a1, a2}
  Packages = {p1, p2}
  Cve = {v1, v2, v3}
  Item = {i1}
  Export = {g1}
  Request = {q1, q2}
  Shared = {v2, v3}
  Nil = Nil
  MaxTime = 7
  MaxUploads = 2
INVARIANTS
  SourcesKept
CHECK_DEADLOCK FALSE
