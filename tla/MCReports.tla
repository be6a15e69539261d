------------------------------ MODULE MCReports ------------------------------
(* Scenarios of Reports explored side by side: which ids are ever used,     *)
(* which requests arrive, how many dated steps are taken, and which of the  *)
(* operator's tools he works with.                                          *)
EXTENDS Reports, TLC

CONSTANTS a1, a2, p1, p2, v1, v2, v3, g1, q1, q2

VARIABLE scenario

Scenarios ==
  { [name |-> "chain",    old |-> {},           new |-> {p1, v1, g1}, requests |-> {q1, q2}, time |-> 3,
     ops |-> {"delete", "transfer"}],
    [name |-> "again",    old |-> {},           new |-> {p1, v1},     requests |-> {q1},     time |-> 2,
     ops |-> {"delete", "transfer", "archive"}],
    [name |-> "shared",   old |-> {p1, v2, v3}, new |-> {v1, g1},     requests |-> {q1},     time |-> 1,
     ops |-> {"delete", "transfer"}],
    [name |-> "export",   old |-> {},           new |-> {a1, a2, g1}, requests |-> {q1},     time |-> 2,
     ops |-> {"plan", "archive", "delete"}],
    [name |-> "decision", old |-> {},           new |-> {a1, a2},     requests |-> {},       time |-> 7,
     ops |-> {"plan", "delete"}],
    [name |-> "proof",    old |-> {p1, v2, v3}, new |-> {p2, v1},     requests |-> {q1},     time |-> 7,
     ops |-> {"plan"}] }

(* Ids are given in order; of two that mean the same one is enough.         *)
Within ==
  /\ a2 \in used' => a1 \in used'
  /\ used' \subseteq scenario.old \cup scenario.new
  /\ now' <= scenario.time
  /\ \A q \in Request : task'[q] # Idle => q \in scenario.requests
  /\ "plan" \in scenario.ops \/ item' = item
  /\ "archive" \in scenario.ops \/ preview' = Nil
  /\ "delete" \in scenario.ops \/ saved \subseteq saved'
  /\ "transfer" \in scenario.ops \/ \A q \in Request : task'[q].op \notin {"upload", "download"}

ScenarioInit == Init /\ scenario \in Scenarios /\ used = scenario.old /\ sboms \subseteq {v2}
ScenarioNext == Next /\ Within /\ UNCHANGED scenario
ScenarioSpec == ScenarioInit /\ [][ScenarioNext]_<<vars, scenario>>
=============================================================================
