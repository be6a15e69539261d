---------------------------- MODULE MCAdmission ----------------------------
(* Two scenarios of AssetLocks explored side by side: which kinds of        *)
(* requests arrive, and how many transactions are ever created. Changes     *)
(* compete for two transactions, or one change competes with everything     *)
(* else that takes a lease.                                                 *)
EXTENDS MCAssetLocks

Scenarios ==
  { [kinds |-> {"apply", "rollback"}, txns |-> 2],
    [kinds |-> {"apply", "closeout", "audit", "direct", "scan"}, txns |-> 1] }

VARIABLE scenario

Within ==
  /\ \A r \in Request : req'[r].kind \in scenario.kinds \cup {"idle"}
  /\ \A t \in Txn : t > scenario.txns => txn'[t] = NoRow

ScenarioInit == Init /\ scenario \in Scenarios
ScenarioNext == Next /\ Within /\ UNCHANGED scenario
ScenarioSpec == ScenarioInit /\ [][ScenarioNext]_<<vars, scenario>>
=============================================================================
