-------------------------------- MODULE MCSaga --------------------------------
(* One change, its rollback and one page, with memory of the rollbacks that  *)
(* operators prepared and that have not succeeded.                           *)
EXTENDS RemediationSaga

VARIABLE prepared

SagaInit == Init /\ prepared = {}

SagaNext ==
  /\ Next
  /\ prepared' = (prepared \cup {t \in Txn : row'[t].status = "recovery_ready"})
                   \ {t \in Txn : row'[t].status = "rolled_back"}

SagaSpec == SagaInit /\ [][SagaNext]_<<vars, prepared>>

(* "Keep the host locked until that rollback actually succeeds"              *)
(* (state-store.ts:1056-1057): a host whose rollback was prepared is barred  *)
(* until the row is rolled back, however often the rollback fails.           *)
BarredUntilRolledBack == \A t \in prepared : row[t].status \in Unresolved
=============================================================================
