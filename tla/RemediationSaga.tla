--------------------------- MODULE RemediationSaga ---------------------------
(* What requests, operators and the helper of one machine do to a change of  *)
(* its firewall and its rollback: every write of the store and every command *)
(* is a step of its own, a write may fail, an answer may be lost, a page may *)
(* submit a form that it opened long ago. The helper is the interface of     *)
(* TargetFirewall, whose assumptions about the callers are shown here; other *)
(* aliases, leases, jobs and closeouts are those of AssetLocks.              *)
EXTENDS Naturals

CONSTANTS
  MaxTxn,      \* bound: transactions ever created
  Request, Page, Nil,
  Transient    \* TRUE: a store that refused a write may accept the next one

Txn == 1 .. MaxTxn

(* The module that instantiates this one assumes it; Nil is no owner either. *)
SagaAssumption == MaxTxn \in Nat /\ Nil \notin Request \cup {"live", "dead", "unknown"} /\ Transient \in BOOLEAN

VARIABLES
  row,      \* remediation_transactions, in rowid order
  req,      \* the requests applyRemediation and rollbackRemediation
  remote,   \* commands on their way to the machine or running there
  target,   \* what the machine went through for each transaction
  form,     \* the recovery form of each page
  store     \* whether SQLite accepts writes

vars == <<row, req, remote, target, form, store>>

-----------------------------------------------------------------------------
(* Records                                                                   *)

Working    == {"preparing", "backed_up", "rolling_back"}
Unresolved == Working \cup {"interrupted", "recovery_ready"}
Claimable  == {"applied", "failed", "rollback_failed", "recovery_ready"}
Status     == Unresolved \cup Claimable \cup {"none", "rolled_back", "cancelled"}
Owner      == {Nil, "live", "dead", "unknown"}
NoRow      == [status |-> "none", from |-> "none", owner |-> Nil, backup |-> FALSE]

Op      == {"backup", "apply", "rollback"}
Outcome == {"none", "ok", "failed", "unknown"}
Asleep  == [at |-> "asleep", op |-> "backup", txn |-> 0, seen |-> "none", result |-> "none"]
Command == [txn : Txn, op : Op, verified : BOOLEAN, by : Request \cup {Nil}]

(* The marker of the active operation names the transactions Held.           *)
Held    == {"saved", "apply_failed", "apply_unknown", "restoring", "reload_unknown"}
Changed == (Held \ {"saved"}) \cup {"changed"}
Target  == Held \cup Changed \cup {"untouched", "restored"}

TypeOK ==
  /\ row \in [Txn -> [status : Status, from : Status, owner : Owner, backup : BOOLEAN]]
  /\ req \in [Request -> [at : {"asleep", "capture", "preAudit", "send", "run", "postAudit", "catch"},
                          op : Op, txn : 0 .. MaxTxn, seen : Status, result : Outcome]]
  /\ remote \subseteq Command
  /\ target \in [Txn -> Target]
  /\ form \in [Page -> [txn : Txn, found : Target \cup {Nil}, valid : BOOLEAN, quiet : BOOLEAN] \cup {Nil}]
  /\ store \in {"up", "down"}

-----------------------------------------------------------------------------
(* The row                                                                   *)

Recovered == [t \in Txn |->
  IF row[t].status \in Working /\ row[t].owner = "dead"
  THEN [row[t] EXCEPT !.status = "interrupted", !.from = row[t].status] ELSE row[t]]

Updated(x, status, backup) ==
  [status |-> status, backup |-> backup,
   owner |-> IF status \in Working THEN x.owner ELSE Nil,
   from |-> IF status = "interrupted" /\ x.status # "interrupted" THEN x.status ELSE x.from]

(* Every update has a new recovery version, which the open forms lack.       *)
NewVersion(t) == [p \in Page |-> IF form[p] # Nil /\ form[p].txn = t THEN [form[p] EXCEPT !.valid = FALSE] ELSE form[p]]

Update(t, status, backup) ==
  /\ row' = [row EXCEPT ![t] = Updated(@, status, backup)]
  /\ form' = NewVersion(t)

Idle(rows, except) == \A t \in Txn \ {except} : rows[t].status \notin Unresolved

Newer(rows, t) == \E u \in Txn :
  /\ u > t
  /\ \/ rows[u].status \in {"interrupted", "recovery_ready", "preparing"}
     \/ rows[u].backup /\ rows[u].status \in {"applied", "failed", "rollback_failed", "rolling_back", "backed_up"}

-----------------------------------------------------------------------------
(* applyRemediation and rollbackRemediation                                  *)

To(r, thread) == req' = [req EXCEPT ![r] = thread]
End(r) == To(r, Asleep)
Catch(r) == To(r, [req[r] EXCEPT !.at = "catch", !.result = IF @ = "unknown" THEN @ ELSE "failed"])
At(r, at) == req[r].at = at
Is(r, op) == req[r].op = op

StartApply(r) ==
  /\ At(r, "asleep") /\ To(r, [Asleep EXCEPT !.at = "capture"])
  /\ UNCHANGED <<row, remote, target, form, store>>

(* The status that the rollback goes by is read before its first await.      *)
StartRollback(r, t) ==
  /\ At(r, "asleep") /\ row[t].status \in Claimable /\ row[t].backup
  /\ To(r, [Asleep EXCEPT !.at = "capture", !.op = "rollback", !.txn = t, !.seen = row[t].status])
  /\ UNCHANGED <<row, remote, target, form, store>>

CreateRemediation(r) ==
  LET rows == Recovered IN
    /\ At(r, "capture") /\ ~ Is(r, "rollback")
    /\ IF store = "up" /\ Idle(rows, 0)
       THEN \E t \in Txn :
              /\ row[t] = NoRow /\ \A u \in 1 .. t - 1 : row[u] # NoRow
              /\ row' = [rows EXCEPT ![t] = [NoRow EXCEPT !.status = "preparing", !.owner = "live"]]
              /\ To(r, [req[r] EXCEPT !.at = "preAudit", !.txn = t])
       ELSE End(r) /\ row' = IF store = "up" THEN rows ELSE row
    /\ UNCHANGED <<remote, target, form, store>>

(* Mutant: the claim keeps the version of the row.                           *)
OldForms(t) == form

ClaimedForms(t) == NewVersion(t)

ClaimRollback(r) ==
  LET rows == Recovered  t == req[r].txn IN
    /\ At(r, "capture") /\ Is(r, "rollback")
    /\ IF store = "up" /\ rows[t].status \in Claimable /\ rows[t].backup /\ Idle(rows, t) /\ ~ Newer(rows, t)
       THEN /\ row' = [rows EXCEPT ![t].status = "rolling_back", ![t].owner = "live", ![t].from = "none"]
            /\ form' = ClaimedForms(t)
            /\ To(r, [req[r] EXCEPT !.at = "send"])
       ELSE End(r) /\ row' = (IF store = "up" THEN rows ELSE row) /\ UNCHANGED form
    /\ UNCHANGED <<remote, target, store>>

AssessPreAudit(r, ok) ==
  LET t == req[r].txn IN
    /\ At(r, "preAudit")
    /\ IF ok /\ store = "up"
       THEN Update(t, row[t].status, row[t].backup) /\ To(r, [req[r] EXCEPT !.at = "send"])
       ELSE Catch(r) /\ UNCHANGED <<row, form>>
    /\ UNCHANGED <<remote, target, store>>

(* The playbook is started, or it is not.                                    *)
RunPlaybook(r, started) ==
  LET t == req[r].txn IN
    /\ At(r, "send")
    /\ To(r, [req[r] EXCEPT !.at = "run", !.result = IF started THEN "none" ELSE "failed"])
    /\ IF started
       THEN /\ remote' = remote \cup {[txn |-> t, op |-> req[r].op, by |-> r,
                                        verified |-> Is(r, "rollback") /\ req[r].seen = "recovery_ready"]}
            /\ form' = [p \in Page |-> IF form[p] # Nil /\ form[p].txn = t THEN [form[p] EXCEPT !.quiet = FALSE] ELSE form[p]]
       ELSE UNCHANGED <<remote, form>>
    /\ UNCHANGED <<row, target, store>>

Answered(r, op, result) == At(r, "run") /\ Is(r, op) /\ req[r].result = result

RecordBackup(r) ==
  /\ Answered(r, "backup", "ok")
  /\ IF store = "up"
     THEN Update(req[r].txn, "backed_up", TRUE) /\ To(r, [req[r] EXCEPT !.at = "send", !.op = "apply", !.result = "none"])
     ELSE Catch(r) /\ UNCHANGED <<row, form>>
  /\ UNCHANGED <<remote, target, store>>

RecordApply(r) ==
  /\ Answered(r, "apply", "ok")
  /\ IF store = "up" THEN To(r, [req[r] EXCEPT !.at = "postAudit"]) ELSE Catch(r)
  /\ UNCHANGED <<row, remote, target, form, store>>

(* Whatever the audit finds, the change is applied.                          *)
RecordPostAudit(r) ==
  LET t == req[r].txn IN
    /\ At(r, "postAudit")
    /\ IF store = "up" THEN Update(t, "applied", row[t].backup) /\ End(r) ELSE Catch(r) /\ UNCHANGED <<row, form>>
    /\ UNCHANGED <<remote, target, store>>

RecordRollback(r) ==
  LET t == req[r].txn IN
    /\ Answered(r, "rollback", "ok")
    /\ IF store = "up" THEN Update(t, "rolled_back", row[t].backup) /\ End(r) ELSE Catch(r) /\ UNCHANGED <<row, form>>
    /\ UNCHANGED <<remote, target, store>>

CommandFailed(r) ==
  /\ At(r, "run") /\ req[r].result \in {"failed", "unknown"} /\ Catch(r)
  /\ UNCHANGED <<row, remote, target, form, store>>

(* Mutant: a backup whose answer was lost did not begin.                     *)
BackupFailed(r) ==
  IF Is(r, "rollback")
  THEN IF req[r].result = "unknown" THEN "interrupted"
       ELSE IF req[r].seen = "recovery_ready" THEN "recovery_ready" ELSE "rollback_failed"
  ELSE IF req[r].result = "unknown" /\ Is(r, "apply") THEN "interrupted" ELSE "failed"

(* Mutant: whatever is not answered has failed.                              *)
LostIsFailed(r) ==
  IF Is(r, "rollback") THEN (IF req[r].seen = "recovery_ready" THEN "recovery_ready" ELSE "rollback_failed") ELSE "failed"

FailureStatus(r) ==
  IF Is(r, "rollback")
  THEN IF req[r].result = "unknown" THEN "interrupted"
       ELSE IF req[r].seen = "recovery_ready" THEN "recovery_ready" ELSE "rollback_failed"
  ELSE IF req[r].result = "unknown" THEN "interrupted" ELSE "failed"

(* When this write fails too, the row stays with its live owner.             *)
RecordFailure(r) ==
  LET t == req[r].txn IN
    /\ At(r, "catch")
    /\ IF store = "up" THEN Update(t, FailureStatus(r), row[t].backup) ELSE UNCHANGED <<row, form>>
    /\ End(r)
    /\ UNCHANGED <<remote, target, store>>

-----------------------------------------------------------------------------
(* Operators                                                                 *)

(* A failed change without a backup ends without a command.                  *)
CancelRemediation(t) ==
  /\ store = "up" /\ row[t].status = "failed" /\ ~ row[t].backup
  /\ row' = [row EXCEPT ![t].status = "cancelled"]
  /\ UNCHANGED <<req, remote, target, form, store>>

(* The list, which marks what a dead process left, offers the form.          *)
OpenRecovery(p, t) ==
  LET rows == Recovered IN
    /\ store = "up" /\ rows[t].status \in Unresolved /\ rows[t].owner # "live" /\ form[p] = Nil
    /\ row' = rows
    /\ form' = [form EXCEPT ![p] = [txn |-> t, found |-> Nil, valid |-> TRUE, quiet |-> TRUE]]
    /\ UNCHANGED <<req, remote, target, store>>

CloseRecovery(p) ==
  /\ form[p] # Nil /\ form' = [form EXCEPT ![p] = Nil]
  /\ UNCHANGED <<row, req, remote, target, store>>

(* What the operator attests: he looked when no command was left, and before *)
(* he calls it restored he lets the helper restore it.                       *)
Inspect(p, byHand) ==
  LET t == form[p].txn IN
    /\ form[p] # Nil /\ form[p].found = Nil /\ remote = {}
    /\ byHand => target[t] # "untouched" /\ \A u \in Txn \ {t} : target[u] \notin Held
    /\ target' = IF byHand THEN [target EXCEPT ![t] = "restored"] ELSE target
    /\ form' = [form EXCEPT ![p].found = target'[t]]
    /\ UNCHANGED <<row, req, remote, store>>

Resolutions == {"not_applied", "prepare_rollback", "restored_manually"}

Attested(found, resolution) ==
  CASE resolution = "not_applied"       -> found = "untouched"
    [] resolution = "prepare_rollback"  -> found # "untouched"
    [] resolution = "restored_manually" -> found \in {"untouched", "restored"}

(* Mutant: the version of the form is not compared.                          *)
AnyVersion(p) == TRUE

CurrentVersion(p) == form[p].valid

MayReconcile(p, resolution) ==
  LET x == row[form[p].txn]  previous == IF x.from = "none" THEN x.status ELSE x.from IN
    /\ x.status \in Unresolved /\ x.owner # "live" /\ CurrentVersion(p)
    /\ IF resolution = "not_applied" THEN previous = "preparing" /\ ~ x.backup ELSE ~ Newer(row, form[p].txn)

Reconcile(p, resolution) ==
  LET t == form[p].txn
      status == CASE resolution = "not_applied" -> "cancelled"
                  [] resolution = "prepare_rollback" -> "recovery_ready"
                  [] resolution = "restored_manually" -> "rolled_back" IN
    /\ form[p] # Nil /\ form[p].found # Nil /\ Attested(form[p].found, resolution) /\ store = "up"
    /\ MayReconcile(p, resolution)
    /\ row' = [row EXCEPT ![t].status = status, ![t].owner = Nil, ![t].backup = @ \/ resolution = "prepare_rollback"]
    /\ form' = [NewVersion(t) EXCEPT ![p] = Nil]
    /\ UNCHANGED <<req, remote, target, store>>

-----------------------------------------------------------------------------
(* The machine, the connection to it, the store and the process              *)

(* How the helper may end: its effect, and what it answers.                  *)
Effect(c) ==
  LET now == target[c.txn]  same(result) == <<now, result>> IN
    IF \E u \in Txn \ {c.txn} : target[u] \in Held THEN {same("failed")}
    ELSE CASE c.op = "backup" ->
                IF now = "saved" THEN {same("ok"), same("failed")}
                ELSE IF now = "untouched" THEN {<<"saved", "ok">>, <<"saved", "unknown">>, same("failed")}
                ELSE {same("failed"), same("unknown")}
           [] c.op = "apply" ->
                IF now = "saved"
                THEN {<<"changed", "ok">>, same("failed"), <<"apply_failed", "failed">>, <<"apply_unknown", "unknown">>}
                ELSE IF now \in {"changed", "restored"} THEN {<<"changed", "ok">>, same("failed")}
                ELSE {same("failed"), same("unknown")}
           [] c.op = "rollback" ->
                IF now = "untouched" THEN {same("failed")}
                ELSE IF now \in {"apply_unknown", "reload_unknown"} /\ ~ c.verified THEN {same("unknown")}
                ELSE {<<"restored", "ok">>, same("failed"), <<"restoring", "failed">>, <<"reload_unknown", "unknown">>}

Execute(c) ==
  /\ remote' = remote \ {c}
  /\ \E e \in Effect(c) :
       /\ target' = [target EXCEPT ![c.txn] = e[1]]
       /\ req' = IF c.by = Nil THEN req ELSE [req EXCEPT ![c.by].result = e[2]]
  /\ UNCHANGED <<row, form, store>>

(* The command goes on, its answer does not come.                            *)
LoseConnection(c) ==
  /\ c.by # Nil
  /\ remote' = (remote \ {c}) \cup {[c EXCEPT !.by = Nil]}
  /\ req' = [req EXCEPT ![c.by].result = "unknown"]
  /\ UNCHANGED <<row, target, form, store>>

StoreFails == store = "up" /\ store' = "down" /\ UNCHANGED <<row, req, remote, target, form>>

StoreRecovers == Transient /\ store = "down" /\ store' = "up" /\ UNCHANGED <<row, req, remote, target, form>>

(* A process that died is recognised in its container, not from another one. *)
Restart(container) ==
  /\ req' = [r \in Request |-> Asleep]
  /\ remote' = {[c EXCEPT !.by = Nil] : c \in remote}
  /\ row' = [t \in Txn |-> IF row[t].owner = Nil THEN row[t]
                           ELSE [row[t] EXCEPT !.owner = IF container = "same" THEN (IF @ = "live" THEN "dead" ELSE @) ELSE "unknown"]]
  /\ store' = "up"
  /\ UNCHANGED <<target, form>>

Init ==
  /\ row = [t \in Txn |-> NoRow] /\ req = [r \in Request |-> Asleep] /\ remote = {}
  /\ target = [t \in Txn |-> "untouched"] /\ form = [p \in Page |-> Nil] /\ store = "up"

Controller(r) ==
  \/ StartApply(r) \/ (\E t \in Txn : StartRollback(r, t))
  \/ CreateRemediation(r) \/ ClaimRollback(r)
  \/ (\E ok \in BOOLEAN : AssessPreAudit(r, ok) \/ RunPlaybook(r, ok))
  \/ RecordBackup(r) \/ RecordApply(r) \/ RecordPostAudit(r) \/ RecordRollback(r)
  \/ CommandFailed(r) \/ RecordFailure(r)

Operator(p) ==
  \/ \E t \in Txn : OpenRecovery(p, t)
  \/ CloseRecovery(p) \/ (\E byHand \in BOOLEAN : Inspect(p, byHand))
  \/ \E resolution \in Resolutions : Reconcile(p, resolution)

Next ==
  \/ \E r \in Request : Controller(r)
  \/ \E p \in Page : Operator(p)
  \/ \E t \in Txn : CancelRemediation(t)
  \/ \E c \in remote : Execute(c) \/ LoseConnection(c)
  \/ StoreFails \/ StoreRecovers
  \/ \E container \in {"same", "new"} : Restart(container)

Spec == Init /\ [][Next]_vars

-----------------------------------------------------------------------------
(* Properties                                                                *)

(* What TargetFirewall takes for granted: one command at a time, a verified  *)
(* rollback only when whatever was sent before has ended, and no change for  *)
(* a transaction whose rollback began, through lost answers, restarts and    *)
(* stale reads (remediation.ts:234-273, 361-393, state-store.ts:1105).       *)
CallsAsPromised ==
  /\ \A c, d \in remote : c = d
  /\ \A c \in remote : c.op = "apply" => target[c.txn] \notin {"restoring", "reload_unknown", "restored"}

(* A form that the store accepts is about the machine its operator saw: since*)
(* it was opened nothing was sent for the transaction (state-store.ts:1043,  *)
(* operation-owner.ts:37).                                                   *)
AttestedAsSeen ==
  \A p \in Page :
    form[p] # Nil /\ (\E resolution \in Resolutions : MayReconcile(p, resolution)) => form[p].quiet

(* What a transaction left on the machine, a change or the marker that keeps *)
(* others out, can still be undone: its row bars the host or offers the      *)
(* rollback of its copy (remediation.ts:247-252, 325, 388,                   *)
(* hcp-firewall.py:895-900).                                                 *)
TargetIsRecoverable ==
  \A t \in Txn : target[t] \in Held \cup Changed =>
    row[t].status \in Unresolved \/ (row[t].backup /\ row[t].status \in Claimable)
=============================================================================
