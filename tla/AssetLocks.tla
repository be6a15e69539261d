----------------------------- MODULE AssetLocks -----------------------------
(***************************************************************************)
(* How the controller keeps operations on one physical machine apart.      *)
(*                                                                         *)
(* The SQLite store holds asset bindings (which machine an inventory alias *)
(* was authenticated as), execution leases, audit jobs, remediation        *)
(* transactions and host closeouts.  Every store function is one BEGIN     *)
(* IMMEDIATE transaction, so it is one step here; between two of them a    *)
(* request awaits SSH or Ansible and any other request may run, in this    *)
(* process or another one.  Commands already sent to a machine go on after *)
(* the controller process that sent them has died.                         *)
(***************************************************************************)
EXTENDS Naturals

CONSTANTS
  Alias,            \* inventory aliases
  Asset,            \* physical machines (machine-id and SSH host key)
  Conn,             \* connection ids (address, port, user)
  Process,          \* controller processes; one that died never comes back
  HostOf,           \* the container (host name and boot) of a process
  Request,          \* requests being served at one time
  Kinds,            \* the kinds of request this instance serves
  Nil,
  MaxTxn,           \* bound: remediation transactions ever created
  MaxGen,           \* bound: generations of one alias binding
  SingleController  \* TRUE: containers never overlap (documented deployment)

Txn == 1 .. MaxTxn

ASSUME AssetLocksAssumption ==
  /\ MaxTxn \in Nat /\ MaxGen \in Nat
  /\ Nil \notin Alias \cup Asset \cup Conn \cup Process \cup Request
  /\ Alias \cap (Asset \cup Txn) = {}
  /\ SingleController \in BOOLEAN

VARIABLES
  up,        \* [Process -> {"new", "up", "down"}]
  reach,     \* the machine and connection an alias leads to at the moment
  bound,     \* asset_bindings: the latest generation of every alias
  lease,     \* asset_execution_leases, by resource
  jobs,      \* audit_jobs that are queued or running
  txn,       \* remediation_transactions, in rowid order
  closeout,  \* host_closeout records, one credential per alias
  req,       \* what each request is doing
  remote,    \* commands changing a machine at the moment (a read-only one
             \* lives in its request: left behind it matters to nobody)
  target     \* what the machine went through for each transaction

vars == <<up, reach, bound, lease, jobs, txn, closeout, req, remote, target>>

-----------------------------------------------------------------------------
(* Records *)

Binding   == [asset : Asset \cup {Nil}, conn : Conn \cup {Nil}, gen : 0 .. MaxGen]
NoBinding == [asset |-> Nil, conn |-> Nil, gen |-> 0]

Resource == Asset \cup Alias
Lease    == [owner : Process \cup {Nil}, req : Request \cup {Nil}, alias : Alias \cup {Nil}]
NoLease  == [owner |-> Nil, req |-> Nil, alias |-> Nil]

Job == [owner : Process, req : Request, alias : Alias]

Working    == {"preparing", "backed_up", "rolling_back"}
Unresolved == Working \cup {"interrupted", "recovery_ready"}
Claimable  == {"applied", "failed", "rollback_failed", "recovery_ready"}
Status     == Unresolved \cup Claimable \cup {"none", "rolled_back", "cancelled"}
Row        == [status : Status, from : Status, alias : Alias \cup {Nil}, snap : Binding,
               owner : Process \cup {Nil}, backup : BOOLEAN]
NoRow      == [status |-> "none", from |-> "none", alias |-> Nil, snap |-> NoBinding,
               owner |-> Nil, backup |-> FALSE]

Settled        == {"none", "not_changed", "completed"}
CloseoutStatus == Settled \cup {"in_progress", "unknown", "remote_revoked", "remote_partial"}
Closeout       == [status : CloseoutStatus, owner : Process \cup {Nil}, claim : Request \cup {Nil}]
NoCloseout     == [status |-> "none", owner |-> Nil, claim |-> Nil]

Mutating == {"backup", "mutate", "rollback"}
ReadOnly == {"audit", "preAudit", "postAudit"}
Command  == Mutating \cup ReadOnly \cup {"revoke"}
Remote   == [req : Request, owner : Process, cmd : Mutating \cup {"revoke"}, alias : Alias,
             asset : Asset \cup {Nil}, txn : 0 .. MaxTxn]

Outcome == {"ok", "failed", "unknown"}
Thread  == [kind : {"idle", "audit", "direct", "scan", "apply", "rollback", "closeout"},
            at : {"idle", "capture", "admit", "probe", "lease", "run", "record", "finish", "release"},
            proc : Process \cup {Nil}, alias : Alias \cup {Nil}, snap : Binding,
            txn : 0 .. MaxTxn, seen : Status, cmd : Command \cup {"none"},
            result : Outcome \cup {"none"}]
Idle    == [kind |-> "idle", at |-> "idle", proc |-> Nil, alias |-> Nil, snap |-> NoBinding,
            txn |-> 0, seen |-> "none", cmd |-> "none", result |-> "none"]

TargetState == {"untouched", "saved", "changed", "restored"}

TypeOK ==
  /\ up \in [Process -> {"new", "up", "down"}]
  /\ reach \in [Alias -> [asset : Asset, conn : Conn]]
  /\ bound \in [Alias -> Binding]
  /\ lease \in [Resource -> Lease]
  /\ jobs \subseteq Job
  /\ txn \in [Txn -> Row]
  /\ closeout \in [Alias -> Closeout]
  /\ req \in [Request -> Thread]
  /\ remote \subseteq Remote
  /\ target \in [Txn -> TargetState]

-----------------------------------------------------------------------------
(* What a process can tell of an owner, and the queries of the store *)

(* Mutant: a process of another container is looked for among one's own.     *)
OwnerStateAnyContainer(p, owner) ==
  IF owner # Nil /\ HostOf[owner] = HostOf[p] /\ up[owner] = "up" THEN "live" ELSE "dead"

OwnerState(p, owner) ==
  IF owner = Nil \/ HostOf[owner] # HostOf[p] THEN "unknown"
  ELSE IF up[owner] = "up" THEN "live" ELSE "dead"

(* Mutant: an owner that cannot be judged counts as live.                    *)
LiveUnlessDead(p, owner) == owner # Nil /\ OwnerState(p, owner) # "dead"

Live(p, owner) == owner # Nil /\ HostOf[owner] = HostOf[p] /\ up[owner] = "up"

Bound(a) == bound[a].gen > 0

(* Only an authenticated identity links aliases. *)
AliasesForAsset(a) ==
  IF Bound(a) THEN {a} \cup {b \in Alias : bound[b].asset = bound[a].asset} ELSE {a}

(* Mutant: only the alias the operation names is looked up.                  *)
ActiveAliasRemediation(a, except) ==
  \E t \in Txn \ {except} : txn[t].status \in Unresolved /\ txn[t].alias = a

ActiveAssetRemediation(a, except) ==
  \E t \in Txn \ {except} :
     /\ txn[t].status \in Unresolved
     /\ \/ txn[t].alias \in AliasesForAsset(a)
        \/ Bound(a) /\ txn[t].snap.asset = bound[a].asset

UnresolvedCloseout(p, a, except) ==
  \E b \in AliasesForAsset(a) \ {except} :
     \/ closeout[b].status \notin Settled
     \/ closeout[b].claim # Nil /\ Live(p, closeout[b].owner)

(* Mutant: leases are cleaned up without asking who holds them.              *)
RecoverAnyLeases(p, remediation, exceptCloseout) ==
  [s \in Resource |->
     IF lease[s] # NoLease /\ ~ ActiveAssetRemediation(lease[s].alias, remediation)
     THEN NoLease ELSE lease[s]]

(* A lease whose owner is not live is dropped unless a mutation or a        *)
(* closeout still bars the machine.                                        *)
RecoverLeases(p, remediation, exceptCloseout) ==
  [s \in Resource |->
     IF /\ lease[s] # NoLease
        /\ ~ Live(p, lease[s].owner)
        /\ ~ ActiveAssetRemediation(lease[s].alias, remediation)
        /\ ~ UnresolvedCloseout(p, lease[s].alias, exceptCloseout)
     THEN NoLease ELSE lease[s]]

ActiveJob(a) == \E j \in jobs : j.alias \in AliasesForAsset(a)

(* Mutant: a machine with an unfinished closeout counts as idle.             *)
AssetIdleDespiteCloseout(p, a, includeJobs, exceptCloseout) ==
  /\ ~ ActiveAssetRemediation(a, 0)
  /\ \A s \in Resource : lease[s].alias \notin AliasesForAsset(a)
  /\ includeJobs => ~ ActiveJob(a)

AssetIdle(p, a, includeJobs, exceptCloseout) ==
  /\ ~ UnresolvedCloseout(p, a, exceptCloseout)
  /\ ~ ActiveAssetRemediation(a, 0)
  /\ \A s \in Resource :
        RecoverLeases(p, 0, exceptCloseout)[s].alias \notin AliasesForAsset(a)
  /\ includeJobs => ~ ActiveJob(a)

(* Mutant: only later changes still being recovered count.                   *)
NewerUnresolved(t) ==
  \E u \in Txn : u > t /\ txn[u].snap.asset = txn[t].snap.asset /\ txn[u].status \in Unresolved

(* A later change of the same machine that is not undone yet. *)
NewerRemediation(t) ==
  \E u \in Txn :
     /\ u > t
     /\ txn[u].alias \in AliasesForAsset(txn[t].alias) \/ txn[u].snap.asset = txn[t].snap.asset
     /\ \/ txn[u].status \in {"interrupted", "recovery_ready", "preparing"}
        \/ /\ txn[u].backup
           /\ txn[u].status \in {"applied", "failed", "rollback_failed", "rolling_back", "backed_up"}

(* Rows of a process known to be dead become interrupted; rows of an unknown *)
(* owner stay as they are.                                                 *)
RecoverInterrupted(p) ==
  [t \in Txn |->
     IF txn[t].status \in Working /\ OwnerState(p, txn[t].owner) = "dead"
     THEN [txn[t] EXCEPT !.status = "interrupted", !.from = txn[t].status]
     ELSE txn[t]]

(* The unconditional UPDATE of a transaction row. *)
Updated(row, status, backup) ==
  [row EXCEPT !.status = status,
              !.backup = backup,
              !.owner  = IF status \in Working THEN @ ELSE Nil,
              !.from   = IF status = "interrupted" /\ row.status # "interrupted" THEN row.status ELSE @]

-----------------------------------------------------------------------------
(* recordAssetObservation.  An alias seen on another machine is refused     *)
(* (only Rebind may move it); the same machine on the same connection       *)
(* changes nothing; a first observation or a new connection adds a          *)
(* generation, if nothing runs on the alias.                                *)

NextBinding(a) == [asset |-> reach[a].asset, conn |-> reach[a].conn, gen |-> bound[a].gen + 1]

SameMachine(a) == bound[a].asset = reach[a].asset

Unchanged(a) == SameMachine(a) /\ bound[a].conn = reach[a].conn

(* Mutant: a new connection is recorded whatever runs on the alias.          *)
RecordObservationUnchecked(p, a) ==
  /\ Bound(a) => SameMachine(a)
  /\ ~ Unchanged(a) => bound[a].gen < MaxGen
  /\ bound' = IF Unchanged(a) THEN bound ELSE [bound EXCEPT ![a] = NextBinding(a)]
  /\ lease' = lease

RecordObservation(p, a) ==
  \/ /\ Unchanged(a)
     /\ UNCHANGED <<bound, lease>>
  \/ /\ ~ Unchanged(a)
     /\ Bound(a) => SameMachine(a)
     /\ AssetIdle(p, a, Bound(a), Nil)
     /\ bound[a].gen < MaxGen
     /\ bound' = [bound EXCEPT ![a] = NextBinding(a)]
     /\ lease' = RecoverLeases(p, 0, Nil)

(* Mutant: only the machine the alias now leads to has to be idle.           *)
RebindWhileHeld(p, a) ==
  /\ "rebind" \in Kinds /\ up[p] = "up"
  /\ Bound(a) /\ ~ SameMachine(a)
  /\ bound[a].gen < MaxGen
  /\ \A b \in Alias : bound[b].asset = reach[a].asset => AssetIdle(p, b, TRUE, Nil)
  /\ bound' = [bound EXCEPT ![a] = NextBinding(a)]
  /\ lease' = RecoverLeases(p, 0, Nil)
  /\ UNCHANGED <<up, reach, jobs, txn, closeout, req, remote, target>>

(* The operator confirms that the alias now leads to another machine.       *)
Rebind(p, a) ==
  /\ "rebind" \in Kinds /\ up[p] = "up"
  /\ Bound(a) /\ ~ SameMachine(a)
  /\ bound[a].gen < MaxGen
  /\ \A b \in Alias : bound[b].asset = reach[a].asset => AssetIdle(p, b, TRUE, Nil)
  /\ AssetIdle(p, a, TRUE, Nil)
  /\ bound' = [bound EXCEPT ![a] = NextBinding(a)]
  /\ lease' = RecoverLeases(p, 0, Nil)
  /\ UNCHANGED <<up, reach, jobs, txn, closeout, req, remote, target>>

-----------------------------------------------------------------------------
(* Requests arrive *)

Serve(r, thread) ==
  /\ req[r] = Idle
  /\ thread.kind \in Kinds
  /\ up[thread.proc] = "up"
  /\ req' = [req EXCEPT ![r] = thread]

InInventory(a) == closeout[a].status # "completed"

(* jobs/route.ts: one job per machine, found through every known alias.     *)
CreateAuditJob(r, p, a) ==
  LET alive == {j \in jobs : Live(p, j.owner)}
  IN /\ InInventory(a)
     /\ ~ \E j \in alive : j.alias \in AliasesForAsset(a)
     /\ AssetIdle(p, a, FALSE, Nil)
     /\ Serve(r, [Idle EXCEPT !.kind = "audit", !.at = "probe", !.cmd = "audit", !.proc = p, !.alias = a])
     /\ jobs' = alive \cup {[owner |-> p, req |-> r, alias |-> a]}
     /\ lease' = RecoverLeases(p, 0, Nil)
     /\ UNCHANGED <<up, reach, bound, txn, closeout, remote, target>>

(* run/route.ts and the scheduled audit: a run with no job.  A network scan *)
(* authenticates nothing and goes straight to the lease.                    *)
StartDirectRun(r, p, a) ==
  /\ InInventory(a)
  /\ \/ Serve(r, [Idle EXCEPT !.kind = "direct", !.at = "probe", !.cmd = "audit", !.proc = p, !.alias = a])
     \/ Serve(r, [Idle EXCEPT !.kind = "scan", !.at = "lease", !.cmd = "audit", !.proc = p, !.alias = a])
  /\ UNCHANGED <<up, reach, bound, lease, jobs, txn, closeout, remote, target>>

StartApply(r, p, a) ==
  /\ InInventory(a)
  /\ Serve(r, [Idle EXCEPT !.kind = "apply", !.at = "capture", !.proc = p, !.alias = a])
  /\ UNCHANGED <<up, reach, bound, lease, jobs, txn, closeout, remote, target>>

(* rollbackRemediation reads the row and the inventory here, before it      *)
(* awaits anything, and uses the status it read to the end.                 *)
StartRollback(r, p, t) ==
  /\ txn[t].status \in Claimable /\ txn[t].backup
  /\ InInventory(txn[t].alias)
  /\ reach[txn[t].alias].conn = txn[t].snap.conn
  /\ Serve(r, [Idle EXCEPT !.kind = "rollback", !.at = "capture", !.proc = p, !.alias = txn[t].alias,
                           !.txn = t, !.seen = txn[t].status, !.snap = txn[t].snap])
  /\ UNCHANGED <<up, reach, bound, lease, jobs, txn, closeout, remote, target>>

(* Mutant: the closeout being recovered bars its own recovery.               *)
MayClaimNewCloseout(p, a) == ~ UnresolvedCloseout(p, a, Nil) /\ AssetIdle(p, a, TRUE, Nil)

(* decommissionHost up to the revocation on the machine.                    *)
MayClaimCloseout(p, a) ==
  /\ ~ ActiveAssetRemediation(a, 0)
  /\ ~ UnresolvedCloseout(p, a, a)
  /\ AssetIdle(p, a, TRUE, a)
  /\ ~ (closeout[a].claim # Nil /\ Live(p, closeout[a].owner))

StartCloseout(r, p, a) ==
  /\ InInventory(a)
  /\ MayClaimCloseout(p, a)
  /\ closeout[a].status \in Settled
  /\ Serve(r, [Idle EXCEPT !.kind = "closeout", !.at = "run", !.cmd = "revoke", !.proc = p, !.alias = a])
  /\ closeout' = [closeout EXCEPT ![a] = [status |-> "in_progress", owner |-> p, claim |-> r]]
  /\ lease' = RecoverLeases(p, 0, a)
  /\ txn' = RecoverInterrupted(p)
  /\ remote' = remote \cup {[req |-> r, owner |-> p, cmd |-> "revoke", alias |-> a,
                             asset |-> bound[a].asset, txn |-> 0]}
  /\ UNCHANGED <<up, reach, bound, jobs, target>>

(* recoverHostCloseout: the operator states the outcome, having checked that *)
(* nothing of the earlier attempt still runs.  (Confirming a completed      *)
(* closeout again is left out: its host is no longer in the inventory.)     *)
RecoverCloseout(r, p, a, resolution) ==
  /\ MayClaimCloseout(p, a)
  /\ closeout[a].status \notin {"none", "completed"}
  /\ ~ \E c \in remote : c.cmd = "revoke" /\ c.alias = a
  /\ ~ \E q \in Request : req[q].kind = "closeout" /\ req[q].alias = a
  /\ resolution = "failed" => closeout[a].status \notin {"remote_revoked", "remote_partial"}
  /\ Serve(r, [Idle EXCEPT !.kind = "closeout", !.at = "record", !.cmd = "revoke",
                           !.proc = p, !.alias = a, !.result = resolution])
  /\ closeout' = [closeout EXCEPT ![a].owner = p, ![a].claim = r]
  /\ lease' = RecoverLeases(p, 0, a)
  /\ txn' = RecoverInterrupted(p)
  /\ UNCHANGED <<up, reach, bound, jobs, remote, target>>

-----------------------------------------------------------------------------
(* A request goes on *)

Is(r, kinds, at) == req[r].kind \in kinds /\ req[r].at = at

CurrentBinding(a) == IF Unchanged(a) THEN bound[a] ELSE NextBinding(a)

(* captureAssetBinding before the transaction is created or claimed; a      *)
(* rollback expects the machine and generation of its row.                  *)
Capture(r) ==
  LET a == req[r].alias
  IN /\ Is(r, {"apply", "rollback"}, "capture")
     /\ InInventory(a)
     /\ req[r].kind = "rollback" => reach[a].asset = req[r].snap.asset
     /\ RecordObservation(req[r].proc, a)
     /\ req' = [req EXCEPT ![r] =
          IF req[r].kind = "rollback" /\ CurrentBinding(a).gen # req[r].snap.gen
          THEN Idle
          ELSE [req[r] EXCEPT !.at = "admit", !.snap = CurrentBinding(a)]]
     /\ UNCHANGED <<up, reach, jobs, txn, closeout, remote, target>>

CreateRemediation(r) ==
  LET p == req[r].proc
      a == req[r].alias
  IN /\ Is(r, {"apply"}, "admit")
     /\ bound[a] = req[r].snap
     /\ AssetIdle(p, a, TRUE, Nil)
     /\ \E t \in Txn :
          /\ \A u \in Txn : txn[u] = NoRow <=> u >= t
          /\ txn' = [RecoverInterrupted(p) EXCEPT
               ![t] = [status |-> "preparing", from |-> "none", alias |-> a, snap |-> req[r].snap,
                       owner |-> p, backup |-> FALSE]]
          /\ req' = [req EXCEPT ![r].at = "probe", ![r].cmd = "preAudit", ![r].txn = t]
     /\ lease' = RecoverLeases(p, 0, Nil)
     /\ UNCHANGED <<up, reach, bound, jobs, closeout, remote, target>>

ClaimRollback(r) ==
  LET p == req[r].proc
      a == req[r].alias
      t == req[r].txn
  IN /\ Is(r, {"rollback"}, "admit")
     /\ txn[t].status \in Claimable /\ txn[t].backup
     /\ ~ UnresolvedCloseout(p, a, Nil)
     /\ ~ ActiveAssetRemediation(a, t)
     /\ ~ ActiveJob(a)
     /\ ~ \E s \in Resource : lease[s].alias \in AliasesForAsset(a) /\ Live(p, lease[s].owner)
     /\ ~ NewerRemediation(t)
     /\ txn' = [RecoverInterrupted(p) EXCEPT
          ![t].status = "rolling_back", ![t].owner = p, ![t].from = "none"]
     /\ req' = [req EXCEPT ![r].at = "probe", ![r].cmd = "rollback"]
     /\ UNCHANGED <<up, reach, bound, lease, jobs, closeout, remote, target>>

(* prepareAssetExecution: probe the machine, then take the lease and send   *)
(* the command.  A remediation expects its own binding.                     *)
Probe(r) ==
  LET a == req[r].alias
      remediation == req[r].txn # 0
  IN /\ Is(r, {"audit", "direct", "apply", "rollback"}, "probe")
     /\ InInventory(a)
     /\ remediation => reach[a].asset = req[r].snap.asset
     /\ RecordObservation(req[r].proc, a)
     /\ req' = [req EXCEPT ![r] =
          IF remediation /\ CurrentBinding(a).gen # req[r].snap.gen
          THEN [req[r] EXCEPT !.at = "record", !.result = "failed"]
          ELSE [req[r] EXCEPT !.at = "lease", !.snap = CurrentBinding(a)]]
     /\ UNCHANGED <<up, reach, jobs, txn, closeout, remote, target>>

ResourceOf(a) == IF Bound(a) THEN bound[a].asset ELSE a

OwnsTransaction(t, a) == t # 0 => txn[t].alias = a /\ txn[t].status \in Working

AcquireAssetExecution(r) ==
  LET p == req[r].proc
      a == req[r].alias
      t == req[r].txn
      leases == RecoverLeases(p, t, Nil)
  IN /\ req[r].at = "lease"
     /\ req[r].snap # NoBinding => bound[a] = req[r].snap
     /\ OwnsTransaction(t, a)
     /\ ~ UnresolvedCloseout(p, a, Nil)
     /\ ~ ActiveAssetRemediation(a, t)
     /\ leases[ResourceOf(a)] = NoLease
     /\ \A s \in Resource : leases[s].alias \notin AliasesForAsset(a)
     /\ lease' = [leases EXCEPT ![ResourceOf(a)] = [owner |-> p, req |-> r, alias |-> a]]
     /\ remote' = remote \cup {c \in {[req |-> r, owner |-> p, cmd |-> req[r].cmd, alias |-> a,
                                       asset |-> req[r].snap.asset, txn |-> t]} : c.cmd \in Mutating}
     /\ req' = [req EXCEPT ![r].at = "run"]
     /\ UNCHANGED <<up, reach, bound, jobs, txn, closeout, target>>

(* Refused, or SSH or SQLite failed: before admission the request just ends, *)
(* afterwards the run counts as not started.                                *)
GiveUp(r) ==
  /\ req[r].at \in {"capture", "admit", "probe", "lease"}
  /\ req' = [req EXCEPT ![r] =
       IF req[r].at \in {"capture", "admit"} THEN Idle
       ELSE [req[r] EXCEPT !.at = "record", !.result = "failed"]]
  /\ UNCHANGED <<up, reach, bound, lease, jobs, txn, closeout, remote, target>>

(* runAnsiblePlaybook ends with the command's result, or with an unknown one *)
(* (timeout, lost connection) while the command may still run; the lease is *)
(* released either way.                                                     *)
EndRun(r) ==
  /\ req[r].at = "run"
  /\ \E result \in IF req[r].result # "none" THEN {req[r].result}
                   ELSE IF req[r].cmd \in ReadOnly THEN {"ok", "failed"} ELSE {"unknown"} :
        req' = [req EXCEPT ![r].at = "record", ![r].result = result]
  /\ lease' = [s \in Resource |->
                 IF lease[s].owner = req[r].proc /\ lease[s].req = r THEN NoLease ELSE lease[s]]
  /\ UNCHANGED <<up, reach, bound, jobs, txn, closeout, remote, target>>

FinishAudit(r) ==
  /\ Is(r, {"audit", "direct", "scan"}, "record")
  /\ jobs' = {j \in jobs : j.req # r \/ j.owner # req[r].proc}
  /\ req' = [req EXCEPT ![r] = Idle]
  /\ UNCHANGED <<up, reach, bound, lease, txn, closeout, remote, target>>

(* applyRemediation between two runs.                                       *)
NextRun(r, cmd) == req' = [req EXCEPT ![r].at = "probe", ![r].cmd = cmd, ![r].result = "none"]

EndRequest(r) == req' = [req EXCEPT ![r] = Idle]

UpdateRemediation(t, status, backup) == txn' = [txn EXCEPT ![t] = Updated(@, status, backup)]

(* Mutant: a change whose outcome is unknown is recorded as failed.          *)
RecordApplyUnknownAsFailed(r) ==
  /\ Is(r, {"apply"}, "record")
  /\ CASE req[r].result # "ok"     -> UpdateRemediation(req[r].txn, "failed", txn[req[r].txn].backup) /\ EndRequest(r)
       [] req[r].cmd = "preAudit"  -> UNCHANGED txn /\ NextRun(r, "backup")
       [] req[r].cmd = "backup"    -> UpdateRemediation(req[r].txn, "backed_up", TRUE) /\ NextRun(r, "mutate")
       [] OTHER                    -> UpdateRemediation(req[r].txn, "applied", TRUE) /\ EndRequest(r)
  /\ UNCHANGED <<up, reach, bound, lease, jobs, closeout, remote, target>>

RecordApply(r) ==
  LET t   == req[r].txn
      ok  == req[r].result = "ok"
      cmd == req[r].cmd
  IN /\ Is(r, {"apply"}, "record")
     /\ \/ /\ cmd = "preAudit" /\ ok
           /\ NextRun(r, "backup")
           /\ UNCHANGED txn
        \/ /\ cmd = "backup" /\ ok
           /\ UpdateRemediation(t, "backed_up", TRUE)
           /\ NextRun(r, "mutate")
        \/ /\ cmd = "mutate" /\ ok
           /\ NextRun(r, "postAudit")
           /\ UNCHANGED txn
        \/ /\ cmd = "postAudit"
           /\ UpdateRemediation(t, "applied", txn[t].backup)
           /\ EndRequest(r)
        \/ /\ cmd \in Mutating /\ req[r].result = "unknown"
           /\ UpdateRemediation(t, "interrupted", txn[t].backup)
           /\ EndRequest(r)
        \/ /\ \/ cmd = "preAudit"                       \* baseline refused
              \/ cmd = "mutate" /\ ok                  \* the incident was not written
              \/ cmd \in Mutating /\ req[r].result = "failed"
           /\ UpdateRemediation(t, "failed", txn[t].backup)
           /\ EndRequest(r)
     /\ UNCHANGED <<up, reach, bound, lease, jobs, closeout, remote, target>>

(* Mutant: a rollback whose outcome is unknown may be tried again.           *)
RecordRollbackUnknownAsFailed(r) ==
  /\ Is(r, {"rollback"}, "record")
  /\ UpdateRemediation(req[r].txn, IF req[r].result = "ok" THEN "rolled_back" ELSE "rollback_failed", TRUE)
  /\ EndRequest(r)
  /\ UNCHANGED <<up, reach, bound, lease, jobs, closeout, remote, target>>

(* A rollback that succeeded is called failed when its incident cannot be   *)
(* written.                                                                 *)
RecordRollback(r) ==
  /\ Is(r, {"rollback"}, "record")
  /\ LET failed == IF req[r].seen = "recovery_ready" THEN "recovery_ready" ELSE "rollback_failed"
     IN \E status \in CASE req[r].result = "ok"      -> {"rolled_back", failed}
                         [] req[r].result = "unknown" -> {"interrupted"}
                         [] OTHER                     -> {failed} :
          UpdateRemediation(req[r].txn, status, TRUE)
  /\ EndRequest(r)
  /\ UNCHANGED <<up, reach, bound, lease, jobs, closeout, remote, target>>

(* The result of a revocation is written only by the holder of the claim.   *)
Claims(r) == closeout[req[r].alias].claim = r

(* Mutant: the outcome of the command is stored as the status.               *)
RecordCloseoutOutcome(r) ==
  /\ Is(r, {"closeout"}, "record") /\ Claims(r)
  /\ closeout' = [closeout EXCEPT ![req[r].alias].status = req[r].result]
  /\ req' = [req EXCEPT ![r].at = "release"]
  /\ UNCHANGED <<up, reach, bound, lease, jobs, txn, remote, target>>

RecordCloseout(r) ==
  LET a == req[r].alias
  IN /\ Is(r, {"closeout"}, "record")
     /\ \E status \in CASE req[r].result = "ok"      -> {"remote_revoked"}
                        [] req[r].result = "failed"  -> {"not_changed"}
                        [] OTHER                     -> {"unknown", "remote_partial"} :
          closeout' = IF Claims(r) THEN [closeout EXCEPT ![a].status = status] ELSE closeout
     /\ req' = [req EXCEPT ![r].at = IF Claims(r) /\ req[r].result = "ok" THEN "finish" ELSE "release"]
     /\ UNCHANGED <<up, reach, bound, lease, jobs, txn, remote, target>>

(* completeLocal removes the key and the inventory line; either may fail,   *)
(* and then the record keeps saying remote_revoked.                         *)
CompleteLocal(r) ==
  /\ Is(r, {"closeout"}, "finish") /\ Claims(r)
  /\ closeout' = [closeout EXCEPT ![req[r].alias].status = "completed"]
  /\ req' = [req EXCEPT ![r].at = "release"]
  /\ UNCHANGED <<up, reach, bound, lease, jobs, txn, remote, target>>

CompleteLocalFails(r) ==
  /\ Is(r, {"closeout"}, "finish")
  /\ req' = [req EXCEPT ![r].at = "release"]
  /\ UNCHANGED <<up, reach, bound, lease, jobs, txn, closeout, remote, target>>

ReleaseCloseout(r) ==
  LET a == req[r].alias
  IN /\ Is(r, {"closeout"}, "release")
     /\ closeout' = IF ~ Claims(r) THEN closeout
                    ELSE [closeout EXCEPT ![a] =
                            [status |-> IF @.status = "in_progress" THEN "unknown" ELSE @.status,
                             owner |-> Nil, claim |-> Nil]]
     /\ EndRequest(r)
     /\ UNCHANGED <<up, reach, bound, lease, jobs, txn, remote, target>>

-----------------------------------------------------------------------------
(* The operator *)

RecoverInterruptedNow(p) ==
  /\ up[p] = "up"
  /\ txn' = RecoverInterrupted(p)
  /\ UNCHANGED <<up, reach, bound, lease, jobs, closeout, req, remote, target>>

RecoverAuditJobs(p) ==
  /\ up[p] = "up"
  /\ jobs' = {j \in jobs : Live(p, j.owner)}
  /\ UNCHANGED <<up, reach, bound, lease, txn, closeout, req, remote, target>>

(* What the operator attests with processesStopped: no command of the       *)
(* transaction runs on the machine and no request works on it any more.     *)
ProcessesStopped(t) ==
  /\ ~ \E c \in remote : c.txn = t
  /\ ~ \E r \in Request : req[r].txn = t /\ req[r].at \in {"probe", "lease", "run", "record"}

PreviousStatus(t) == IF txn[t].from = "none" THEN txn[t].status ELSE txn[t].from

MayReconcile(p, t) ==
  /\ up[p] = "up"
  /\ txn[t].status \in Unresolved
  /\ ~ Live(p, txn[t].owner)
  /\ ProcessesStopped(t)
  /\ UNCHANGED <<up, reach, bound, lease, jobs, closeout, req, remote>>

ResolveNotApplied(p, t) ==
  /\ MayReconcile(p, t)
  /\ PreviousStatus(t) = "preparing" /\ ~ txn[t].backup
  /\ target[t] \in {"untouched", "saved"}
  /\ txn' = [txn EXCEPT ![t].status = "cancelled", ![t].owner = Nil]
  /\ UNCHANGED target

(* The operator found the backup on the machine.                            *)
ResolvePrepareRollback(p, t) ==
  /\ MayReconcile(p, t)
  /\ ~ NewerRemediation(t)
  /\ target[t] # "untouched"
  /\ txn' = [txn EXCEPT ![t].status = "recovery_ready", ![t].owner = Nil, ![t].backup = TRUE]
  /\ UNCHANGED target

ResolveRestoredManually(p, t) ==
  /\ MayReconcile(p, t)
  /\ ~ NewerRemediation(t)
  /\ target' = [target EXCEPT ![t] = IF @ = "changed" THEN "restored" ELSE @]
  /\ txn' = [txn EXCEPT ![t].status = "rolled_back", ![t].owner = Nil]

Reconcile(p, t) ==
  ResolveNotApplied(p, t) \/ ResolvePrepareRollback(p, t) \/ ResolveRestoredManually(p, t)

(* Mutant: a failed change may be cancelled although a backup was made.      *)
CancelAnyFailed(p, t) ==
  /\ up[p] = "up" /\ txn[t].status = "failed"
  /\ txn' = [txn EXCEPT ![t].status = "cancelled"]
  /\ UNCHANGED <<up, reach, bound, lease, jobs, closeout, req, remote, target>>

CancelRemediation(p, t) ==
  /\ up[p] = "up"
  /\ txn[t].status = "failed" /\ ~ txn[t].backup
  /\ txn' = [txn EXCEPT ![t].status = "cancelled"]
  /\ UNCHANGED <<up, reach, bound, lease, jobs, closeout, req, remote, target>>

-----------------------------------------------------------------------------
(* The machines, the network and the processes *)

(* What a command leaves behind on its machine, by its outcome there.       *)
After(cmd, before, outcome) ==
  LET done == CASE cmd = "backup"   -> IF before = "untouched" THEN "saved" ELSE before
                [] cmd = "mutate"   -> IF before = "saved" THEN "changed" ELSE before
                [] cmd = "rollback" -> "restored"
                [] OTHER            -> before
  IN IF outcome = "ok" THEN {done} ELSE {before, done}

Waiting(r, c) ==
  /\ req[r].at = "run" /\ req[r].result = "none"
  /\ c = [req |-> r, owner |-> req[r].proc, cmd |-> req[r].cmd, alias |-> req[r].alias,
          asset |-> c.asset, txn |-> req[r].txn]

EndCommand(c) ==
  \E outcome \in {"ok", "failed"} :
     /\ c.cmd = "mutate" /\ outcome = "ok" => target[c.txn] # "untouched"
     /\ remote' = remote \ {c}
     /\ IF c.txn = 0 THEN UNCHANGED target
        ELSE \E after \in After(c.cmd, target[c.txn], outcome) :
               target' = [target EXCEPT ![c.txn] = after]
     /\ req' = [r \in Request |->
                  IF Waiting(r, c) THEN [req[r] EXCEPT !.result = outcome] ELSE req[r]]
     /\ UNCHANGED <<up, reach, bound, lease, jobs, txn, closeout>>

(* The machine behind an alias is replaced, or its address changes.         *)
Relocate(a) ==
  /\ "relocate" \in Kinds
  /\ \E x \in Asset, k \in Conn : reach' = [reach EXCEPT ![a] = [asset |-> x, conn |-> k]]
  /\ UNCHANGED <<up, bound, lease, jobs, txn, closeout, req, remote, target>>

Start(p) ==
  /\ up[p] = "new"
  /\ SingleController => \A q \in Process : up[q] = "up" => HostOf[q] = HostOf[p]
  /\ up' = [up EXCEPT ![p] = "up"]
  /\ UNCHANGED <<reach, bound, lease, jobs, txn, closeout, req, remote, target>>

Crash(p) ==
  /\ up[p] = "up"
  /\ up' = [up EXCEPT ![p] = "down"]
  /\ req' = [r \in Request |-> IF req[r].proc = p THEN Idle ELSE req[r]]
  /\ UNCHANGED <<reach, bound, lease, jobs, txn, closeout, remote, target>>

-----------------------------------------------------------------------------

Init ==
  /\ up = [p \in Process |-> "new"]
  /\ reach \in [Alias -> [asset : Asset, conn : Conn]]
  /\ bound = [a \in Alias |-> NoBinding]
  /\ lease = [s \in Resource |-> NoLease]
  /\ jobs = {}
  /\ txn = [t \in Txn |-> NoRow]
  /\ closeout = [a \in Alias |-> NoCloseout]
  /\ req = [r \in Request |-> Idle]
  /\ remote = {}
  /\ target = [t \in Txn |-> "untouched"]

Arrival(r) ==
  \E p \in Process :
     \/ \E a \in Alias : \/ CreateAuditJob(r, p, a)
                         \/ StartDirectRun(r, p, a)
                         \/ StartApply(r, p, a)
                         \/ StartCloseout(r, p, a)
                         \/ \E resolution \in {"ok", "failed"} : RecoverCloseout(r, p, a, resolution)
     \/ \E t \in Txn : StartRollback(r, p, t)

Progress(r) ==
  \/ Capture(r) \/ CreateRemediation(r) \/ ClaimRollback(r)
  \/ Probe(r) \/ AcquireAssetExecution(r) \/ GiveUp(r) \/ EndRun(r)
  \/ FinishAudit(r) \/ RecordApply(r) \/ RecordRollback(r)
  \/ RecordCloseout(r) \/ CompleteLocal(r) \/ CompleteLocalFails(r) \/ ReleaseCloseout(r)

Operator(p) ==
  \/ RecoverInterruptedNow(p) \/ RecoverAuditJobs(p)
  \/ \E t \in Txn : Reconcile(p, t) \/ CancelRemediation(p, t)
  \/ \E a \in Alias : Rebind(p, a)

Environment ==
  \/ \E c \in remote : EndCommand(c)
  \/ \E a \in Alias : Relocate(a)
  \/ \E p \in Process : Start(p) \/ Crash(p)

Next ==
  \/ \E r \in Request : Arrival(r) \/ Progress(r)
  \/ \E p \in Process : Operator(p)
  \/ Environment

Spec == Init /\ [][Next]_vars

(* Requests go on (every SSH and Ansible call has a timeout), commands end, *)
(* a stopped controller is started again, the operator settles what waits   *)
(* for him when the program lets him, and local files can be removed at     *)
(* last.                                                                    *)
Fairness ==
  /\ \A r \in Request : WF_vars(Progress(r))
  /\ \A a \in Alias : WF_vars(\E c \in remote : c.alias = a /\ EndCommand(c))
  /\ WF_vars(\E p \in Process : Start(p))
  /\ \A t \in Txn : SF_vars(\E p \in Process : ResolveRestoredManually(p, t))
  /\ \A a \in Alias :
       /\ SF_vars(\E p \in Process, r \in Request : RecoverCloseout(r, p, a, "ok"))
       /\ SF_vars(\E r \in Request : req[r].alias = a /\ CompleteLocal(r))

FairSpec == Spec /\ Fairness

-----------------------------------------------------------------------------
(* Safety *)

UnresolvedOn(x) == {t \in Txn : txn[t].status \in Unresolved /\ txn[t].snap.asset = x}

(* The transactions that can still command machine x: their alias is bound  *)
(* as it was when they were created.                                        *)
Holding(x) == {t \in UnresolvedOn(x) : bound[txn[t].alias] = txn[t].snap}

ClosingOut(x) == {a \in Alias : bound[a].asset = x /\ closeout[a].status \notin Settled}

(* Whatever alias it was started through, at most one transaction of a      *)
(* machine is unresolved: the admission checks of                           *)
(* createRemediationTransaction and claimRemediationRollback.               *)
OneUnresolvedPerAsset == \A x \in Asset : \A t, u \in UnresolvedOn(x) : t = u

(* A closeout and a transaction never bar the same machine together, where  *)
(* the recovery of each would refuse because of the other.                  *)
CloseoutExcludesRemediation == \A x \in Asset : ClosingOut(x) = {} \/ Holding(x) = {}

(* Two commands that change one machine never run together there, even when *)
(* the controller that sent the first one has died or gave up waiting.      *)
OneChangePerAsset == \A c, d \in remote : c.asset = d.asset /\ c.asset # Nil => c = d

(* While a command may still be changing a machine its transaction or       *)
(* closeout stays unresolved and so keeps everything else off the machine.  *)
ChangeIsBarred ==
  \A c \in remote : IF c.txn = 0 THEN closeout[c.alias].status \notin Settled
                    ELSE txn[c.txn].status \in Unresolved

(* With one controller at a time, two live requests never execute on linked *)
(* aliases at once: the leases do what acquireAssetExecution promises.      *)
LiveRunsExclusive ==
  \A r, s \in Request :
     r # s /\ req[r].at = "run" /\ req[s].at = "run"
       => req[s].alias \notin AliasesForAsset(req[r].alias)

(* A rollback puts back a whole saved firewall state, so it only runs when  *)
(* no later change of the machine is in force.                              *)
RollbackNewestFirst ==
  \A c \in remote : c.cmd = "rollback"
     => \A u \in Txn : u > c.txn /\ txn[u].snap.asset = c.asset => target[u] # "changed"

(* A row the operator may forget about left nothing behind: cancelled only  *)
(* where the firewall was never changed, rolled_back only where it is not   *)
(* changed any more.                                                        *)
ClosedRowsAreClean ==
  \A t \in Txn : /\ txn[t].status = "cancelled"   => target[t] \in {"untouched", "saved"}
                 /\ txn[t].status = "rolled_back" => target[t] # "changed"

(* A transaction that was interrupted is released by a reconciliation only: *)
(* no late write of a request and no new claim takes it out.                *)
InterruptedUntilReconciled ==
  [][\A t \in Txn : txn[t].status = "interrupted" /\ txn'[t].status # "interrupted"
        => \E p \in Process : Reconcile(p, t)]_vars

(* A new generation of a binding never invalidates the snapshot of a         *)
(* transaction that is still unresolved on it, nor moves an alias away from *)
(* the lease key a live run holds (recordAssetObservation's comment).       *)
BindingStaysUnderUse ==
  [][\A a \in Alias : bound'[a] # bound[a]
        => /\ \A t \in Txn : txn[t].alias = a /\ txn[t].snap = bound[a] => txn[t].status \notin Unresolved
           /\ \A r \in Request : req[r].at = "run" => req[r].alias # a]_vars

-----------------------------------------------------------------------------
(* Liveness *)

ControllerRuns == \E p \in Process : up[p] = "up"

(* As long as a controller keeps coming back, an unresolved transaction can *)
(* always be settled: no guard of its recovery waits for something that     *)
(* only another barred operation could end.                                 *)
UnresolvedIsSettled ==
  []<>ControllerRuns =>
    \A t \in Txn : (txn[t].status \in Unresolved) ~> (txn[t].status \notin Unresolved)

(* The same for a closeout that was begun.                                  *)
CloseoutIsSettled ==
  []<>ControllerRuns =>
    \A a \in Alias : (closeout[a].status \notin Settled) ~> (closeout[a].status \in Settled)

-----------------------------------------------------------------------------
(* Refinement: the unresolved rows are one lock per machine.                *)

HolderOf(c) == IF c.txn = 0 THEN c.alias ELSE c.txn

LockHeld == [x \in Asset |-> Holding(x) \cup ClosingOut(x)]
LockBusy == [x \in Asset |-> {HolderOf(c) : c \in {d \in remote : d.asset = x}}]

Lock == INSTANCE MachineLock WITH
  Machine <- Asset, Holder <- Alias \cup Txn, held <- LockHeld, busy <- LockBusy

(* Every behaviour of the store, its requests, crashes and operators is one *)
(* of the machine lock.                                                     *)
ImplementsMachineLock == Lock!Spec
=============================================================================
