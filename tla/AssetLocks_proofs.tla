------------------------- MODULE AssetLocks_proofs -------------------------
(***************************************************************************)
(* Proofs about AssetLocks, for any number of machines, aliases, processes *)
(* and requests and any bound on transactions and generations.             *)
(*                                                                         *)
(* First the rows: the store stays well typed, and no machine ever has two *)
(* unresolved transactions, whatever overlaps, crashes and rebinds.  Then  *)
(* the commands sent to the machines: what still runs there is barred by   *)
(* its row or closeout, a saved state is put back only when no later       *)
(* change is in force, and closed rows leave nothing behind.  Then         *)
(* identities: no two commands ever change one machine at the same time.   *)
(* All this holds for any number of controllers.  Last what holds with one *)
(* controller at a time, up to the refinement of MachineLock.              *)
(***************************************************************************)
EXTENDS AssetLocks, TLAPS

-----------------------------------------------------------------------------
(* The inductive invariant of the rows *)

(* A request that has created or claimed its row and not written its end.   *)
Engaged(th) == th.kind \in {"apply", "rollback"} /\ th.at \in {"probe", "lease", "run", "record"}

ThreadGood(th) ==
  /\ th.at # "idle" => th.proc \in Process /\ th.alias \in Alias /\ up[th.proc] = "up"
  /\ th.kind = "rollback" => /\ th.txn \in Txn
                             /\ th.alias \in Alias /\ txn[th.txn].alias = th.alias
  /\ th.kind = "apply" /\ th.at = "admit" => th.snap.gen > 0
  /\ Engaged(th) => /\ th.txn \in Txn
                    /\ txn[th.txn].alias = th.alias
                    /\ txn[th.txn].status \in Working
                    /\ txn[th.txn].owner = th.proc

(* An engaged request's row is its own: still working, under its process.   *)
ThreadsGood == \A r \in Request : ThreadGood(req[r])

Exclusive ==
  \A r, s \in Request :
     Engaged(req[r]) /\ Engaged(req[s]) /\ req[r].txn = req[s].txn => r = s

RowGood(row) ==
  /\ row.status # "none" => row.alias \in Alias
  /\ row.status \in {"backed_up", "rolling_back"} => row.backup

RowsGood == \A t \in Txn : RowGood(txn[t])

BindingsGood == \A a \in Alias : bound[a].asset # Nil => bound[a].gen > 0

(* A row that is claimable again, although a later change of its machine    *)
(* stands, would be claimed beside an unresolved one.                       *)
Standing(row) == row.backup /\ row.status \in {"applied", "failed", "rollback_failed"}

NothingStandsAbove ==
  \A t, u \in Txn :
     /\ u < t /\ txn[u].snap.asset = txn[t].snap.asset /\ txn[u].snap.asset \in Asset
     /\ txn[u].status \in Unresolved
     => ~ Standing(txn[t])

Threads == ThreadsGood /\ Exclusive
Rows    == RowsGood /\ NothingStandsAbove /\ OneUnresolvedPerAsset

IInv == TypeOK /\ Threads /\ Rows /\ BindingsGood

-----------------------------------------------------------------------------
(* Types of what the operators of AssetLocks return *)

(* The null records and the statuses belong to their record types.          *)
LEMMA NullsTyped ==
  /\ NoBinding \in Binding /\ NoLease \in Lease /\ NoRow \in Row
  /\ NoCloseout \in Closeout /\ Idle \in Thread
BY AssetLocksAssumption DEF NoBinding, Binding, NoLease, Lease, NoRow, Row, Status, Unresolved, Working,
   Claimable, NoCloseout, Closeout, CloseoutStatus, Settled, Idle, Thread, Outcome, Command, Mutating, ReadOnly

(* Cleaning up leases keeps a lease table.                                  *)
LEMMA LeasesTyped ==
  ASSUME TypeOK, NEW p, NEW remediation, NEW exceptCloseout
  PROVE  RecoverLeases(p, remediation, exceptCloseout) \in [Resource -> Lease]
BY NullsTyped DEF TypeOK, RecoverLeases

(* Interrupting rows keeps a table of rows.                                 *)
LEMMA RecoveredTyped ==
  ASSUME TypeOK, NEW p
  PROVE  RecoverInterrupted(p) \in [Txn -> Row]
<1> SUFFICES ASSUME NEW t \in Txn
             PROVE  RecoverInterrupted(p)[t] \in Row
  BY DEF RecoverInterrupted
<1>1. txn[t] \in Row
  BY DEF TypeOK
<1>2. [txn[t] EXCEPT !.status = "interrupted", !.from = txn[t].status] \in Row
  BY <1>1 DEF Row, Status, Unresolved
<1> QED BY <1>1, <1>2 DEF RecoverInterrupted

(* The UPDATE of a row keeps a row.                                         *)
LEMMA UpdatedTyped ==
  ASSUME NEW row \in Row, NEW status \in Status, NEW backup \in BOOLEAN
  PROVE  Updated(row, status, backup) \in Row
BY DEF Updated, Row

(* A generation that is within its bound makes a binding.                   *)
LEMMA BindingTyped ==
  ASSUME TypeOK, NEW a \in Alias, bound[a].gen < MaxGen
  PROVE  NextBinding(a) \in Binding
BY AssetLocksAssumption DEF TypeOK, NextBinding, Binding

(* What a recorded observation changes stays well typed, and the snapshot a *)
(* request then takes is a binding of a machine.                            *)
LEMMA ObservationTyped ==
  ASSUME TypeOK, BindingsGood, NEW p, NEW a \in Alias, RecordObservation(p, a)
  PROVE  /\ bound' \in [Alias -> Binding]
         /\ lease' \in [Resource -> Lease]
         /\ CurrentBinding(a) \in Binding
         /\ CurrentBinding(a).gen > 0
         /\ BindingsGood'
<1>1. CASE Unchanged(a) /\ UNCHANGED <<bound, lease>>
  <2>1. bound[a].asset # Nil
    BY <1>1, AssetLocksAssumption DEF Unchanged, SameMachine, TypeOK
  <2> QED BY <1>1, <2>1 DEF CurrentBinding, TypeOK, BindingsGood
<1>2. CASE /\ ~ Unchanged(a)
           /\ bound[a].gen < MaxGen
           /\ bound' = [bound EXCEPT ![a] = NextBinding(a)]
           /\ lease' = RecoverLeases(p, 0, Nil)
  <2>1. NextBinding(a) \in Binding /\ NextBinding(a).gen > 0
    <3>1. bound[a].gen \in Nat
      BY AssetLocksAssumption DEF TypeOK, Binding
    <3> QED BY <1>2, <3>1, BindingTyped DEF NextBinding
  <2>2. bound' \in [Alias -> Binding] /\ BindingsGood'
    BY <1>2, <2>1 DEF TypeOK, BindingsGood
  <2> QED BY <1>2, <2>1, <2>2, LeasesTyped DEF CurrentBinding
<1> QED BY <1>1, <1>2 DEF RecordObservation

-----------------------------------------------------------------------------
(* How steps may change threads and rows without harm *)

(* Rows that are left alone keep what they promise.                         *)
LEMMA RowsKept ==
  ASSUME Rows, UNCHANGED txn
  PROVE  Rows'
BY DEF Rows, RowsGood, RowGood, NothingStandsAbove, Standing, OneUnresolvedPerAsset, UnresolvedOn

(* A thread that becomes engaged in no step of its own with the rows, or    *)
(* goes on being engaged with the same row.                                 *)
LEMMA ThreadStep ==
  ASSUME TypeOK, Threads, NEW r \in Request, NEW th, UNCHANGED <<up, txn>>,
         req' = [req EXCEPT ![r] = th],
         ThreadGood(th),
         Engaged(th) => Engaged(req[r]) /\ th.txn = req[r].txn
  PROVE  Threads'
<1>1. ASSUME NEW s \in Request
      PROVE  req'[s] = IF s = r THEN th ELSE req[s]
  BY DEF TypeOK
<1>2. ThreadsGood'
  BY <1>1 DEF Threads, ThreadsGood, ThreadGood, Engaged
<1>3. Exclusive'
  BY <1>1 DEF Threads, Exclusive, Engaged
<1> QED BY <1>2, <1>3 DEF Threads

(* A request that ends leaves nothing behind in the invariant.              *)
LEMMA IdleGood == ThreadGood(Idle) /\ ~ Engaged(Idle)
BY DEF ThreadGood, Idle, Engaged

(* Rows that are only interrupted keep everything the rows promise, and the *)
(* threads that work on rows keep theirs: their process is up, so it is not *)
(* taken for dead by anybody.                                               *)
LEMMA InterruptedRow ==
  ASSUME TypeOK, NEW p, NEW t \in Txn
  PROVE  LET row == RecoverInterrupted(p)[t] IN
         /\ row.snap = txn[t].snap /\ row.alias = txn[t].alias
         /\ row.backup = txn[t].backup /\ row.owner = txn[t].owner
         /\ row.status \in Unresolved <=> txn[t].status \in Unresolved
         /\ row.status # txn[t].status => row.status = "interrupted"
         /\ row.status = "none" <=> txn[t].status = "none"
         /\ row = NoRow <=> txn[t] = NoRow
         /\ txn[t].owner \in Process /\ up[txn[t].owner] = "up" => row = txn[t]
<1>1. txn[t] \in Row
  BY DEF TypeOK
<1>2. RecoverInterrupted(p)[t] =
        IF txn[t].status \in Working /\ OwnerState(p, txn[t].owner) = "dead"
        THEN [txn[t] EXCEPT !.status = "interrupted", !.from = txn[t].status]
        ELSE txn[t]
  BY DEF RecoverInterrupted
<1>3. CASE txn[t].status \in Working /\ OwnerState(p, txn[t].owner) = "dead"
  <2>1. ~ (txn[t].owner \in Process /\ up[txn[t].owner] = "up")
    BY <1>3 DEF OwnerState
  <2>2. /\ RecoverInterrupted(p)[t].status = "interrupted"
        /\ RecoverInterrupted(p)[t].snap = txn[t].snap
        /\ RecoverInterrupted(p)[t].alias = txn[t].alias
        /\ RecoverInterrupted(p)[t].backup = txn[t].backup
        /\ RecoverInterrupted(p)[t].owner = txn[t].owner
    BY <1>1, <1>2, <1>3 DEF Row
  <2>3. NoRow.status = "none"
    BY DEF NoRow
  <2>4. txn[t].status \in Unresolved /\ txn[t].status # "none"
    BY <1>3 DEF Working, Unresolved
  <2>5. "interrupted" \in Unresolved
    BY DEF Unresolved
  <2> QED BY <2>1, <2>2, <2>3, <2>4, <2>5
<1>4. CASE ~ (txn[t].status \in Working /\ OwnerState(p, txn[t].owner) = "dead")
  BY <1>2, <1>4
<1> QED BY <1>3, <1>4

LEMMA RowsInterrupted ==
  ASSUME TypeOK, Rows, NEW p, txn' = RecoverInterrupted(p)
  PROVE  Rows'
<1>1. RowsGood'
  BY InterruptedRow DEF Rows, RowsGood, RowGood
<1>2. NothingStandsAbove'
  BY InterruptedRow DEF Rows, NothingStandsAbove, Standing
<1>3. OneUnresolvedPerAsset'
  BY InterruptedRow DEF Rows, OneUnresolvedPerAsset, UnresolvedOn
<1> QED BY <1>1, <1>2, <1>3 DEF Rows

(* A row that is unresolved, or that is cancelled, may take any status that *)
(* its backup allows: no other row of its machine is unresolved beside it.  *)
LEMMA RowsSettled ==
  ASSUME TypeOK, Rows, NEW t \in Txn, NEW row \in Row,
         txn' = [txn EXCEPT ![t] = row],
         txn[t].status # "none",
         row.snap = txn[t].snap, row.alias = txn[t].alias,
         RowGood(row),
         txn[t].status \in Unresolved \/ row.status = "cancelled"
  PROVE  Rows'
<1>1. ASSUME NEW u \in Txn
      PROVE  txn'[u] = IF u = t THEN row ELSE txn[u]
  BY DEF TypeOK
<1>2. RowsGood'
  BY <1>1 DEF Rows, RowsGood, RowGood
<1>3. \A u \in Txn : txn'[u].snap = txn[u].snap
  BY <1>1
<1>4. \A u \in Txn : txn'[u].status \in Unresolved => txn[u].status \in Unresolved
  BY <1>1 DEF Unresolved, Working
<1>5. OneUnresolvedPerAsset'
  BY <1>3, <1>4 DEF Rows, OneUnresolvedPerAsset, UnresolvedOn
<1>6. NothingStandsAbove'
  <2> SUFFICES ASSUME NEW v \in Txn, NEW u \in Txn, u < v,
                      txn[u].snap.asset = txn[v].snap.asset, txn[u].snap.asset \in Asset,
                      txn'[u].status \in Unresolved, Standing(txn'[v])
               PROVE  FALSE
    BY <1>3 DEF NothingStandsAbove
  <2>1. txn[u].status \in Unresolved
    BY <1>4
  <2>2. u # v
    BY AssetLocksAssumption DEF Txn
  <2>3. CASE v = t
    <3>1. txn[t].status \in Unresolved
      BY <1>1, <2>3 DEF Standing
    <3> QED BY <2>1, <2>2, <2>3, <3>1 DEF Rows, OneUnresolvedPerAsset, UnresolvedOn
  <2>4. CASE v # t
    BY <1>1, <2>1, <2>4 DEF Rows, NothingStandsAbove
  <2> QED BY <2>3, <2>4
<1> QED BY <1>2, <1>5, <1>6 DEF Rows

(* What a step leaves of the invariant when only requests, leases, jobs,    *)
(* closeouts or commands change.                                            *)
LEMMA QuietStep ==
  ASSUME IInv, NEW r \in Request, NEW th \in Thread,
         UNCHANGED <<up, reach, bound, txn, target>>,
         req' = [req EXCEPT ![r] = th],
         ThreadGood(th),
         Engaged(th) => Engaged(req[r]) /\ th.txn = req[r].txn,
         lease' \in [Resource -> Lease],
         jobs' \subseteq Job,
         closeout' \in [Alias -> Closeout],
         remote' \subseteq Remote
  PROVE  IInv'
<1>1. TypeOK'
  BY DEF IInv, TypeOK
<1>2. Threads'
  BY ThreadStep DEF IInv
<1>3. Rows'
  BY RowsKept DEF IInv
<1>4. BindingsGood'
  BY DEF IInv, BindingsGood
<1> QED BY <1>1, <1>2, <1>3, <1>4 DEF IInv

-----------------------------------------------------------------------------
(* Requests arrive *)

(* A fresh request of a live process is a good thread.                      *)
LEMMA FreshThread ==
  ASSUME NEW kind \in {"audit", "direct", "scan", "apply", "closeout"},
         NEW at \in {"capture", "probe", "lease", "run", "record"},
         kind = "apply" => at = "capture",
         NEW cmd \in Command \cup {"none"}, NEW result \in Outcome \cup {"none"},
         NEW p \in Process, NEW a \in Alias, up[p] = "up",
         NEW th,
         th = [kind |-> kind, at |-> at, proc |-> p, alias |-> a, snap |-> NoBinding,
               txn |-> 0, seen |-> "none", cmd |-> cmd, result |-> result]
  PROVE  th \in Thread /\ ThreadGood(th) /\ ~ Engaged(th)
<1>1. th \in Thread
  BY NullsTyped, AssetLocksAssumption DEF Thread, Status, Unresolved
<1> QED BY <1>1 DEF ThreadGood, Engaged

(* One lemma per way in: the new request is engaged with no row yet.        *)
LEMMA CreateAuditJobStep ==
  ASSUME IInv, NEW r \in Request, NEW p \in Process, NEW a \in Alias, CreateAuditJob(r, p, a)
  PROVE  IInv'
<1>1. PICK th : th = [Idle EXCEPT !.kind = "audit", !.at = "probe", !.cmd = "audit", !.proc = p, !.alias = a]
  OBVIOUS
<1>2. up[p] = "up" /\ req' = [req EXCEPT ![r] = th]
  BY <1>1 DEF CreateAuditJob, Serve, Idle
<1>3. th = [kind |-> "audit", at |-> "probe", proc |-> p, alias |-> a, snap |-> NoBinding,
            txn |-> 0, seen |-> "none", cmd |-> "audit", result |-> "none"]
  BY <1>1 DEF Idle
<1>4. th \in Thread /\ ThreadGood(th) /\ ~ Engaged(th)
  BY <1>2, <1>3, FreshThread DEF Command, ReadOnly
<1>5. lease' \in [Resource -> Lease]
  BY LeasesTyped DEF CreateAuditJob, IInv
<1>6. jobs' \subseteq Job
  BY DEF CreateAuditJob, IInv, TypeOK, Job
<1> QED BY <1>2, <1>4, <1>5, <1>6, QuietStep DEF CreateAuditJob, IInv, TypeOK

LEMMA StartDirectRunStep ==
  ASSUME IInv, NEW r \in Request, NEW p \in Process, NEW a \in Alias, StartDirectRun(r, p, a)
  PROVE  IInv'
<1>0. PICK kind \in {"direct", "scan"}, at \in {"probe", "lease"} :
        Serve(r, [Idle EXCEPT !.kind = kind, !.at = at, !.cmd = "audit", !.proc = p, !.alias = a])
  BY DEF StartDirectRun
<1>1. PICK th : th = [Idle EXCEPT !.kind = kind, !.at = at, !.cmd = "audit", !.proc = p, !.alias = a]
  OBVIOUS
<1>2. up[p] = "up" /\ req' = [req EXCEPT ![r] = th]
  BY <1>0, <1>1 DEF Serve, Idle
<1>3. th = [kind |-> kind, at |-> at, proc |-> p, alias |-> a, snap |-> NoBinding,
            txn |-> 0, seen |-> "none", cmd |-> "audit", result |-> "none"]
  BY <1>1 DEF Idle
<1>4. th \in Thread /\ ThreadGood(th) /\ ~ Engaged(th)
  BY <1>2, <1>3, FreshThread DEF Command, ReadOnly
<1> QED BY <1>2, <1>4, <1>0, QuietStep DEF StartDirectRun, IInv, TypeOK

LEMMA StartApplyStep ==
  ASSUME IInv, NEW r \in Request, NEW p \in Process, NEW a \in Alias, StartApply(r, p, a)
  PROVE  IInv'
<1>1. PICK th : th = [Idle EXCEPT !.kind = "apply", !.at = "capture", !.proc = p, !.alias = a]
  OBVIOUS
<1>2. up[p] = "up" /\ req' = [req EXCEPT ![r] = th]
  BY <1>1 DEF StartApply, Serve, Idle
<1>3. th = [kind |-> "apply", at |-> "capture", proc |-> p, alias |-> a, snap |-> NoBinding,
            txn |-> 0, seen |-> "none", cmd |-> "none", result |-> "none"]
  BY <1>1 DEF Idle
<1>4. th \in Thread /\ ThreadGood(th) /\ ~ Engaged(th)
  BY <1>2, <1>3, FreshThread DEF Command, ReadOnly
<1> QED BY <1>2, <1>4, QuietStep DEF StartApply, IInv, TypeOK

LEMMA StartRollbackStep ==
  ASSUME IInv, NEW r \in Request, NEW p \in Process, NEW t \in Txn, StartRollback(r, p, t)
  PROVE  IInv'
<1>1. PICK th : th = [Idle EXCEPT !.kind = "rollback", !.at = "capture", !.proc = p,
                                  !.alias = txn[t].alias, !.txn = t, !.seen = txn[t].status,
                                  !.snap = txn[t].snap]
  OBVIOUS
<1>2. up[p] = "up" /\ req' = [req EXCEPT ![r] = th]
  BY <1>1 DEF StartRollback, Serve, Idle
<1>3. txn[t] \in Row /\ txn[t].alias \in Alias
  BY DEF IInv, TypeOK, Rows, RowsGood, RowGood, StartRollback, Claimable
<1>4. th = [kind |-> "rollback", at |-> "capture", proc |-> p, alias |-> txn[t].alias,
            snap |-> txn[t].snap, txn |-> t, seen |-> txn[t].status, cmd |-> "none", result |-> "none"]
  BY <1>1 DEF Idle
<1>5. th \in Thread
  BY <1>3, <1>4, AssetLocksAssumption DEF Thread, Row, Txn
<1>6. ThreadGood(th) /\ ~ Engaged(th)
  BY <1>2, <1>3, <1>4 DEF ThreadGood, Engaged
<1> QED BY <1>2, <1>5, <1>6, QuietStep DEF StartRollback, IInv, TypeOK

(* A good thread stays good when rows of the dead are interrupted.          *)
LEMMA InterruptedThread ==
  ASSUME TypeOK, NEW p, NEW th, ThreadGood(th), txn' = RecoverInterrupted(p), UNCHANGED up
  PROVE  ThreadGood(th)'
<1>1. CASE Engaged(th)
  <2>1. th.txn \in Txn /\ th.proc \in Process /\ up[th.proc] = "up" /\ txn[th.txn].owner = th.proc
    BY <1>1 DEF ThreadGood, Engaged
  <2>2. txn'[th.txn] = txn[th.txn]
    BY <2>1, InterruptedRow
  <2> QED BY <2>2 DEF ThreadGood, Engaged
<1>2. CASE ~ Engaged(th)
  <2>1. th.kind = "rollback" => txn'[th.txn].alias = txn[th.txn].alias
    BY InterruptedRow DEF ThreadGood
  <2> QED BY <1>2, <2>1 DEF ThreadGood, Engaged
<1> QED BY <1>1, <1>2

(* A closeout step that also interrupts the rows of the dead.               *)
LEMMA InterruptStep ==
  ASSUME IInv, NEW p, NEW r \in Request, NEW th \in Thread, ThreadGood(th), ~ Engaged(th),
         UNCHANGED <<up, reach, bound, jobs, target>>,
         req' = [req EXCEPT ![r] = th],
         txn' = RecoverInterrupted(p),
         lease' \in [Resource -> Lease],
         closeout' \in [Alias -> Closeout],
         remote' \subseteq Remote
  PROVE  IInv'
<1>1. TypeOK'
  BY RecoveredTyped DEF IInv, TypeOK
<1>2. ASSUME NEW s \in Request
      PROVE  req'[s] = IF s = r THEN th ELSE req[s]
  BY DEF IInv, TypeOK
<1>3. ASSUME NEW s \in Request
      PROVE  ThreadGood(req[s])'
  <2>1. PICK other : other = req[s]
    OBVIOUS
  <2>2. ThreadGood(other)'
    BY <2>1, InterruptedThread DEF IInv, Threads, ThreadsGood
  <2>3. ThreadGood(th)'
    BY InterruptedThread DEF IInv
  <2> QED BY <1>2, <2>1, <2>2, <2>3 DEF ThreadGood, Engaged
<1>4. Exclusive'
  BY <1>2 DEF IInv, Threads, Exclusive, Engaged
<1>5. Rows'
  BY RowsInterrupted DEF IInv
<1> QED BY <1>1, <1>3, <1>4, <1>5 DEF IInv, Threads, ThreadsGood, BindingsGood

LEMMA StartCloseoutStep ==
  ASSUME IInv, NEW r \in Request, NEW p \in Process, NEW a \in Alias, StartCloseout(r, p, a)
  PROVE  IInv'
<1>1. PICK th : th = [Idle EXCEPT !.kind = "closeout", !.at = "run", !.cmd = "revoke", !.proc = p, !.alias = a]
  OBVIOUS
<1>2. up[p] = "up" /\ req' = [req EXCEPT ![r] = th]
  BY <1>1 DEF StartCloseout, Serve, Idle
<1>3. th = [kind |-> "closeout", at |-> "run", proc |-> p, alias |-> a, snap |-> NoBinding,
            txn |-> 0, seen |-> "none", cmd |-> "revoke", result |-> "none"]
  BY <1>1 DEF Idle
<1>4. th \in Thread /\ ThreadGood(th) /\ ~ Engaged(th)
  BY <1>2, <1>3, FreshThread DEF Command
<1>5. lease' \in [Resource -> Lease]
  BY LeasesTyped DEF StartCloseout, IInv
<1>6. closeout' \in [Alias -> Closeout]
  BY DEF StartCloseout, IInv, TypeOK, Closeout, CloseoutStatus
<1>7. remote' \subseteq Remote
  <2>1. bound[a].asset \in Asset \cup {Nil}
    BY DEF IInv, TypeOK, Binding
  <2> QED BY <2>1, AssetLocksAssumption DEF StartCloseout, IInv, TypeOK, Remote
<1> QED BY <1>2, <1>4, <1>5, <1>6, <1>7, InterruptStep DEF StartCloseout

LEMMA RecoverCloseoutStep ==
  ASSUME IInv, NEW r \in Request, NEW p \in Process, NEW a \in Alias,
         NEW resolution \in {"ok", "failed"}, RecoverCloseout(r, p, a, resolution)
  PROVE  IInv'
<1>1. PICK th : th = [Idle EXCEPT !.kind = "closeout", !.at = "record", !.cmd = "revoke",
                                  !.proc = p, !.alias = a, !.result = resolution]
  OBVIOUS
<1>2. up[p] = "up" /\ req' = [req EXCEPT ![r] = th]
  BY <1>1 DEF RecoverCloseout, Serve, Idle
<1>3. th = [kind |-> "closeout", at |-> "record", proc |-> p, alias |-> a, snap |-> NoBinding,
            txn |-> 0, seen |-> "none", cmd |-> "revoke", result |-> resolution]
  BY <1>1 DEF Idle
<1>4. th \in Thread /\ ThreadGood(th) /\ ~ Engaged(th)
  BY <1>2, <1>3, FreshThread DEF Command, Outcome
<1>5. lease' \in [Resource -> Lease]
  BY LeasesTyped DEF RecoverCloseout, IInv
<1>6. closeout' \in [Alias -> Closeout]
  BY DEF RecoverCloseout, IInv, TypeOK, Closeout
<1> QED BY <1>2, <1>4, <1>5, <1>6, InterruptStep DEF RecoverCloseout, IInv, TypeOK

-----------------------------------------------------------------------------
(* A request goes on *)

(* A request that observes its machine: the binding may get a generation.   *)
LEMMA ObserveStep ==
  ASSUME IInv, NEW p, NEW a \in Alias, RecordObservation(p, a),
         NEW r \in Request, NEW th \in Thread,
         UNCHANGED <<up, reach, jobs, txn, closeout, remote, target>>,
         req' = [req EXCEPT ![r] = th],
         ThreadGood(th),
         Engaged(th) => Engaged(req[r]) /\ th.txn = req[r].txn
  PROVE  IInv'
<1>1. TypeOK' /\ BindingsGood'
  BY ObservationTyped DEF IInv, TypeOK
<1>2. Threads'
  BY ThreadStep DEF IInv
<1>3. Rows'
  BY RowsKept DEF IInv
<1> QED BY <1>1, <1>2, <1>3 DEF IInv

(* What the invariant says of a request that is doing something.            *)
LEMMA Busy ==
  ASSUME IInv, NEW r \in Request, req[r].at # "idle"
  PROVE  /\ req[r] \in Thread /\ ThreadGood(req[r])
         /\ req[r].proc \in Process /\ req[r].alias \in Alias
BY DEF IInv, TypeOK, Threads, ThreadsGood, ThreadGood

LEMMA CaptureStep ==
  ASSUME IInv, NEW r \in Request, Capture(r)
  PROVE  IInv'
<1> DEFINE a == req[r].alias
<1>1. /\ req[r] \in Thread /\ ThreadGood(req[r]) /\ a \in Alias
      /\ req[r].at = "capture"
  BY Busy DEF Capture, Is
<1>2. CurrentBinding(a) \in Binding /\ CurrentBinding(a).gen > 0
  BY <1>1, ObservationTyped DEF Capture, IInv
<1>3. PICK th : th = IF req[r].kind = "rollback" /\ CurrentBinding(a).gen # req[r].snap.gen
                     THEN Idle
                     ELSE [req[r] EXCEPT !.at = "admit", !.snap = CurrentBinding(a)]
  OBVIOUS
<1>4. th \in Thread /\ ThreadGood(th) /\ ~ Engaged(th)
  <2>1. CASE th = Idle
    BY <2>1, NullsTyped, IdleGood
  <2>2. CASE th = [req[r] EXCEPT !.at = "admit", !.snap = CurrentBinding(a)]
    BY <1>1, <1>2, <2>2 DEF Thread, ThreadGood, Engaged
  <2> QED BY <1>3, <2>1, <2>2
<1>5. req' = [req EXCEPT ![r] = th]
  BY <1>3 DEF Capture
<1> QED BY <1>1, <1>4, <1>5, ObserveStep DEF Capture

LEMMA ProbeStep ==
  ASSUME IInv, NEW r \in Request, Probe(r)
  PROVE  IInv'
<1> DEFINE a == req[r].alias
<1>1. /\ req[r] \in Thread /\ ThreadGood(req[r]) /\ a \in Alias
      /\ req[r].at = "probe" /\ req[r].kind # "scan"
  BY Busy DEF Probe, Is
<1>2. CurrentBinding(a) \in Binding
  BY <1>1, ObservationTyped DEF Probe, IInv
<1>3. PICK th : th = IF req[r].txn # 0 /\ CurrentBinding(a).gen # req[r].snap.gen
                     THEN [req[r] EXCEPT !.at = "record", !.result = "failed"]
                     ELSE [req[r] EXCEPT !.at = "lease", !.snap = CurrentBinding(a)]
  OBVIOUS
<1>4. /\ th \in Thread /\ ThreadGood(th)
      /\ Engaged(th) => Engaged(req[r]) /\ th.txn = req[r].txn
  <2>1. CASE th = [req[r] EXCEPT !.at = "record", !.result = "failed"]
    BY <1>1, <2>1 DEF Thread, ThreadGood, Engaged, Outcome
  <2>2. CASE th = [req[r] EXCEPT !.at = "lease", !.snap = CurrentBinding(a)]
    BY <1>1, <1>2, <2>2 DEF Thread, ThreadGood, Engaged
  <2> QED BY <1>3, <2>1, <2>2
<1>5. req' = [req EXCEPT ![r] = th]
  BY <1>3 DEF Probe
<1> QED BY <1>1, <1>4, <1>5, ObserveStep DEF Probe

LEMMA AcquireAssetExecutionStep ==
  ASSUME IInv, NEW r \in Request, AcquireAssetExecution(r)
  PROVE  IInv'
<1> DEFINE p == req[r].proc
           a == req[r].alias
           leases == RecoverLeases(p, req[r].txn, Nil)
<1>1. /\ req[r] \in Thread /\ ThreadGood(req[r]) /\ p \in Process /\ a \in Alias
      /\ req[r].at = "lease"
  BY Busy DEF AcquireAssetExecution
<1>2. PICK th : th = [req[r] EXCEPT !.at = "run"]
  OBVIOUS
<1>3. /\ th \in Thread /\ ThreadGood(th)
      /\ Engaged(th) => Engaged(req[r]) /\ th.txn = req[r].txn
  BY <1>1, <1>2 DEF Thread, ThreadGood, Engaged
<1>4. lease' \in [Resource -> Lease]
  <2>1. [owner |-> p, req |-> r, alias |-> a] \in Lease
    BY <1>1 DEF Lease
  <2>2. leases \in [Resource -> Lease]
    BY LeasesTyped DEF IInv
  <2> QED BY <2>1, <2>2 DEF AcquireAssetExecution
<1>5. remote' \subseteq Remote
  <2>1. req[r].snap.asset \in Asset \cup {Nil} /\ req[r].txn \in 0 .. MaxTxn
    BY <1>1 DEF Thread, Binding
  <2> QED BY <1>1, <2>1 DEF AcquireAssetExecution, IInv, TypeOK, Remote
<1>6. req' = [req EXCEPT ![r] = th]
  BY <1>2 DEF AcquireAssetExecution
<1> QED BY <1>3, <1>4, <1>5, <1>6, QuietStep DEF AcquireAssetExecution, IInv, TypeOK

LEMMA GiveUpStep ==
  ASSUME IInv, NEW r \in Request, GiveUp(r)
  PROVE  IInv'
<1>1. req[r] \in Thread /\ ThreadGood(req[r]) /\ req[r].at \in {"capture", "admit", "probe", "lease"}
  BY Busy DEF GiveUp
<1>2. PICK th : th = IF req[r].at \in {"capture", "admit"} THEN Idle
                     ELSE [req[r] EXCEPT !.at = "record", !.result = "failed"]
  OBVIOUS
<1>3. /\ th \in Thread /\ ThreadGood(th)
      /\ Engaged(th) => Engaged(req[r]) /\ th.txn = req[r].txn
  <2>1. CASE th = Idle
    BY <2>1, NullsTyped, IdleGood
  <2>2. CASE req[r].at \in {"probe", "lease"} /\ th = [req[r] EXCEPT !.at = "record", !.result = "failed"]
    BY <1>1, <2>2 DEF Thread, ThreadGood, Engaged, Outcome
  <2> QED BY <1>1, <1>2, <2>1, <2>2
<1>4. req' = [req EXCEPT ![r] = th]
  BY <1>2 DEF GiveUp
<1> QED BY <1>3, <1>4, QuietStep DEF GiveUp, IInv, TypeOK

LEMMA EndRunStep ==
  ASSUME IInv, NEW r \in Request, EndRun(r)
  PROVE  IInv'
<1>1. req[r] \in Thread /\ ThreadGood(req[r]) /\ req[r].at = "run"
  BY Busy DEF EndRun
<1>2. PICK result \in Outcome : req' = [req EXCEPT ![r].at = "record", ![r].result = result]
  BY <1>1 DEF EndRun, Thread, Outcome
<1>3. PICK th : th = [req[r] EXCEPT !.at = "record", !.result = result]
  OBVIOUS
<1>4. /\ th \in Thread /\ ThreadGood(th)
      /\ Engaged(th) => Engaged(req[r]) /\ th.txn = req[r].txn
  BY <1>1, <1>3 DEF Thread, ThreadGood, Engaged
<1>5. req' = [req EXCEPT ![r] = th]
  BY <1>2, <1>3 DEF IInv, TypeOK
<1>6. lease' \in [Resource -> Lease]
  BY NullsTyped DEF EndRun, IInv, TypeOK
<1> QED BY <1>4, <1>5, <1>6, QuietStep DEF EndRun, IInv, TypeOK

LEMMA FinishAuditStep ==
  ASSUME IInv, NEW r \in Request, FinishAudit(r)
  PROVE  IInv'
<1>1. jobs' \subseteq Job
  BY DEF FinishAudit, IInv, TypeOK
<1> QED BY <1>1, NullsTyped, IdleGood, QuietStep DEF FinishAudit, IInv, TypeOK

(* The steps of a closeout change its record and its own request.           *)
LEMMA CloseoutStep ==
  ASSUME IInv, NEW r \in Request, req[r].kind = "closeout", req[r].at # "idle",
         NEW at \in {"finish", "release"},
         req' = [req EXCEPT ![r].at = at],
         closeout' \in [Alias -> Closeout],
         UNCHANGED <<up, reach, bound, lease, jobs, txn, remote, target>>
  PROVE  IInv'
<1>1. req[r] \in Thread /\ ThreadGood(req[r])
  BY Busy
<1>2. PICK th : th = [req[r] EXCEPT !.at = at]
  OBVIOUS
<1>3. th \in Thread /\ ThreadGood(th) /\ ~ Engaged(th)
  BY <1>1, <1>2 DEF Thread, ThreadGood, Engaged
<1>4. req' = [req EXCEPT ![r] = th]
  BY <1>2
<1> QED BY <1>3, <1>4, QuietStep DEF IInv, TypeOK

LEMMA RecordCloseoutStep ==
  ASSUME IInv, NEW r \in Request, RecordCloseout(r)
  PROVE  IInv'
<1>1. PICK status \in CloseoutStatus :
        closeout' = IF Claims(r) THEN [closeout EXCEPT ![req[r].alias].status = status] ELSE closeout
  BY DEF RecordCloseout, CloseoutStatus, Settled
<1>2. closeout' \in [Alias -> Closeout]
  BY <1>1 DEF IInv, TypeOK, Closeout
<1>3. PICK at \in {"finish", "release"} : req' = [req EXCEPT ![r].at = at]
  BY DEF RecordCloseout
<1> QED BY <1>2, <1>3, CloseoutStep DEF RecordCloseout, Is

LEMMA CompleteLocalStep ==
  ASSUME IInv, NEW r \in Request, CompleteLocal(r) \/ CompleteLocalFails(r)
  PROVE  IInv'
<1>1. closeout' \in [Alias -> Closeout]
  <2>1. "completed" \in CloseoutStatus
    BY DEF CloseoutStatus, Settled
  <2>2. CASE CompleteLocal(r)
    BY <2>1, <2>2 DEF CompleteLocal, IInv, TypeOK, Closeout
  <2>3. CASE CompleteLocalFails(r)
    BY <2>3 DEF CompleteLocalFails, IInv, TypeOK
  <2> QED BY <2>2, <2>3
<1>2. /\ req[r].kind = "closeout" /\ req[r].at = "finish"
      /\ req' = [req EXCEPT ![r].at = "release"]
      /\ UNCHANGED <<up, reach, bound, lease, jobs, txn, remote, target>>
  BY DEF CompleteLocal, CompleteLocalFails, Is
<1> QED BY <1>1, <1>2, CloseoutStep

LEMMA ReleaseCloseoutStep ==
  ASSUME IInv, NEW r \in Request, ReleaseCloseout(r)
  PROVE  IInv'
<1> DEFINE a == req[r].alias
<1>1. a \in Alias
  BY Busy DEF ReleaseCloseout, Is
<1>2. closeout' \in [Alias -> Closeout]
  <2>1. closeout[a] \in Closeout
    BY <1>1 DEF IInv, TypeOK
  <2>2. [status |-> IF closeout[a].status = "in_progress" THEN "unknown" ELSE closeout[a].status,
         owner |-> Nil, claim |-> Nil] \in Closeout
    BY <2>1 DEF Closeout, CloseoutStatus
  <2> QED BY <1>1, <2>2 DEF ReleaseCloseout, IInv, TypeOK
<1> QED BY <1>2, NullsTyped, IdleGood, QuietStep DEF ReleaseCloseout, EndRequest, IInv, TypeOK

-----------------------------------------------------------------------------
(* Rows are created, claimed and settled *)

(* A request takes a row nobody works on, beside the interruption of the    *)
(* rows of the dead.                                                        *)
LEMMA EngageStep ==
  ASSUME TypeOK, Threads, NEW p, NEW r \in Request, NEW th, NEW t \in Txn, NEW row,
         UNCHANGED up, req' = [req EXCEPT ![r] = th],
         txn' = [RecoverInterrupted(p) EXCEPT ![t] = row],
         txn[t].status \notin Working,
         txn[t].alias \in Alias => row.alias = txn[t].alias,
         th.txn = t, th.at = "probe", th.proc \in Process, th.alias \in Alias, up[th.proc] = "up",
         row.status \in Working, row.owner = th.proc, row.alias = th.alias
  PROVE  Threads'
<1>1. ASSUME NEW s \in Request
      PROVE  req'[s] = IF s = r THEN th ELSE req[s]
  BY DEF TypeOK
<1>0. \A u \in Txn : txn'[u] = IF u = t THEN row ELSE RecoverInterrupted(p)[u]
  BY DEF RecoverInterrupted
<1>2. ASSUME NEW s \in Request, Engaged(req[s])
      PROVE  req[s].txn # t
  BY <1>2 DEF Threads, ThreadsGood, ThreadGood
<1>3. ASSUME NEW s \in Request, s # r
      PROVE  ThreadGood(req[s])'
  <2>1. CASE Engaged(req[s])
    <3>1. /\ req[s].txn \in Txn /\ req[s].txn # t
          /\ req[s].proc \in Process /\ up[req[s].proc] = "up"
          /\ txn[req[s].txn].owner = req[s].proc
      BY <1>2, <2>1 DEF Threads, ThreadsGood, ThreadGood, Engaged
    <3>2. txn'[req[s].txn] = txn[req[s].txn]
      BY <1>0, <3>1, InterruptedRow
    <3> QED BY <1>1, <1>3, <2>1, <3>1, <3>2 DEF Threads, ThreadsGood, ThreadGood, Engaged
  <2>2. CASE ~ Engaged(req[s])
    <3>1. req[s].kind = "rollback" => txn'[req[s].txn].alias = txn[req[s].txn].alias
      <4> SUFFICES ASSUME req[s].kind = "rollback"
                   PROVE  txn'[req[s].txn].alias = txn[req[s].txn].alias
        OBVIOUS
      <4>1. req[s] \in Thread /\ ThreadGood(req[s])
        BY DEF TypeOK, Threads, ThreadsGood
      <4>2. req[s].txn \in Txn /\ txn[req[s].txn].alias \in Alias
        BY <4>1 DEF ThreadGood
      <4>3. CASE req[s].txn = t
        BY <1>0, <4>2, <4>3
      <4>4. CASE req[s].txn # t
        BY <1>0, <4>2, <4>4, InterruptedRow
      <4> QED BY <4>3, <4>4
    <3> QED BY <1>1, <1>3, <2>2, <3>1 DEF Threads, ThreadsGood, ThreadGood, Engaged
  <2> QED BY <2>1, <2>2
<1>4. ThreadGood(req[r])'
  BY <1>0, <1>1 DEF ThreadGood, Engaged
<1>5. Exclusive'
  BY <1>1, <1>2 DEF Threads, Exclusive, Engaged
<1> QED BY <1>3, <1>4, <1>5 DEF Threads, ThreadsGood

LEMMA CreateRemediationStep ==
  ASSUME IInv, NEW r \in Request, CreateRemediation(r)
  PROVE  IInv'
<1> DEFINE p == req[r].proc
           a == req[r].alias
<1>1. /\ req[r] \in Thread /\ ThreadGood(req[r]) /\ p \in Process /\ a \in Alias
      /\ req[r].kind = "apply" /\ req[r].at = "admit" /\ up[p] = "up"
      /\ bound[a] = req[r].snap /\ bound[a].gen > 0
  BY Busy DEF CreateRemediation, Is, ThreadGood
<1>2. PICK t \in Txn :
        /\ \A u \in Txn : txn[u] = NoRow <=> u >= t
        /\ txn' = [RecoverInterrupted(p) EXCEPT
             ![t] = [status |-> "preparing", from |-> "none", alias |-> a, snap |-> req[r].snap,
                     owner |-> p, backup |-> FALSE]]
        /\ req' = [req EXCEPT ![r].at = "probe", ![r].cmd = "preAudit", ![r].txn = t]
  BY DEF CreateRemediation
<1>3. PICK row : row = [status |-> "preparing", from |-> "none", alias |-> a, snap |-> req[r].snap,
                        owner |-> p, backup |-> FALSE]
  OBVIOUS
<1>4. row \in Row
  BY <1>1, <1>3 DEF Row, Status, Unresolved, Working, Thread
<1>5. PICK old : old = RecoverInterrupted(p)
  OBVIOUS
<1>6. /\ old \in [Txn -> Row] /\ txn' \in [Txn -> Row]
      /\ \A u \in Txn : txn'[u] = IF u = t THEN row ELSE old[u]
  BY <1>2, <1>3, <1>4, <1>5, RecoveredTyped DEF IInv
<1>7. PICK th : th = [req[r] EXCEPT !.at = "probe", !.cmd = "preAudit", !.txn = t]
  OBVIOUS
<1>8. /\ th \in Thread /\ th.kind = "apply" /\ th.at = "probe" /\ th.txn = t
      /\ th.proc = p /\ th.alias = a
  <2>1. "preAudit" \in Command \cup {"none"} /\ t \in 0 .. MaxTxn
    BY AssetLocksAssumption DEF Command, ReadOnly, Txn
  <2> QED BY <1>1, <1>7, <2>1 DEF Thread
<1>9. req' = [req EXCEPT ![r] = th]
  BY <1>2, <1>7 DEF IInv, TypeOK
<1>10. TypeOK'
  <2>1. lease' \in [Resource -> Lease]
    BY LeasesTyped DEF IInv, CreateRemediation
  <2> QED BY <1>6, <1>8, <1>9, <2>1 DEF IInv, TypeOK, CreateRemediation
<1>11. \A u \in Txn : u >= t => txn[u].status = "none"
  BY <1>2 DEF NoRow
<1>12. \A u \in Txn : u # t => /\ txn'[u].snap = txn[u].snap /\ txn'[u].alias = txn[u].alias
                               /\ txn'[u].backup = txn[u].backup
                               /\ txn'[u].status \in Unresolved <=> txn[u].status \in Unresolved
                               /\ txn'[u].status # txn[u].status => txn'[u].status = "interrupted"
                               /\ txn'[u].status = "none" <=> txn[u].status = "none"
  BY <1>5, <1>6, InterruptedRow DEF IInv
<1>13. RowsGood'
  BY <1>1, <1>3, <1>6, <1>12 DEF IInv, Rows, RowsGood, RowGood
<1>14. OneUnresolvedPerAsset'
  <2>1. ASSUME NEW u \in Txn, txn[u].status \in Unresolved
        PROVE  txn[u].snap.asset # bound[a].asset
    BY <1>1, <2>1 DEF CreateRemediation, AssetIdle, ActiveAssetRemediation, Bound, Txn
  <2>2. txn'[t].snap.asset = bound[a].asset
    BY <1>1, <1>3, <1>6
  <2> QED BY <1>12, <2>1, <2>2 DEF IInv, Rows, OneUnresolvedPerAsset, UnresolvedOn
<1>15. NothingStandsAbove'
  <2> SUFFICES ASSUME NEW v \in Txn, NEW u \in Txn, u < v,
                      txn'[u].snap.asset = txn'[v].snap.asset, txn'[u].snap.asset \in Asset,
                      txn'[u].status \in Unresolved, Standing(txn'[v])
               PROVE  FALSE
    BY DEF NothingStandsAbove
  <2>1. v # t
    BY <1>3, <1>6 DEF Standing
  <2>2. txn[v].status # "none"
    BY <1>12, <2>1 DEF Standing
  <2>3. u # t
    BY <1>11, <2>2 DEF Txn
  <2> QED BY <1>12, <2>1, <2>3 DEF IInv, Rows, NothingStandsAbove, Standing
<1>16. Threads'
  <2>1. txn[t].status \notin Working /\ txn[t].alias \notin Alias
    BY <1>2, AssetLocksAssumption DEF Txn, NoRow, Working
  <2>2. txn' = [RecoverInterrupted(p) EXCEPT ![t] = row]
    BY <1>2, <1>3
  <2>3. row.status \in Working /\ row.owner = p /\ row.alias = a
    BY <1>3 DEF Working
  <2>4. TypeOK /\ Threads /\ UNCHANGED up
    BY DEF IInv, CreateRemediation
  <2>5. /\ req' = [req EXCEPT ![r] = th]
        /\ txn[t].status \notin Working
        /\ txn[t].alias \in Alias => row.alias = txn[t].alias
        /\ th.txn = t /\ th.at = "probe" /\ th.proc \in Process /\ th.alias \in Alias
        /\ up[th.proc] = "up"
        /\ row.status \in Working /\ row.owner = th.proc /\ row.alias = th.alias
    BY <1>1, <1>8, <1>9, <2>1, <2>3
  <2> HIDE DEF p, a
  <2> QED BY <1>1, <2>2, <2>4, <2>5, EngageStep
<1> QED BY <1>10, <1>13, <1>14, <1>15, <1>16 DEF IInv, Rows, BindingsGood, CreateRemediation


LEMMA ClaimRollbackStep ==
  ASSUME IInv, NEW r \in Request, ClaimRollback(r)
  PROVE  IInv'
<1> DEFINE p == req[r].proc
           a == req[r].alias
           t == req[r].txn
<1>1. /\ req[r] \in Thread /\ ThreadGood(req[r]) /\ p \in Process /\ a \in Alias
      /\ req[r].kind = "rollback" /\ req[r].at = "admit" /\ up[p] = "up"
      /\ t \in Txn /\ txn[t].alias = a
  BY Busy DEF ClaimRollback, Is, ThreadGood
<1>2. PICK old : old = RecoverInterrupted(p)
  OBVIOUS
<1>3. old \in [Txn -> Row]
  BY <1>2, RecoveredTyped DEF IInv
<1>4. PICK row : row = [old[t] EXCEPT !.status = "rolling_back", !.owner = p, !.from = "none"]
  OBVIOUS
<1>5. /\ row \in Row
      /\ row.status = "rolling_back" /\ row.owner = p
      /\ row.alias = old[t].alias /\ row.snap = old[t].snap /\ row.backup = old[t].backup
  <2>1. {"rolling_back", "none"} \subseteq Status
    BY DEF Status, Unresolved, Working
  <2> QED BY <1>1, <1>3, <1>4, <2>1 DEF Row
<1>6. /\ txn' = [old EXCEPT ![t] = row]
      /\ txn' \in [Txn -> Row]
      /\ \A u \in Txn : txn'[u] = IF u = t THEN row ELSE old[u]
  <2>1. txn' = [old EXCEPT ![t] = row]
    BY <1>2, <1>3, <1>4 DEF ClaimRollback
  <2> QED BY <1>3, <1>5, <2>1
<1>7. PICK th : th = [req[r] EXCEPT !.at = "probe", !.cmd = "rollback"]
  OBVIOUS
<1>8. th \in Thread /\ th.at = "probe" /\ th.txn = t /\ th.proc = p /\ th.alias = a
  <2>1. "rollback" \in Command \cup {"none"}
    BY DEF Command, Mutating
  <2> QED BY <1>1, <1>7, <2>1 DEF Thread
<1>9. req' = [req EXCEPT ![r] = th]
  BY <1>7 DEF ClaimRollback, IInv, TypeOK
<1>10. TypeOK'
  <2>1. req' \in [Request -> Thread]
    BY <1>8, <1>9 DEF IInv, TypeOK
  <2> QED BY <1>6, <2>1 DEF IInv, TypeOK, ClaimRollback
<1>11. \A u \in Txn : /\ old[u].snap = txn[u].snap /\ old[u].alias = txn[u].alias
                      /\ old[u].backup = txn[u].backup
                      /\ old[u].status \in Unresolved <=> txn[u].status \in Unresolved
                      /\ old[u].status # txn[u].status => old[u].status = "interrupted"
                      /\ old[u].status = "none" <=> txn[u].status = "none"
  BY <1>2, InterruptedRow DEF IInv
<1>12. txn[t].status \in Claimable /\ txn[t].backup
  BY DEF ClaimRollback
<1>13. RowsGood'
  BY <1>1, <1>5, <1>6, <1>11, <1>12 DEF IInv, Rows, RowsGood, RowGood
<1>14. ASSUME NEW u \in Txn, u # t, txn[u].status \in Unresolved, txn[u].snap.asset = txn[t].snap.asset,
              txn[t].snap.asset \in Asset
       PROVE  FALSE
  <2>1. CASE u > t
    <3>1. txn[u].status \in {"backed_up", "rolling_back"} => txn[u].backup
      BY DEF IInv, Rows, RowsGood, RowGood
    <3> QED BY <1>14, <2>1, <3>1 DEF ClaimRollback, NewerRemediation, Unresolved, Working
  <2>2. CASE u < t
    <3>1. ~ Standing(txn[t])
      BY <1>1, <1>14, <2>2 DEF IInv, Rows, NothingStandsAbove
    <3>2. txn[t].status \in Unresolved
      BY <1>12, <3>1 DEF Standing, Claimable, Unresolved
    <3> QED BY <1>1, <1>14, <3>2 DEF IInv, Rows, OneUnresolvedPerAsset, UnresolvedOn
  <2> QED BY <1>1, <1>14, <2>1, <2>2, AssetLocksAssumption DEF Txn
<1>15. OneUnresolvedPerAsset'
  BY <1>5, <1>6, <1>11, <1>14 DEF IInv, Rows, OneUnresolvedPerAsset, UnresolvedOn
<1>16. NothingStandsAbove'
  <2> SUFFICES ASSUME NEW v \in Txn, NEW u \in Txn, u < v,
                      txn'[u].snap.asset = txn'[v].snap.asset, txn'[u].snap.asset \in Asset,
                      txn'[u].status \in Unresolved, Standing(txn'[v])
               PROVE  FALSE
    BY DEF NothingStandsAbove
  <2>1. v # t /\ txn[v].snap = txn'[v].snap /\ Standing(txn[v])
    BY <1>5, <1>6, <1>11 DEF Standing
  <2>2. txn'[u].snap = txn[u].snap
    BY <1>5, <1>6, <1>11
  <2>3. CASE u # t
    BY <1>6, <1>11, <2>1, <2>2, <2>3 DEF IInv, Rows, NothingStandsAbove
  <2>4. CASE u = t
    BY <1>1, <2>1, <2>2, <2>4 DEF ClaimRollback, NewerRemediation, Standing
  <2> QED BY <2>3, <2>4
<1>17. Threads'
  <2>1. txn[t].status \notin Working
    BY <1>12 DEF Claimable, Working
  <2>2. txn' = [RecoverInterrupted(p) EXCEPT ![t] = row]
    BY <1>2, <1>6
  <2>3. row.status \in Working /\ row.owner = p /\ row.alias = a
    BY <1>1, <1>5, <1>11 DEF Working
  <2>4. TypeOK /\ Threads /\ UNCHANGED up
    BY DEF IInv, ClaimRollback
  <2>5. /\ req' = [req EXCEPT ![r] = th]
        /\ txn[t].status \notin Working
        /\ txn[t].alias \in Alias => row.alias = txn[t].alias
        /\ th.txn = t /\ th.at = "probe" /\ th.proc \in Process /\ th.alias \in Alias
        /\ up[th.proc] = "up"
        /\ row.status \in Working /\ row.owner = th.proc /\ row.alias = th.alias
    BY <1>1, <1>8, <1>9, <2>1, <2>3
  <2> HIDE DEF p, a
  <2> QED BY <1>1, <2>2, <2>4, <2>5, EngageStep
<1> QED BY <1>10, <1>13, <1>15, <1>16, <1>17 DEF IInv, Rows, BindingsGood, ClaimRollback


(* A good thread stays good when one row changes, unless it works on that   *)
(* row and the row is taken from it.                                        *)
LEMMA RowThread ==
  ASSUME TypeOK, NEW th, ThreadGood(th), NEW t \in Txn, NEW row, UNCHANGED up,
         txn' = [txn EXCEPT ![t] = row],
         row.alias = txn[t].alias,
         Engaged(th) /\ th.txn = t => row.status \in Working /\ row.owner = txn[t].owner
  PROVE  ThreadGood(th)'
<1>1. \A u \in Txn : txn'[u] = IF u = t THEN row ELSE txn[u]
  BY DEF TypeOK
<1> QED BY <1>1 DEF ThreadGood, Engaged

(* A request settles its own row and ends, or goes on with it.              *)
LEMMA SettleStep ==
  ASSUME IInv, NEW r \in Request, Engaged(req[r]), NEW t \in Txn, req[r].txn = t,
         NEW status \in Status, status # "none", NEW backup \in BOOLEAN,
         status \in {"backed_up", "rolling_back"} => backup,
         txn' = [txn EXCEPT ![t] = Updated(@, status, backup)],
         NEW th \in Thread, ThreadGood(th), req' = [req EXCEPT ![r] = th],
         Engaged(th) => th.txn = t /\ status \in Working,
         UNCHANGED <<up, reach, bound, lease, jobs, closeout, remote, target>>
  PROVE  IInv'
<1>1. PICK row : row = Updated(txn[t], status, backup)
  OBVIOUS
<1>2. txn' = [txn EXCEPT ![t] = row]
  BY <1>1
<1>3. txn[t] \in Row /\ row \in Row
  BY <1>1, UpdatedTyped DEF IInv, TypeOK
<1>4. /\ row.status = status /\ row.backup = backup
      /\ row.alias = txn[t].alias /\ row.snap = txn[t].snap
      /\ status \in Working => row.owner = txn[t].owner
  BY <1>1, <1>3 DEF Updated, Row
<1>5. ThreadGood(req[r]) /\ txn[t].status \in Working /\ txn[t].alias \in Alias
  BY DEF IInv, Threads, ThreadsGood, ThreadGood, Engaged, Working, Rows, RowsGood, RowGood
<1>6. TypeOK'
  BY <1>2, <1>3 DEF IInv, TypeOK
<1>7. Rows'
  <2>1. RowGood(row)
    BY <1>4, <1>5 DEF RowGood
  <2>2. txn[t].status # "none" /\ txn[t].status \in Unresolved
    BY <1>5 DEF Working, Unresolved
  <2> QED BY <1>2, <1>3, <1>4, <2>1, <2>2, RowsSettled DEF IInv
<1>8. \A s \in Request : req'[s] = IF s = r THEN th ELSE req[s]
  BY DEF IInv, TypeOK
<1>9. ASSUME NEW s \in Request
      PROVE  ThreadGood(req[s])'
  <2>1. CASE s = r
    <3>1. ThreadGood(th)'
      BY <1>2, <1>4, RowThread DEF IInv
    <3> QED BY <1>8, <2>1, <3>1 DEF ThreadGood, Engaged
  <2>2. CASE s # r
    <3>1. PICK other : other = req[s]
      OBVIOUS
    <3>2. ThreadGood(other) /\ (Engaged(other) => other.txn # t)
      BY <2>2, <3>1 DEF IInv, Threads, ThreadsGood, Exclusive
    <3>3. ThreadGood(other)'
      BY <1>2, <1>4, <3>2, RowThread DEF IInv
    <3> QED BY <1>8, <2>2, <3>1, <3>3 DEF ThreadGood, Engaged
  <2> QED BY <2>1, <2>2
<1>10. Exclusive'
  BY <1>8 DEF IInv, Threads, Exclusive, Engaged
<1> QED BY <1>6, <1>7, <1>9, <1>10 DEF IInv, Threads, ThreadsGood, BindingsGood

LEMMA RecordApplyStep ==
  ASSUME IInv, NEW r \in Request, RecordApply(r)
  PROVE  IInv'
<1> DEFINE t == req[r].txn
<1>1. /\ req[r] \in Thread /\ ThreadGood(req[r]) /\ Engaged(req[r]) /\ t \in Txn
      /\ req[r].kind = "apply" /\ req[r].at = "record"
  BY Busy DEF RecordApply, Is, Engaged, ThreadGood
<1>2. txn[t] \in Row /\ txn[t].backup \in BOOLEAN
  BY <1>1 DEF IInv, TypeOK, Row
<1>3. UNCHANGED <<up, reach, bound, lease, jobs, closeout, remote, target>>
  BY DEF RecordApply
<1>4. ASSUME NEW cmd \in {"backup", "mutate", "postAudit"},
             NEW th, th = [req[r] EXCEPT !.at = "probe", !.cmd = cmd, !.result = "none"]
      PROVE  th \in Thread /\ ThreadGood(th) /\ Engaged(th) /\ th.txn = t
  <2>1. cmd \in Command \cup {"none"}
    BY DEF Command, Mutating, ReadOnly
  <2> QED BY <1>1, <1>4, <2>1 DEF Thread, ThreadGood, Engaged
<1>5. ASSUME NEW cmd \in {"backup", "mutate", "postAudit"}, NextRun(r, cmd)
      PROVE  \E th : /\ req' = [req EXCEPT ![r] = th]
                     /\ th \in Thread /\ ThreadGood(th) /\ Engaged(th) /\ th.txn = t
  <2>1. PICK th : th = [req[r] EXCEPT !.at = "probe", !.cmd = cmd, !.result = "none"]
    OBVIOUS
  <2>2. req' = [req EXCEPT ![r] = th]
    BY <1>5, <2>1 DEF NextRun, IInv, TypeOK
  <2> QED BY <1>4, <2>1, <2>2
<1>6. CASE \E cmd \in {"backup", "postAudit"} : NextRun(r, cmd) /\ UNCHANGED txn
  <2>1. PICK th : /\ req' = [req EXCEPT ![r] = th] /\ UNCHANGED txn
                  /\ th \in Thread /\ ThreadGood(th) /\ Engaged(th) /\ th.txn = t
    BY <1>5, <1>6
  <2> QED BY <1>1, <1>3, <2>1, QuietStep DEF IInv, TypeOK
<1>7. CASE UpdateRemediation(t, "backed_up", TRUE) /\ NextRun(r, "mutate")
  <2>1. PICK th : /\ req' = [req EXCEPT ![r] = th]
                  /\ th \in Thread /\ ThreadGood(th) /\ Engaged(th) /\ th.txn = t
    BY <1>5, <1>7
  <2>2. "backed_up" \in Status /\ "backed_up" \in Working
    BY DEF Status, Unresolved, Working
  <2> QED BY <1>1, <1>3, <1>7, <2>1, <2>2, SettleStep DEF UpdateRemediation
<1>8. CASE \E status \in {"applied", "interrupted", "failed"} :
             UpdateRemediation(t, status, txn[t].backup) /\ EndRequest(r)
  <2>1. PICK status \in {"applied", "interrupted", "failed"} :
          UpdateRemediation(t, status, txn[t].backup) /\ EndRequest(r)
    BY <1>8
  <2>2. status \in Status
    BY DEF Status, Unresolved, Claimable
  <2> QED BY <1>1, <1>2, <1>3, <2>1, <2>2, SettleStep, NullsTyped, IdleGood
          DEF UpdateRemediation, EndRequest
<1> QED BY <1>6, <1>7, <1>8 DEF RecordApply

LEMMA RecordRollbackStep ==
  ASSUME IInv, NEW r \in Request, RecordRollback(r)
  PROVE  IInv'
<1> DEFINE t == req[r].txn
<1>1. /\ req[r] \in Thread /\ ThreadGood(req[r]) /\ Engaged(req[r]) /\ t \in Txn
  BY Busy DEF RecordRollback, Is, Engaged, ThreadGood
<1>2. PICK status \in {"rolled_back", "recovery_ready", "rollback_failed", "interrupted"} :
        UpdateRemediation(t, status, TRUE)
  BY DEF RecordRollback
<1>3. status \in Status
  BY DEF Status, Unresolved, Claimable
<1> QED BY <1>1, <1>2, <1>3, SettleStep, NullsTyped, IdleGood
        DEF RecordRollback, UpdateRemediation, EndRequest

-----------------------------------------------------------------------------
(* The operator *)

LEMMA RecoverInterruptedNowStep ==
  ASSUME IInv, NEW p \in Process, RecoverInterruptedNow(p)
  PROVE  IInv'
<1>1. TypeOK'
  BY RecoveredTyped DEF RecoverInterruptedNow, IInv, TypeOK
<1>2. ASSUME NEW s \in Request
      PROVE  ThreadGood(req[s])'
  <2>1. PICK th : th = req[s]
    OBVIOUS
  <2>2. ThreadGood(th)'
    BY <2>1, InterruptedThread DEF RecoverInterruptedNow, IInv, Threads, ThreadsGood
  <2> QED BY <2>1, <2>2 DEF RecoverInterruptedNow, ThreadGood, Engaged
<1>3. Exclusive'
  BY DEF RecoverInterruptedNow, IInv, Threads, Exclusive, Engaged
<1>4. Rows'
  BY RowsInterrupted DEF RecoverInterruptedNow, IInv
<1> QED BY <1>1, <1>2, <1>3, <1>4 DEF RecoverInterruptedNow, IInv, Threads, ThreadsGood, BindingsGood

(* Requests, rows and the processes that serve them are not touched.        *)
LEMMA ElsewhereStep ==
  ASSUME IInv, TypeOK', BindingsGood', UNCHANGED <<up, txn, req>>
  PROVE  IInv'
<1>1. Threads'
  BY DEF IInv, Threads, ThreadsGood, ThreadGood, Exclusive, Engaged
<1>2. Rows'
  BY RowsKept DEF IInv
<1> QED BY <1>1, <1>2 DEF IInv

LEMMA RecoverAuditJobsStep ==
  ASSUME IInv, NEW p \in Process, RecoverAuditJobs(p)
  PROVE  IInv'
BY ElsewhereStep DEF RecoverAuditJobs, IInv, TypeOK, BindingsGood

LEMMA RebindStep ==
  ASSUME IInv, NEW p \in Process, NEW a \in Alias, Rebind(p, a)
  PROVE  IInv'
<1>1. NextBinding(a) \in Binding
  BY BindingTyped DEF Rebind, IInv
<1>2. NextBinding(a).gen > 0
  <2>1. bound[a].gen \in Nat
    BY AssetLocksAssumption DEF IInv, TypeOK, Binding
  <2> QED BY <2>1 DEF NextBinding
<1>3. lease' \in [Resource -> Lease]
  BY LeasesTyped DEF Rebind, IInv
<1>4. TypeOK' /\ BindingsGood'
  BY <1>1, <1>2, <1>3 DEF Rebind, IInv, TypeOK, BindingsGood
<1> QED BY <1>4, ElsewhereStep DEF Rebind

(* A reconciled or cancelled row is one no request works on.                *)
LEMMA OperatorRowStep ==
  ASSUME IInv, NEW t \in Txn, NEW row \in Row,
         txn' = [txn EXCEPT ![t] = row],
         row.snap = txn[t].snap, row.alias = txn[t].alias, RowGood(row),
         \/ txn[t].status \in Unresolved
         \/ txn[t].status = "failed" /\ row.status = "cancelled",
         ~ \E s \in Request : Engaged(req[s]) /\ req[s].txn = t,
         target' \in [Txn -> TargetState],
         UNCHANGED <<up, reach, bound, lease, jobs, closeout, req, remote>>
  PROVE  IInv'
<1>1. TypeOK'
  BY DEF IInv, TypeOK
<1>2. ASSUME NEW s \in Request
      PROVE  ThreadGood(req[s])'
  <2>1. PICK th : th = req[s]
    OBVIOUS
  <2>2. ThreadGood(th)'
    BY <2>1, RowThread DEF IInv, Threads, ThreadsGood
  <2> QED BY <2>1, <2>2 DEF ThreadGood, Engaged
<1>3. Exclusive'
  BY DEF IInv, Threads, Exclusive, Engaged
<1>4. Rows'
  BY RowsSettled DEF IInv, Unresolved, Working
<1> QED BY <1>1, <1>2, <1>3, <1>4 DEF IInv, Threads, ThreadsGood, BindingsGood

LEMMA ReconcileStep ==
  ASSUME IInv, NEW p \in Process, NEW t \in Txn, Reconcile(p, t)
  PROVE  IInv'
<1>1. /\ txn[t] \in Row /\ txn[t].status \in Unresolved /\ txn[t].alias \in Alias
      /\ UNCHANGED <<up, reach, bound, lease, jobs, closeout, req, remote>>
      /\ ~ \E s \in Request : Engaged(req[s]) /\ req[s].txn = t
  BY DEF Reconcile, ResolveNotApplied, ResolvePrepareRollback, ResolveRestoredManually, MayReconcile,
         ProcessesStopped, Engaged, IInv, TypeOK, Rows, RowsGood, RowGood, Unresolved, Working
<1>2. target' \in [Txn -> TargetState]
  BY DEF Reconcile, ResolveNotApplied, ResolvePrepareRollback, ResolveRestoredManually, IInv, TypeOK, TargetState
<1>3. PICK old : old = txn[t]
  OBVIOUS
<1>4. PICK row : /\ \/ row = [old EXCEPT !.status = "cancelled", !.owner = Nil]
                    \/ row = [old EXCEPT !.status = "recovery_ready", !.owner = Nil, !.backup = TRUE]
                    \/ row = [old EXCEPT !.status = "rolled_back", !.owner = Nil]
                 /\ txn' = [txn EXCEPT ![t] = row]
  <2>1. CASE ResolveNotApplied(p, t)
    BY <1>3, <2>1 DEF ResolveNotApplied, IInv, TypeOK
  <2>2. CASE ResolvePrepareRollback(p, t)
    BY <1>3, <2>2 DEF ResolvePrepareRollback, IInv, TypeOK
  <2>3. CASE ResolveRestoredManually(p, t)
    BY <1>3, <2>3 DEF ResolveRestoredManually, IInv, TypeOK
  <2> QED BY <2>1, <2>2, <2>3 DEF Reconcile
<1>5. row \in Row /\ row.snap = txn[t].snap /\ row.alias = txn[t].alias /\ RowGood(row)
  <2>1. {"cancelled", "recovery_ready", "rolled_back"} \subseteq Status
    BY DEF Status, Unresolved
  <2> QED BY <1>1, <1>3, <1>4, <2>1 DEF Row, RowGood
<1> QED BY <1>1, <1>2, <1>4, <1>5, OperatorRowStep

LEMMA CancelRemediationStep ==
  ASSUME IInv, NEW p \in Process, NEW t \in Txn, CancelRemediation(p, t)
  PROVE  IInv'
<1>1. /\ txn[t] \in Row /\ txn[t].status = "failed" /\ txn[t].alias \in Alias
      /\ ~ \E s \in Request : Engaged(req[s]) /\ req[s].txn = t
  BY DEF CancelRemediation, IInv, TypeOK, Rows, RowsGood, RowGood, Threads, ThreadsGood, ThreadGood, Working
<1>2. PICK row : row = [txn[t] EXCEPT !.status = "cancelled"]
  OBVIOUS
<1>3. /\ row \in Row /\ row.snap = txn[t].snap /\ row.alias = txn[t].alias
      /\ row.status = "cancelled" /\ RowGood(row)
  <2>1. "cancelled" \in Status
    BY DEF Status
  <2> QED BY <1>1, <1>2, <2>1 DEF Row, RowGood
<1> QED BY <1>1, <1>2, <1>3, OperatorRowStep DEF CancelRemediation, IInv, TypeOK

-----------------------------------------------------------------------------
(* The machines, the network and the processes *)

LEMMA EndCommandStep ==
  ASSUME IInv, NEW c \in remote, EndCommand(c)
  PROVE  IInv'
<1>1. PICK outcome \in {"ok", "failed"} :
        /\ remote' = remote \ {c}
        /\ IF c.txn = 0 THEN UNCHANGED target
           ELSE \E after \in After(c.cmd, target[c.txn], outcome) :
                  target' = [target EXCEPT ![c.txn] = after]
        /\ req' = [r \in Request |->
                     IF Waiting(r, c) THEN [req[r] EXCEPT !.result = outcome] ELSE req[r]]
        /\ UNCHANGED <<up, reach, bound, lease, jobs, txn, closeout>>
  BY DEF EndCommand
<1>2. c \in Remote
  BY DEF IInv, TypeOK
<1>3. target' \in [Txn -> TargetState]
  <2>1. CASE c.txn = 0
    BY <1>1, <2>1 DEF IInv, TypeOK
  <2>2. CASE c.txn # 0
    <3>1. target[c.txn] \in TargetState
      BY <1>2, <2>2, AssetLocksAssumption DEF IInv, TypeOK, Remote, Txn
    <3>2. After(c.cmd, target[c.txn], outcome) \subseteq TargetState
      BY <3>1 DEF After, TargetState
    <3> QED BY <1>1, <2>2, <3>2 DEF IInv, TypeOK
  <2> QED BY <2>1, <2>2
<1>4. ASSUME NEW s \in Request
      PROVE  /\ req'[s] \in Thread
             /\ req'[s].kind = req[s].kind /\ req'[s].at = req[s].at /\ req'[s].proc = req[s].proc
             /\ req'[s].alias = req[s].alias /\ req'[s].txn = req[s].txn /\ req'[s].snap = req[s].snap
  <2>1. req[s] \in Thread
    BY DEF IInv, TypeOK
  <2>2. req'[s] = IF Waiting(s, c) THEN [req[s] EXCEPT !.result = outcome] ELSE req[s]
    BY <1>1
  <2> QED BY <2>1, <2>2 DEF Thread, Outcome
<1>5. TypeOK'
  BY <1>1, <1>3, <1>4 DEF IInv, TypeOK
<1>6. Threads'
  BY <1>1, <1>4 DEF IInv, Threads, ThreadsGood, ThreadGood, Exclusive, Engaged
<1>7. Rows'
  BY <1>1, RowsKept DEF IInv
<1> QED BY <1>1, <1>5, <1>6, <1>7 DEF IInv, BindingsGood

LEMMA RelocateStep ==
  ASSUME IInv, NEW a \in Alias, Relocate(a)
  PROVE  IInv'
BY ElsewhereStep DEF Relocate, IInv, TypeOK, BindingsGood

LEMMA StartStep ==
  ASSUME IInv, NEW p \in Process, Start(p)
  PROVE  IInv'
<1>1. TypeOK'
  BY DEF Start, IInv, TypeOK
<1>2. \A q \in Process : up[q] = "up" => up'[q] = "up"
  BY DEF Start, IInv, TypeOK
<1>3. Threads'
  BY <1>2 DEF Start, IInv, Threads, ThreadsGood, ThreadGood, Exclusive, Engaged
<1>4. Rows'
  BY RowsKept DEF Start, IInv
<1> QED BY <1>1, <1>3, <1>4 DEF Start, IInv, BindingsGood

LEMMA CrashStep ==
  ASSUME IInv, NEW p \in Process, Crash(p)
  PROVE  IInv'
<1>1. ASSUME NEW s \in Request
      PROVE  req'[s] = IF req[s].proc = p THEN Idle ELSE req[s]
  BY DEF Crash
<1>2. ASSUME NEW q \in Process, q # p
      PROVE  up'[q] = up[q]
  BY <1>2 DEF Crash, IInv, TypeOK
<1>3. TypeOK'
  BY <1>1, NullsTyped DEF Crash, IInv, TypeOK
<1>4. ASSUME NEW s \in Request
      PROVE  ThreadGood(req[s])'
  <2>1. CASE req[s].proc = p
    BY <1>1, <2>1 DEF ThreadGood, Engaged, Idle
  <2>2. CASE req[s].proc # p
    BY <1>1, <1>2, <2>2 DEF Crash, IInv, Threads, ThreadsGood, ThreadGood, Engaged
  <2> QED BY <2>1, <2>2
<1>5. Exclusive'
  BY <1>1, IdleGood DEF IInv, Threads, Exclusive, Engaged
<1>6. Rows'
  BY RowsKept DEF Crash, IInv
<1> QED BY <1>3, <1>4, <1>5, <1>6 DEF Crash, IInv, Threads, ThreadsGood, BindingsGood

-----------------------------------------------------------------------------
(* The theorems *)

LEMMA InitInvariant == Init => IInv
<1> SUFFICES ASSUME Init
             PROVE  IInv
  OBVIOUS
<1>1. TypeOK
  BY NullsTyped DEF Init, TypeOK, TargetState
<1>2. Threads
  BY DEF Init, Threads, ThreadsGood, ThreadGood, Exclusive, Engaged, Idle
<1>3. Rows
  BY DEF Init, Rows, RowsGood, RowGood, NothingStandsAbove, OneUnresolvedPerAsset, UnresolvedOn,
         NoRow, Unresolved, Working
<1>4. BindingsGood
  BY DEF Init, BindingsGood, NoBinding
<1> QED BY <1>1, <1>2, <1>3, <1>4 DEF IInv

LEMMA NextInvariant == IInv /\ [Next]_vars => IInv'
<1> SUFFICES ASSUME IInv, [Next]_vars
             PROVE  IInv'
  OBVIOUS
<1>1. ASSUME NEW r \in Request, Arrival(r)
      PROVE  IInv'
  BY <1>1, CreateAuditJobStep, StartDirectRunStep, StartApplyStep, StartCloseoutStep,
     RecoverCloseoutStep, StartRollbackStep DEF Arrival
<1>2. ASSUME NEW r \in Request, Progress(r)
      PROVE  IInv'
  BY <1>2, CaptureStep, CreateRemediationStep, ClaimRollbackStep, ProbeStep,
     AcquireAssetExecutionStep, GiveUpStep, EndRunStep, FinishAuditStep, RecordApplyStep,
     RecordRollbackStep, RecordCloseoutStep, CompleteLocalStep, ReleaseCloseoutStep DEF Progress
<1>3. ASSUME NEW p \in Process, Operator(p)
      PROVE  IInv'
  BY <1>3, RecoverInterruptedNowStep, RecoverAuditJobsStep, ReconcileStep, CancelRemediationStep,
     RebindStep DEF Operator
<1>4. CASE Environment
  BY <1>4, EndCommandStep, RelocateStep, StartStep, CrashStep DEF Environment
<1>5. CASE UNCHANGED vars
  BY <1>5, ElsewhereStep DEF vars, IInv, TypeOK, BindingsGood
<1> QED BY <1>1, <1>2, <1>3, <1>4, <1>5 DEF Next

LEMMA Invariant == Spec => []IInv
BY InitInvariant, NextInvariant, PTL DEF Spec

(* The store, its requests and the commands they send always have their     *)
(* types.                                                                   *)
THEOREM TypeCorrect == Spec => []TypeOK
<1>1. IInv => TypeOK
  BY DEF IInv
<1> QED BY Invariant, <1>1, PTL

(* Whatever aliases, processes, crashes, rebinds and recoveries are          *)
(* involved, createRemediationTransaction and claimRemediationRollback never *)
(* let a machine have two unresolved transactions.                          *)
THEOREM MutualExclusion == Spec => []OneUnresolvedPerAsset
<1>1. IInv => OneUnresolvedPerAsset
  BY DEF IInv, Rows
<1> QED BY Invariant, <1>1, PTL

-----------------------------------------------------------------------------
(* An interrupted row is released by a reconciliation only *)

ReleasedByReconcile ==
  \A t \in Txn : txn[t].status = "interrupted" /\ txn'[t].status # "interrupted"
                  => \E p \in Process : Reconcile(p, t)

(* An engaged request's row is not interrupted, so what it writes is no      *)
(* release.                                                                 *)
LEMMA EngagedWrite ==
  ASSUME IInv, NEW r \in Request, Engaged(req[r]), NEW status, NEW backup,
         UpdateRemediation(req[r].txn, status, backup)
  PROVE  ReleasedByReconcile
<1>1. req[r].txn \in Txn /\ txn[req[r].txn].status # "interrupted"
  BY DEF IInv, Threads, ThreadsGood, ThreadGood, Working
<1>2. \A t \in Txn : t # req[r].txn => txn'[t] = txn[t]
  BY <1>1 DEF UpdateRemediation, IInv, TypeOK
<1> QED BY <1>1, <1>2 DEF ReleasedByReconcile

LEMMA ArrivalReleases ==
  ASSUME IInv, NEW r \in Request, Arrival(r)
  PROVE  ReleasedByReconcile
<1>1. UNCHANGED txn \/ \E p \in Process : txn' = RecoverInterrupted(p)
  BY DEF Arrival, CreateAuditJob, StartDirectRun, StartApply, StartCloseout, RecoverCloseout, StartRollback
<1>2. CASE UNCHANGED txn
  BY <1>2 DEF ReleasedByReconcile
<1>3. ASSUME NEW p \in Process, txn' = RecoverInterrupted(p)
      PROVE  ReleasedByReconcile
  BY <1>3, InterruptedRow DEF IInv, ReleasedByReconcile
<1> QED BY <1>1, <1>2, <1>3

LEMMA ProgressReleases ==
  ASSUME IInv, NEW r \in Request, Progress(r)
  PROVE  ReleasedByReconcile
<1>1. CASE UNCHANGED txn
  BY <1>1 DEF ReleasedByReconcile
<1>2. CASE CreateRemediation(r)
  <2>1. PICK p : p = req[r].proc
    OBVIOUS
  <2>2. PICK t \in Txn :
          /\ \A u \in Txn : txn[u] = NoRow <=> u >= t
          /\ txn' = [RecoverInterrupted(p) EXCEPT
               ![t] = [status |-> "preparing", from |-> "none", alias |-> req[r].alias,
                       snap |-> req[r].snap, owner |-> p, backup |-> FALSE]]
    BY <1>2, <2>1 DEF CreateRemediation
  <2>3. \A u \in Txn : u # t => txn'[u] = RecoverInterrupted(p)[u]
    BY <2>2 DEF RecoverInterrupted
  <2>4. txn[t].status # "interrupted"
    BY <2>2, AssetLocksAssumption DEF NoRow, Txn
  <2> QED BY <2>3, <2>4, InterruptedRow DEF IInv, ReleasedByReconcile
<1>3. CASE ClaimRollback(r)
  <2>1. PICK p : p = req[r].proc
    OBVIOUS
  <2>2. PICK t : t = req[r].txn
    OBVIOUS
  <2>3. \A u \in Txn : u # t => txn'[u] = RecoverInterrupted(p)[u]
    BY <1>3, <2>1, <2>2 DEF ClaimRollback, RecoverInterrupted
  <2>4. txn[t].status # "interrupted"
    BY <1>3, <2>2 DEF ClaimRollback, Claimable
  <2> QED BY <2>3, <2>4, InterruptedRow DEF IInv, ReleasedByReconcile
<1>4. CASE RecordApply(r)
  BY <1>1, <1>4, EngagedWrite DEF RecordApply, Is, Engaged
<1>5. CASE RecordRollback(r)
  BY <1>5, EngagedWrite DEF RecordRollback, Is, Engaged
<1> QED BY <1>1, <1>2, <1>3, <1>4, <1>5
        DEF Progress, Capture, Probe, AcquireAssetExecution, GiveUp, EndRun, FinishAudit,
            RecordCloseout, CompleteLocal, CompleteLocalFails, ReleaseCloseout

LEMMA OperatorReleases ==
  ASSUME IInv, NEW p \in Process, Operator(p)
  PROVE  ReleasedByReconcile
<1>1. CASE UNCHANGED txn
  BY <1>1 DEF ReleasedByReconcile
<1>2. CASE RecoverInterruptedNow(p)
  BY <1>2, InterruptedRow DEF RecoverInterruptedNow, IInv, ReleasedByReconcile
<1>3. ASSUME NEW t \in Txn, Reconcile(p, t)
      PROVE  ReleasedByReconcile
  <2>1. \A u \in Txn : u # t => txn'[u] = txn[u]
    BY <1>3 DEF Reconcile, ResolveNotApplied, ResolvePrepareRollback, ResolveRestoredManually, IInv, TypeOK
  <2> QED BY <1>3, <2>1 DEF ReleasedByReconcile
<1>4. ASSUME NEW t \in Txn, CancelRemediation(p, t)
      PROVE  ReleasedByReconcile
  <2>1. txn[t].status # "interrupted" /\ \A u \in Txn : u # t => txn'[u] = txn[u]
    BY <1>4 DEF CancelRemediation, IInv, TypeOK
  <2> QED BY <2>1 DEF ReleasedByReconcile
<1> QED BY <1>1, <1>2, <1>3, <1>4 DEF Operator, RecoverAuditJobs, Rebind

(* No late write of a request, no new claim and no cancellation takes a row  *)
(* out of "interrupted": only reconcileInterruptedRemediation does.         *)
THEOREM InterruptionIsFinal == Spec => InterruptedUntilReconciled
<1>1. ASSUME IInv, Next
      PROVE  ReleasedByReconcile
  <2>1. CASE Environment
    BY <2>1 DEF Environment, EndCommand, Relocate, Start, Crash, ReleasedByReconcile
  <2> QED BY <1>1, <2>1, ArrivalReleases, ProgressReleases, OperatorReleases DEF Next
<1>2. Spec => [][ReleasedByReconcile]_vars
  BY Invariant, <1>1, PTL DEF Spec
<1> QED BY <1>2 DEF InterruptedUntilReconciled, ReleasedByReconcile

-----------------------------------------------------------------------------
(* The inductive invariant of the commands *)

(* A request whose command may still be running: nobody knows its outcome.  *)
Undecided(th) ==
  /\ th.cmd \in Mutating \cup {"revoke"}
  /\ \/ th.at = "run" /\ th.result = "none"
     \/ th.at = "record" /\ th.result = "unknown"

(* Every kind of request sends commands of its own, a result is known only  *)
(* once something ran, and a change works with the machine its row names.   *)
ThreadTrue(th) ==
  /\ th.kind \in {"idle", "audit", "direct", "scan"} => th.cmd \in ReadOnly \cup {"none"} /\ th.txn = 0
  /\ th.kind = "closeout" =>
       th.cmd = "revoke" /\ th.txn = 0 /\ th.at \in {"run", "record", "finish", "release"}
  /\ th.kind \in {"apply", "rollback"} /\ ~ Engaged(th) => th.cmd = "none" /\ th.at \in {"capture", "admit"}
  /\ th.kind = "apply" /\ ~ Engaged(th) => th.txn = 0
  /\ th.at \in {"capture", "admit", "probe", "lease"} => th.result = "none"
  /\ th.kind = "rollback" \/ Engaged(th) => th.snap.asset = txn[th.txn].snap.asset
  /\ Engaged(th) =>
       /\ th.cmd \in (IF th.kind = "rollback" THEN {"rollback"} ELSE {"preAudit", "backup", "mutate", "postAudit"})
       /\ th.cmd \in {"mutate", "postAudit", "rollback"} => txn[th.txn].backup

ThreadsTrue == \A r \in Request : ThreadTrue(req[r])

(* Rows and bindings name machines.                                         *)
Named ==
  /\ \A t \in Txn : txn[t].status # "none" => txn[t].snap.asset \in Asset
  /\ \A a \in Alias : bound[a].gen > 0 => bound[a].asset \in Asset
  /\ \A r \in Request : req[r].kind = "apply" /\ req[r].at # "capture" => req[r].snap.asset \in Asset

(* The statuses of a closeout whose revocation may still be running.        *)
Revoking == {"in_progress", "unknown", "remote_partial"}

(* What runs on a machine is known to the row or closeout it runs for.      *)
CommandTrue(c) ==
  /\ c.txn # 0 => /\ txn[c.txn].status \in Working \cup {"interrupted"}
                  /\ c.asset = txn[c.txn].snap.asset
                  /\ c.cmd \in Mutating
                  /\ c.cmd # "backup" => txn[c.txn].backup
  /\ c.txn = 0 => /\ closeout[c.alias].status \in Revoking
                  /\ c.asset = bound[c.alias].asset
                  /\ c.cmd = "revoke"

WorksFor(r, c) ==
  IF c.txn = 0 THEN /\ req[r].kind = "closeout" /\ req[r].alias = c.alias /\ req[r].at # "release"
                    /\ closeout[c.alias].claim = r
  ELSE Engaged(req[r]) /\ req[r].txn = c.txn

CommandsTrue ==
  /\ \A c \in remote : CommandTrue(c)
  /\ \A c, d \in remote : c.txn = d.txn /\ (c.txn = 0 => c.alias = d.alias) => c = d
  /\ \A c \in remote, r \in Request : WorksFor(r, c) => Undecided(req[r])

(* What the machine went through follows what the row says of it.           *)
TargetsTrue ==
  /\ \A t \in Txn : ~ txn[t].backup \/ txn[t].status = "none" => target[t] \in {"untouched", "saved"}
  /\ \A r \in Request : req[r].kind = "rollback" /\ req[r].result = "ok" => target[req[r].txn] = "restored"
  /\ ClosedRowsAreClean

(* No later change of the machine is in force.                              *)
Newest(t) == \A u \in Txn : u > t /\ txn[u].snap.asset = txn[t].snap.asset => target[u] # "changed"

NewestFirst ==
  /\ \A c \in remote : c.cmd = "rollback" => Newest(c.txn)
  /\ \A r \in Request : req[r].kind = "rollback" /\ Engaged(req[r]) => Newest(req[r].txn)

CInv == ThreadsTrue /\ Named /\ CommandsTrue /\ TargetsTrue /\ NewestFirst

-----------------------------------------------------------------------------
(* A step of one request, while commands and machines stay as they are *)

(* Rows are interrupted at most, as one who recovers the rows of the dead    *)
(* leaves them.                                                             *)
RowsAlike ==
  \A t \in Txn : /\ txn'[t].snap = txn[t].snap /\ txn'[t].alias = txn[t].alias
                 /\ txn'[t].backup = txn[t].backup
                 /\ txn'[t].status \in Unresolved <=> txn[t].status \in Unresolved
                 /\ txn'[t].status # txn[t].status => txn'[t].status = "interrupted"
                 /\ txn'[t].status = "none" <=> txn[t].status = "none"

LEMMA RowsRecovered ==
  ASSUME TypeOK, NEW p, UNCHANGED txn \/ txn' = RecoverInterrupted(p)
  PROVE  RowsAlike
<1>1. CASE UNCHANGED txn
  BY <1>1 DEF RowsAlike
<1>2. CASE txn' = RecoverInterrupted(p)
  BY <1>2, InterruptedRow DEF RowsAlike
<1> QED BY <1>1, <1>2

(* What may become of closeouts and bindings beside the commands that run.   *)
RevocationsKept ==
  /\ \A c \in remote : c.txn = 0 => closeout'[c.alias].status \in Revoking
                                    /\ bound'[c.alias].asset = bound[c.alias].asset
  /\ \A a \in Alias : bound'[a].gen > 0 => bound'[a].asset \in Asset

LEMMA MoveStep ==
  ASSUME IInv, CInv, NEW r \in Request, NEW th \in Thread,
         req' = [req EXCEPT ![r] = th],
         UNCHANGED <<remote, target>>,
         RowsAlike, RevocationsKept,
         ThreadTrue(th),
         th.kind = "rollback" \/ Engaged(th) => th.txn \in Txn,
         th.kind = "apply" /\ th.at # "capture" => th.snap.asset \in Asset,
         \A a \in Alias : closeout'[a].claim \in {closeout[a].claim, r, Nil},
         \A c \in remote : WorksFor(r, c)' => Undecided(th),
         th.kind = "rollback" /\ th.result = "ok" => target[th.txn] = "restored",
         th.kind = "rollback" /\ Engaged(th) => Newest(th.txn)
  PROVE  CInv'
<1>1. \A s \in Request : req'[s] = IF s = r THEN th ELSE req[s]
  BY DEF IInv, TypeOK
<1>2. ThreadsTrue'
  <2>1. ASSUME NEW s \in Request
        PROVE  ThreadTrue(req[s])'
    <3>1. CASE s = r
      BY <1>1, <3>1 DEF RowsAlike, ThreadTrue, Engaged
    <3>2. CASE s # r
      <4>1. ThreadTrue(req[s]) /\ (req[s].kind = "rollback" \/ Engaged(req[s]) => req[s].txn \in Txn)
        BY DEF CInv, ThreadsTrue, IInv, Threads, ThreadsGood, ThreadGood
      <4> QED BY <1>1, <3>2, <4>1 DEF RowsAlike, ThreadTrue, Engaged
    <3> QED BY <3>1, <3>2
  <2> QED BY <2>1 DEF ThreadsTrue
<1>3. Named'
  BY <1>1 DEF CInv, Named, RowsAlike, RevocationsKept
<1>4. CommandsTrue'
  <2>1. ASSUME NEW c \in remote
        PROVE  CommandTrue(c)'
    <3>1. CommandTrue(c) /\ (c.txn # 0 => c.txn \in Txn)
      BY AssetLocksAssumption DEF CInv, CommandsTrue, IInv, TypeOK, Remote, Txn
    <3> QED BY <3>1 DEF CommandTrue, RowsAlike, RevocationsKept, Revoking
  <2>2. ASSUME NEW c \in remote, NEW s \in Request, WorksFor(s, c)'
        PROVE  Undecided(req'[s])
    <3>1. CASE s = r
      BY <1>1, <2>2, <3>1
    <3>2. CASE s # r
      <4>1. c.alias \in Alias
        BY DEF IInv, TypeOK, Remote
      <4>2. WorksFor(s, c)
        BY <1>1, <2>2, <3>2, <4>1, AssetLocksAssumption DEF WorksFor, Engaged
      <4> QED BY <1>1, <3>2, <4>2 DEF CInv, CommandsTrue
    <3> QED BY <3>1, <3>2
  <2> QED BY <2>1, <2>2 DEF CInv, CommandsTrue, Undecided
<1>5. TargetsTrue'
  BY <1>1 DEF CInv, TargetsTrue, ClosedRowsAreClean, RowsAlike
<1>6. NewestFirst'
  <2>1. ASSUME NEW t \in Txn, Newest(t)
        PROVE  Newest(t)'
    BY <2>1 DEF Newest, RowsAlike
  <2>2. \A c \in remote : c.cmd = "rollback" => c.txn \in Txn
    BY AssetLocksAssumption DEF CInv, CommandsTrue, CommandTrue, IInv, TypeOK, Remote, Txn
  <2>3. \A s \in Request : req[s].kind = "rollback" => req[s].txn \in Txn
    BY DEF IInv, Threads, ThreadsGood, ThreadGood
  <2>4. ASSUME NEW s \in Request, NEW other, other = req'[s], other.kind = "rollback", Engaged(other)
        PROVE  Newest(other.txn)'
    <3>1. Newest(other.txn) /\ other.txn \in Txn
      BY <1>1, <2>3, <2>4 DEF CInv, NewestFirst
    <3> QED BY <2>1, <3>1
  <2> QED BY <2>1, <2>2, <2>4 DEF CInv, NewestFirst, Engaged
<1> QED BY <1>2, <1>3, <1>4, <1>5, <1>6 DEF CInv

(* A machine no closeout bars has no closeout in flight under any alias.     *)
LEMMA NoCloseoutHere ==
  ASSUME NEW p, NEW a \in Alias, ~ UnresolvedCloseout(p, a, Nil), NEW b \in Alias,
         b = a \/ (Bound(a) /\ bound[b].asset = bound[a].asset)
  PROVE  closeout[b].status \in Settled /\ closeout[b].status \notin Revoking
BY AssetLocksAssumption DEF UnresolvedCloseout, AliasesForAsset, Settled, Revoking

(* The bindings and closeouts of commands stay under a recorded observation. *)
LEMMA ObservationKeepsRevocations ==
  ASSUME IInv, CInv, NEW p, NEW a \in Alias, RecordObservation(p, a), UNCHANGED closeout
  PROVE  RevocationsKept /\ CurrentBinding(a).asset = reach[a].asset /\ reach[a].asset \in Asset
<1>1. reach[a].asset \in Asset
  BY DEF IInv, TypeOK
<1>2. CASE Unchanged(a) /\ UNCHANGED <<bound, lease>>
  BY <1>1, <1>2 DEF RevocationsKept, CInv, CommandsTrue, CommandTrue, Named, CurrentBinding, Unchanged, SameMachine
<1>3. CASE ~ Unchanged(a) /\ AssetIdle(p, a, Bound(a), Nil) /\ bound' = [bound EXCEPT ![a] = NextBinding(a)]
  <2>1. \A b \in Alias : bound'[b] = IF b = a THEN NextBinding(a) ELSE bound[b]
    BY <1>3 DEF IInv, TypeOK
  <2>2. closeout[a].status \notin Revoking
    BY <1>3, NoCloseoutHere DEF AssetIdle
  <2>3. \A c \in remote : c.alias \in Alias /\ (c.txn = 0 => c.alias # a)
    BY <2>2 DEF CInv, CommandsTrue, CommandTrue, IInv, TypeOK, Remote
  <2>4. NextBinding(a).asset = reach[a].asset
    BY DEF NextBinding
  <2> QED BY <1>1, <1>3, <2>1, <2>3, <2>4 DEF RevocationsKept, CInv, CommandsTrue, CommandTrue, Named, CurrentBinding
<1> QED BY <1>1, <1>2, <1>3 DEF RecordObservation

(* Nothing of them changes when neither closeouts nor bindings do.           *)
LEMMA RevocationsStay ==
  ASSUME CInv, UNCHANGED <<bound, closeout>>
  PROVE  RevocationsKept
BY DEF RevocationsKept, CInv, CommandsTrue, CommandTrue, Named

-----------------------------------------------------------------------------
(* Requests arrive *)

(* A request that only arrives, and an idle one, work for no command.        *)
LEMMA ArrivalTrue ==
  ASSUME IInv, CInv, NEW r \in Request, NEW th \in Thread, req' = [req EXCEPT ![r] = th],
         UNCHANGED <<bound, txn, closeout, remote, target>>,
         th.kind \in {"idle", "audit", "direct", "scan", "apply"},
         th.txn = 0, th.result = "none",
         th.kind = "apply" => th.at = "capture" /\ th.cmd = "none",
         th.kind # "apply" => th.cmd \in ReadOnly \cup {"none"}
  PROVE  CInv'
<1>1. ThreadTrue(th) /\ ~ Engaged(th)
  BY DEF ThreadTrue, Engaged
<1>2. \A c \in remote : ~ WorksFor(r, c)'
  BY <1>1 DEF WorksFor, IInv, TypeOK, Engaged
<1>3. RowsAlike
  BY RowsRecovered DEF IInv
<1> QED BY <1>1, <1>2, <1>3, RevocationsStay, MoveStep

LEMMA CreateAuditJobTrue ==
  ASSUME IInv, CInv, NEW r \in Request, NEW p \in Process, NEW a \in Alias, CreateAuditJob(r, p, a)
  PROVE  CInv'
<1>1. PICK th : th = [Idle EXCEPT !.kind = "audit", !.at = "probe", !.cmd = "audit", !.proc = p, !.alias = a]
  OBVIOUS
<1>2. /\ th \in Thread /\ th.kind = "audit" /\ th.txn = 0 /\ th.result = "none" /\ th.cmd = "audit"
      /\ req' = [req EXCEPT ![r] = th]
  BY <1>1, NullsTyped DEF CreateAuditJob, Serve, Idle, Thread, Command, ReadOnly
<1> QED BY <1>2, ArrivalTrue DEF CreateAuditJob, ReadOnly

LEMMA StartDirectRunTrue ==
  ASSUME IInv, CInv, NEW r \in Request, NEW p \in Process, NEW a \in Alias, StartDirectRun(r, p, a)
  PROVE  CInv'
<1>0. PICK kind \in {"direct", "scan"}, at \in {"probe", "lease"} :
        Serve(r, [Idle EXCEPT !.kind = kind, !.at = at, !.cmd = "audit", !.proc = p, !.alias = a])
  BY DEF StartDirectRun
<1>1. PICK th : th = [Idle EXCEPT !.kind = kind, !.at = at, !.cmd = "audit", !.proc = p, !.alias = a]
  OBVIOUS
<1>2. /\ th \in Thread /\ th.kind \in {"direct", "scan"} /\ th.txn = 0 /\ th.result = "none" /\ th.cmd = "audit"
      /\ req' = [req EXCEPT ![r] = th]
  BY <1>0, <1>1, NullsTyped DEF Serve, Idle, Thread, Command, ReadOnly
<1> QED BY <1>2, ArrivalTrue DEF StartDirectRun, ReadOnly

LEMMA StartApplyTrue ==
  ASSUME IInv, CInv, NEW r \in Request, NEW p \in Process, NEW a \in Alias, StartApply(r, p, a)
  PROVE  CInv'
<1>1. PICK th : th = [Idle EXCEPT !.kind = "apply", !.at = "capture", !.proc = p, !.alias = a]
  OBVIOUS
<1>2. /\ th \in Thread /\ th.kind = "apply" /\ th.at = "capture" /\ th.txn = 0 /\ th.result = "none"
      /\ th.cmd = "none" /\ req' = [req EXCEPT ![r] = th]
  BY <1>1, NullsTyped DEF StartApply, Serve, Idle, Thread
<1> QED BY <1>2, ArrivalTrue DEF StartApply

LEMMA StartRollbackTrue ==
  ASSUME IInv, CInv, NEW r \in Request, NEW p \in Process, NEW t \in Txn, StartRollback(r, p, t)
  PROVE  CInv'
<1>1. PICK th : th = [Idle EXCEPT !.kind = "rollback", !.at = "capture", !.proc = p,
                                  !.alias = txn[t].alias, !.txn = t, !.seen = txn[t].status,
                                  !.snap = txn[t].snap]
  OBVIOUS
<1>2. txn[t] \in Row /\ txn[t].alias \in Alias
  BY DEF IInv, TypeOK, Rows, RowsGood, RowGood, StartRollback, Claimable
<1>3. th = [kind |-> "rollback", at |-> "capture", proc |-> p, alias |-> txn[t].alias,
            snap |-> txn[t].snap, txn |-> t, seen |-> txn[t].status, cmd |-> "none", result |-> "none"]
  BY <1>1 DEF Idle
<1>4. th \in Thread
  BY <1>2, <1>3, AssetLocksAssumption DEF Thread, Row, Txn
<1>5. ThreadTrue(th) /\ ~ Engaged(th)
  BY <1>3 DEF ThreadTrue, Engaged
<1>6. req' = [req EXCEPT ![r] = th]
  BY <1>1 DEF StartRollback, Serve
<1>7. \A c \in remote : ~ WorksFor(r, c)'
  BY <1>3, <1>5, <1>6 DEF WorksFor, IInv, TypeOK, Engaged
<1>8. RowsAlike /\ RevocationsKept /\ UNCHANGED <<remote, target, closeout>>
  BY RowsRecovered, RevocationsStay DEF StartRollback, IInv
<1> QED BY <1>3, <1>4, <1>5, <1>6, <1>7, <1>8, MoveStep

-----------------------------------------------------------------------------
(* A request goes on *)

LEMMA CaptureTrue ==
  ASSUME IInv, CInv, NEW r \in Request, Capture(r)
  PROVE  CInv'
<1> DEFINE a == req[r].alias
<1>1. /\ req[r] \in Thread /\ ThreadGood(req[r]) /\ a \in Alias /\ ThreadTrue(req[r])
      /\ req[r].at = "capture" /\ req[r].kind \in {"apply", "rollback"} /\ ~ Engaged(req[r])
  BY Busy DEF Capture, Is, CInv, ThreadsTrue, Engaged
<1>2. CurrentBinding(a) \in Binding
  BY <1>1, ObservationTyped DEF Capture, IInv
<1>3. PICK th : th = IF req[r].kind = "rollback" /\ CurrentBinding(a).gen # req[r].snap.gen
                     THEN Idle
                     ELSE [req[r] EXCEPT !.at = "admit", !.snap = CurrentBinding(a)]
  OBVIOUS
<1>4. RevocationsKept /\ CurrentBinding(a).asset = reach[a].asset /\ reach[a].asset \in Asset
  BY <1>1, ObservationKeepsRevocations DEF Capture
<1>5. req[r].kind = "rollback" => reach[a].asset = req[r].snap.asset /\ req[r].txn \in Txn
  BY <1>1 DEF Capture, ThreadGood
<1>6. /\ th \in Thread /\ ThreadTrue(th) /\ ~ Engaged(th) /\ th.kind # "closeout"
      /\ th.kind = "rollback" => th.txn \in Txn /\ th.result = "none"
      /\ th.kind = "apply" => th.snap.asset \in Asset
  <2>1. CASE th = Idle
    BY <2>1, NullsTyped DEF Idle, ThreadTrue, Engaged
  <2>2. CASE th = [req[r] EXCEPT !.at = "admit", !.snap = CurrentBinding(a)]
    <3>1. /\ th \in Thread /\ th.kind = req[r].kind /\ th.at = "admit" /\ th.txn = req[r].txn
          /\ th.cmd = req[r].cmd /\ th.result = req[r].result /\ th.snap = CurrentBinding(a)
      BY <1>1, <1>2, <2>2 DEF Thread
    <3> QED BY <1>1, <1>4, <1>5, <3>1 DEF ThreadTrue, Engaged
  <2> QED BY <1>3, <2>1, <2>2
<1>7. req' = [req EXCEPT ![r] = th]
  BY <1>3 DEF Capture
<1>8. \A c \in remote : ~ WorksFor(r, c)'
  BY <1>6, <1>7 DEF WorksFor, IInv, TypeOK, Engaged
<1>9. RowsAlike /\ UNCHANGED <<remote, target, closeout>>
  BY RowsRecovered DEF Capture, IInv
<1> QED BY <1>4, <1>6, <1>7, <1>8, <1>9, MoveStep

(* A request whose command is not running works for none.                    *)
LEMMA NotRunning ==
  ASSUME CInv, NEW r \in Request, ~ Undecided(req[r])
  PROVE  \A c \in remote : ~ WorksFor(r, c)
BY DEF CInv, CommandsTrue

LEMMA ProbeTrue ==
  ASSUME IInv, CInv, NEW r \in Request, Probe(r)
  PROVE  CInv'
<1> DEFINE a == req[r].alias
<1>1. /\ req[r] \in Thread /\ ThreadGood(req[r]) /\ a \in Alias /\ ThreadTrue(req[r])
      /\ req[r].at = "probe" /\ req[r].kind \in {"audit", "direct", "apply", "rollback"}
  BY Busy DEF Probe, Is, CInv, ThreadsTrue
<1>2. CurrentBinding(a) \in Binding
  BY <1>1, ObservationTyped DEF Probe, IInv
<1>3. PICK th : th = IF req[r].txn # 0 /\ CurrentBinding(a).gen # req[r].snap.gen
                     THEN [req[r] EXCEPT !.at = "record", !.result = "failed"]
                     ELSE [req[r] EXCEPT !.at = "lease", !.snap = CurrentBinding(a)]
  OBVIOUS
<1>4. RevocationsKept /\ CurrentBinding(a).asset = reach[a].asset /\ reach[a].asset \in Asset
  BY <1>1, ObservationKeepsRevocations DEF Probe
<1>5. Engaged(req[r]) <=> req[r].kind \in {"apply", "rollback"}
  BY <1>1 DEF Engaged
<1>6. Engaged(req[r]) => reach[a].asset = req[r].snap.asset /\ req[r].txn \in Txn
  BY <1>1, AssetLocksAssumption DEF Probe, ThreadGood, Txn
<1>7. /\ th \in Thread /\ th.kind = req[r].kind /\ th.txn = req[r].txn /\ th.cmd = req[r].cmd
      /\ \/ th.at = "record" /\ th.result = "failed" /\ th.snap = req[r].snap
         \/ th.at = "lease" /\ th.result = req[r].result /\ th.snap = CurrentBinding(a)
  BY <1>1, <1>2, <1>3 DEF Thread, Outcome
<1>8. /\ ThreadTrue(th)
      /\ Engaged(th) <=> Engaged(req[r])
      /\ th.kind = "apply" => th.snap.asset \in Asset
  <2>1. Engaged(th) <=> Engaged(req[r])
    BY <1>1, <1>7 DEF Engaged
  <2>2. req[r].kind = "apply" => req[r].snap.asset \in Asset
    BY <1>1 DEF CInv, Named
  <2> QED BY <1>1, <1>4, <1>5, <1>6, <1>7, <2>1, <2>2 DEF ThreadTrue
<1>9. req' = [req EXCEPT ![r] = th]
  BY <1>3 DEF Probe
<1>10. RowsAlike /\ UNCHANGED <<remote, target, closeout>>
  BY RowsRecovered DEF Probe, IInv
<1>11. \A c \in remote : ~ WorksFor(r, c)'
  <2>1. \A c \in remote : ~ WorksFor(r, c)
    BY <1>1, NotRunning DEF Undecided
  <2> QED BY <1>1, <1>7, <1>8, <1>9, <2>1 DEF WorksFor, IInv, TypeOK, Engaged
<1>12. /\ th.kind = "rollback" \/ Engaged(th) => th.txn \in Txn
       /\ th.kind = "rollback" => th.result # "ok" /\ Newest(th.txn)
  <2>1. req[r].result = "none"
    BY <1>1 DEF ThreadTrue
  <2> QED BY <1>1, <1>5, <1>6, <1>7, <1>8, <2>1 DEF CInv, NewestFirst
<1> QED BY <1>4, <1>7, <1>8, <1>9, <1>10, <1>11, <1>12, MoveStep

(* A request that goes on without touching anything CInv speaks of, beside   *)
(* its own place and result.                                                *)
LEMMA ProgressTrue ==
  ASSUME IInv, CInv, NEW r \in Request, req[r].at \notin {"idle", "release"},
         NEW at \in {"run", "record", "finish", "release"}, NEW result \in Outcome,
         NEW th, th = [req[r] EXCEPT !.at = at, !.result = result],
         req' = [req EXCEPT ![r] = th],
         UNCHANGED <<bound, txn, remote, target>>, RevocationsKept,
         \A a \in Alias : closeout'[a].claim = closeout[a].claim,
         req[r].kind \in {"apply", "rollback"} => at = "record" /\ Engaged(req[r]),
         result = "ok" => req[r].result = "ok" \/ req[r].kind # "rollback",
         (at = "record" /\ result = "unknown") \/ at = "release" \/ ~ Undecided(req[r]),
         at = "release" => req[r].kind \notin {"apply", "rollback"}
  PROVE  CInv'
<1>1. /\ req[r] \in Thread /\ ThreadGood(req[r]) /\ ThreadTrue(req[r])
  BY Busy DEF CInv, ThreadsTrue
<1>2. /\ th \in Thread /\ th.kind = req[r].kind /\ th.txn = req[r].txn /\ th.cmd = req[r].cmd
      /\ th.alias = req[r].alias /\ th.snap = req[r].snap /\ th.at = at /\ th.result = result
  BY <1>1 DEF Thread
<1>3. Engaged(th) <=> req[r].kind \in {"apply", "rollback"}
  BY <1>2 DEF Engaged
<1>4. ThreadTrue(th)
  BY <1>1, <1>2, <1>3 DEF ThreadTrue, Engaged
<1>5. /\ th.kind = "rollback" \/ Engaged(th) => th.txn \in Txn
      /\ th.kind = "apply" => th.snap.asset \in Asset
      /\ th.kind = "rollback" /\ th.result = "ok" => target[th.txn] = "restored"
      /\ th.kind = "rollback" => Newest(th.txn)
  BY <1>1, <1>2, <1>3 DEF ThreadGood, CInv, Named, TargetsTrue, NewestFirst, Engaged
<1>6. ASSUME NEW c \in remote, WorksFor(r, c)'
      PROVE  Undecided(th)
  <2>1. at # "release" /\ WorksFor(r, c)
    <3>1. req'[r] = th /\ c.alias \in Alias
      BY DEF IInv, TypeOK, Remote
    <3>2. CASE c.txn = 0
      BY <1>2, <1>6, <3>1, <3>2 DEF WorksFor
    <3>3. CASE c.txn # 0
      BY <1>2, <1>3, <1>6, <3>1, <3>3 DEF WorksFor
    <3> QED BY <3>2, <3>3
  <2>2. Undecided(req[r])
    BY <2>1 DEF CInv, CommandsTrue
  <2> QED BY <1>2, <2>1, <2>2 DEF Undecided
<1>7. RowsAlike /\ UNCHANGED <<remote, target>>
  BY RowsRecovered DEF IInv
<1> QED BY <1>2, <1>4, <1>5, <1>6, <1>7, MoveStep

LEMMA GiveUpTrue ==
  ASSUME IInv, CInv, NEW r \in Request, GiveUp(r)
  PROVE  CInv'
<1>1. /\ req[r] \in Thread /\ ThreadTrue(req[r]) /\ req[r].at \in {"capture", "admit", "probe", "lease"}
  BY Busy DEF GiveUp, CInv, ThreadsTrue
<1>2. ~ Undecided(req[r])
  BY <1>1 DEF Undecided
<1>3. CASE req[r].at \in {"capture", "admit"}
  <2>1. req' = [req EXCEPT ![r] = Idle]
    BY <1>3 DEF GiveUp
  <2> QED BY <2>1, NullsTyped, ArrivalTrue DEF GiveUp, Idle
<1>4. CASE req[r].at \in {"probe", "lease"}
  <2>1. PICK th : th = [req[r] EXCEPT !.at = "record", !.result = "failed"]
    OBVIOUS
  <2>2. req' = [req EXCEPT ![r] = th]
    BY <1>4, <2>1 DEF GiveUp
  <2> QED BY <1>1, <1>2, <1>4, <2>1, <2>2, RevocationsStay, ProgressTrue DEF GiveUp, Outcome, Engaged
<1> QED BY <1>1, <1>3, <1>4

LEMMA EndRunTrue ==
  ASSUME IInv, CInv, NEW r \in Request, EndRun(r)
  PROVE  CInv'
<1>1. /\ req[r] \in Thread /\ ThreadTrue(req[r]) /\ req[r].at = "run"
  BY Busy DEF EndRun, CInv, ThreadsTrue
<1>2. PICK result \in Outcome :
        /\ req' = [req EXCEPT ![r].at = "record", ![r].result = result]
        /\ IF req[r].result # "none" THEN result = req[r].result
           ELSE IF req[r].cmd \in ReadOnly THEN result \in {"ok", "failed"} ELSE result = "unknown"
  BY <1>1 DEF EndRun, Thread, Outcome
<1>3. PICK th : th = [req[r] EXCEPT !.at = "record", !.result = result]
  OBVIOUS
<1>4. req' = [req EXCEPT ![r] = th]
  BY <1>2, <1>3 DEF IInv, TypeOK
<1>5. req[r].kind = "rollback" => Engaged(req[r]) /\ req[r].cmd \notin ReadOnly
  BY <1>1 DEF ThreadTrue, Engaged, ReadOnly
<1>6. result = "unknown" \/ ~ Undecided(req[r])
  BY <1>1, <1>2 DEF Undecided, Mutating, ReadOnly
<1>7. req[r].kind \in {"apply", "rollback"} => Engaged(req[r])
  BY <1>1 DEF Engaged
<1>8. result = "ok" => req[r].result = "ok" \/ req[r].kind # "rollback"
  BY <1>2, <1>5
<1>9. RevocationsKept /\ UNCHANGED <<bound, txn, closeout, remote, target>>
  BY RevocationsStay DEF EndRun
<1> QED BY <1>1, <1>3, <1>4, <1>6, <1>7, <1>8, <1>9, ProgressTrue

(* Requests that end, and rows that others interrupt.                       *)
LEMMA IdledTrue ==
  ASSUME IInv, CInv,
         \A s \in Request : req'[s] \in {req[s], Idle},
         UNCHANGED <<remote, target>>, RowsAlike, RevocationsKept,
         \A a \in Alias : closeout'[a].claim \in {closeout[a].claim, Nil}
  PROVE  CInv'
<1>1. ThreadsTrue'
  <2>1. ASSUME NEW s \in Request
        PROVE  ThreadTrue(req[s])'
    <3>1. CASE req'[s] = Idle
      BY <3>1 DEF ThreadTrue, Engaged, Idle
    <3>2. CASE req'[s] = req[s]
      <4>1. ThreadTrue(req[s]) /\ (req[s].kind = "rollback" \/ Engaged(req[s]) => req[s].txn \in Txn)
        BY DEF CInv, ThreadsTrue, IInv, Threads, ThreadsGood, ThreadGood
      <4> QED BY <3>2, <4>1 DEF RowsAlike, ThreadTrue, Engaged
    <3> QED BY <3>1, <3>2
  <2> QED BY <2>1 DEF ThreadsTrue
<1>2. \A s \in Request : req'[s].kind # "idle" => req'[s] = req[s]
  BY DEF Idle
<1>3. Named'
  BY <1>2 DEF CInv, Named, RowsAlike, RevocationsKept
<1>4. CommandsTrue'
  <2>1. ASSUME NEW c \in remote
        PROVE  CommandTrue(c)'
    <3>1. CommandTrue(c) /\ (c.txn # 0 => c.txn \in Txn)
      BY AssetLocksAssumption DEF CInv, CommandsTrue, IInv, TypeOK, Remote, Txn
    <3> QED BY <3>1 DEF CommandTrue, RowsAlike, RevocationsKept, Revoking
  <2>2. ASSUME NEW c \in remote, NEW s \in Request, WorksFor(s, c)'
        PROVE  Undecided(req'[s])
    <3>1. c.alias \in Alias /\ req'[s] = req[s]
      BY <1>2, <2>2 DEF IInv, TypeOK, Remote, WorksFor, Engaged
    <3>2. WorksFor(s, c)
      BY <2>2, <3>1, AssetLocksAssumption DEF WorksFor, Engaged
    <3> QED BY <3>1, <3>2 DEF CInv, CommandsTrue
  <2> QED BY <2>1, <2>2 DEF CInv, CommandsTrue, Undecided
<1>5. TargetsTrue'
  BY <1>2 DEF CInv, TargetsTrue, ClosedRowsAreClean, RowsAlike
<1>6. NewestFirst'
  <2>1. ASSUME NEW t \in Txn, Newest(t)
        PROVE  Newest(t)'
    BY <2>1 DEF Newest, RowsAlike
  <2>2. \A c \in remote : c.cmd = "rollback" => c.txn \in Txn
    BY AssetLocksAssumption DEF CInv, CommandsTrue, CommandTrue, IInv, TypeOK, Remote, Txn
  <2>3. ASSUME NEW s \in Request, req'[s].kind = "rollback"
        PROVE  req'[s] = req[s] /\ req[s].txn \in Txn
    BY <1>2, <2>3 DEF IInv, Threads, ThreadsGood, ThreadGood
  <2> QED BY <2>1, <2>2, <2>3 DEF CInv, NewestFirst, Engaged
<1> QED BY <1>1, <1>3, <1>4, <1>5, <1>6 DEF CInv

LEMMA FinishAuditTrue ==
  ASSUME IInv, CInv, NEW r \in Request, FinishAudit(r)
  PROVE  CInv'
BY RowsRecovered, RevocationsStay, IdledTrue DEF FinishAudit, IInv, TypeOK

LEMMA AcquireAssetExecutionTrue ==
  ASSUME IInv, CInv, NEW r \in Request, AcquireAssetExecution(r)
  PROVE  CInv'
<1> DEFINE t == req[r].txn
<1>1. /\ req[r] \in Thread /\ ThreadGood(req[r]) /\ ThreadTrue(req[r]) /\ req[r].at = "lease"
      /\ req[r].alias \in Alias /\ req[r].result = "none" /\ t \in 0 .. MaxTxn
  BY Busy DEF AcquireAssetExecution, CInv, ThreadsTrue, ThreadTrue, Thread
<1>2. PICK th : th = [req[r] EXCEPT !.at = "run"]
  OBVIOUS
<1>3. /\ th \in Thread /\ th.kind = req[r].kind /\ th.txn = t /\ th.cmd = req[r].cmd /\ th.snap = req[r].snap
      /\ th.alias = req[r].alias /\ th.at = "run" /\ th.result = "none"
  BY <1>1, <1>2 DEF Thread
<1>4. \A s \in Request : req'[s] = IF s = r THEN th ELSE req[s]
  BY <1>2 DEF AcquireAssetExecution, IInv, TypeOK
<1>5. PICK c : c = [req |-> r, owner |-> req[r].proc, cmd |-> req[r].cmd, alias |-> req[r].alias,
                    asset |-> req[r].snap.asset, txn |-> t]
  OBVIOUS
<1>6. /\ remote' = remote \cup {d \in {c} : d.cmd \in Mutating}
      /\ UNCHANGED <<bound, txn, closeout, target>>
  BY <1>5 DEF AcquireAssetExecution
<1>7. Engaged(th) <=> Engaged(req[r])
  BY <1>1, <1>3 DEF Engaged
<1>8. ThreadsTrue'
  <2>1. ThreadTrue(th)
    BY <1>1, <1>3, <1>7 DEF ThreadTrue
  <2>2. ASSUME NEW s \in Request
        PROVE  ThreadTrue(req[s])'
    BY <1>4, <1>6, <2>1 DEF CInv, ThreadsTrue, ThreadTrue, Engaged
  <2> QED BY <2>2 DEF ThreadsTrue
<1>9. Named'
  BY <1>1, <1>3, <1>4, <1>6 DEF CInv, Named
<1>10. \A d \in remote : ~ WorksFor(r, d)
  BY <1>1, NotRunning DEF Undecided
<1>11. ASSUME c.cmd \in Mutating
       PROVE  Engaged(req[r]) /\ t \in Txn /\ t # 0 /\ txn[t].status \in Working
              /\ (c.cmd = "rollback" <=> req[r].kind = "rollback")
  <2>0. req[r].cmd \in Mutating /\ req[r].kind \in {"idle", "audit", "direct", "scan", "apply", "rollback", "closeout"}
    BY <1>1, <1>5, <1>11 DEF Thread
  <2>1. Engaged(req[r])
    BY <1>1, <2>0 DEF ThreadTrue, Mutating, ReadOnly, Engaged
  <2>2. t \in Txn /\ t # 0 /\ txn[t].status \in Working
    BY <1>1, <2>1, AssetLocksAssumption DEF ThreadGood, Txn
  <2>3. c.cmd = "rollback" <=> req[r].kind = "rollback"
    BY <1>1, <1>5, <2>1 DEF ThreadTrue
  <2> QED BY <2>1, <2>2, <2>3
<1>12. CommandsTrue'
  <2>1. ASSUME c.cmd \in Mutating
        PROVE  CommandTrue(c) /\ \A d \in remote : d.txn # t
    <3>1. CommandTrue(c)
      BY <1>1, <1>5, <1>11, <2>1 DEF CommandTrue, ThreadTrue, Mutating
    <3>2. \A d \in remote : d.txn # t
      BY <1>10, <1>11, <2>1 DEF WorksFor
    <3> QED BY <3>1, <3>2
  <2>2. \A d \in remote' : CommandTrue(d)'
    BY <1>6, <2>1 DEF CInv, CommandsTrue, CommandTrue
  <2>3. \A d, e \in remote' : d.txn = e.txn /\ (d.txn = 0 => d.alias = e.alias) => d = e
    BY <1>5, <1>6, <1>11, <2>1 DEF CInv, CommandsTrue
  <2>4. ASSUME NEW d \in remote', NEW s \in Request, WorksFor(s, d)'
        PROVE  Undecided(req'[s])
    <3>1. CASE d \in remote
      <4>1. s # r
        BY <1>3, <1>4, <1>6, <1>7, <1>10, <1>1, <2>4, <3>1 DEF WorksFor
      <4> QED BY <1>4, <1>6, <2>4, <3>1, <4>1 DEF WorksFor, CInv, CommandsTrue
    <3>2. CASE d \notin remote
      <4>1. d = c /\ c.cmd \in Mutating /\ d.txn = t
        BY <1>5, <1>6, <3>2
      <4>2. s = r
        <5>1. CASE s # r
          BY <1>4, <1>11, <2>4, <4>1, <5>1 DEF WorksFor, IInv, Threads, Exclusive
        <5> QED BY <5>1
      <4> QED BY <1>3, <1>4, <1>5, <4>1, <4>2 DEF Undecided
    <3> QED BY <3>1, <3>2
  <2> QED BY <2>2, <2>3, <2>4 DEF CommandsTrue, Undecided
<1>13. TargetsTrue'
  BY <1>1, <1>3, <1>4, <1>6 DEF CInv, TargetsTrue, ClosedRowsAreClean
<1>14. NewestFirst'
  <2>1. c.cmd = "rollback" => Newest(t)
    BY <1>11 DEF CInv, NewestFirst, Mutating
  <2>2. th.kind = "rollback" /\ Engaged(th) => Newest(t)
    BY <1>3, <1>7 DEF CInv, NewestFirst
  <2>3. \A d \in remote' : d.cmd = "rollback" => Newest(d.txn)
    BY <1>5, <1>6, <2>1 DEF CInv, NewestFirst
  <2>4. \A s \in Request : req'[s].kind = "rollback" /\ Engaged(req'[s]) => Newest(req'[s].txn)
    BY <1>3, <1>4, <2>2 DEF CInv, NewestFirst
  <2> QED BY <1>6, <2>3, <2>4 DEF NewestFirst, Newest, Engaged
<1> QED BY <1>8, <1>9, <1>12, <1>13, <1>14 DEF CInv

-----------------------------------------------------------------------------
(* Rows are settled *)

(* One row changes, and with it at most a request that ends or goes on to    *)
(* change the machine after its backup.                                     *)
LEMMA RowTrue ==
  ASSUME IInv, CInv, NEW t \in Txn, NEW row \in Row, txn' = [txn EXCEPT ![t] = row],
         txn[t].status # "none", row.status # "none",
         row.snap = txn[t].snap, txn[t].backup => row.backup,
         NEW th \in Thread, \A s \in Request : req'[s] \in {req[s], th},
         \/ th = Idle
         \/ /\ th.kind = "apply" /\ th.at = "probe" /\ th.txn = t /\ th.cmd = "mutate" /\ th.result = "none"
            /\ th.snap.asset = txn[t].snap.asset /\ row.backup
            /\ \A c \in remote : c.txn # t,
         \A c \in remote : c.txn = t => row.status = "interrupted",
         target' = target \/ (target[t] = "changed" /\ target' = [target EXCEPT ![t] = "restored"]),
         row.status = "cancelled"   => target'[t] \in {"untouched", "saved"},
         row.status = "rolled_back" => target'[t] # "changed",
         UNCHANGED <<bound, closeout, remote>>
  PROVE  CInv'
<1>1. \A u \in Txn : /\ txn'[u] = IF u = t THEN row ELSE txn[u]
                     /\ txn'[u].snap = txn[u].snap
                     /\ txn[u].backup => txn'[u].backup
                     /\ txn'[u].status = "none" <=> txn[u].status = "none"
  BY DEF IInv, TypeOK
<1>2. \A u \in Txn : \/ target'[u] = target[u]
                     \/ u = t /\ target[t] = "changed" /\ target'[t] = "restored"
  BY DEF IInv, TypeOK
<1>3. /\ Engaged(th) => th.kind = "apply" /\ th.txn = t
      /\ th.kind \in {"idle", "apply"}
  BY DEF Engaged, Idle
<1>4. txn[t].snap.asset \in Asset
  BY DEF CInv, Named
<1>5. ThreadsTrue'
  <2>1. ASSUME NEW s \in Request
        PROVE  ThreadTrue(req[s])'
    <3>1. CASE req'[s] = th
      <4>1. CASE th = Idle
        BY <3>1, <4>1 DEF ThreadTrue, Engaged, Idle
      <4>2. CASE th # Idle
        BY <1>1, <3>1, <4>2 DEF ThreadTrue, Engaged
      <4> QED BY <4>1, <4>2
    <3>2. CASE req'[s] = req[s]
      <4>1. ThreadTrue(req[s]) /\ (req[s].kind = "rollback" \/ Engaged(req[s]) => req[s].txn \in Txn)
        BY DEF CInv, ThreadsTrue, IInv, Threads, ThreadsGood, ThreadGood
      <4> QED BY <1>1, <3>2, <4>1 DEF ThreadTrue, Engaged
    <3> QED BY <3>1, <3>2
  <2> QED BY <2>1 DEF ThreadsTrue
<1>6. Named'
  BY <1>1, <1>4 DEF CInv, Named, Idle
<1>7. CommandsTrue'
  <2>1. ASSUME NEW c \in remote
        PROVE  CommandTrue(c)'
    <3>1. CommandTrue(c) /\ (c.txn # 0 => c.txn \in Txn)
      BY AssetLocksAssumption DEF CInv, CommandsTrue, IInv, TypeOK, Remote, Txn
    <3> QED BY <1>1, <3>1 DEF CommandTrue
  <2>2. ASSUME NEW c \in remote, NEW s \in Request, WorksFor(s, c)'
        PROVE  Undecided(req'[s])
    <3>1. CASE req'[s] = th
      <4>1. CASE th = Idle
        BY <2>2, <3>1, <4>1 DEF WorksFor, Idle, Engaged
      <4>2. CASE th # Idle
        BY <1>3, <2>2, <3>1, <4>2 DEF WorksFor
      <4> QED BY <4>1, <4>2
    <3>2. CASE req'[s] = req[s]
      <4>1. WorksFor(s, c)
        BY <2>2, <3>2 DEF WorksFor, Engaged
      <4> QED BY <3>2, <4>1 DEF CInv, CommandsTrue
    <3> QED BY <3>1, <3>2
  <2> QED BY <2>1, <2>2 DEF CInv, CommandsTrue, Undecided
<1>8. TargetsTrue'
  <2>1. ClosedRowsAreClean'
    BY <1>1, <1>2 DEF CInv, TargetsTrue, ClosedRowsAreClean
  <2>2. \A u \in Txn : ~ txn'[u].backup \/ txn'[u].status = "none" => target'[u] \in {"untouched", "saved"}
    BY <1>1, <1>2 DEF CInv, TargetsTrue
  <2>3. ASSUME NEW s \in Request, req'[s].kind = "rollback", req'[s].result = "ok"
        PROVE  target'[req'[s].txn] = "restored"
    <3>1. req'[s] = req[s] /\ req[s].txn \in Txn
      BY <1>3, <2>3 DEF IInv, Threads, ThreadsGood, ThreadGood
    <3> QED BY <1>2, <2>3, <3>1 DEF CInv, TargetsTrue
  <2> QED BY <2>1, <2>2, <2>3 DEF TargetsTrue
<1>9. NewestFirst'
  <2>1. ASSUME NEW u \in Txn, Newest(u)
        PROVE  Newest(u)'
    BY <1>1, <1>2, <2>1 DEF Newest
  <2>2. \A c \in remote : c.cmd = "rollback" => c.txn \in Txn
    BY AssetLocksAssumption DEF CInv, CommandsTrue, CommandTrue, IInv, TypeOK, Remote, Txn
  <2>3. ASSUME NEW s \in Request, req'[s].kind = "rollback"
        PROVE  req'[s] = req[s] /\ req[s].txn \in Txn
    BY <1>3, <2>3 DEF IInv, Threads, ThreadsGood, ThreadGood
  <2> QED BY <2>1, <2>2, <2>3 DEF CInv, NewestFirst, Engaged
<1> QED BY <1>5, <1>6, <1>7, <1>8, <1>9 DEF CInv

(* A request whose command is decided settles its row as it likes; else the  *)
(* row is interrupted.                                                      *)
LEMMA SettleTrue ==
  ASSUME IInv, CInv, NEW r \in Request, Engaged(req[r]), NEW t \in Txn, t = req[r].txn,
         NEW status \in Status, status \notin {"none", "cancelled"},
         NEW backup \in BOOLEAN, txn[t].backup => backup,
         txn' = [txn EXCEPT ![t] = Updated(@, status, backup)],
         NEW th \in Thread, req' = [req EXCEPT ![r] = th],
         status = "interrupted" \/ ~ Undecided(req[r]),
         \/ th = Idle
         \/ /\ th.kind = "apply" /\ th.at = "probe" /\ th.txn = t /\ th.cmd = "mutate" /\ th.result = "none"
            /\ th.snap = req[r].snap /\ backup /\ ~ Undecided(req[r]),
         status = "rolled_back" => target[t] # "changed",
         UNCHANGED <<bound, closeout, remote, target>>
  PROVE  CInv'
<1>1. txn[t] \in Row /\ txn[t].status # "none"
  <2>1. txn[t].status \in Working
    BY DEF IInv, Threads, ThreadsGood, ThreadGood
  <2>2. txn \in [Txn -> Row]
    BY DEF IInv, TypeOK
  <2>3. txn[t].status # "none"
    BY <2>1 DEF Working
  <2> QED BY <2>2, <2>3
<1>2. PICK row : row = Updated(txn[t], status, backup)
  OBVIOUS
<1>3. row \in Row /\ row.snap = txn[t].snap /\ row.status = status /\ row.backup = backup
  <2>1. row \in Row
    BY <1>1, <1>2, UpdatedTyped
  <2>2. row.snap = txn[t].snap /\ row.status = status /\ row.backup = backup
    BY <1>1, <1>2 DEF Updated, Row
  <2> QED BY <2>1, <2>2
<1>4. txn' = [txn EXCEPT ![t] = row] /\ \A s \in Request : req'[s] \in {req[s], th}
  BY <1>2 DEF IInv, TypeOK
<1>5. ~ Undecided(req[r]) => \A c \in remote : c.txn # t
  <2>1. t # 0
    BY AssetLocksAssumption DEF Txn
  <2> QED BY <2>1, NotRunning DEF WorksFor
<1>6. req[r].snap.asset = txn[t].snap.asset
  BY DEF CInv, ThreadsTrue, ThreadTrue
<1>7. \A c \in remote : c.txn = t => row.status = "interrupted"
  BY <1>3, <1>5
<1>8. \/ th = Idle
      \/ /\ th.kind = "apply" /\ th.at = "probe" /\ th.txn = t /\ th.cmd = "mutate" /\ th.result = "none"
         /\ th.snap.asset = txn[t].snap.asset /\ row.backup
         /\ \A c \in remote : c.txn # t
  BY <1>3, <1>5, <1>6
<1>9. /\ row.status \notin {"none", "cancelled"}
      /\ row.status = "rolled_back" => target'[t] # "changed"
      /\ txn[t].backup => row.backup
  BY <1>3
<1> QED BY <1>1, <1>3, <1>4, <1>7, <1>8, <1>9, RowTrue

LEMMA RecordApplyTrue ==
  ASSUME IInv, CInv, NEW r \in Request, RecordApply(r)
  PROVE  CInv'
<1> DEFINE t == req[r].txn
<1>1. /\ req[r] \in Thread /\ ThreadTrue(req[r]) /\ Engaged(req[r]) /\ t \in Txn
      /\ req[r].kind = "apply" /\ req[r].at = "record"
  BY Busy DEF RecordApply, Is, Engaged, ThreadGood, CInv, ThreadsTrue
<1>2. txn[t] \in Row /\ txn[t].backup \in BOOLEAN
  BY <1>1 DEF IInv, TypeOK, Row
<1>3. UNCHANGED <<bound, closeout, remote, target>>
  BY DEF RecordApply
<1>4. ASSUME NEW cmd \in {"backup", "mutate", "postAudit"}, NextRun(r, cmd),
             NEW th, th = [req[r] EXCEPT !.at = "probe", !.cmd = cmd, !.result = "none"]
      PROVE  /\ th \in Thread /\ th.kind = "apply" /\ th.at = "probe" /\ th.txn = t /\ th.cmd = cmd
             /\ th.result = "none" /\ th.snap = req[r].snap /\ th.alias = req[r].alias
             /\ req' = [req EXCEPT ![r] = th]
  <2>1. cmd \in Command \cup {"none"}
    BY DEF Command, Mutating, ReadOnly
  <2> QED BY <1>1, <1>4, <2>1 DEF Thread, NextRun, IInv, TypeOK
<1>5. CASE \E cmd \in {"backup", "postAudit"} :
             NextRun(r, cmd) /\ UNCHANGED txn /\ req[r].result = "ok" /\ (cmd = "postAudit" => txn[t].backup)
  <2>1. PICK cmd \in {"backup", "postAudit"} :
          NextRun(r, cmd) /\ UNCHANGED txn /\ req[r].result = "ok" /\ (cmd = "postAudit" => txn[t].backup)
    BY <1>5
  <2>2. PICK th : th = [req[r] EXCEPT !.at = "probe", !.cmd = cmd, !.result = "none"]
    OBVIOUS
  <2>3. /\ th \in Thread /\ th.kind = "apply" /\ th.at = "probe" /\ th.txn = t /\ th.cmd = cmd
        /\ th.result = "none" /\ th.snap = req[r].snap
        /\ req' = [req EXCEPT ![r] = th]
    <3>1. cmd \in {"backup", "mutate", "postAudit"} /\ NextRun(r, cmd)
      BY <2>1
    <3> QED BY <1>4, <2>2, <3>1
  <2>4. ThreadTrue(th) /\ th.snap.asset \in Asset
    BY <1>1, <2>1, <2>3 DEF ThreadTrue, Engaged, CInv, Named
  <2>5. \A c \in remote : ~ WorksFor(r, c)'
    <3>1. \A c \in remote : ~ WorksFor(r, c)
      BY <2>1, NotRunning, <1>1 DEF Undecided
    <3> QED BY <1>1, <2>3, <3>1 DEF WorksFor, IInv, TypeOK
  <2> QED BY <1>1, <1>3, <2>1, <2>3, <2>4, <2>5, RowsRecovered, RevocationsStay, MoveStep DEF IInv
<1>6. CASE UpdateRemediation(t, "backed_up", TRUE) /\ NextRun(r, "mutate") /\ req[r].result = "ok"
  <2>1. PICK th : th = [req[r] EXCEPT !.at = "probe", !.cmd = "mutate", !.result = "none"]
    OBVIOUS
  <2>2. /\ th \in Thread /\ th.kind = "apply" /\ th.at = "probe" /\ th.txn = t /\ th.cmd = "mutate"
        /\ th.result = "none" /\ th.snap = req[r].snap
        /\ req' = [req EXCEPT ![r] = th]
    BY <1>4, <1>6, <2>1
  <2>3. "backed_up" \in Status
    BY DEF Status, Unresolved, Working
  <2>4. ~ Undecided(req[r])
    BY <1>1, <1>6 DEF Undecided
  <2> QED BY <1>1, <1>3, <1>6, <2>2, <2>3, <2>4, SettleTrue DEF UpdateRemediation
<1>7. CASE \E status \in {"applied", "interrupted", "failed"} :
             /\ UpdateRemediation(t, status, txn[t].backup) /\ EndRequest(r)
             /\ status = "interrupted" \/ ~ Undecided(req[r])
  <2>1. PICK status \in {"applied", "interrupted", "failed"} :
             /\ UpdateRemediation(t, status, txn[t].backup) /\ EndRequest(r)
             /\ status = "interrupted" \/ ~ Undecided(req[r])
    BY <1>7
  <2>2. status \in Status
    BY DEF Status, Unresolved, Claimable
  <2> QED BY <1>1, <1>2, <1>3, <2>1, <2>2, SettleTrue, NullsTyped DEF UpdateRemediation, EndRequest
<1>8. req[r].cmd = "mutate" => txn[t].backup
  BY <1>1 DEF ThreadTrue
<1> QED BY <1>1, <1>5, <1>6, <1>7, <1>8 DEF RecordApply, Undecided, Mutating

LEMMA RecordRollbackTrue ==
  ASSUME IInv, CInv, NEW r \in Request, RecordRollback(r)
  PROVE  CInv'
<1> DEFINE t == req[r].txn
<1>1. /\ req[r] \in Thread /\ Engaged(req[r]) /\ t \in Txn
      /\ req[r].kind = "rollback" /\ req[r].at = "record"
  BY Busy DEF RecordRollback, Is, Engaged, ThreadGood
<1>2. PICK status \in {"rolled_back", "recovery_ready", "rollback_failed", "interrupted"} :
        /\ UpdateRemediation(t, status, TRUE)
        /\ status = "rolled_back" => req[r].result = "ok"
        /\ req[r].result = "unknown" => status = "interrupted"
  BY DEF RecordRollback
<1>3. status \in Status /\ status \notin {"none", "cancelled"}
  BY DEF Status, Unresolved, Claimable
<1>4. status = "interrupted" \/ ~ Undecided(req[r])
  BY <1>1, <1>2 DEF Undecided
<1>5. status = "rolled_back" => target[t] # "changed"
  BY <1>1, <1>2 DEF CInv, TargetsTrue
<1> QED BY <1>1, <1>2, <1>3, <1>4, <1>5, SettleTrue, NullsTyped
        DEF RecordRollback, UpdateRemediation, EndRequest

LEMMA ReconcileTrue ==
  ASSUME IInv, CInv, NEW p \in Process, NEW t \in Txn, Reconcile(p, t)
  PROVE  CInv'
<1>1. /\ txn[t] \in Row /\ txn[t].status # "none"
      /\ UNCHANGED <<bound, closeout, req, remote>>
      /\ \A c \in remote : c.txn # t
  BY DEF Reconcile, ResolveNotApplied, ResolvePrepareRollback, ResolveRestoredManually, MayReconcile,
         ProcessesStopped, IInv, TypeOK, Unresolved, Working
<1>2. PICK old : old = txn[t]
  OBVIOUS
<1>3. PICK row : /\ \/ row = [old EXCEPT !.status = "cancelled", !.owner = Nil] /\ target[t] \in {"untouched", "saved"}
                    \/ row = [old EXCEPT !.status = "recovery_ready", !.owner = Nil, !.backup = TRUE]
                    \/ row = [old EXCEPT !.status = "rolled_back", !.owner = Nil] /\ target'[t] # "changed"
                 /\ txn' = [txn EXCEPT ![t] = row]
                 /\ \/ target' = target
                    \/ /\ target[t] = "changed" /\ target' = [target EXCEPT ![t] = "restored"]
                       /\ row.status = "rolled_back"
  <2>1. CASE ResolveNotApplied(p, t)
    BY <1>2, <2>1 DEF ResolveNotApplied, IInv, TypeOK
  <2>2. CASE ResolvePrepareRollback(p, t)
    BY <1>2, <2>2 DEF ResolvePrepareRollback, IInv, TypeOK
  <2>3. CASE ResolveRestoredManually(p, t)
    <3>1. txn[t] \in Row /\ target \in [Txn -> TargetState]
      BY DEF IInv, TypeOK
    <3>2. PICK row : row = [old EXCEPT !.status = "rolled_back", !.owner = Nil]
      OBVIOUS
    <3>3. row.status = "rolled_back" /\ txn' = [txn EXCEPT ![t] = row]
      BY <1>1, <1>2, <2>3, <3>2 DEF ResolveRestoredManually, IInv, TypeOK, Row
    <3>4. CASE target[t] = "changed"
      BY <2>3, <3>1, <3>2, <3>3, <3>4 DEF ResolveRestoredManually
    <3>5. CASE target[t] # "changed"
      BY <2>3, <3>1, <3>2, <3>3, <3>5 DEF ResolveRestoredManually
    <3> QED BY <3>4, <3>5
  <2> QED BY <2>1, <2>2, <2>3 DEF Reconcile
<1>4. /\ row \in Row /\ row.snap = txn[t].snap /\ (txn[t].backup => row.backup)
      /\ row.status # "none"
      /\ row.status = "cancelled" => target'[t] \in {"untouched", "saved"}
      /\ row.status = "rolled_back" => target'[t] # "changed"
  <2>1. {"cancelled", "recovery_ready", "rolled_back"} \subseteq Status
    BY DEF Status, Unresolved
  <2>2. /\ row \in Row /\ row.snap = old.snap /\ (old.backup => row.backup)
        /\ row.status \in {"cancelled", "recovery_ready", "rolled_back"}
    BY <1>1, <1>2, <1>3, <2>1 DEF Row
  <2>3. row.status = "cancelled" => target'[t] \in {"untouched", "saved"}
    BY <1>1, <1>2, <1>3 DEF Row
  <2>4. row.status = "rolled_back" => target'[t] # "changed"
    BY <1>1, <1>2, <1>3 DEF Row
  <2> QED BY <1>2, <2>2, <2>3, <2>4
<1> QED BY <1>1, <1>3, <1>4, RowTrue, NullsTyped

LEMMA CancelRemediationTrue ==
  ASSUME IInv, CInv, NEW p \in Process, NEW t \in Txn, CancelRemediation(p, t)
  PROVE  CInv'
<1>1. /\ txn[t] \in Row /\ txn[t].status = "failed" /\ ~ txn[t].backup
      /\ UNCHANGED <<bound, closeout, req, remote, target>>
  BY DEF CancelRemediation, IInv, TypeOK
<1>2. PICK row : row = [txn[t] EXCEPT !.status = "cancelled"]
  OBVIOUS
<1>3. row \in Row /\ row.snap = txn[t].snap /\ row.status = "cancelled"
  <2>1. "cancelled" \in Status
    BY DEF Status
  <2> QED BY <1>1, <1>2, <2>1 DEF Row
<1>4. txn' = [txn EXCEPT ![t] = row] /\ target[t] \in {"untouched", "saved"}
  BY <1>1, <1>2 DEF CancelRemediation, CInv, TargetsTrue, IInv, TypeOK
<1>5. \A c \in remote : c.txn # t
  <2>1. t # 0
    BY AssetLocksAssumption DEF Txn
  <2> QED BY <1>1, <2>1 DEF CInv, CommandsTrue, CommandTrue, Working
<1> QED BY <1>1, <1>3, <1>4, <1>5, RowTrue, NullsTyped

-----------------------------------------------------------------------------
(* Closeouts *)

(* What a closeout that is not deciding about a running command writes.      *)
LEMMA RecordCloseoutTrue ==
  ASSUME IInv, CInv, NEW r \in Request, RecordCloseout(r)
  PROVE  CInv'
<1> DEFINE a == req[r].alias
<1>1. /\ req[r] \in Thread /\ ThreadTrue(req[r]) /\ req[r].at = "record" /\ a \in Alias
      /\ req[r].kind = "closeout" /\ ~ Engaged(req[r])
  BY Busy DEF RecordCloseout, Is, CInv, ThreadsTrue, Engaged
<1>2. PICK status \in CloseoutStatus :
        /\ closeout' = IF Claims(r) THEN [closeout EXCEPT ![a].status = status] ELSE closeout
        /\ req[r].result \notin {"ok", "failed"} => status \in Revoking
  BY DEF RecordCloseout, CloseoutStatus, Settled, Revoking
<1>3. \A b \in Alias : /\ closeout'[b].claim = closeout[b].claim
                       /\ closeout'[b].status = IF Claims(r) /\ b = a THEN status ELSE closeout[b].status
  BY <1>1, <1>2 DEF IInv, TypeOK, Closeout
<1>4. PICK at \in {"finish", "release"} :
        req' = [req EXCEPT ![r].at = at] /\ (at = "finish" => req[r].result = "ok")
  BY DEF RecordCloseout
<1>5. PICK th : th = [req[r] EXCEPT !.at = at]
  OBVIOUS
<1>6. /\ th \in Thread /\ th.kind = "closeout" /\ th.at = at /\ th.txn = req[r].txn /\ th.cmd = req[r].cmd
      /\ th.alias = a /\ req' = [req EXCEPT ![r] = th]
  BY <1>1, <1>4, <1>5 DEF Thread
<1>7. ThreadTrue(th) /\ ~ Engaged(th)
  BY <1>1, <1>6 DEF ThreadTrue, Engaged
<1>8. req[r].result \in {"ok", "failed"} => \A c \in remote : ~ WorksFor(r, c)
  BY <1>1, NotRunning DEF Undecided
<1>9. RevocationsKept
  <2>1. ASSUME NEW c \in remote, c.txn = 0
        PROVE  closeout'[c.alias].status \in Revoking
    <3>1. c.alias \in Alias /\ closeout[c.alias].status \in Revoking
      BY <2>1 DEF IInv, TypeOK, Remote, CInv, CommandsTrue, CommandTrue
    <3>2. CASE Claims(r) /\ c.alias = a
      BY <1>1, <1>2, <1>3, <1>8, <2>1, <3>1, <3>2 DEF WorksFor, Claims
    <3> QED BY <1>3, <3>1, <3>2
  <2> QED BY <2>1 DEF RecordCloseout, RevocationsKept, CInv, Named
<1>10. \A c \in remote : ~ WorksFor(r, c)'
  <2> SUFFICES ASSUME NEW c \in remote, WorksFor(r, c)'
               PROVE  FALSE
    OBVIOUS
  <2>1. c.alias \in Alias /\ req'[r] = th
    BY <1>6 DEF IInv, TypeOK, Remote
  <2>2. c.txn = 0 /\ at = "finish" /\ WorksFor(r, c)
    BY <1>1, <1>3, <1>6, <1>7, <2>1 DEF WorksFor
  <2> QED BY <1>4, <1>8, <2>2
<1> QED BY <1>3, <1>6, <1>7, <1>9, <1>10, RowsRecovered, MoveStep DEF RecordCloseout, IInv

LEMMA CompleteLocalTrue ==
  ASSUME IInv, CInv, NEW r \in Request, CompleteLocal(r) \/ CompleteLocalFails(r)
  PROVE  CInv'
<1> DEFINE a == req[r].alias
<1>1. /\ req[r] \in Thread /\ ThreadTrue(req[r]) /\ req[r].at = "finish" /\ a \in Alias
      /\ req[r].kind = "closeout"
  BY Busy DEF CompleteLocal, CompleteLocalFails, Is, CInv, ThreadsTrue
<1>2. PICK th : th = [req[r] EXCEPT !.at = "release"]
  OBVIOUS
<1>3. /\ th \in Thread /\ th.kind = "closeout" /\ th.at = "release" /\ th.txn = req[r].txn /\ th.cmd = req[r].cmd
      /\ req' = [req EXCEPT ![r] = th]
  BY <1>1, <1>2 DEF Thread, CompleteLocal, CompleteLocalFails
<1>4. ThreadTrue(th) /\ ~ Engaged(th)
  BY <1>1, <1>3 DEF ThreadTrue, Engaged
<1>5. \A b \in Alias : /\ closeout'[b].claim = closeout[b].claim
                       /\ (Claims(r) /\ b = a) \/ closeout'[b].status = closeout[b].status
  BY <1>1 DEF CompleteLocal, CompleteLocalFails, IInv, TypeOK, Closeout
<1>6. RevocationsKept
  <2>1. ASSUME NEW c \in remote, c.txn = 0
        PROVE  closeout'[c.alias].status \in Revoking
    <3>1. c.alias \in Alias /\ closeout[c.alias].status \in Revoking
      BY <2>1 DEF IInv, TypeOK, Remote, CInv, CommandsTrue, CommandTrue
    <3>2. ~ WorksFor(r, c)
      BY <1>1, NotRunning DEF Undecided
    <3> QED BY <1>1, <1>5, <2>1, <3>1, <3>2 DEF WorksFor, Claims
  <2> QED BY <2>1 DEF CompleteLocal, CompleteLocalFails, RevocationsKept, CInv, Named
<1>7. \A c \in remote : ~ WorksFor(r, c)'
  BY <1>3, <1>4 DEF WorksFor, IInv, TypeOK
<1> QED BY <1>3, <1>4, <1>5, <1>6, <1>7, RowsRecovered, MoveStep DEF CompleteLocal, CompleteLocalFails, IInv

LEMMA ReleaseCloseoutTrue ==
  ASSUME IInv, CInv, NEW r \in Request, ReleaseCloseout(r)
  PROVE  CInv'
<1>1. req[r].alias \in Alias
  BY Busy DEF ReleaseCloseout, Is
<1>2. \A b \in Alias : /\ closeout'[b].claim \in {closeout[b].claim, Nil}
                       /\ closeout[b].status \in Revoking => closeout'[b].status \in Revoking
  BY <1>1 DEF ReleaseCloseout, IInv, TypeOK, Revoking
<1>3. RevocationsKept
  BY <1>2 DEF ReleaseCloseout, RevocationsKept, CInv, CommandsTrue, CommandTrue, Named, IInv, TypeOK, Remote
<1>4. \A s \in Request : req'[s] \in {req[s], Idle}
  BY DEF ReleaseCloseout, EndRequest, IInv, TypeOK
<1> QED BY <1>2, <1>3, <1>4, RowsRecovered, IdledTrue DEF ReleaseCloseout, IInv

LEMMA RecoverCloseoutTrue ==
  ASSUME IInv, CInv, NEW r \in Request, NEW p \in Process, NEW a \in Alias,
         NEW resolution \in {"ok", "failed"}, RecoverCloseout(r, p, a, resolution)
  PROVE  CInv'
<1>1. PICK th : th = [Idle EXCEPT !.kind = "closeout", !.at = "record", !.cmd = "revoke",
                                  !.proc = p, !.alias = a, !.result = resolution]
  OBVIOUS
<1>2. /\ th \in Thread /\ th.kind = "closeout" /\ th.at = "record" /\ th.cmd = "revoke" /\ th.txn = 0
      /\ th.alias = a /\ req' = [req EXCEPT ![r] = th]
  BY <1>1, NullsTyped DEF RecoverCloseout, Serve, Idle, Thread, Command, Outcome
<1>3. ThreadTrue(th) /\ ~ Engaged(th)
  BY <1>2 DEF ThreadTrue, Engaged
<1>4. \A b \in Alias : /\ closeout'[b].claim \in {closeout[b].claim, r}
                       /\ closeout'[b].status = closeout[b].status
  BY DEF RecoverCloseout, IInv, TypeOK, Closeout
<1>5. RevocationsKept
  BY <1>4 DEF RecoverCloseout, RevocationsKept, CInv, CommandsTrue, CommandTrue, Named, IInv, TypeOK, Remote
<1>6. \A c \in remote : ~ WorksFor(r, c)'
  <2>1. \A c \in remote : c.txn = 0 => c.alias # a
    BY DEF RecoverCloseout, CInv, CommandsTrue, CommandTrue
  <2> QED BY <1>2, <1>3, <2>1 DEF WorksFor, IInv, TypeOK
<1> QED BY <1>2, <1>3, <1>4, <1>5, <1>6, RowsRecovered, MoveStep DEF RecoverCloseout, IInv

LEMMA StartCloseoutTrue ==
  ASSUME IInv, CInv, NEW r \in Request, NEW p \in Process, NEW a \in Alias, StartCloseout(r, p, a)
  PROVE  CInv'
<1>1. PICK th : th = [Idle EXCEPT !.kind = "closeout", !.at = "run", !.cmd = "revoke", !.proc = p, !.alias = a]
  OBVIOUS
<1>2. /\ th.kind = "closeout" /\ th.at = "run" /\ th.cmd = "revoke" /\ th.txn = 0 /\ th.result = "none"
      /\ th.alias = a
  BY <1>1 DEF Idle
<1>3. \A s \in Request : req'[s] = IF s = r THEN th ELSE req[s]
  BY <1>1 DEF StartCloseout, Serve, IInv, TypeOK
<1>4. RowsAlike
  BY RowsRecovered DEF StartCloseout, IInv
<1>5. \A b \in Alias : /\ b # a => closeout'[b] = closeout[b]
                       /\ b = a => closeout'[b].status = "in_progress" /\ closeout'[b].claim = r
  BY DEF StartCloseout, IInv, TypeOK
<1>6. PICK c : c = [req |-> r, owner |-> p, cmd |-> "revoke", alias |-> a, asset |-> bound[a].asset, txn |-> 0]
  OBVIOUS
<1>7. remote' = remote \cup {c} /\ UNCHANGED <<bound, target>>
  BY <1>6 DEF StartCloseout
<1>8. closeout[a].status \notin Revoking
  BY DEF StartCloseout, Settled, Revoking
<1>9. \A d \in remote : d.alias \in Alias /\ (d.txn = 0 => d.alias # a)
  BY <1>8 DEF CInv, CommandsTrue, CommandTrue, IInv, TypeOK, Remote
<1>10. ThreadsTrue'
  <2>1. ASSUME NEW s \in Request
        PROVE  ThreadTrue(req[s])'
    <3>1. CASE s = r
      BY <1>2, <1>3, <3>1 DEF ThreadTrue, Engaged
    <3>2. CASE s # r
      <4>1. ThreadTrue(req[s]) /\ (req[s].kind = "rollback" \/ Engaged(req[s]) => req[s].txn \in Txn)
        BY DEF CInv, ThreadsTrue, IInv, Threads, ThreadsGood, ThreadGood
      <4> QED BY <1>3, <1>4, <3>2, <4>1 DEF RowsAlike, ThreadTrue, Engaged
    <3> QED BY <3>1, <3>2
  <2> QED BY <2>1 DEF ThreadsTrue
<1>11. Named'
  BY <1>2, <1>3, <1>4, <1>7 DEF CInv, Named, RowsAlike
<1>12. CommandsTrue'
  <2>1. ASSUME NEW d \in remote
        PROVE  CommandTrue(d)'
    <3>1. CommandTrue(d) /\ (d.txn # 0 => d.txn \in Txn)
      BY AssetLocksAssumption DEF CInv, CommandsTrue, IInv, TypeOK, Remote, Txn
    <3> QED BY <1>4, <1>5, <1>7, <1>9, <3>1 DEF CommandTrue, RowsAlike
  <2>2. CommandTrue(c)'
    BY <1>5, <1>6, <1>7 DEF CommandTrue, Revoking
  <2>3. \A d, e \in remote' : d.txn = e.txn /\ (d.txn = 0 => d.alias = e.alias) => d = e
    BY <1>6, <1>7, <1>9 DEF CInv, CommandsTrue
  <2>4. ASSUME NEW d \in remote', NEW s \in Request, WorksFor(s, d)'
        PROVE  Undecided(req'[s])
    <3>1. CASE s = r
      BY <1>2, <1>3, <3>1 DEF Undecided
    <3>2. CASE s # r
      <4>1. d \in remote
        BY <1>3, <1>5, <1>6, <1>7, <2>4, <3>2 DEF WorksFor
      <4>2. d.txn = 0 => d.alias # a /\ d.alias \in Alias
        BY <1>9, <4>1
      <4>3. WorksFor(s, d)
        BY <1>3, <1>5, <2>4, <3>2, <4>2 DEF WorksFor, Engaged
      <4> QED BY <1>3, <3>2, <4>1, <4>3 DEF CInv, CommandsTrue
    <3> QED BY <3>1, <3>2
  <2> QED BY <1>7, <2>1, <2>2, <2>3, <2>4 DEF CommandsTrue, Undecided
<1>13. TargetsTrue'
  BY <1>2, <1>3, <1>4, <1>7 DEF CInv, TargetsTrue, ClosedRowsAreClean, RowsAlike
<1>14. NewestFirst'
  <2>1. ASSUME NEW t \in Txn, Newest(t)
        PROVE  Newest(t)'
    BY <1>4, <1>7, <2>1 DEF Newest, RowsAlike
  <2>2. \A d \in remote : d.cmd = "rollback" => d.txn \in Txn
    BY AssetLocksAssumption DEF CInv, CommandsTrue, CommandTrue, IInv, TypeOK, Remote, Txn
  <2>3. ASSUME NEW s \in Request, req'[s].kind = "rollback"
        PROVE  req'[s] = req[s] /\ req[s].txn \in Txn
    BY <1>2, <1>3, <2>3 DEF IInv, Threads, ThreadsGood, ThreadGood
  <2> QED BY <1>6, <1>7, <2>1, <2>2, <2>3 DEF CInv, NewestFirst, Engaged
<1> QED BY <1>10, <1>11, <1>12, <1>13, <1>14 DEF CInv

-----------------------------------------------------------------------------
(* Rows are created and claimed *)

(* A request takes a row, beside the interruption of the rows of the dead:   *)
(* no command of that row is left, and what was done for it is as its backup *)
(* says.                                                                    *)
LEMMA EngageTrue ==
  ASSUME IInv, CInv, NEW p, NEW r \in Request, NEW th, NEW t \in Txn, NEW row,
         req' = [req EXCEPT ![r] = th],
         txn' = [RecoverInterrupted(p) EXCEPT ![t] = row],
         UNCHANGED <<bound, closeout, remote, target>>,
         txn[t].status \notin Working \cup {"interrupted"},
         (txn[t].status = "none" /\ txn[t].alias \notin Alias) \/ row.snap = txn[t].snap,
         row.status \in Working, row.snap.asset \in Asset,
         row.backup \/ txn[t].status = "none" \/ ~ txn[t].backup,
         Engaged(th), th.txn = t, th.snap.asset = row.snap.asset, th.at = "probe", th.result = "none",
         \/ th.kind = "apply" /\ th.cmd = "preAudit"
         \/ th.kind = "rollback" /\ th.cmd = "rollback" /\ row.backup /\ Newest(t) /\ row.snap = txn[t].snap
  PROVE  CInv'
<1>1. \A u \in Txn : u # t => /\ txn'[u].snap = txn[u].snap /\ txn'[u].backup = txn[u].backup
                              /\ txn'[u].status # txn[u].status => txn'[u].status = "interrupted"
                              /\ txn'[u].status = "none" <=> txn[u].status = "none"
  <2>1. PICK old : old = RecoverInterrupted(p)
    OBVIOUS
  <2>2. old \in [Txn -> Row] /\ txn' = [old EXCEPT ![t] = row]
    BY <2>1, RecoveredTyped DEF IInv
  <2>3. \A u \in Txn : /\ old[u].snap = txn[u].snap /\ old[u].backup = txn[u].backup
                       /\ old[u].status # txn[u].status => old[u].status = "interrupted"
                       /\ old[u].status = "none" <=> txn[u].status = "none"
    BY <2>1, InterruptedRow DEF IInv
  <2> QED BY <2>2, <2>3
<1>2. txn'[t] = row
  BY DEF RecoverInterrupted
<1>3. \A s \in Request : req'[s] = IF s = r THEN th ELSE req[s]
  BY DEF IInv, TypeOK
<1>4. t # 0 /\ \A c \in remote : c.txn # t
  <2>1. t # 0
    BY AssetLocksAssumption DEF Txn
  <2> QED BY <2>1 DEF CInv, CommandsTrue, CommandTrue
<1>5. \A s \in Request : /\ Engaged(req[s]) => req[s].txn # t
                         /\ req[s].kind = "rollback" => txn[req[s].txn].alias \in Alias
  BY DEF IInv, Threads, ThreadsGood, ThreadGood
<1>6. ThreadsTrue'
  <2>1. ASSUME NEW s \in Request
        PROVE  ThreadTrue(req[s])'
    <3>1. CASE s = r
      BY <1>2, <1>3, <3>1 DEF ThreadTrue, Engaged
    <3>2. CASE s # r
      <4>1. ThreadTrue(req[s]) /\ (req[s].kind = "rollback" \/ Engaged(req[s]) => req[s].txn \in Txn)
        BY DEF CInv, ThreadsTrue, IInv, Threads, ThreadsGood, ThreadGood
      <4> QED BY <1>1, <1>2, <1>3, <1>5, <3>2, <4>1 DEF ThreadTrue, Engaged
    <3> QED BY <3>1, <3>2
  <2> QED BY <2>1 DEF ThreadsTrue
<1>7. Named'
  BY <1>1, <1>2, <1>3 DEF CInv, Named
<1>8. CommandsTrue'
  <2>1. ASSUME NEW c \in remote
        PROVE  CommandTrue(c)'
    <3>1. CommandTrue(c) /\ (c.txn # 0 => c.txn \in Txn)
      BY AssetLocksAssumption DEF CInv, CommandsTrue, IInv, TypeOK, Remote, Txn
    <3> QED BY <1>1, <1>4, <3>1 DEF CommandTrue
  <2>2. ASSUME NEW c \in remote, NEW s \in Request, WorksFor(s, c)'
        PROVE  Undecided(req'[s])
    <3>1. s # r
      BY <1>3, <1>4, <2>2 DEF WorksFor, Engaged
    <3>2. WorksFor(s, c)
      BY <1>3, <2>2, <3>1 DEF WorksFor, Engaged
    <3> QED BY <1>3, <3>1, <3>2 DEF CInv, CommandsTrue
  <2> QED BY <2>1, <2>2 DEF CInv, CommandsTrue, Undecided
<1>9. TargetsTrue'
  <2>1. \A u \in Txn : ~ txn'[u].backup \/ txn'[u].status = "none" => target'[u] \in {"untouched", "saved"}
    <3>1. row.status # "none"
      BY DEF Working
    <3> QED BY <1>1, <1>2, <3>1 DEF CInv, TargetsTrue
  <2>2. \A s \in Request : req'[s].kind = "rollback" /\ req'[s].result = "ok" => target'[req'[s].txn] = "restored"
    BY <1>3 DEF CInv, TargetsTrue
  <2>3. ClosedRowsAreClean'
    <3>1. row.status \notin {"cancelled", "rolled_back"}
      BY DEF Working
    <3> QED BY <1>1, <1>2, <3>1 DEF CInv, TargetsTrue, ClosedRowsAreClean
  <2> QED BY <2>1, <2>2, <2>3 DEF TargetsTrue
<1>10. NewestFirst'
  <2>1. ASSUME NEW u \in Txn, Newest(u), u # t \/ row.snap = txn[t].snap
        PROVE  Newest(u)'
    <3>1. txn'[u].snap = txn[u].snap
      BY <1>1, <1>2, <2>1
    <3>2. txn'[t].snap = txn[t].snap \/ target[t] # "changed"
      BY <1>2 DEF CInv, TargetsTrue
    <3> QED BY <1>1, <2>1, <3>1, <3>2 DEF Newest
  <2>2. \A c \in remote : c.cmd = "rollback" => c.txn \in Txn /\ c.txn # t
    BY <1>4, AssetLocksAssumption DEF CInv, CommandsTrue, CommandTrue, IInv, TypeOK, Remote, Txn
  <2>3. ASSUME NEW s \in Request, NEW other, other = req'[s], other.kind = "rollback", Engaged(other)
        PROVE  Newest(other.txn)'
    <3>1. CASE s = r
      BY <1>3, <2>1, <2>3, <3>1
    <3>2. CASE s # r
      <4>1. other = req[s] /\ other.txn \in Txn /\ other.txn # t /\ Newest(other.txn)
        BY <1>3, <1>5, <2>3, <3>2 DEF IInv, Threads, ThreadsGood, ThreadGood, CInv, NewestFirst
      <4> QED BY <2>1, <4>1
    <3> QED BY <3>1, <3>2
  <2> QED BY <2>1, <2>2, <2>3 DEF CInv, NewestFirst, Engaged
<1> QED BY <1>6, <1>7, <1>8, <1>9, <1>10 DEF CInv

LEMMA CreateRemediationTrue ==
  ASSUME IInv, CInv, NEW r \in Request, CreateRemediation(r)
  PROVE  CInv'
<1> DEFINE a == req[r].alias
<1>1. /\ req[r] \in Thread /\ ThreadTrue(req[r]) /\ req[r].kind = "apply" /\ req[r].at = "admit"
      /\ req[r].snap.asset \in Asset
  BY Busy DEF CreateRemediation, Is, CInv, ThreadsTrue, Named
<1>2. PICK p : p = req[r].proc
  OBVIOUS
<1>3. PICK t \in Txn :
        /\ \A u \in Txn : txn[u] = NoRow <=> u >= t
        /\ txn' = [RecoverInterrupted(p) EXCEPT
             ![t] = [status |-> "preparing", from |-> "none", alias |-> a, snap |-> req[r].snap,
                     owner |-> p, backup |-> FALSE]]
        /\ req' = [req EXCEPT ![r].at = "probe", ![r].cmd = "preAudit", ![r].txn = t]
  BY <1>2 DEF CreateRemediation
<1>4. PICK row : row = [status |-> "preparing", from |-> "none", alias |-> a, snap |-> req[r].snap,
                        owner |-> p, backup |-> FALSE]
  OBVIOUS
<1>5. txn' = [RecoverInterrupted(p) EXCEPT ![t] = row]
  BY <1>3, <1>4
<1>6. PICK th : th = [req[r] EXCEPT !.at = "probe", !.cmd = "preAudit", !.txn = t]
  OBVIOUS
<1>7. /\ Engaged(th) /\ th.kind = "apply" /\ th.at = "probe" /\ th.cmd = "preAudit" /\ th.txn = t
      /\ th.result = "none" /\ th.snap = req[r].snap
  BY <1>1, <1>6 DEF Thread, ThreadTrue, Engaged
<1>8. req' = [req EXCEPT ![r] = th]
  BY <1>3, <1>6 DEF IInv, TypeOK
<1>9. txn[t].status = "none" /\ txn[t].alias \notin Alias
  <2>1. txn[t] = NoRow
    BY <1>3 DEF Txn
  <2> QED BY <2>1, AssetLocksAssumption DEF NoRow
<1>10. row.status = "preparing" /\ row.snap = req[r].snap
  BY <1>4
<1>11. "preparing" \in Working /\ "none" \notin Working \cup {"interrupted"}
  BY DEF Working
<1>12. UNCHANGED <<bound, closeout, remote, target>>
  BY DEF CreateRemediation
<1>13. /\ txn[t].status \notin Working \cup {"interrupted"}
       /\ row.status \in Working /\ row.snap.asset \in Asset /\ th.snap.asset = row.snap.asset
  BY <1>1, <1>7, <1>9, <1>10, <1>11
<1> HIDE DEF a
<1> QED BY <1>5, <1>7, <1>8, <1>9, <1>12, <1>13, EngageTrue

LEMMA ClaimRollbackTrue ==
  ASSUME IInv, CInv, NEW r \in Request, ClaimRollback(r)
  PROVE  CInv'
<1>1. PICK p, t : p = req[r].proc /\ t = req[r].txn
  OBVIOUS
<1>2. /\ req[r] \in Thread /\ ThreadGood(req[r]) /\ ThreadTrue(req[r])
      /\ req[r].kind = "rollback" /\ req[r].at = "admit" /\ t \in Txn
  BY <1>1, Busy DEF ClaimRollback, Is, CInv, ThreadsTrue, ThreadGood
<1>3. PICK old : old = RecoverInterrupted(p)
  OBVIOUS
<1>4. /\ old \in [Txn -> Row]
      /\ old[t].snap = txn[t].snap /\ old[t].backup = txn[t].backup
  BY <1>2, <1>3, RecoveredTyped, InterruptedRow DEF IInv
<1>5. PICK row : row = [old[t] EXCEPT !.status = "rolling_back", !.owner = p, !.from = "none"]
  OBVIOUS
<1>6. row.status = "rolling_back" /\ row.snap = txn[t].snap /\ row.backup = txn[t].backup
  BY <1>2, <1>4, <1>5 DEF Row
<1>7. txn' = [RecoverInterrupted(p) EXCEPT ![t] = row]
  BY <1>1, <1>2, <1>3, <1>4, <1>5 DEF ClaimRollback
<1>8. PICK th : th = [req[r] EXCEPT !.at = "probe", !.cmd = "rollback"]
  OBVIOUS
<1>9. /\ Engaged(th) /\ th.kind = "rollback" /\ th.at = "probe" /\ th.cmd = "rollback" /\ th.txn = t
      /\ th.result = "none" /\ th.snap = req[r].snap
  BY <1>1, <1>2, <1>8 DEF Thread, ThreadTrue, Engaged
<1>10. req' = [req EXCEPT ![r] = th]
  BY <1>8 DEF ClaimRollback, IInv, TypeOK
<1>11. txn[t].status \in Claimable /\ txn[t].backup
  BY <1>1 DEF ClaimRollback
<1>12. txn[t].status \notin Working \cup {"interrupted"} /\ txn[t].status # "none"
  BY <1>11 DEF Claimable, Working
<1>13. req[r].snap.asset = txn[t].snap.asset /\ txn[t].snap.asset \in Asset
  BY <1>1, <1>2, <1>12 DEF ThreadTrue, CInv, Named
<1>14. Newest(t)
  <2> SUFFICES ASSUME NEW u \in Txn, u > t, txn[u].snap.asset = txn[t].snap.asset, target[u] = "changed"
               PROVE  FALSE
    BY DEF Newest
  <2>1. txn[u].backup /\ txn[u].status \notin {"none", "cancelled", "rolled_back"}
    BY DEF CInv, TargetsTrue, ClosedRowsAreClean
  <2>2. txn[u].status \in Status
    BY DEF IInv, TypeOK, Row
  <2>3. ~ NewerRemediation(t)
    BY <1>1 DEF ClaimRollback
  <2> QED BY <2>1, <2>2, <2>3 DEF NewerRemediation, Status, Unresolved, Working, Claimable
<1>15. UNCHANGED <<bound, closeout, remote, target>> /\ "rolling_back" \in Working
  BY DEF ClaimRollback, Working
<1> QED BY <1>2, <1>6, <1>7, <1>9, <1>10, <1>11, <1>12, <1>13, <1>14, <1>15, EngageTrue

-----------------------------------------------------------------------------
(* Commands end *)

LEMMA EndCommandTrue ==
  ASSUME IInv, CInv, NEW c \in remote, EndCommand(c)
  PROVE  CInv'
<1> DEFINE t == c.txn
<1>1. PICK outcome \in {"ok", "failed"} :
        /\ remote' = remote \ {c}
        /\ IF t = 0 THEN UNCHANGED target
           ELSE \E after \in After(c.cmd, target[t], outcome) : target' = [target EXCEPT ![t] = after]
        /\ req' = [r \in Request |->
                     IF Waiting(r, c) THEN [req[r] EXCEPT !.result = outcome] ELSE req[r]]
        /\ UNCHANGED <<bound, txn, closeout>>
  BY DEF EndCommand
<1>2. CommandTrue(c) /\ c \in Remote /\ (t # 0 => t \in Txn)
  BY AssetLocksAssumption DEF CInv, CommandsTrue, IInv, TypeOK, Remote, Txn
<1>3. ASSUME NEW s \in Request
      PROVE  /\ req'[s].kind = req[s].kind /\ req'[s].at = req[s].at /\ req'[s].cmd = req[s].cmd
             /\ req'[s].alias = req[s].alias /\ req'[s].txn = req[s].txn /\ req'[s].snap = req[s].snap
             /\ req'[s] # req[s] => Waiting(s, c) /\ req'[s].result = outcome
  <2>1. req[s] \in Thread
    BY DEF IInv, TypeOK
  <2>2. req'[s] = IF Waiting(s, c) THEN [req[s] EXCEPT !.result = outcome] ELSE req[s]
    BY <1>1
  <2> QED BY <2>1, <2>2 DEF Thread
<1>4. ASSUME NEW s \in Request, Waiting(s, c)
      PROVE  /\ req[s].at = "run" /\ req[s].cmd = c.cmd /\ req[s].alias = c.alias /\ req[s].txn = t
             /\ \A d \in remote : WorksFor(s, d) => d = c
  <2>1. req[s].at = "run" /\ req[s].cmd = c.cmd /\ req[s].alias = c.alias /\ req[s].txn = t
    BY <1>4 DEF Waiting
  <2>2. ASSUME NEW d \in remote, WorksFor(s, d)
        PROVE  d.txn = t /\ (d.txn = 0 => d.alias = c.alias)
    BY <2>1, <2>2 DEF WorksFor, CInv, ThreadsTrue, ThreadTrue
  <2> QED BY <2>1, <2>2 DEF CInv, CommandsTrue
<1>5. \A u \in Txn : u # t => target'[u] = target[u]
  BY <1>1 DEF IInv, TypeOK
<1>6. t # 0 => \/ target'[t] = target[t] /\ c.cmd # "rollback"
               \/ c.cmd = "backup" /\ target'[t] = "saved"
               \/ c.cmd = "mutate" /\ target'[t] = "changed" /\ txn[t].backup
               \/ c.cmd = "rollback" /\ txn[t].backup /\ target'[t] \in {target[t], "restored"}
                  /\ (outcome = "ok" => target'[t] = "restored")
  <2> SUFFICES ASSUME t # 0
               PROVE  \/ target'[t] = target[t] /\ c.cmd # "rollback"
                      \/ c.cmd = "backup" /\ target'[t] = "saved"
                      \/ c.cmd = "mutate" /\ target'[t] = "changed" /\ txn[t].backup
                      \/ c.cmd = "rollback" /\ txn[t].backup /\ target'[t] \in {target[t], "restored"}
                         /\ (outcome = "ok" => target'[t] = "restored")
    OBVIOUS
  <2>1. target'[t] \in After(c.cmd, target[t], outcome)
    BY <1>1, <1>2 DEF IInv, TypeOK
  <2>2. c.cmd \in Mutating /\ (c.cmd # "backup" => txn[t].backup)
    BY <1>2 DEF CommandTrue
  <2> QED BY <2>1, <2>2 DEF After, Mutating
<1>7. ThreadsTrue'
  <2>1. ASSUME NEW s \in Request
        PROVE  ThreadTrue(req[s])'
    <3>1. ThreadTrue(req[s])
      BY DEF CInv, ThreadsTrue
    <3>2. req'[s].result = req[s].result \/ req'[s].at = "run"
      BY <1>3, <1>4
    <3> QED BY <1>1, <1>3, <3>1, <3>2 DEF ThreadTrue, Engaged
  <2> QED BY <2>1 DEF ThreadsTrue
<1>8. Named'
  BY <1>1, <1>3 DEF CInv, Named
<1>9. CommandsTrue'
  <2>1. \A d \in remote' : CommandTrue(d)'
    BY <1>1 DEF CInv, CommandsTrue, CommandTrue
  <2>2. ASSUME NEW d \in remote', NEW s \in Request, WorksFor(s, d)'
        PROVE  Undecided(req'[s])
    <3>1. d \in remote /\ d # c /\ WorksFor(s, d)
      BY <1>1, <1>3, <2>2 DEF WorksFor, Engaged
    <3>2. req'[s] = req[s]
      BY <1>3, <1>4, <3>1
    <3> QED BY <3>1, <3>2 DEF CInv, CommandsTrue
  <2> QED BY <1>1, <2>1, <2>2 DEF CInv, CommandsTrue, Undecided
<1>10. TargetsTrue'
  <2>1. t # 0 => txn[t].status \in Working \cup {"interrupted"}
    BY <1>2 DEF CommandTrue
  <2>2. \A u \in Txn : ~ txn'[u].backup \/ txn'[u].status = "none" => target'[u] \in {"untouched", "saved"}
    <3>1. t # 0 => txn[t].status # "none"
      BY <2>1 DEF Working
    <3>2. ASSUME NEW u \in Txn, ~ txn[u].backup \/ txn[u].status = "none"
          PROVE  target'[u] \in {"untouched", "saved"}
      <4>1. target[u] \in {"untouched", "saved"}
        BY <3>2 DEF CInv, TargetsTrue
      <4>2. CASE u = t
        BY <1>2, <1>6, <3>1, <3>2, <4>1, <4>2, AssetLocksAssumption DEF Txn
      <4> QED BY <1>5, <4>1, <4>2
    <3> QED BY <1>1, <3>2
  <2>3. ClosedRowsAreClean'
    <3>1. t # 0 => txn[t].status \notin {"cancelled", "rolled_back"}
      BY <2>1 DEF Working
    <3>2. \A u \in Txn : txn[u].status \in {"cancelled", "rolled_back"} => target'[u] = target[u]
      <4>1. \A u \in Txn : u # 0
        BY AssetLocksAssumption DEF Txn
      <4> QED BY <1>5, <3>1, <4>1
    <3> QED BY <1>1, <3>2 DEF CInv, TargetsTrue, ClosedRowsAreClean
  <2>4. ASSUME NEW s \in Request, req'[s].kind = "rollback", req'[s].result = "ok"
        PROVE  target'[req'[s].txn] = "restored"
    <3>1. /\ req[s].kind = "rollback" /\ req'[s].txn = req[s].txn /\ req[s].txn \in Txn /\ req[s].txn # 0
          /\ ThreadTrue(req[s])
      BY <1>3, <2>4, AssetLocksAssumption DEF IInv, Threads, ThreadsGood, ThreadGood, CInv, ThreadsTrue, Txn
    <3>2. CASE Waiting(s, c)
      <4>1. req[s].at = "run" /\ c.cmd = "rollback" /\ req[s].txn = t /\ t # 0
        BY <1>4, <3>1, <3>2 DEF ThreadTrue, Engaged
      <4>2. outcome = "ok"
        <5>1. req[s] \in Thread
          BY DEF IInv, TypeOK
        <5>2. req'[s] = [req[s] EXCEPT !.result = outcome]
          BY <1>1, <3>2
        <5> QED BY <2>4, <5>1, <5>2 DEF Thread
      <4> QED BY <1>6, <3>1, <4>1, <4>2
    <3>3. CASE ~ Waiting(s, c)
      <4>1. req[s].result = "ok"
        BY <1>3, <2>4, <3>3
      <4>2. Engaged(req[s]) /\ ~ Undecided(req[s])
        BY <3>1, <4>1 DEF ThreadTrue, Undecided
      <4>3. req[s].txn # t
        BY <3>1, <4>2, NotRunning DEF WorksFor
      <4> QED BY <1>5, <3>1, <4>1, <4>3 DEF CInv, TargetsTrue
    <3> QED BY <3>2, <3>3
  <2> QED BY <2>2, <2>3, <2>4 DEF TargetsTrue
<1>11. NewestFirst'
  <2>1. ASSUME NEW u \in Txn, Newest(u), txn[u].status \in Unresolved
        PROVE  Newest(u)'
    <3> SUFFICES ASSUME NEW v \in Txn, v > u, txn[v].snap.asset = txn[u].snap.asset, target'[v] = "changed"
                 PROVE  FALSE
      BY <1>1 DEF Newest
    <3>1. target[v] # "changed"
      BY <2>1 DEF Newest
    <3>2. v = t /\ t # 0
      BY <1>5, <3>1, AssetLocksAssumption DEF Txn
    <3>3. txn[v].status \in Unresolved
      BY <1>2, <3>2 DEF CommandTrue, Unresolved
    <3>4. txn[u].snap.asset \in Asset
      BY <2>1 DEF CInv, Named, Unresolved, Working
    <3> QED BY <2>1, <3>3, <3>4, AssetLocksAssumption DEF IInv, Rows, OneUnresolvedPerAsset, UnresolvedOn, Txn
  <2>2. \A d \in remote : d.cmd = "rollback" => d.txn \in Txn /\ txn[d.txn].status \in Unresolved
    BY AssetLocksAssumption DEF CInv, CommandsTrue, CommandTrue, IInv, TypeOK, Remote, Txn, Unresolved
  <2>3. ASSUME NEW s \in Request, NEW other, other = req'[s], other.kind = "rollback", Engaged(other)
        PROVE  Newest(other.txn)'
    <3>1. req[s].kind = "rollback" /\ Engaged(req[s]) /\ other.txn = req[s].txn
      BY <1>3, <2>3 DEF Engaged
    <3>2. other.txn \in Txn /\ txn[other.txn].status \in Unresolved
      BY <3>1 DEF IInv, Threads, ThreadsGood, ThreadGood, Unresolved
    <3> QED BY <2>1, <3>1, <3>2 DEF CInv, NewestFirst
  <2> QED BY <1>1, <2>1, <2>2, <2>3 DEF CInv, NewestFirst, Engaged
<1> QED BY <1>7, <1>8, <1>9, <1>10, <1>11 DEF CInv

-----------------------------------------------------------------------------
(* The operator, the network and the processes *)

LEMMA RebindTrue ==
  ASSUME IInv, CInv, NEW p \in Process, NEW a \in Alias, Rebind(p, a)
  PROVE  CInv'
<1>1. closeout[a].status \notin Revoking
  BY NoCloseoutHere DEF Rebind, AssetIdle
<1>2. \A b \in Alias : bound'[b] = IF b = a THEN NextBinding(a) ELSE bound[b]
  BY DEF Rebind, IInv, TypeOK
<1>3. NextBinding(a).asset \in Asset
  BY DEF NextBinding, IInv, TypeOK
<1>4. \A c \in remote : c.alias \in Alias /\ (c.txn = 0 => c.alias # a)
  BY <1>1 DEF CInv, CommandsTrue, CommandTrue, IInv, TypeOK, Remote
<1>5. RevocationsKept
  BY <1>2, <1>3, <1>4 DEF Rebind, RevocationsKept, CInv, CommandsTrue, CommandTrue, Named
<1> QED BY <1>5, RowsRecovered, IdledTrue DEF Rebind, IInv

LEMMA OperatorTrue ==
  ASSUME IInv, CInv, NEW p \in Process, Operator(p)
  PROVE  CInv'
<1>1. CASE RecoverInterruptedNow(p) \/ RecoverAuditJobs(p)
  BY <1>1, RowsRecovered, RevocationsStay, IdledTrue DEF RecoverInterruptedNow, RecoverAuditJobs, IInv
<1> QED BY <1>1, ReconcileTrue, CancelRemediationTrue, RebindTrue DEF Operator

LEMMA EnvironmentTrue ==
  ASSUME IInv, CInv, Environment
  PROVE  CInv'
<1>1. ASSUME NEW a \in Alias, Relocate(a)
      PROVE  CInv'
  BY <1>1, RowsRecovered, RevocationsStay, IdledTrue DEF Relocate, IInv
<1>2. ASSUME NEW p \in Process, Start(p) \/ Crash(p)
      PROVE  CInv'
  BY <1>2, RowsRecovered, RevocationsStay, IdledTrue DEF Start, Crash, IInv
<1> QED BY <1>1, <1>2, EndCommandTrue DEF Environment

-----------------------------------------------------------------------------
(* The theorems *)

LEMMA InitTrue == Init => CInv
<1> SUFFICES ASSUME Init
             PROVE  CInv
  OBVIOUS
<1>1. ThreadsTrue /\ Named /\ NewestFirst
  BY DEF Init, ThreadsTrue, ThreadTrue, Named, NewestFirst, Engaged, Idle, NoRow, NoBinding
<1>2. CommandsTrue /\ TargetsTrue
  BY DEF Init, CommandsTrue, TargetsTrue, ClosedRowsAreClean, Idle, NoRow
<1> QED BY <1>1, <1>2 DEF CInv

LEMMA NextTrue == IInv /\ CInv /\ [Next]_vars => CInv'
<1> SUFFICES ASSUME IInv, CInv, [Next]_vars
             PROVE  CInv'
  OBVIOUS
<1>1. ASSUME NEW r \in Request, Arrival(r)
      PROVE  CInv'
  BY <1>1, CreateAuditJobTrue, StartDirectRunTrue, StartApplyTrue, StartCloseoutTrue,
     RecoverCloseoutTrue, StartRollbackTrue DEF Arrival
<1>2. ASSUME NEW r \in Request, Progress(r)
      PROVE  CInv'
  BY <1>2, CaptureTrue, CreateRemediationTrue, ClaimRollbackTrue, ProbeTrue,
     AcquireAssetExecutionTrue, GiveUpTrue, EndRunTrue, FinishAuditTrue, RecordApplyTrue,
     RecordRollbackTrue, RecordCloseoutTrue, CompleteLocalTrue, ReleaseCloseoutTrue DEF Progress
<1>3. CASE UNCHANGED vars
  BY <1>3, RowsRecovered, RevocationsStay, IdledTrue DEF vars, IInv
<1> QED BY <1>1, <1>2, <1>3, OperatorTrue, EnvironmentTrue DEF Next

LEMMA Commands == Spec => [](IInv /\ CInv)
<1>1. Init => IInv /\ CInv
  BY InitInvariant, InitTrue
<1>2. (IInv /\ CInv) /\ [Next]_vars => (IInv /\ CInv)'
  BY NextInvariant, NextTrue
<1> QED BY <1>1, <1>2, PTL DEF Spec

(* As long as a backup, a change, a rollback or a revocation may still run   *)
(* on a machine, its transaction or closeout is unresolved, whoever sent it, *)
(* died or gave up waiting: the store's admission checks see it.            *)
THEOREM ChangesAreBarred == Spec => []ChangeIsBarred
<1>1. CInv => ChangeIsBarred
  BY DEF CInv, CommandsTrue, CommandTrue, ChangeIsBarred, Unresolved, Revoking, Settled
<1> QED BY Commands, <1>1, PTL

(* A rollback puts back the saved state of a machine only while no later    *)
(* change of that machine is in force there.                                *)
THEOREM RollbacksNewestFirst == Spec => []RollbackNewestFirst
<1>1. IInv /\ CInv => RollbackNewestFirst
  <2> SUFFICES ASSUME IInv, CInv, NEW c \in remote, c.cmd = "rollback", NEW u \in Txn, u > c.txn,
                      txn[u].snap.asset = c.asset
               PROVE  target[u] # "changed"
    BY DEF RollbackNewestFirst
  <2>1. c.txn # 0 /\ c.asset = txn[c.txn].snap.asset /\ Newest(c.txn)
    BY DEF CInv, CommandsTrue, CommandTrue, NewestFirst
  <2> QED BY <2>1 DEF Newest
<1> QED BY Commands, <1>1, PTL

(* A cancelled row never changed the firewall of its machine, and that of a *)
(* rolled back one is not changed any more.                                 *)
THEOREM ClosedRowsLeaveNothing == Spec => []ClosedRowsAreClean
<1>1. CInv => ClosedRowsAreClean
  BY DEF CInv, TargetsTrue
<1> QED BY Commands, <1>1, PTL

-----------------------------------------------------------------------------
(* The inductive invariant of identities *)

(* A generation of an alias names one machine and one connection.           *)
RowsSnapped ==
  \A t \in Txn : txn[t].status # "none" =>
     /\ txn[t].snap.gen > 0
     /\ bound[txn[t].alias].gen >= txn[t].snap.gen
     /\ bound[txn[t].alias].gen = txn[t].snap.gen => bound[txn[t].alias] = txn[t].snap

(* A change works with the generation of its row.                           *)
SnapKept(th) == th.kind = "rollback" \/ Engaged(th) => th.snap.gen = txn[th.txn].snap.gen

(* The holder of a claim that has a revocation under way, or does not know   *)
(* how it ended, finds the closeout as it began it.                         *)
Revokes(r, th) ==
  /\ th.kind = "closeout" /\ closeout[th.alias].claim = r
  /\ th.at = "run" \/ (th.at = "record" /\ th.result \notin {"ok", "failed"})
  => closeout[th.alias].status \in Revoking

RequestsKept == \A r \in Request : SnapKept(req[r]) /\ Revokes(r, req[r])

OneRevocation ==
  \A a, b \in Alias :
     /\ closeout[a].status \in Revoking /\ closeout[b].status \in Revoking
     /\ bound[a].asset = bound[b].asset /\ bound[a].asset \in Asset
     => a = b

(* The alias of a transaction is bound as it was when it was created.       *)
Fresh(t) == bound[txn[t].alias] = txn[t].snap

RevocationExcludesChange ==
  \A a \in Alias, t \in Txn :
     /\ closeout[a].status \in Revoking
     /\ txn[t].status \in Unresolved /\ Fresh(t)
     => txn[t].snap.asset # bound[a].asset

ChangesAreFresh == \A c \in remote : c.txn # 0 => Fresh(c.txn)

XInv == RowsSnapped /\ RequestsKept /\ OneRevocation /\ RevocationExcludesChange /\ ChangesAreFresh

-----------------------------------------------------------------------------
(* Steps that admit nothing new *)

(* A binding gets a new generation only where nothing is under way.         *)
BindingsMove ==
  \A a \in Alias : \/ bound'[a] = bound[a]
                   \/ /\ bound'[a].gen > bound[a].gen
                      /\ closeout[a].status \in Settled
                      /\ \A t \in Txn : txn[t].status \in Unresolved => txn[t].alias # a

RowsStay ==
  \A t \in Txn : /\ txn'[t].snap = txn[t].snap /\ txn'[t].alias = txn[t].alias
                 /\ txn'[t].status # "none" => txn[t].status # "none"

NoneAdmitted ==
  /\ \A t \in Txn : txn'[t].status \in Unresolved => txn[t].status \in Unresolved
  /\ \A a \in Alias : closeout'[a].status \in Revoking => closeout[a].status \in Revoking
  /\ remote' \subseteq remote

(* A request that is left alone keeps its claim and what it claims.         *)
LeftAlone(s) ==
  /\ req'[s] = req[s]
  /\ \A a \in Alias : closeout'[a].claim = s
       => closeout[a].claim = s /\ (closeout[a].status \in Revoking => closeout'[a].status \in Revoking)

RequestsMove ==
  \A s \in Request : LeftAlone(s) \/ \E th : req'[s] = th /\ SnapKept(th)' /\ Revokes(s, th)'

LEMMA Generations ==
  ASSUME TypeOK
  PROVE  /\ \A a \in Alias : bound[a].gen \in Nat
         /\ \A t \in Txn : txn[t].snap.gen \in Nat
BY AssetLocksAssumption DEF TypeOK, Binding, Row

(* Rows and requests that stay as they are keep their generations.          *)
LEMMA SnapsStep ==
  ASSUME IInv, IInv', CInv, XInv, BindingsMove, RowsStay, RequestsMove
  PROVE  RowsSnapped' /\ RequestsKept'
<1>1. \A t \in Txn : txn[t].status # "none" => txn[t].alias \in Alias
  BY DEF IInv, Rows, RowsGood, RowGood
<1>2. RowsSnapped'
  <2> SUFFICES ASSUME NEW t \in Txn, txn'[t].status # "none"
               PROVE  /\ txn'[t].snap.gen > 0
                      /\ bound'[txn'[t].alias].gen >= txn'[t].snap.gen
                      /\ bound'[txn'[t].alias].gen = txn'[t].snap.gen => bound'[txn'[t].alias] = txn'[t].snap
    BY DEF RowsSnapped
  <2>1. PICK a \in Alias : a = txn[t].alias /\ txn'[t].alias = a /\ txn'[t].snap = txn[t].snap
    BY <1>1 DEF RowsStay
  <2>2. /\ txn[t].snap.gen > 0 /\ bound[a].gen >= txn[t].snap.gen
        /\ bound[a].gen = txn[t].snap.gen => bound[a] = txn[t].snap
    BY <2>1 DEF XInv, RowsSnapped, RowsStay
  <2>3. bound[a].gen \in Nat /\ bound'[a].gen \in Nat /\ txn[t].snap.gen \in Nat
    BY Generations, AssetLocksAssumption DEF IInv, TypeOK, Binding
  <2> QED BY <2>1, <2>2, <2>3 DEF BindingsMove
<1>3. RequestsKept'
  <2>1. ASSUME NEW s \in Request, LeftAlone(s)
        PROVE  SnapKept(req[s])' /\ Revokes(s, req[s])'
    <3>1. req[s].kind = "rollback" \/ Engaged(req[s]) => req[s].txn \in Txn
      BY DEF IInv, Threads, ThreadsGood, ThreadGood
    <3>2. SnapKept(req[s])'
      BY <2>1, <3>1 DEF XInv, RequestsKept, SnapKept, LeftAlone, RowsStay, Engaged
    <3>3. req[s].kind = "closeout" /\ req[s].at \in {"run", "record", "finish", "release"} => req[s].alias \in Alias
      BY DEF IInv, Threads, ThreadsGood, ThreadGood
    <3>4. req[s].kind = "closeout" => req[s].at \in {"run", "record", "finish", "release"}
      BY DEF CInv, ThreadsTrue, ThreadTrue
    <3>5. Revokes(s, req[s])'
      BY <2>1, <3>3, <3>4 DEF XInv, RequestsKept, Revokes, LeftAlone
    <3> QED BY <3>2, <3>5
  <2>2. ASSUME NEW s \in Request, NEW th, req'[s] = th, SnapKept(th)', Revokes(s, th)'
        PROVE  SnapKept(req[s])' /\ Revokes(s, req[s])'
    BY <2>2 DEF SnapKept, Revokes, Engaged
  <2> QED BY <2>1, <2>2 DEF RequestsKept, RequestsMove
<1> QED BY <1>2, <1>3

(* The commands of transactions are for unresolved rows.                    *)
LEMMA CommandsOfRows ==
  ASSUME IInv, CInv
  PROVE  \A c \in remote : c.txn # 0 => c.txn \in Txn /\ txn[c.txn].status \in Unresolved
BY AssetLocksAssumption DEF CInv, CommandsTrue, CommandTrue, IInv, TypeOK, Remote, Txn, Unresolved

LEMMA StoreStep ==
  ASSUME IInv, IInv', CInv, XInv, BindingsMove, RowsStay, NoneAdmitted, RequestsMove
  PROVE  XInv'
<1>1. RowsSnapped' /\ RequestsKept'
  BY SnapsStep
<1>2. OneRevocation'
  BY DEF XInv, OneRevocation, NoneAdmitted, BindingsMove, Settled, Revoking
<1>3. \A t \in Txn : txn[t].status \in Unresolved => Fresh(t)' = Fresh(t)
  <2>1. \A t \in Txn : txn[t].status # "none" => txn[t].alias \in Alias
    BY DEF IInv, Rows, RowsGood, RowGood
  <2> QED BY <2>1 DEF RowsStay, BindingsMove, Fresh, Unresolved, Working
<1>4. RevocationExcludesChange'
  BY <1>3 DEF XInv, RevocationExcludesChange, BindingsMove, RowsStay, NoneAdmitted, Settled, Revoking
<1>5. ChangesAreFresh'
  BY <1>3, CommandsOfRows DEF XInv, ChangesAreFresh, NoneAdmitted
<1> QED BY <1>1, <1>2, <1>4, <1>5 DEF XInv

(* The rows, left alone or interrupted.                                     *)
LEMMA RowsMoved ==
  ASSUME TypeOK, NEW p, UNCHANGED txn \/ txn' = RecoverInterrupted(p)
  PROVE  RowsStay /\ \A t \in Txn : txn'[t].status \in Unresolved <=> txn[t].status \in Unresolved
BY RowsRecovered DEF RowsAlike, RowsStay

(* One request moves, and closeouts stay as they are.                       *)
LEMMA RequestStep ==
  ASSUME IInv, IInv', CInv, XInv, NEW r \in Request, NEW th, req' = [req EXCEPT ![r] = th],
         UNCHANGED closeout, remote' \subseteq remote, BindingsMove, RowsStay,
         \A t \in Txn : txn'[t].status \in Unresolved => txn[t].status \in Unresolved,
         SnapKept(th)', Revokes(r, th)'
  PROVE  XInv'
<1>1. \A s \in Request : req'[s] = IF s = r THEN th ELSE req[s]
  BY DEF IInv, TypeOK
<1>2. \A s \in Request : s # r => LeftAlone(s)
  BY <1>1 DEF LeftAlone
<1>3. RequestsMove
  BY <1>1, <1>2 DEF RequestsMove
<1> QED BY <1>3, StoreStep DEF NoneAdmitted

LEMMA BindingsStay == ASSUME UNCHANGED bound PROVE BindingsMove
BY DEF BindingsMove

(* A binding that gets a new generation was of an idle machine.             *)
LEMMA IdleMoves ==
  ASSUME IInv, NEW p, NEW a \in Alias, NEW jobsToo, AssetIdle(p, a, jobsToo, Nil),
         bound' = [bound EXCEPT ![a] = NextBinding(a)]
  PROVE  BindingsMove
<1>1. closeout[a].status \in Settled
  BY NoCloseoutHere DEF AssetIdle
<1>2. \A t \in Txn : txn[t].status \in Unresolved => txn[t].alias # a
  BY AssetLocksAssumption DEF AssetIdle, ActiveAssetRemediation, AliasesForAsset, Txn
<1>3. \A b \in Alias : bound'[b] = IF b = a THEN NextBinding(a) ELSE bound[b]
  BY DEF IInv, TypeOK
<1>4. NextBinding(a).gen > bound[a].gen
  BY Generations DEF IInv, NextBinding
<1> QED BY <1>1, <1>2, <1>3, <1>4 DEF BindingsMove

LEMMA ObservationMoves ==
  ASSUME IInv, NEW p, NEW a \in Alias, RecordObservation(p, a)
  PROVE  BindingsMove
BY IdleMoves, BindingsStay DEF RecordObservation

-----------------------------------------------------------------------------
(* Requests arrive and go on *)

LEMMA ArrivalExcludes ==
  ASSUME IInv, IInv', CInv, XInv, NEW r \in Request, NEW th, req' = [req EXCEPT ![r] = th],
         UNCHANGED <<bound, txn, closeout, remote>>,
         th.kind \notin {"rollback", "closeout"}, ~ Engaged(th)
  PROVE  XInv'
<1>1. SnapKept(th)' /\ Revokes(r, th)'
  BY DEF SnapKept, Revokes, Engaged
<1>2. RowsStay /\ \A t \in Txn : txn'[t].status \in Unresolved => txn[t].status \in Unresolved
  BY RowsMoved DEF IInv
<1> QED BY <1>1, <1>2, BindingsStay, RequestStep

LEMMA ServeExcludes ==
  ASSUME IInv, IInv', CInv, XInv, NEW r \in Request, NEW p \in Process, NEW a \in Alias,
         CreateAuditJob(r, p, a) \/ StartDirectRun(r, p, a) \/ StartApply(r, p, a)
  PROVE  XInv'
<1>1. ASSUME NEW kind \in {"audit", "direct", "scan", "apply"}, NEW at, kind = "apply" => at = "capture",
             NEW th, th = [Idle EXCEPT !.kind = kind, !.at = at, !.cmd = "audit", !.proc = p, !.alias = a]
                     \/ th = [Idle EXCEPT !.kind = kind, !.at = at, !.proc = p, !.alias = a]
      PROVE  th.kind \notin {"rollback", "closeout"} /\ ~ Engaged(th)
  <2>1. th.kind = kind /\ th.at = at
    BY <1>1 DEF Idle
  <2> QED BY <1>1, <2>1 DEF Engaged
<1>2. CASE CreateAuditJob(r, p, a)
  <2>1. PICK th : th = [Idle EXCEPT !.kind = "audit", !.at = "probe", !.cmd = "audit", !.proc = p, !.alias = a]
    OBVIOUS
  <2>2. req' = [req EXCEPT ![r] = th]
    BY <1>2, <2>1 DEF CreateAuditJob, Serve
  <2>3. th.kind \notin {"rollback", "closeout"} /\ ~ Engaged(th)
    BY <1>1, <2>1
  <2> QED BY <1>2, <2>2, <2>3, ArrivalExcludes DEF CreateAuditJob
<1>3. CASE StartDirectRun(r, p, a)
  <2>1. PICK kind \in {"direct", "scan"}, at \in {"probe", "lease"} :
          Serve(r, [Idle EXCEPT !.kind = kind, !.at = at, !.cmd = "audit", !.proc = p, !.alias = a])
    BY <1>3 DEF StartDirectRun
  <2>2. PICK th : th = [Idle EXCEPT !.kind = kind, !.at = at, !.cmd = "audit", !.proc = p, !.alias = a]
    OBVIOUS
  <2>3. req' = [req EXCEPT ![r] = th]
    BY <2>1, <2>2 DEF Serve
  <2>4. th.kind \notin {"rollback", "closeout"} /\ ~ Engaged(th)
    BY <1>1, <2>2
  <2> QED BY <1>3, <2>3, <2>4, ArrivalExcludes DEF StartDirectRun
<1>4. CASE StartApply(r, p, a)
  <2>1. PICK th : th = [Idle EXCEPT !.kind = "apply", !.at = "capture", !.proc = p, !.alias = a]
    OBVIOUS
  <2>2. req' = [req EXCEPT ![r] = th]
    BY <1>4, <2>1 DEF StartApply, Serve
  <2>3. th.kind \notin {"rollback", "closeout"} /\ ~ Engaged(th)
    BY <1>1, <2>1
  <2> QED BY <1>4, <2>2, <2>3, ArrivalExcludes DEF StartApply
<1> QED BY <1>2, <1>3, <1>4

LEMMA StartRollbackExcludes ==
  ASSUME IInv, IInv', CInv, XInv, NEW r \in Request, NEW p \in Process, NEW t \in Txn,
         StartRollback(r, p, t)
  PROVE  XInv'
<1>1. PICK th : th = [Idle EXCEPT !.kind = "rollback", !.at = "capture", !.proc = p,
                                  !.alias = txn[t].alias, !.txn = t, !.seen = txn[t].status,
                                  !.snap = txn[t].snap]
  OBVIOUS
<1>2. th.kind = "rollback" /\ th.txn = t /\ th.snap = txn[t].snap
  BY <1>1 DEF Idle
<1>3. req' = [req EXCEPT ![r] = th] /\ UNCHANGED <<bound, txn, closeout, remote>>
  BY <1>1 DEF StartRollback, Serve
<1>4. SnapKept(th)' /\ Revokes(r, th)'
  BY <1>2, <1>3 DEF SnapKept, Revokes, Engaged
<1>5. RowsStay /\ \A u \in Txn : txn'[u].status \in Unresolved => txn[u].status \in Unresolved
  BY <1>3, RowsMoved DEF IInv
<1> QED BY <1>3, <1>4, <1>5, BindingsStay, RequestStep

LEMMA CaptureExcludes ==
  ASSUME IInv, IInv', CInv, XInv, NEW r \in Request, Capture(r)
  PROVE  XInv'
<1> DEFINE a == req[r].alias
<1>1. req[r] \in Thread /\ a \in Alias /\ req[r].at = "capture" /\ req[r].kind \in {"apply", "rollback"}
  BY Busy DEF Capture, Is
<1>2. PICK th : th = IF req[r].kind = "rollback" /\ CurrentBinding(a).gen # req[r].snap.gen
                     THEN Idle
                     ELSE [req[r] EXCEPT !.at = "admit", !.snap = CurrentBinding(a)]
  OBVIOUS
<1>3. req' = [req EXCEPT ![r] = th] /\ UNCHANGED <<txn, closeout, remote>>
  BY <1>2 DEF Capture
<1>4. BindingsMove
  BY <1>1, ObservationMoves DEF Capture
<1>5. \/ th.kind = "idle" /\ th.at = "idle"
      \/ /\ th.kind = req[r].kind /\ th.at = "admit" /\ th.txn = req[r].txn
         /\ th.kind = "rollback" => th.snap.gen = req[r].snap.gen
  BY <1>1, <1>2 DEF Idle, Thread
<1>6. SnapKept(req[r])
  BY DEF XInv, RequestsKept
<1>7. SnapKept(th)' /\ Revokes(r, th)'
  BY <1>1, <1>3, <1>5, <1>6 DEF SnapKept, Revokes, Engaged
<1>8. RowsStay /\ \A t \in Txn : txn'[t].status \in Unresolved => txn[t].status \in Unresolved
  BY <1>3, RowsMoved DEF IInv
<1> QED BY <1>3, <1>4, <1>7, <1>8, RequestStep

LEMMA ProbeExcludes ==
  ASSUME IInv, IInv', CInv, XInv, NEW r \in Request, Probe(r)
  PROVE  XInv'
<1> DEFINE a == req[r].alias
<1>1. req[r] \in Thread /\ ThreadGood(req[r]) /\ a \in Alias /\ req[r].at = "probe"
      /\ req[r].kind \in {"audit", "direct", "apply", "rollback"}
  BY Busy DEF Probe, Is
<1>2. PICK th : th = IF req[r].txn # 0 /\ CurrentBinding(a).gen # req[r].snap.gen
                     THEN [req[r] EXCEPT !.at = "record", !.result = "failed"]
                     ELSE [req[r] EXCEPT !.at = "lease", !.snap = CurrentBinding(a)]
  OBVIOUS
<1>3. req' = [req EXCEPT ![r] = th] /\ UNCHANGED <<txn, closeout, remote>>
  BY <1>2 DEF Probe
<1>4. BindingsMove
  BY <1>1, ObservationMoves DEF Probe
<1>5. /\ th.kind = req[r].kind /\ th.txn = req[r].txn /\ th.at \in {"record", "lease"}
      /\ req[r].txn # 0 => th.snap.gen = req[r].snap.gen
  BY <1>1, <1>2 DEF Thread
<1>6. SnapKept(req[r])
  BY DEF XInv, RequestsKept
<1>7. req[r].kind \in {"apply", "rollback"} => req[r].txn # 0
  BY <1>1, AssetLocksAssumption DEF ThreadGood, Engaged, Txn
<1>8. SnapKept(th)' /\ Revokes(r, th)'
  BY <1>1, <1>3, <1>5, <1>6, <1>7 DEF SnapKept, Revokes, Engaged
<1>9. RowsStay /\ \A t \in Txn : txn'[t].status \in Unresolved => txn[t].status \in Unresolved
  BY <1>3, RowsMoved DEF IInv
<1> QED BY <1>3, <1>4, <1>8, <1>9, RequestStep

(* A request that goes on with the same snapshot, or ends.                   *)
LEMMA SameSnap ==
  ASSUME IInv, IInv', CInv, XInv, NEW r \in Request, NEW th, req' = [req EXCEPT ![r] = th],
         UNCHANGED <<bound, closeout>>, remote' \subseteq remote, RowsStay,
         \A t \in Txn : txn'[t].status \in Unresolved => txn[t].status \in Unresolved,
         \/ th.kind = "idle"
         \/ /\ th.kind = req[r].kind /\ th.txn = req[r].txn /\ th.snap = req[r].snap
            /\ th.alias = req[r].alias
            /\ Engaged(th) => Engaged(req[r])
            /\ th.at = "run" => req[r].at = "run"
            /\ th.at = "record" /\ th.result \notin {"ok", "failed"} => req[r].at = "run"
  PROVE  XInv'
<1>1. SnapKept(req[r]) /\ Revokes(r, req[r])
  BY DEF XInv, RequestsKept
<1>2. req[r].kind = "rollback" \/ Engaged(req[r]) => req[r].txn \in Txn
  BY DEF IInv, Threads, ThreadsGood, ThreadGood
<1>3. SnapKept(th)'
  BY <1>1, <1>2 DEF SnapKept, RowsStay, Engaged
<1>4. Revokes(r, th)'
  BY <1>1 DEF Revokes
<1> QED BY <1>3, <1>4, BindingsStay, RequestStep

LEMMA GiveUpExcludes ==
  ASSUME IInv, IInv', CInv, XInv, NEW r \in Request, GiveUp(r)
  PROVE  XInv'
<1>1. req[r] \in Thread /\ req[r].at \in {"capture", "admit", "probe", "lease"}
  BY Busy DEF GiveUp
<1>2. PICK th : th = IF req[r].at \in {"capture", "admit"} THEN Idle
                     ELSE [req[r] EXCEPT !.at = "record", !.result = "failed"]
  OBVIOUS
<1>3. \/ th.kind = "idle"
      \/ /\ th.kind = req[r].kind /\ th.txn = req[r].txn /\ th.snap = req[r].snap
         /\ th.alias = req[r].alias /\ th.at = "record" /\ th.result = "failed"
         /\ req[r].at \in {"probe", "lease"}
  BY <1>1, <1>2 DEF Thread, Idle
<1>4. th.kind # "idle" => (Engaged(th) => Engaged(req[r]))
  BY <1>3 DEF Engaged
<1>5. req' = [req EXCEPT ![r] = th] /\ UNCHANGED <<bound, txn, closeout, remote>>
  BY <1>2 DEF GiveUp
<1>6. RowsStay /\ \A t \in Txn : txn'[t].status \in Unresolved => txn[t].status \in Unresolved
  BY <1>5, RowsMoved DEF IInv
<1> QED BY <1>3, <1>4, <1>5, <1>6, SameSnap

LEMMA EndRunExcludes ==
  ASSUME IInv, IInv', CInv, XInv, NEW r \in Request, EndRun(r)
  PROVE  XInv'
<1>1. req[r] \in Thread /\ req[r].at = "run"
  BY Busy DEF EndRun
<1>2. PICK result : req' = [req EXCEPT ![r].at = "record", ![r].result = result]
  BY DEF EndRun
<1>3. PICK th : th = [req[r] EXCEPT !.at = "record", !.result = result]
  OBVIOUS
<1>4. /\ th.kind = req[r].kind /\ th.txn = req[r].txn /\ th.snap = req[r].snap
      /\ th.alias = req[r].alias /\ th.at = "record"
  BY <1>1, <1>3 DEF Thread
<1>5. Engaged(th) => Engaged(req[r])
  BY <1>1, <1>4 DEF Engaged
<1>6. req' = [req EXCEPT ![r] = th] /\ UNCHANGED <<bound, txn, closeout, remote>>
  BY <1>2, <1>3 DEF EndRun, IInv, TypeOK
<1>7. RowsStay /\ \A t \in Txn : txn'[t].status \in Unresolved => txn[t].status \in Unresolved
  BY <1>6, RowsMoved DEF IInv
<1> QED BY <1>1, <1>4, <1>5, <1>6, <1>7, SameSnap

LEMMA FinishAuditExcludes ==
  ASSUME IInv, IInv', CInv, XInv, NEW r \in Request, FinishAudit(r)
  PROVE  XInv'
<1>1. Idle.kind = "idle"
  BY DEF Idle
<1>2. RowsStay /\ \A t \in Txn : txn'[t].status \in Unresolved => txn[t].status \in Unresolved
  BY RowsMoved DEF FinishAudit, IInv
<1> QED BY <1>1, <1>2, SameSnap DEF FinishAudit

-----------------------------------------------------------------------------
(* Rows are written *)

(* The UPDATE of an unresolved row keeps what names the machine.            *)
LEMMA RowWritten ==
  ASSUME TypeOK, NEW t \in Txn, NEW row, txn' = [txn EXCEPT ![t] = row],
         row.snap = txn[t].snap, row.alias = txn[t].alias, txn[t].status # "none",
         txn[t].status \in Unresolved \/ row.status \notin Unresolved
  PROVE  RowsStay /\ \A u \in Txn : txn'[u].status \in Unresolved => txn[u].status \in Unresolved
BY DEF RowsStay, TypeOK

LEMMA RowUpdated ==
  ASSUME TypeOK, NEW t \in Txn, txn[t].status \in Unresolved, NEW status, NEW backup,
         UpdateRemediation(t, status, backup)
  PROVE  RowsStay /\ \A u \in Txn : txn'[u].status \in Unresolved => txn[u].status \in Unresolved
<1>1. PICK row : row = Updated(txn[t], status, backup)
  OBVIOUS
<1>2. row.snap = txn[t].snap /\ row.alias = txn[t].alias
  BY <1>1 DEF Updated, TypeOK, Row
<1>3. txn' = [txn EXCEPT ![t] = row]
  BY <1>1 DEF UpdateRemediation, TypeOK
<1>4. txn[t].status # "none"
  BY DEF Unresolved, Working
<1> QED BY <1>2, <1>3, <1>4, RowWritten

LEMMA RecordApplyExcludes ==
  ASSUME IInv, IInv', CInv, XInv, NEW r \in Request, RecordApply(r)
  PROVE  XInv'
<1> DEFINE t == req[r].txn
<1>1. /\ req[r] \in Thread /\ ThreadGood(req[r]) /\ req[r].kind = "apply" /\ req[r].at = "record"
      /\ Engaged(req[r])
  BY Busy DEF RecordApply, Is, Engaged
<1>2. t \in Txn /\ txn[t].status \in Unresolved
  BY <1>1 DEF ThreadGood, Unresolved
<1>3. UNCHANGED <<bound, closeout, remote>>
  BY DEF RecordApply
<1>4. UNCHANGED txn \/ \E status, backup : UpdateRemediation(t, status, backup)
  BY DEF RecordApply
<1>5. RowsStay /\ \A u \in Txn : txn'[u].status \in Unresolved => txn[u].status \in Unresolved
  BY <1>2, <1>4, RowsMoved, RowUpdated DEF IInv
<1>6. CASE EndRequest(r)
  <2>1. Idle.kind = "idle"
    BY DEF Idle
  <2> QED BY <1>3, <1>5, <1>6, <2>1, SameSnap DEF EndRequest
<1>7. ASSUME NEW cmd, NextRun(r, cmd)
      PROVE  XInv'
  <2>1. PICK th : th = [req[r] EXCEPT !.at = "probe", !.cmd = cmd, !.result = "none"]
    OBVIOUS
  <2>2. /\ th.kind = req[r].kind /\ th.txn = req[r].txn /\ th.snap = req[r].snap
        /\ th.alias = req[r].alias /\ th.at = "probe"
    BY <1>1, <2>1 DEF Thread
  <2>3. req' = [req EXCEPT ![r] = th]
    BY <1>7, <2>1 DEF NextRun, IInv, TypeOK
  <2> QED BY <1>1, <1>3, <1>5, <2>2, <2>3, SameSnap
<1> QED BY <1>6, <1>7 DEF RecordApply

LEMMA RecordRollbackExcludes ==
  ASSUME IInv, IInv', CInv, XInv, NEW r \in Request, RecordRollback(r)
  PROVE  XInv'
<1> DEFINE t == req[r].txn
<1>1. ThreadGood(req[r]) /\ Engaged(req[r])
  BY Busy DEF RecordRollback, Is, Engaged
<1>2. t \in Txn /\ txn[t].status \in Unresolved
  BY <1>1 DEF ThreadGood, Unresolved
<1>3. \E status : UpdateRemediation(t, status, TRUE)
  BY DEF RecordRollback
<1>4. RowsStay /\ \A u \in Txn : txn'[u].status \in Unresolved => txn[u].status \in Unresolved
  BY <1>2, <1>3, RowUpdated DEF IInv
<1>5. Idle.kind = "idle"
  BY DEF Idle
<1> QED BY <1>4, <1>5, SameSnap DEF RecordRollback, EndRequest

(* What the operator writes of a row.                                       *)
LEMMA OperatorRowExcludes ==
  ASSUME IInv, IInv', CInv, XInv, UNCHANGED <<bound, closeout, req, remote>>, RowsStay,
         \A t \in Txn : txn'[t].status \in Unresolved => txn[t].status \in Unresolved
  PROVE  XInv'
<1>1. RequestsMove
  BY DEF RequestsMove, LeftAlone
<1> QED BY <1>1, BindingsStay, StoreStep DEF NoneAdmitted

LEMMA ReconcileWrites ==
  ASSUME TypeOK, NEW p \in Process, NEW t \in Txn, Reconcile(p, t)
  PROVE  RowsStay /\ \A u \in Txn : txn'[u].status \in Unresolved => txn[u].status \in Unresolved
<1>1. txn[t] \in Row /\ txn[t].status \in Unresolved
  BY DEF Reconcile, ResolveNotApplied, ResolvePrepareRollback, ResolveRestoredManually, MayReconcile,
         TypeOK
<1>2. PICK row : /\ txn' = [txn EXCEPT ![t] = row]
                 /\ row.snap = txn[t].snap /\ row.alias = txn[t].alias
  <2>1. CASE ResolveNotApplied(p, t)
    <3>1. PICK row : row = [txn[t] EXCEPT !.status = "cancelled", !.owner = Nil]
      OBVIOUS
    <3>2. row.snap = txn[t].snap /\ row.alias = txn[t].alias
      BY <1>1, <3>1 DEF Row
    <3>3. txn' = [txn EXCEPT ![t] = row]
      BY <2>1, <3>1 DEF ResolveNotApplied, TypeOK
    <3> QED BY <3>2, <3>3
  <2>2. CASE ResolvePrepareRollback(p, t)
    <3>1. PICK row : row = [txn[t] EXCEPT !.status = "recovery_ready", !.owner = Nil, !.backup = TRUE]
      OBVIOUS
    <3>2. row.snap = txn[t].snap /\ row.alias = txn[t].alias
      BY <1>1, <3>1 DEF Row
    <3>3. txn' = [txn EXCEPT ![t] = row]
      BY <2>2, <3>1 DEF ResolvePrepareRollback, TypeOK
    <3> QED BY <3>2, <3>3
  <2>3. CASE ResolveRestoredManually(p, t)
    <3>1. PICK row : row = [txn[t] EXCEPT !.status = "rolled_back", !.owner = Nil]
      OBVIOUS
    <3>2. row.snap = txn[t].snap /\ row.alias = txn[t].alias
      BY <1>1, <3>1 DEF Row
    <3>3. txn' = [txn EXCEPT ![t] = row]
      BY <2>3, <3>1 DEF ResolveRestoredManually, TypeOK
    <3> QED BY <3>2, <3>3
  <2> QED BY <2>1, <2>2, <2>3 DEF Reconcile
<1>3. txn[t].status # "none"
  BY <1>1 DEF Unresolved, Working
<1> QED BY <1>1, <1>2, <1>3, RowWritten

LEMMA CancelWrites ==
  ASSUME TypeOK, NEW p \in Process, NEW t \in Txn, CancelRemediation(p, t)
  PROVE  RowsStay /\ \A u \in Txn : txn'[u].status \in Unresolved => txn[u].status \in Unresolved
<1>1. txn[t] \in Row /\ txn[t].status = "failed"
  BY DEF CancelRemediation, TypeOK
<1>2. PICK row : row = [txn[t] EXCEPT !.status = "cancelled"]
  OBVIOUS
<1>3. row.snap = txn[t].snap /\ row.alias = txn[t].alias /\ row.status = "cancelled"
  BY <1>1, <1>2 DEF Row
<1>4. txn' = [txn EXCEPT ![t] = row]
  BY <1>2 DEF CancelRemediation, TypeOK
<1> QED BY <1>1, <1>3, <1>4, RowWritten DEF Unresolved, Working

LEMMA OperatorRowSteps ==
  ASSUME IInv, IInv', CInv, XInv, NEW p \in Process, NEW t \in Txn,
         Reconcile(p, t) \/ CancelRemediation(p, t)
  PROVE  XInv'
<1>1. RowsStay /\ \A u \in Txn : txn'[u].status \in Unresolved => txn[u].status \in Unresolved
  BY ReconcileWrites, CancelWrites DEF IInv
<1>2. UNCHANGED <<bound, closeout, req, remote>>
  BY DEF Reconcile, ResolveNotApplied, ResolvePrepareRollback, ResolveRestoredManually, MayReconcile,
         CancelRemediation
<1> QED BY <1>1, <1>2, OperatorRowExcludes

-----------------------------------------------------------------------------
(* Closeouts *)

(* Closeouts change, and one request with them, while no revocation begins.  *)
LEMMA CloseoutMoves ==
  ASSUME IInv, IInv', CInv, XInv, NEW r \in Request, NEW th, req' = [req EXCEPT ![r] = th],
         UNCHANGED <<bound, remote>>, RowsStay,
         \A t \in Txn : txn'[t].status \in Unresolved => txn[t].status \in Unresolved,
         \A a \in Alias :
            \/ closeout'[a] = closeout[a]
            \/ /\ closeout'[a].claim \in {r, Nil}
               /\ closeout'[a].status \in Revoking => closeout[a].status \in Revoking,
         th.kind # "rollback", ~ Engaged(th), Revokes(r, th)'
  PROVE  XInv'
<1>1. \A s \in Request : req'[s] = IF s = r THEN th ELSE req[s]
  BY DEF IInv, TypeOK
<1>2. \A s \in Request : s # r => LeftAlone(s)
  BY <1>1, AssetLocksAssumption DEF LeftAlone
<1>3. SnapKept(th)'
  BY DEF SnapKept, Engaged
<1>4. RequestsMove
  BY <1>1, <1>2, <1>3 DEF RequestsMove
<1>5. NoneAdmitted
  BY DEF NoneAdmitted
<1> QED BY <1>4, <1>5, BindingsStay, StoreStep

LEMMA RecordCloseoutExcludes ==
  ASSUME IInv, IInv', CInv, XInv, NEW r \in Request, RecordCloseout(r)
  PROVE  XInv'
<1> DEFINE a == req[r].alias
<1>1. req[r] \in Thread /\ a \in Alias /\ req[r].kind = "closeout" /\ req[r].at = "record"
  BY Busy DEF RecordCloseout, Is
<1>2. PICK th : th = [req[r] EXCEPT !.at = IF Claims(r) /\ req[r].result = "ok" THEN "finish" ELSE "release"]
  OBVIOUS
<1>3. th.kind = "closeout" /\ th.at \in {"finish", "release"}
  BY <1>1, <1>2 DEF Thread
<1>4. req' = [req EXCEPT ![r] = th] /\ UNCHANGED <<bound, remote, txn>>
  BY <1>2 DEF RecordCloseout, IInv, TypeOK
<1>5. PICK status : /\ status \in CASE req[r].result = "ok"      -> {"remote_revoked"}
                                    [] req[r].result = "failed"  -> {"not_changed"}
                                    [] OTHER                     -> {"unknown", "remote_partial"}
                    /\ closeout' = IF Claims(r) THEN [closeout EXCEPT ![a].status = status] ELSE closeout
  BY DEF RecordCloseout
<1>6. Claims(r) /\ status \in Revoking => closeout[a].status \in Revoking
  <2>1. Revokes(r, req[r])
    BY DEF XInv, RequestsKept
  <2>2. req[r].result = "ok" => status = "remote_revoked"
    BY <1>5
  <2>3. req[r].result = "failed" => status = "not_changed"
    BY <1>5
  <2> QED BY <1>1, <2>1, <2>2, <2>3 DEF Revokes, Claims, Revoking
<1>7. \A b \in Alias :
         \/ closeout'[b] = closeout[b]
         \/ /\ closeout'[b].claim \in {r, Nil}
            /\ closeout'[b].status \in Revoking => closeout[b].status \in Revoking
  BY <1>1, <1>5, <1>6 DEF Claims, IInv, TypeOK, Closeout
<1>8. Revokes(r, th)' /\ ~ Engaged(th) /\ th.kind # "rollback"
  BY <1>3 DEF Revokes, Engaged
<1>9. RowsStay /\ \A t \in Txn : txn'[t].status \in Unresolved => txn[t].status \in Unresolved
  BY <1>4, RowsMoved DEF IInv
<1> QED BY <1>4, <1>7, <1>8, <1>9, CloseoutMoves

LEMMA CompleteLocalExcludes ==
  ASSUME IInv, IInv', CInv, XInv, NEW r \in Request, CompleteLocal(r) \/ CompleteLocalFails(r)
  PROVE  XInv'
<1> DEFINE a == req[r].alias
<1>1. req[r] \in Thread /\ a \in Alias /\ req[r].kind = "closeout"
  BY Busy DEF CompleteLocal, CompleteLocalFails, Is
<1>2. PICK th : th = [req[r] EXCEPT !.at = "release"]
  OBVIOUS
<1>3. th.kind = "closeout" /\ th.at = "release"
  BY <1>1, <1>2 DEF Thread
<1>4. req' = [req EXCEPT ![r] = th] /\ UNCHANGED <<bound, remote, txn>>
  BY <1>2 DEF CompleteLocal, CompleteLocalFails, IInv, TypeOK
<1>5. \A b \in Alias :
         \/ closeout'[b] = closeout[b]
         \/ /\ closeout'[b].claim \in {r, Nil}
            /\ closeout'[b].status \in Revoking => closeout[b].status \in Revoking
  BY <1>1 DEF CompleteLocal, CompleteLocalFails, Claims, IInv, TypeOK, Closeout, Revoking
<1>6. Revokes(r, th)' /\ ~ Engaged(th) /\ th.kind # "rollback"
  BY <1>3 DEF Revokes, Engaged
<1>7. RowsStay /\ \A t \in Txn : txn'[t].status \in Unresolved => txn[t].status \in Unresolved
  BY <1>4, RowsMoved DEF IInv
<1> QED BY <1>4, <1>5, <1>6, <1>7, CloseoutMoves

LEMMA ReleaseCloseoutExcludes ==
  ASSUME IInv, IInv', CInv, XInv, NEW r \in Request, ReleaseCloseout(r)
  PROVE  XInv'
<1> DEFINE a == req[r].alias
<1>1. a \in Alias
  BY Busy DEF ReleaseCloseout, Is
<1>2. Idle.kind = "idle" /\ ~ Engaged(Idle) /\ Revokes(r, Idle)'
  BY DEF Idle, Engaged, Revokes
<1>3. \A b \in Alias :
         \/ closeout'[b] = closeout[b]
         \/ /\ closeout'[b].claim \in {r, Nil}
            /\ closeout'[b].status \in Revoking => closeout[b].status \in Revoking
  BY <1>1 DEF ReleaseCloseout, IInv, TypeOK, Closeout, Revoking
<1>4. RowsStay /\ \A t \in Txn : txn'[t].status \in Unresolved => txn[t].status \in Unresolved
  BY RowsMoved DEF ReleaseCloseout, IInv
<1> QED BY <1>2, <1>3, <1>4, CloseoutMoves DEF ReleaseCloseout, EndRequest

LEMMA RecoverCloseoutExcludes ==
  ASSUME IInv, IInv', CInv, XInv, NEW r \in Request, NEW p \in Process, NEW a \in Alias,
         NEW resolution \in {"ok", "failed"}, RecoverCloseout(r, p, a, resolution)
  PROVE  XInv'
<1>1. PICK th : th = [Idle EXCEPT !.kind = "closeout", !.at = "record", !.cmd = "revoke",
                                  !.proc = p, !.alias = a, !.result = resolution]
  OBVIOUS
<1>2. th.kind = "closeout" /\ th.at = "record" /\ th.result = resolution
  BY <1>1 DEF Idle
<1>3. req' = [req EXCEPT ![r] = th] /\ UNCHANGED <<bound, remote>>
  BY <1>1 DEF RecoverCloseout, Serve
<1>4. Revokes(r, th)' /\ ~ Engaged(th) /\ th.kind # "rollback"
  BY <1>2 DEF Revokes, Engaged
<1>5. \A b \in Alias :
         \/ closeout'[b] = closeout[b]
         \/ /\ closeout'[b].claim \in {r, Nil}
            /\ closeout'[b].status \in Revoking => closeout[b].status \in Revoking
  BY DEF RecoverCloseout, IInv, TypeOK, Closeout
<1>6. RowsStay /\ \A t \in Txn : txn'[t].status \in Unresolved => txn[t].status \in Unresolved
  BY RowsMoved DEF RecoverCloseout, IInv
<1> QED BY <1>3, <1>4, <1>5, <1>6, CloseoutMoves

-----------------------------------------------------------------------------
(* The four steps that admit something *)

(* A closeout begins where nothing is unresolved and no other one is.       *)
LEMMA StartCloseoutExcludes ==
  ASSUME IInv, IInv', CInv, XInv, NEW r \in Request, NEW p \in Process, NEW a \in Alias,
         StartCloseout(r, p, a)
  PROVE  XInv'
<1>1. PICK th : th = [Idle EXCEPT !.kind = "closeout", !.at = "run", !.cmd = "revoke", !.proc = p, !.alias = a]
  OBVIOUS
<1>2. th.kind = "closeout" /\ th.at = "run" /\ th.alias = a
  BY <1>1 DEF Idle
<1>3. req' = [req EXCEPT ![r] = th] /\ UNCHANGED bound
  BY <1>1 DEF StartCloseout, Serve
<1>4. \A b \in Alias : closeout'[b] = IF b = a THEN [status |-> "in_progress", owner |-> p, claim |-> r]
                                      ELSE closeout[b]
  BY DEF StartCloseout, IInv, TypeOK
<1>5. RowsStay /\ \A t \in Txn : txn'[t].status \in Unresolved <=> txn[t].status \in Unresolved
  BY RowsMoved DEF StartCloseout, IInv
<1>6. RowsSnapped' /\ RequestsKept'
  <2>1. \A s \in Request : req'[s] = IF s = r THEN th ELSE req[s]
    BY <1>3 DEF IInv, TypeOK
  <2>2. SnapKept(th)' /\ Revokes(r, th)'
    BY <1>2, <1>4 DEF SnapKept, Engaged, Revokes, Revoking
  <2>3. \A s \in Request : s # r => LeftAlone(s)
    BY <1>4, <2>1 DEF LeftAlone
  <2>4. RequestsMove
    BY <2>1, <2>2, <2>3 DEF RequestsMove
  <2> QED BY <1>3, <1>5, <2>4, BindingsStay, SnapsStep
<1>7. \A b \in Alias : b # a /\ bound[b].asset = bound[a].asset /\ bound[a].asset \in Asset
        => closeout[b].status \notin Revoking
  <2>1. bound[a].asset \in Asset => Bound(a)
    BY AssetLocksAssumption DEF IInv, BindingsGood, Bound
  <2> QED BY <2>1 DEF StartCloseout, MayClaimCloseout, UnresolvedCloseout, AliasesForAsset, Settled, Revoking
<1>8. OneRevocation'
  BY <1>3, <1>4, <1>7 DEF XInv, OneRevocation
<1>9. \A t \in Txn : txn[t].status \in Unresolved => txn[t].snap.asset # bound[a].asset
  <2>1. \A t \in Txn : txn[t].status \in Unresolved => txn[t].snap.asset \in Asset
    BY DEF CInv, Named, Unresolved, Working
  <2>2. bound[a].asset \in Asset => Bound(a)
    BY AssetLocksAssumption DEF IInv, BindingsGood, Bound
  <2> QED BY <2>1, <2>2, AssetLocksAssumption
          DEF StartCloseout, MayClaimCloseout, ActiveAssetRemediation, Txn
<1>10. \A t \in Txn : txn[t].status \in Unresolved => Fresh(t)' = Fresh(t)
  BY <1>3, <1>5 DEF RowsStay, Fresh
<1>11. RevocationExcludesChange'
  BY <1>3, <1>4, <1>5, <1>9, <1>10 DEF XInv, RevocationExcludesChange, RowsStay
<1>12. ChangesAreFresh'
  <2>1. \A c \in remote' : c \in remote \/ c.txn = 0
    BY DEF StartCloseout
  <2> QED BY <1>10, <2>1, CommandsOfRows DEF XInv, ChangesAreFresh
<1> QED BY <1>6, <1>8, <1>11, <1>12 DEF XInv

(* A transaction is created with the binding of the moment, where no        *)
(* closeout is under way.                                                   *)
LEMMA CreateRemediationExcludes ==
  ASSUME IInv, IInv', CInv, XInv, NEW r \in Request, CreateRemediation(r)
  PROVE  XInv'
<1> DEFINE p == req[r].proc
           a == req[r].alias
<1>1. /\ req[r] \in Thread /\ ThreadGood(req[r]) /\ a \in Alias
      /\ req[r].kind = "apply" /\ req[r].at = "admit"
  BY Busy DEF CreateRemediation, Is
<1>2. req[r].snap.gen > 0 /\ req[r].snap.asset \in Asset /\ bound[a] = req[r].snap
  BY <1>1 DEF ThreadGood, CInv, Named, CreateRemediation
<1>3. PICK t \in Txn :
        /\ \A u \in Txn : txn[u] = NoRow <=> u >= t
        /\ txn' = [RecoverInterrupted(p) EXCEPT
             ![t] = [status |-> "preparing", from |-> "none", alias |-> a, snap |-> req[r].snap,
                     owner |-> p, backup |-> FALSE]]
        /\ req' = [req EXCEPT ![r].at = "probe", ![r].cmd = "preAudit", ![r].txn = t]
  BY DEF CreateRemediation
<1>4. UNCHANGED <<bound, closeout, remote>>
  BY DEF CreateRemediation
<1>5. /\ txn'[t].snap = req[r].snap /\ txn'[t].alias = a /\ txn'[t].status = "preparing"
      /\ \A u \in Txn : u # t => txn'[u] = RecoverInterrupted(p)[u]
  BY <1>3, RecoveredTyped DEF IInv
<1>6. txn[t] = NoRow
  BY <1>3, AssetLocksAssumption DEF Txn
<1>7. \A u \in Txn : u # t => /\ txn'[u].snap = txn[u].snap /\ txn'[u].alias = txn[u].alias
                              /\ txn'[u].status \in Unresolved <=> txn[u].status \in Unresolved
                              /\ txn'[u].status = "none" <=> txn[u].status = "none"
  BY <1>5, InterruptedRow DEF IInv
<1>8. PICK th : th = [req[r] EXCEPT !.at = "probe", !.cmd = "preAudit", !.txn = t]
  OBVIOUS
<1>9. th.kind = "apply" /\ th.at = "probe" /\ th.txn = t /\ th.snap = req[r].snap
  BY <1>1, <1>8 DEF Thread
<1>10. \A s \in Request : req'[s] = IF s = r THEN th ELSE req[s]
  BY <1>3, <1>8 DEF IInv, TypeOK
<1>11. RowsSnapped'
  <2>1. ASSUME NEW u \in Txn, txn'[u].status # "none"
        PROVE  /\ txn'[u].snap.gen > 0
               /\ bound'[txn'[u].alias].gen >= txn'[u].snap.gen
               /\ bound'[txn'[u].alias].gen = txn'[u].snap.gen => bound'[txn'[u].alias] = txn'[u].snap
    <3>1. CASE u = t
      <4>1. bound[a].gen \in Nat
        BY <1>1, Generations DEF IInv
      <4> QED BY <1>2, <1>4, <1>5, <3>1, <4>1
    <3>2. CASE u # t
      BY <1>4, <1>7, <2>1, <3>2 DEF XInv, RowsSnapped
    <3> QED BY <3>1, <3>2
  <2> QED BY <2>1 DEF RowsSnapped
<1>12. RequestsKept'
  <2>1. ASSUME NEW s \in Request, NEW other, other = req'[s]
        PROVE  SnapKept(other)' /\ Revokes(s, other)'
    <3>1. CASE s = r
      BY <1>5, <1>9, <1>10, <2>1, <3>1 DEF SnapKept, Revokes
    <3>2. CASE s # r
      <4>1. other = req[s] /\ SnapKept(other) /\ Revokes(s, other)
        BY <1>10, <2>1, <3>2 DEF XInv, RequestsKept
      <4>2. other.kind = "rollback" \/ Engaged(other) => other.txn \in Txn /\ txn[other.txn].alias \in Alias
        <5>1. ThreadGood(other)
          BY <4>1 DEF IInv, Threads, ThreadsGood
        <5> QED BY <5>1 DEF ThreadGood, Engaged
      <4>3. other.kind = "rollback" \/ Engaged(other) => other.txn # t
        BY <1>6, <4>2, AssetLocksAssumption DEF NoRow
      <4> QED BY <1>4, <1>7, <4>1, <4>2, <4>3 DEF SnapKept, Revokes, Engaged
    <3> QED BY <3>1, <3>2
  <2> QED BY <2>1 DEF RequestsKept
<1>13. OneRevocation'
  BY <1>4 DEF XInv, OneRevocation
<1>14. \A b \in Alias : bound[b].asset = req[r].snap.asset => closeout[b].status \notin Revoking
  <2>1. ~ UnresolvedCloseout(p, a, Nil)
    BY DEF CreateRemediation, AssetIdle
  <2> QED BY <1>1, <1>2, <2>1, NoCloseoutHere DEF Bound
<1>15. RevocationExcludesChange'
  <2>1. ASSUME NEW b \in Alias, NEW u \in Txn, closeout'[b].status \in Revoking,
               txn'[u].status \in Unresolved, Fresh(u)'
        PROVE  txn'[u].snap.asset # bound'[b].asset
    <3>1. CASE u = t
      BY <1>4, <1>5, <1>14, <2>1, <3>1
    <3>2. CASE u # t
      BY <1>4, <1>7, <2>1, <3>2 DEF XInv, RevocationExcludesChange, Fresh
    <3> QED BY <3>1, <3>2
  <2> QED BY <2>1 DEF RevocationExcludesChange
<1>16. ChangesAreFresh'
  <2>1. \A c \in remote : c.txn # 0 => c.txn \in Txn /\ c.txn # t
    BY <1>6, CommandsOfRows DEF NoRow, Unresolved, Working
  <2> QED BY <1>4, <1>7, <2>1 DEF XInv, ChangesAreFresh, Fresh
<1> QED BY <1>11, <1>12, <1>13, <1>15, <1>16 DEF XInv

(* A rollback is claimed where no closeout is under way.                    *)
LEMMA ClaimRollbackExcludes ==
  ASSUME IInv, IInv', CInv, XInv, NEW r \in Request, ClaimRollback(r)
  PROVE  XInv'
<1> DEFINE p == req[r].proc
           a == req[r].alias
           t == req[r].txn
<1>1. /\ req[r] \in Thread /\ ThreadGood(req[r]) /\ a \in Alias /\ t \in Txn /\ txn[t].alias = a
      /\ req[r].kind = "rollback" /\ req[r].at = "admit" /\ txn[t].status \in Claimable
  BY Busy DEF ClaimRollback, Is, ThreadGood
<1>2. /\ txn[t].snap.gen > 0 /\ txn[t].snap.asset \in Asset
  BY <1>1 DEF XInv, RowsSnapped, CInv, Named, Claimable
<1>3. UNCHANGED <<bound, closeout, remote>>
  BY DEF ClaimRollback
<1>4. RowsStay /\ \A u \in Txn : u # t => (txn'[u].status \in Unresolved <=> txn[u].status \in Unresolved)
  <2>1. txn' = [RecoverInterrupted(p) EXCEPT ![t].status = "rolling_back", ![t].owner = p, ![t].from = "none"]
    BY DEF ClaimRollback
  <2>2. RecoverInterrupted(p) \in [Txn -> Row]
    BY RecoveredTyped DEF IInv
  <2>3. PICK row : row = [RecoverInterrupted(p)[t] EXCEPT !.status = "rolling_back", !.owner = p, !.from = "none"]
    OBVIOUS
  <2>4. \A u \in Txn : txn'[u] = IF u = t THEN row ELSE RecoverInterrupted(p)[u]
    BY <2>1, <2>2, <2>3
  <2>5. RecoverInterrupted(p)[t] \in Row
    BY <1>1, <2>2
  <2>6. row.snap = RecoverInterrupted(p)[t].snap /\ row.alias = RecoverInterrupted(p)[t].alias
    BY <2>3, <2>5 DEF Row
  <2>7. row.snap = txn[t].snap /\ row.alias = txn[t].alias
    BY <1>1, <2>6, InterruptedRow DEF IInv
  <2> QED BY <1>1, <2>4, <2>7, InterruptedRow DEF IInv, RowsStay, Claimable
<1>5. PICK th : th = [req[r] EXCEPT !.at = "probe", !.cmd = "rollback"]
  OBVIOUS
<1>6. th.kind = "rollback" /\ th.txn = t /\ th.snap = req[r].snap
  BY <1>1, <1>5 DEF Thread
<1>7. RowsSnapped' /\ RequestsKept'
  <2>1. \A s \in Request : req'[s] = IF s = r THEN th ELSE req[s]
    BY <1>5 DEF ClaimRollback, IInv, TypeOK
  <2>2. SnapKept(req[r])
    BY DEF XInv, RequestsKept
  <2>3. SnapKept(th)' /\ Revokes(r, th)'
    BY <1>1, <1>4, <1>6, <2>2 DEF SnapKept, RowsStay, Revokes
  <2>4. \A s \in Request : s # r => LeftAlone(s)
    BY <1>3, <2>1 DEF LeftAlone
  <2>5. RequestsMove
    BY <2>1, <2>3, <2>4 DEF RequestsMove
  <2> QED BY <1>3, <1>4, <2>5, BindingsStay, SnapsStep
<1>8. OneRevocation'
  BY <1>3 DEF XInv, OneRevocation
<1>9. ASSUME NEW b \in Alias, Fresh(t), bound[b].asset = txn[t].snap.asset
      PROVE  closeout[b].status \notin Revoking
  <2>1. ~ UnresolvedCloseout(p, a, Nil)
    BY DEF ClaimRollback
  <2>2. Bound(a) /\ bound[b].asset = bound[a].asset
    BY <1>1, <1>2, <1>9 DEF Fresh, Bound
  <2> QED BY <1>1, <2>1, <2>2, NoCloseoutHere
<1>10. \A u \in Txn : Fresh(u)' = Fresh(u)
  BY <1>3, <1>4 DEF RowsStay, Fresh
<1>11. RevocationExcludesChange'
  <2>1. ASSUME NEW b \in Alias, NEW u \in Txn, closeout'[b].status \in Revoking,
               txn'[u].status \in Unresolved, Fresh(u)'
        PROVE  txn'[u].snap.asset # bound'[b].asset
    <3>1. CASE u = t
      BY <1>3, <1>4, <1>9, <1>10, <2>1, <3>1 DEF RowsStay
    <3>2. CASE u # t
      BY <1>3, <1>4, <1>10, <2>1, <3>2 DEF XInv, RevocationExcludesChange, RowsStay
    <3> QED BY <3>1, <3>2
  <2> QED BY <2>1 DEF RevocationExcludesChange
<1>12. ChangesAreFresh'
  BY <1>3, <1>10, CommandsOfRows DEF XInv, ChangesAreFresh
<1> QED BY <1>7, <1>8, <1>11, <1>12 DEF XInv

(* A command is sent to the machine of the row's own generation.            *)
LEMMA AcquireExcludes ==
  ASSUME IInv, IInv', CInv, XInv, NEW r \in Request, AcquireAssetExecution(r)
  PROVE  XInv'
<1> DEFINE a == req[r].alias
           t == req[r].txn
<1>1. req[r] \in Thread /\ ThreadGood(req[r]) /\ ThreadTrue(req[r]) /\ req[r].at = "lease"
  BY Busy DEF AcquireAssetExecution, CInv, ThreadsTrue
<1>2. UNCHANGED <<bound, txn, closeout>>
  BY DEF AcquireAssetExecution
<1>3. PICK th : th = [req[r] EXCEPT !.at = "run"]
  OBVIOUS
<1>4. th.kind = req[r].kind /\ th.txn = t /\ th.snap = req[r].snap /\ th.kind # "closeout"
  BY <1>1, <1>3 DEF Thread, ThreadTrue
<1>5. RowsStay
  BY <1>2, RowsMoved DEF IInv
<1>6. RowsSnapped' /\ RequestsKept'
  <2>1. \A s \in Request : req'[s] = IF s = r THEN th ELSE req[s]
    BY <1>3 DEF AcquireAssetExecution, IInv, TypeOK
  <2>2. SnapKept(req[r])
    BY DEF XInv, RequestsKept
  <2>3. SnapKept(th)' /\ Revokes(r, th)'
    BY <1>1, <1>2, <1>4, <2>2 DEF SnapKept, Revokes, Engaged
  <2>4. \A s \in Request : s # r => LeftAlone(s)
    BY <1>2, <2>1 DEF LeftAlone
  <2>5. RequestsMove
    BY <2>1, <2>3, <2>4 DEF RequestsMove
  <2> QED BY <1>2, <1>5, <2>5, BindingsStay, SnapsStep
<1>7. OneRevocation' /\ RevocationExcludesChange'
  BY <1>2 DEF XInv, OneRevocation, RevocationExcludesChange, Fresh
<1>8. t # 0 => Fresh(t)
  <2> SUFFICES ASSUME t # 0
               PROVE  Fresh(t)
    OBVIOUS
  <2>1. Engaged(req[r])
    BY <1>1 DEF Thread, ThreadTrue, Engaged
  <2>2. t \in Txn /\ txn[t].alias = a /\ txn[t].status # "none"
    BY <1>1, <2>1 DEF ThreadGood, Working
  <2>3. req[r].snap.gen = txn[t].snap.gen /\ txn[t].snap.gen > 0
    BY <2>1, <2>2 DEF XInv, RequestsKept, SnapKept, RowsSnapped
  <2>4. bound[a] = req[r].snap
    BY <2>3, Generations DEF AcquireAssetExecution, NoBinding
  <2> QED BY <2>2, <2>3, <2>4 DEF XInv, RowsSnapped, Fresh
<1>9. ChangesAreFresh'
  <2>1. \A c \in remote' : c \in remote \/ c.txn = t
    BY DEF AcquireAssetExecution
  <2> QED BY <1>2, <1>8, <2>1 DEF XInv, ChangesAreFresh, Fresh
<1> QED BY <1>6, <1>7, <1>9 DEF XInv

-----------------------------------------------------------------------------
(* The machines, the operator and the processes *)

LEMMA EndCommandExcludes ==
  ASSUME IInv, IInv', CInv, XInv, NEW c \in remote, EndCommand(c)
  PROVE  XInv'
<1>1. PICK outcome \in {"ok", "failed"} :
        req' = [s \in Request |-> IF Waiting(s, c) THEN [req[s] EXCEPT !.result = outcome] ELSE req[s]]
  BY DEF EndCommand
<1>2. remote' \subseteq remote /\ UNCHANGED <<bound, txn, closeout>>
  BY DEF EndCommand
<1>3. ASSUME NEW s \in Request
      PROVE  LeftAlone(s) \/ \E th : req'[s] = th /\ SnapKept(th)' /\ Revokes(s, th)'
  <2>1. CASE ~ Waiting(s, c)
    BY <1>1, <1>2, <2>1 DEF LeftAlone
  <2>2. CASE Waiting(s, c)
    <3>1. PICK th : th = [req[s] EXCEPT !.result = outcome]
      OBVIOUS
    <3>2. req[s] \in Thread /\ req[s].at = "run" /\ SnapKept(req[s]) /\ Revokes(s, req[s])
      BY <2>2 DEF Waiting, IInv, TypeOK, XInv, RequestsKept
    <3>3. /\ th.kind = req[s].kind /\ th.at = req[s].at /\ th.txn = req[s].txn
          /\ th.snap = req[s].snap /\ th.alias = req[s].alias
      BY <3>1, <3>2 DEF Thread
    <3>4. req'[s] = th
      BY <1>1, <2>2, <3>1
    <3>5. SnapKept(th)'
      BY <1>2, <3>2, <3>3 DEF SnapKept, Engaged
    <3>6. Revokes(s, th)'
      BY <1>2, <3>2, <3>3 DEF Revokes
    <3> QED BY <3>4, <3>5, <3>6
  <2> QED BY <2>1, <2>2
<1>4. RowsStay /\ \A u \in Txn : txn'[u].status \in Unresolved => txn[u].status \in Unresolved
  BY <1>2, RowsMoved DEF IInv
<1> QED BY <1>2, <1>3, <1>4, BindingsStay, StoreStep DEF RequestsMove, NoneAdmitted

(* Requests end with their process at most, and bindings move.              *)
LEMMA ElsewhereExcludes ==
  ASSUME IInv, IInv', CInv, XInv, NEW p, UNCHANGED txn \/ txn' = RecoverInterrupted(p),
         UNCHANGED <<closeout, remote>>, BindingsMove,
         \A s \in Request : req'[s] = req[s] \/ req'[s] = Idle
  PROVE  XInv'
<1>1. SnapKept(Idle)' /\ \A s \in Request : Revokes(s, Idle)'
  BY DEF Idle, SnapKept, Revokes, Engaged
<1>2. RequestsMove
  <2>1. ASSUME NEW s \in Request, req'[s] = req[s]
        PROVE  LeftAlone(s)
    BY <2>1 DEF LeftAlone
  <2>2. ASSUME NEW s \in Request, req'[s] = Idle
        PROVE  \E th : req'[s] = th /\ SnapKept(th)' /\ Revokes(s, th)'
    <3>1. PICK th : th = Idle
      OBVIOUS
    <3>2. SnapKept(th)' /\ Revokes(s, th)'
      BY <1>1, <3>1
    <3> QED BY <2>2, <3>1, <3>2
  <2> QED BY <2>1, <2>2 DEF RequestsMove
<1>3. RowsStay /\ NoneAdmitted
  BY RowsMoved DEF IInv, NoneAdmitted
<1> QED BY <1>2, <1>3, StoreStep

LEMMA RebindExcludes ==
  ASSUME IInv, IInv', CInv, XInv, NEW p \in Process, NEW a \in Alias, Rebind(p, a)
  PROVE  XInv'
<1>1. BindingsMove
  BY IdleMoves DEF Rebind
<1> QED BY <1>1, ElsewhereExcludes DEF Rebind

LEMMA OperatorExcludes ==
  ASSUME IInv, IInv', CInv, XInv, NEW p \in Process, Operator(p)
  PROVE  XInv'
<1>1. CASE RecoverInterruptedNow(p) \/ RecoverAuditJobs(p)
  BY <1>1, BindingsStay, ElsewhereExcludes DEF RecoverInterruptedNow, RecoverAuditJobs
<1> QED BY <1>1, OperatorRowSteps, RebindExcludes DEF Operator

LEMMA EnvironmentExcludes ==
  ASSUME IInv, IInv', CInv, XInv, Environment
  PROVE  XInv'
<1>1. ASSUME NEW a \in Alias, Relocate(a)
      PROVE  XInv'
  BY <1>1, BindingsStay, ElsewhereExcludes DEF Relocate
<1>2. ASSUME NEW p \in Process, Start(p) \/ Crash(p)
      PROVE  XInv'
  <2>1. \A s \in Request : req'[s] = req[s] \/ req'[s] = Idle
    BY <1>2 DEF Start, Crash
  <2> QED BY <1>2, <2>1, BindingsStay, ElsewhereExcludes DEF Start, Crash
<1> QED BY <1>1, <1>2, EndCommandExcludes DEF Environment

-----------------------------------------------------------------------------
(* The theorem *)

LEMMA InitExcludes == Init => XInv
BY AssetLocksAssumption DEF Init, XInv, RowsSnapped, RequestsKept, SnapKept, Revokes, OneRevocation,
   RevocationExcludesChange, ChangesAreFresh, Engaged, Idle, NoRow, NoBinding, NoCloseout, Revoking, Unresolved, Working

LEMMA NextExcludes == IInv /\ IInv' /\ CInv /\ XInv /\ [Next]_vars => XInv'
<1> SUFFICES ASSUME IInv, IInv', CInv, XInv, [Next]_vars
             PROVE  XInv'
  OBVIOUS
<1>1. ASSUME NEW r \in Request, Arrival(r)
      PROVE  XInv'
  BY <1>1, ServeExcludes, StartCloseoutExcludes, RecoverCloseoutExcludes, StartRollbackExcludes DEF Arrival
<1>2. ASSUME NEW r \in Request, Progress(r)
      PROVE  XInv'
  BY <1>2, CaptureExcludes, CreateRemediationExcludes, ClaimRollbackExcludes, ProbeExcludes,
     AcquireExcludes, GiveUpExcludes, EndRunExcludes, FinishAuditExcludes, RecordApplyExcludes,
     RecordRollbackExcludes, RecordCloseoutExcludes, CompleteLocalExcludes, ReleaseCloseoutExcludes
     DEF Progress
<1>3. CASE UNCHANGED vars
  BY <1>3, BindingsStay, ElsewhereExcludes DEF vars
<1> QED BY <1>1, <1>2, <1>3, OperatorExcludes, EnvironmentExcludes DEF Next

LEMMA Exclusion == Spec => [](IInv /\ CInv /\ XInv)
<1>1. Init => IInv /\ CInv /\ XInv
  BY InitInvariant, InitTrue, InitExcludes
<1>2. (IInv /\ CInv /\ XInv) /\ [Next]_vars => (IInv /\ CInv /\ XInv)'
  BY NextInvariant, NextTrue, NextExcludes
<1> QED BY <1>1, <1>2, PTL DEF Spec

LEMMA OneAtATime == IInv /\ CInv /\ XInv => OneChangePerAsset
<1> SUFFICES ASSUME IInv, CInv, XInv, NEW c \in remote, NEW d \in remote,
                    c.asset = d.asset, c.asset # Nil
             PROVE  c = d
  BY DEF OneChangePerAsset
<1>1. c.asset \in Asset /\ c.alias \in Alias /\ d.alias \in Alias
  BY DEF IInv, TypeOK, Remote
<1>2. CommandTrue(c) /\ CommandTrue(d)
  BY DEF CInv, CommandsTrue
<1>3. /\ c.txn # 0 => c.txn \in Txn /\ txn[c.txn].status \in Unresolved
      /\ d.txn # 0 => d.txn \in Txn /\ txn[d.txn].status \in Unresolved
  BY CommandsOfRows
<1>4. CASE c.txn # 0 /\ d.txn # 0
  <2>1. c.txn = d.txn
    BY <1>1, <1>2, <1>3, <1>4 DEF CommandTrue, IInv, Rows, OneUnresolvedPerAsset, UnresolvedOn
  <2> QED BY <1>4, <2>1 DEF CInv, CommandsTrue
<1>5. CASE c.txn = 0 /\ d.txn = 0
  <2>1. c.alias = d.alias
    BY <1>1, <1>2, <1>5 DEF CommandTrue, XInv, OneRevocation
  <2> QED BY <1>5, <2>1 DEF CInv, CommandsTrue
<1>6. ASSUME NEW e \in remote, NEW f \in remote, e.txn = 0, f.txn # 0, e.alias \in Alias,
             e.asset = f.asset
      PROVE  FALSE
  <2>1. CommandTrue(e) /\ CommandTrue(f) /\ f.txn \in Txn /\ txn[f.txn].status \in Unresolved
    BY <1>6, CommandsOfRows DEF CInv, CommandsTrue
  <2>2. Fresh(f.txn)
    BY <1>6 DEF XInv, ChangesAreFresh
  <2> QED BY <1>6, <2>1, <2>2 DEF CommandTrue, XInv, RevocationExcludesChange
<1> QED BY <1>1, <1>4, <1>5, <1>6

(* Two commands that change one machine never run together there, whatever  *)
(* aliases and controllers they were sent through.                          *)
THEOREM ChangesNeverMeet == Spec => []OneChangePerAsset
<1> QED BY Exclusion, OneAtATime, PTL

-----------------------------------------------------------------------------
(***************************************************************************)
(* Proofs about AssetLocks under the documented deployment, where the old  *)
(* controller container has stopped before a new one starts: leases and    *)
(* claims then keep live runs apart, bindings stay under use, a closeout   *)
(* and a transaction never bar one machine together, and the store is one  *)
(* lock per machine.  With two containers a lease or a claim of the other  *)
(* one cannot be judged, and the first three are false.                     *)
(***************************************************************************)

-----------------------------------------------------------------------------
(* The inductive invariant *)

UpTogether == \A p, q \in Process : up[p] = "up" /\ up[q] = "up" => HostOf[p] = HostOf[q]

Running(th) == th.at = "run" /\ th.kind # "closeout"

(* A run keeps the lease it took, under the key its alias still has.        *)
LeasesHeld ==
  \A r \in Request : Running(req[r]) =>
     lease[ResourceOf(req[r].alias)] = [owner |-> req[r].proc, req |-> r, alias |-> req[r].alias]

(* Nobody takes over the claim of a closeout that is still being served.    *)
ClaimsHeld ==
  \A r \in Request : req[r].kind = "closeout" =>
     closeout[req[r].alias].claim = r /\ closeout[req[r].alias].owner = req[r].proc

ClosedOut(a) ==
  \/ closeout[a].status \notin Settled
  \/ \E r \in Request : req[r].kind = "closeout" /\ req[r].alias = a

NeverBoth ==
  \A a \in Alias, t \in Txn :
     ClosedOut(a) /\ txn[t].status \in Unresolved /\ Fresh(t) => txn[t].snap.asset # bound[a].asset

OneClosesOut ==
  \A a, b \in Alias :
     ClosedOut(a) /\ ClosedOut(b) /\ bound[a].asset = bound[b].asset /\ bound[a].asset \in Asset => a = b

SInv == UpTogether /\ LeasesHeld /\ ClaimsHeld /\ LiveRunsExclusive /\ NeverBoth /\ OneClosesOut

-----------------------------------------------------------------------------
(* What the checks of the store see *)

(* A served request has a live owner, for everyone who asks.                *)
LEMMA ServedIsLive ==
  ASSUME IInv, UpTogether, NEW p \in Process, up[p] = "up", NEW r \in Request, req[r].at # "idle"
  PROVE  req[r].proc \in Process /\ req[r].alias \in Alias /\ Live(p, req[r].proc)
<1>1. req[r].proc \in Process /\ req[r].alias \in Alias /\ up[req[r].proc] = "up"
  BY DEF IInv, Threads, ThreadsGood, ThreadGood
<1> QED BY <1>1, AssetLocksAssumption DEF UpTogether, Live

(* Linked aliases are bound to one machine, so that linking is symmetric.    *)
LEMMA LinkedBothWays ==
  ASSUME IInv, CInv, NEW a \in Alias, NEW b \in Alias, b \in AliasesForAsset(a)
  PROVE  a \in AliasesForAsset(b)
<1>1. CASE a = b
  BY <1>1 DEF AliasesForAsset
<1>2. CASE a # b
  <2>1. Bound(a) /\ bound[b].asset = bound[a].asset /\ bound[a].asset \in Asset
    BY <1>2 DEF AliasesForAsset, CInv, Named, Bound
  <2>2. Bound(b)
    BY <2>1, AssetLocksAssumption DEF IInv, BindingsGood, Bound
  <2> QED BY <2>1, <2>2 DEF AliasesForAsset
<1> QED BY <1>1, <1>2

(* Cleaning up never takes the lease of a run.                              *)
LEMMA LeaseStays ==
  ASSUME IInv, CInv, SInv, NEW p \in Process, up[p] = "up", NEW r \in Request, Running(req[r]),
         NEW remediation, NEW exceptCloseout
  PROVE  /\ ResourceOf(req[r].alias) \in Resource
         /\ RecoverLeases(p, remediation, exceptCloseout)[ResourceOf(req[r].alias)]
              = lease[ResourceOf(req[r].alias)]
         /\ lease[ResourceOf(req[r].alias)].alias = req[r].alias
<1>1. req[r].alias \in Alias /\ Live(p, req[r].proc)
  BY ServedIsLive DEF SInv, Running
<1>2. lease[ResourceOf(req[r].alias)] = [owner |-> req[r].proc, req |-> r, alias |-> req[r].alias]
  BY DEF SInv, LeasesHeld
<1>3. ResourceOf(req[r].alias) \in Resource
  BY <1>1 DEF ResourceOf, Resource, Bound, CInv, Named
<1> QED BY <1>1, <1>2, <1>3 DEF RecoverLeases

(* Where no lease is left on the machine, nothing runs there.               *)
LEMMA NoLeaseNoRun ==
  ASSUME IInv, CInv, SInv, NEW p \in Process, up[p] = "up", NEW a, NEW remediation, NEW exceptCloseout,
         \A s \in Resource : RecoverLeases(p, remediation, exceptCloseout)[s].alias \notin AliasesForAsset(a),
         NEW r \in Request, Running(req[r])
  PROVE  req[r].alias \notin AliasesForAsset(a)
BY LeaseStays

(* Where no closeout is unresolved, none is being served.                   *)
LEMMA NoneServed ==
  ASSUME IInv, SInv, NEW p \in Process, up[p] = "up", NEW a, NEW except,
         ~ UnresolvedCloseout(p, a, except),
         NEW r \in Request, req[r].kind = "closeout", req[r].at # "idle", req[r].alias # except
  PROVE  req[r].alias \notin AliasesForAsset(a)
<1>1. Live(p, req[r].proc)
  BY ServedIsLive DEF SInv
<1>2. closeout[req[r].alias].claim = r /\ closeout[req[r].alias].owner = req[r].proc
  BY DEF SInv, ClaimsHeld
<1> QED BY <1>1, <1>2, AssetLocksAssumption DEF UnresolvedCloseout

(* A request that serves a closeout is never idle.                          *)
LEMMA CloseoutsAreServed ==
  ASSUME CInv, NEW r \in Request, req[r].kind = "closeout"
  PROVE  req[r].at # "idle"
BY DEF CInv, ThreadsTrue, ThreadTrue

-----------------------------------------------------------------------------
(* Steps that admit nothing new *)

(* Nothing is under way on an alias.                                        *)
Unused(a) ==
  /\ ~ ClosedOut(a)
  /\ \A r \in Request : req[r].at = "run" => req[r].alias # a
  /\ \A t \in Txn : txn[t].status \in Unresolved => txn[t].alias # a

BindingsMoveUnused == \A a \in Alias : bound'[a] = bound[a] \/ Unused(a)

(* A thread goes on with what it has at most.                               *)
RunsOn(old, new) ==
  new.at = "run" => /\ old.at = "run" /\ new.kind = old.kind
                    /\ new.alias = old.alias /\ new.proc = old.proc

ServesOn(old, new) ==
  new.kind = "closeout" => old.kind = "closeout" /\ new.alias = old.alias /\ new.proc = old.proc

RunsGoOn      == \A r \in Request : RunsOn(req[r], req'[r])
CloseoutsGoOn == \A r \in Request : ServesOn(req[r], req'[r])

LeasesKept ==
  \A r \in Request : Running(req[r]) /\ req'[r].at = "run"
     => lease'[ResourceOf(req[r].alias)] = lease[ResourceOf(req[r].alias)]

CloseoutsMove ==
  \A a \in Alias :
     /\ closeout'[a].status \notin Settled => ClosedOut(a)
     /\ \A r \in Request : req[r].kind = "closeout" /\ req[r].alias = a /\ req'[r].kind = "closeout"
          => closeout'[a].claim = closeout[a].claim /\ closeout'[a].owner = closeout[a].owner

LEMMA RunStays ==
  ASSUME IInv, BindingsMoveUnused, NEW r \in Request, RunsOn(req[r], req'[r]), req'[r].at = "run"
  PROVE  /\ req[r].at = "run" /\ req'[r].kind = req[r].kind /\ req'[r].alias = req[r].alias
         /\ req'[r].proc = req[r].proc /\ req[r].alias \in Alias
         /\ bound'[req[r].alias] = bound[req[r].alias]
<1>1. req[r].at = "run" /\ req'[r].kind = req[r].kind /\ req'[r].alias = req[r].alias
      /\ req'[r].proc = req[r].proc
  BY DEF RunsOn
<1>2. req[r].alias \in Alias
  BY <1>1 DEF IInv, Threads, ThreadsGood, ThreadGood
<1> QED BY <1>1, <1>2 DEF BindingsMoveUnused, Unused

LEMMA LeasesStay ==
  ASSUME IInv, CInv, SInv, BindingsMoveUnused, LeasesKept,
         \A r \in Request : Running(req'[r]) => RunsOn(req[r], req'[r])
  PROVE  LeasesHeld'
<1> SUFFICES ASSUME NEW r \in Request, NEW th, th = req'[r], Running(th)
             PROVE  lease'[ResourceOf(th.alias)'] = [owner |-> th.proc, req |-> r, alias |-> th.alias]
  BY DEF LeasesHeld, Running
<1>1. Running(req[r]) /\ th.alias = req[r].alias /\ th.proc = req[r].proc
      /\ bound'[th.alias] = bound[th.alias] /\ req'[r].at = "run"
  BY RunStays DEF Running
<1>2. ResourceOf(th.alias)' = ResourceOf(req[r].alias)
  BY <1>1 DEF ResourceOf, Bound
<1>3. lease'[ResourceOf(req[r].alias)] = lease[ResourceOf(req[r].alias)]
  BY <1>1 DEF LeasesKept
<1> QED BY <1>1, <1>2, <1>3 DEF SInv, LeasesHeld

LEMMA RunsStay ==
  ASSUME IInv, CInv, SInv, BindingsMoveUnused, RunsGoOn
  PROVE  LiveRunsExclusive'
<1> SUFFICES ASSUME NEW r \in Request, NEW s \in Request, r # s, req'[r].at = "run", req'[s].at = "run",
                    NEW a, NEW b, a = req'[r].alias, b = req'[s].alias
             PROVE  b \notin AliasesForAsset(a)'
  BY DEF LiveRunsExclusive
<1>1. /\ req[r].at = "run" /\ req[s].at = "run" /\ req[r].alias = a /\ req[s].alias = b
      /\ a \in Alias /\ b \in Alias /\ bound'[a] = bound[a] /\ bound'[b] = bound[b]
  BY RunStays DEF RunsGoOn
<1>2. b \notin AliasesForAsset(a)
  BY <1>1 DEF SInv, LiveRunsExclusive
<1> QED BY <1>1, <1>2 DEF AliasesForAsset, Bound

LEMMA ClaimsStay ==
  ASSUME IInv, CInv, SInv, BindingsMoveUnused, CloseoutsGoOn, CloseoutsMove
  PROVE  ClaimsHeld' /\ \A a \in Alias : ClosedOut(a)' => ClosedOut(a) /\ bound'[a] = bound[a]
<1>1. \A r \in Request : req'[r].kind = "closeout" =>
        /\ req[r].kind = "closeout" /\ req'[r].alias = req[r].alias
        /\ req'[r].proc = req[r].proc /\ req[r].alias \in Alias
  <2>1. \A r \in Request : req[r].kind = "closeout" => req[r].alias \in Alias
    BY CloseoutsAreServed DEF IInv, Threads, ThreadsGood, ThreadGood
  <2> QED BY <2>1 DEF CloseoutsGoOn, ServesOn
<1>2. ClaimsHeld'
  BY <1>1 DEF SInv, ClaimsHeld, CloseoutsMove
<1>3. \A a \in Alias : ClosedOut(a)' => ClosedOut(a)
  BY <1>1 DEF ClosedOut, CloseoutsMove
<1> QED BY <1>2, <1>3 DEF BindingsMoveUnused, Unused

LEMMA LockStep ==
  ASSUME IInv, CInv, SInv, UpTogether', BindingsMoveUnused, RunsGoOn, CloseoutsGoOn, LeasesKept, CloseoutsMove,
         RowsStay,
         \A t \in Txn : txn'[t].status \in Unresolved => txn[t].status \in Unresolved
  PROVE  SInv'
<1>1. \A t \in Txn : txn[t].status \in Unresolved => Fresh(t)' = Fresh(t)
  <2>1. \A t \in Txn : txn[t].status \in Unresolved => txn[t].alias \in Alias
    BY DEF IInv, Rows, RowsGood, RowGood, Unresolved, Working
  <2> QED BY <2>1 DEF RowsStay, BindingsMoveUnused, Unused, Fresh
<1>2. NeverBoth'
  BY <1>1, ClaimsStay DEF SInv, NeverBoth, RowsStay
<1>3. OneClosesOut'
  BY ClaimsStay DEF SInv, OneClosesOut
<1> QED BY <1>2, <1>3, LeasesStay, RunsStay, ClaimsStay DEF SInv, RunsGoOn

-----------------------------------------------------------------------------
(* The parts of a quiet step *)

LEMMA LeasesCleaned ==
  ASSUME IInv, CInv, SInv, NEW p \in Process, up[p] = "up", NEW remediation, NEW exceptCloseout,
         UNCHANGED lease \/ lease' = RecoverLeases(p, remediation, exceptCloseout)
  PROVE  LeasesKept
BY LeaseStays DEF LeasesKept

LEMMA SetAside ==
  ASSUME IInv, CInv, SInv, UNCHANGED closeout
  PROVE  CloseoutsMove
BY DEF CloseoutsMove, ClosedOut

(* A machine that is idle for a live process is unused.                     *)
LEMMA IdleIsUnused ==
  ASSUME IInv, CInv, SInv, NEW p \in Process, up[p] = "up", NEW a \in Alias, NEW jobsToo,
         AssetIdle(p, a, jobsToo, Nil)
  PROVE  Unused(a)
<1>1. a \in AliasesForAsset(a)
  BY DEF AliasesForAsset
<1>2. \A r \in Request : req[r].kind = "closeout" => req[r].alias # a
  <2> SUFFICES ASSUME NEW r \in Request, req[r].kind = "closeout", req[r].alias = a
               PROVE  FALSE
    OBVIOUS
  <2>1. req[r].at # "idle" /\ req[r].alias # Nil
    BY CloseoutsAreServed, AssetLocksAssumption
  <2> QED BY <1>1, <2>1, NoneServed DEF AssetIdle
<1>3. \A r \in Request : req[r].at = "run" => req[r].alias # a
  <2> SUFFICES ASSUME NEW r \in Request, req[r].at = "run", req[r].alias = a
               PROVE  FALSE
    OBVIOUS
  <2>1. Running(req[r])
    BY <1>2 DEF Running
  <2> QED BY <1>1, <2>1, NoLeaseNoRun DEF AssetIdle
<1>4. closeout[a].status \in Settled
  BY NoCloseoutHere DEF AssetIdle
<1>5. \A t \in Txn : txn[t].status \in Unresolved => txn[t].alias # a
  BY <1>1, AssetLocksAssumption DEF AssetIdle, ActiveAssetRemediation, Txn
<1> QED BY <1>2, <1>3, <1>4, <1>5 DEF Unused, ClosedOut

LEMMA BindingMovesUnused ==
  ASSUME IInv, CInv, SInv, NEW p \in Process, up[p] = "up", NEW a \in Alias, NEW jobsToo,
         AssetIdle(p, a, jobsToo, Nil), bound' = [bound EXCEPT ![a] = NextBinding(a)]
  PROVE  BindingsMoveUnused
<1>1. \A b \in Alias : b # a => bound'[b] = bound[b]
  BY DEF IInv, TypeOK
<1> QED BY <1>1, IdleIsUnused DEF BindingsMoveUnused

LEMMA ObservationIsQuiet ==
  ASSUME IInv, CInv, SInv, NEW p \in Process, up[p] = "up", NEW a \in Alias, RecordObservation(p, a)
  PROVE  BindingsMoveUnused /\ LeasesKept
<1>1. CASE UNCHANGED <<bound, lease>>
  BY <1>1, LeasesCleaned DEF BindingsMoveUnused
<1>2. CASE /\ AssetIdle(p, a, Bound(a), Nil)
           /\ bound' = [bound EXCEPT ![a] = NextBinding(a)]
           /\ lease' = RecoverLeases(p, 0, Nil)
  BY <1>2, BindingMovesUnused, LeasesCleaned
<1> QED BY <1>1, <1>2 DEF RecordObservation

LEMMA SameProcesses ==
  ASSUME SInv, UNCHANGED up
  PROVE  UpTogether'
BY DEF SInv, UpTogether

LEMMA RequestQuiet ==
  ASSUME IInv, CInv, SInv, NEW r \in Request, NEW th, req' = [req EXCEPT ![r] = th],
         UNCHANGED <<up, closeout>>, BindingsMoveUnused, LeasesKept, RowsStay,
         \A t \in Txn : txn'[t].status \in Unresolved => txn[t].status \in Unresolved,
         RunsOn(req[r], th), ServesOn(req[r], th)
  PROVE  SInv'
<1>1. \A s \in Request : req'[s] = IF s = r THEN th ELSE req[s]
  BY DEF IInv, TypeOK
<1>2. RunsGoOn /\ CloseoutsGoOn
  BY <1>1 DEF RunsGoOn, CloseoutsGoOn, RunsOn, ServesOn
<1> QED BY <1>2, SetAside, SameProcesses, LockStep

(* A request whose new state neither runs nor serves a closeout.            *)
LEMMA RequestApart ==
  ASSUME IInv, CInv, SInv, NEW r \in Request, NEW th, req' = [req EXCEPT ![r] = th],
         th.at # "run", th.kind # "closeout",
         UNCHANGED <<up, closeout>>, BindingsMoveUnused, LeasesKept, RowsStay,
         \A t \in Txn : txn'[t].status \in Unresolved => txn[t].status \in Unresolved
  PROVE  SInv'
<1>1. RunsOn(req[r], th) /\ ServesOn(req[r], th)
  BY DEF RunsOn, ServesOn
<1> QED BY <1>1, RequestQuiet

LEMMA BindingsUnmoved == ASSUME UNCHANGED bound PROVE BindingsMoveUnused
BY DEF BindingsMoveUnused

LEMMA LeasesUnmoved == ASSUME UNCHANGED lease PROVE LeasesKept
BY DEF LeasesKept

-----------------------------------------------------------------------------
(* Requests arrive and go on *)

LEMMA ServeSingle ==
  ASSUME IInv, CInv, SInv, NEW r \in Request, NEW p \in Process, NEW a \in Alias,
         CreateAuditJob(r, p, a) \/ StartDirectRun(r, p, a) \/ StartApply(r, p, a)
  PROVE  SInv'
<1>1. UNCHANGED <<up, bound, txn, closeout>> /\ up[p] = "up"
  BY DEF CreateAuditJob, StartDirectRun, StartApply, Serve, Idle
<1>2. RowsStay /\ \A t \in Txn : txn'[t].status \in Unresolved => txn[t].status \in Unresolved
  BY <1>1, RowsMoved DEF IInv
<1>3. LeasesKept
  BY <1>1, LeasesCleaned DEF CreateAuditJob, StartDirectRun, StartApply
<1>4. PICK th : req' = [req EXCEPT ![r] = th] /\ th.at # "run" /\ th.kind # "closeout"
  <2>1. CASE CreateAuditJob(r, p, a)
    <3>1. PICK th : th = [Idle EXCEPT !.kind = "audit", !.at = "probe", !.cmd = "audit", !.proc = p, !.alias = a]
      OBVIOUS
    <3>2. th.at = "probe" /\ th.kind = "audit"
      BY <3>1 DEF Idle
    <3> QED BY <2>1, <3>1, <3>2 DEF CreateAuditJob, Serve
  <2>2. CASE StartDirectRun(r, p, a)
    <3>1. PICK kind \in {"direct", "scan"}, at \in {"probe", "lease"} :
            Serve(r, [Idle EXCEPT !.kind = kind, !.at = at, !.cmd = "audit", !.proc = p, !.alias = a])
      BY <2>2 DEF StartDirectRun
    <3>2. PICK th : th = [Idle EXCEPT !.kind = kind, !.at = at, !.cmd = "audit", !.proc = p, !.alias = a]
      OBVIOUS
    <3>3. th.at = at /\ th.kind = kind
      BY <3>2 DEF Idle
    <3> QED BY <3>1, <3>2, <3>3 DEF Serve
  <2>3. CASE StartApply(r, p, a)
    <3>1. PICK th : th = [Idle EXCEPT !.kind = "apply", !.at = "capture", !.proc = p, !.alias = a]
      OBVIOUS
    <3>2. th.at = "capture" /\ th.kind = "apply"
      BY <3>1 DEF Idle
    <3> QED BY <2>3, <3>1, <3>2 DEF StartApply, Serve
  <2> QED BY <2>1, <2>2, <2>3
<1> QED BY <1>1, <1>2, <1>3, <1>4, BindingsUnmoved, RequestApart

LEMMA StartRollbackSingle ==
  ASSUME IInv, CInv, SInv, NEW r \in Request, NEW p \in Process, NEW t \in Txn, StartRollback(r, p, t)
  PROVE  SInv'
<1>1. PICK th : th = [Idle EXCEPT !.kind = "rollback", !.at = "capture", !.proc = p,
                                  !.alias = txn[t].alias, !.txn = t, !.seen = txn[t].status,
                                  !.snap = txn[t].snap]
  OBVIOUS
<1>2. th.kind = "rollback" /\ th.at = "capture"
  BY <1>1 DEF Idle
<1>3. req' = [req EXCEPT ![r] = th] /\ UNCHANGED <<up, bound, lease, txn, closeout>>
  BY <1>1 DEF StartRollback, Serve
<1>4. RowsStay /\ \A u \in Txn : txn'[u].status \in Unresolved => txn[u].status \in Unresolved
  BY <1>3, RowsMoved DEF IInv
<1> QED BY <1>2, <1>3, <1>4, BindingsUnmoved, LeasesUnmoved, RequestApart

LEMMA ObserveSingle ==
  ASSUME IInv, CInv, SInv, NEW r \in Request, Capture(r) \/ Probe(r)
  PROVE  SInv'
<1> DEFINE a == req[r].alias
           p == req[r].proc
<1>1. /\ req[r] \in Thread /\ a \in Alias /\ p \in Process /\ up[p] = "up"
      /\ req[r].at \in {"capture", "probe"} /\ req[r].kind # "closeout"
  BY Busy DEF Capture, Probe, Is, ThreadGood
<1>2. PICK th : req' = [req EXCEPT ![r] = th] /\ th.at # "run" /\ th.kind # "closeout"
  <2>1. CASE Capture(r)
    <3>1. PICK th : th = IF req[r].kind = "rollback" /\ CurrentBinding(a).gen # req[r].snap.gen
                         THEN Idle
                         ELSE [req[r] EXCEPT !.at = "admit", !.snap = CurrentBinding(a)]
      OBVIOUS
    <3>2. th.at \in {"idle", "admit"} /\ th.kind \in {"idle", req[r].kind}
      BY <1>1, <3>1 DEF Thread, Idle
    <3>3. req' = [req EXCEPT ![r] = th]
      BY <2>1, <3>1 DEF Capture
    <3> QED BY <1>1, <3>2, <3>3
  <2>2. CASE Probe(r)
    <3>1. PICK th : th = IF req[r].txn # 0 /\ CurrentBinding(a).gen # req[r].snap.gen
                         THEN [req[r] EXCEPT !.at = "record", !.result = "failed"]
                         ELSE [req[r] EXCEPT !.at = "lease", !.snap = CurrentBinding(a)]
      OBVIOUS
    <3>2. th.at \in {"record", "lease"} /\ th.kind = req[r].kind
      BY <1>1, <3>1 DEF Thread
    <3>3. req' = [req EXCEPT ![r] = th]
      BY <2>2, <3>1 DEF Probe
    <3> QED BY <1>1, <3>2, <3>3
  <2> QED BY <2>1, <2>2
<1>3. UNCHANGED <<up, txn, closeout>>
  BY DEF Capture, Probe
<1>4. BindingsMoveUnused /\ LeasesKept
  BY <1>1, ObservationIsQuiet DEF Capture, Probe
<1>5. RowsStay /\ \A u \in Txn : txn'[u].status \in Unresolved => txn[u].status \in Unresolved
  BY <1>3, RowsMoved DEF IInv
<1> QED BY <1>2, <1>3, <1>4, <1>5, RequestApart

LEMMA GiveUpSingle ==
  ASSUME IInv, CInv, SInv, NEW r \in Request, GiveUp(r)
  PROVE  SInv'
<1>1. /\ req[r] \in Thread /\ req[r].kind # "closeout"
  BY Busy DEF GiveUp, CInv, ThreadsTrue, ThreadTrue
<1>2. PICK th : th = IF req[r].at \in {"capture", "admit"} THEN Idle
                     ELSE [req[r] EXCEPT !.at = "record", !.result = "failed"]
  OBVIOUS
<1>3. th.at \in {"idle", "record"} /\ th.kind \in {"idle", req[r].kind}
  BY <1>1, <1>2 DEF Thread, Idle
<1>4. req' = [req EXCEPT ![r] = th] /\ UNCHANGED <<up, bound, lease, txn, closeout>>
  BY <1>2 DEF GiveUp
<1>5. RowsStay /\ \A t \in Txn : txn'[t].status \in Unresolved => txn[t].status \in Unresolved
  BY <1>4, RowsMoved DEF IInv
<1> QED BY <1>1, <1>3, <1>4, <1>5, BindingsUnmoved, LeasesUnmoved, RequestApart

LEMMA EndRunSingle ==
  ASSUME IInv, CInv, SInv, NEW r \in Request, EndRun(r)
  PROVE  SInv'
<1>1. req[r] \in Thread /\ req[r].at = "run"
  BY Busy DEF EndRun
<1>2. PICK result : req' = [req EXCEPT ![r].at = "record", ![r].result = result]
  BY DEF EndRun
<1>3. PICK th : th = [req[r] EXCEPT !.at = "record", !.result = result]
  OBVIOUS
<1>4. th.kind = req[r].kind /\ th.alias = req[r].alias /\ th.proc = req[r].proc /\ th.at = "record"
  BY <1>1, <1>3 DEF Thread
<1>5. req' = [req EXCEPT ![r] = th] /\ UNCHANGED <<up, bound, txn, closeout>>
  BY <1>2, <1>3 DEF EndRun, IInv, TypeOK
<1>6. LeasesKept
  <2> SUFFICES ASSUME NEW s \in Request, Running(req[s]), req'[s].at = "run"
               PROVE  lease'[ResourceOf(req[s].alias)] = lease[ResourceOf(req[s].alias)]
    BY DEF LeasesKept
  <2>1. s # r
    BY <1>4, <1>5 DEF IInv, TypeOK
  <2>2. ResourceOf(req[s].alias) \in Resource
    <3>1. req[s].proc \in Process /\ up[req[s].proc] = "up"
      BY DEF IInv, Threads, ThreadsGood, ThreadGood, Running
    <3> QED BY <3>1, LeaseStays
  <2>3. PICK k \in Resource : k = ResourceOf(req[s].alias)
    BY <2>2
  <2>4. lease[k].req = s
    <3>1. lease[k] = [owner |-> req[s].proc, req |-> s, alias |-> req[s].alias]
      BY <2>3 DEF SInv, LeasesHeld
    <3> QED BY <3>1
  <2>5. lease'[k] = lease[k]
    BY <2>1, <2>4 DEF EndRun
  <2> QED BY <2>3, <2>5
<1>7. RunsOn(req[r], th) /\ ServesOn(req[r], th)
  BY <1>4 DEF RunsOn, ServesOn
<1>8. RowsStay /\ \A t \in Txn : txn'[t].status \in Unresolved => txn[t].status \in Unresolved
  BY <1>5, RowsMoved DEF IInv
<1> QED BY <1>5, <1>6, <1>7, <1>8, BindingsUnmoved, RequestQuiet

LEMMA EndSingle ==
  ASSUME IInv, CInv, SInv, NEW r \in Request, FinishAudit(r) \/ RecordRollback(r)
  PROVE  SInv'
<1>1. Idle.at = "idle" /\ Idle.kind = "idle"
  BY DEF Idle
<1>2. req' = [req EXCEPT ![r] = Idle] /\ UNCHANGED <<up, bound, lease, closeout>>
  BY DEF FinishAudit, RecordRollback, EndRequest
<1>3. RowsStay /\ \A t \in Txn : txn'[t].status \in Unresolved => txn[t].status \in Unresolved
  <2>1. CASE FinishAudit(r)
    BY <2>1, RowsMoved DEF FinishAudit, IInv
  <2>2. CASE RecordRollback(r)
    <3>1. req[r].txn \in Txn /\ txn[req[r].txn].status \in Unresolved
      BY <2>2, Busy DEF RecordRollback, Is, Engaged, ThreadGood, Unresolved
    <3> QED BY <2>2, <3>1, RowUpdated DEF RecordRollback, IInv
  <2> QED BY <2>1, <2>2
<1> QED BY <1>1, <1>2, <1>3, BindingsUnmoved, LeasesUnmoved, RequestApart

LEMMA RecordApplySingle ==
  ASSUME IInv, CInv, SInv, NEW r \in Request, RecordApply(r)
  PROVE  SInv'
<1>1. /\ req[r] \in Thread /\ req[r].kind = "apply" /\ req[r].txn \in Txn
      /\ txn[req[r].txn].status \in Unresolved
  BY Busy DEF RecordApply, Is, Engaged, ThreadGood, Unresolved
<1>2. UNCHANGED <<up, bound, lease, closeout>>
  BY DEF RecordApply
<1>3. UNCHANGED txn \/ \E status, backup : UpdateRemediation(req[r].txn, status, backup)
  BY DEF RecordApply
<1>4. RowsStay /\ \A u \in Txn : txn'[u].status \in Unresolved => txn[u].status \in Unresolved
  BY <1>1, <1>3, RowsMoved, RowUpdated DEF IInv
<1>5. CASE EndRequest(r)
  <2>1. Idle.at = "idle" /\ Idle.kind = "idle"
    BY DEF Idle
  <2> QED BY <1>2, <1>4, <1>5, <2>1, BindingsUnmoved, LeasesUnmoved, RequestApart DEF EndRequest
<1>6. ASSUME NEW cmd, NextRun(r, cmd)
      PROVE  SInv'
  <2>1. PICK th : th = [req[r] EXCEPT !.at = "probe", !.cmd = cmd, !.result = "none"]
    OBVIOUS
  <2>2. th.kind = "apply" /\ th.at = "probe"
    BY <1>1, <2>1 DEF Thread
  <2>3. req' = [req EXCEPT ![r] = th]
    BY <1>6, <2>1 DEF NextRun, IInv, TypeOK
  <2> QED BY <1>2, <1>4, <2>2, <2>3, BindingsUnmoved, LeasesUnmoved, RequestApart
<1> QED BY <1>5, <1>6 DEF RecordApply

-----------------------------------------------------------------------------
(* Closeouts *)

(* The holder of a claim writes its closeout, or releases it as it ends.     *)
LEMMA HolderWrites ==
  ASSUME IInv, CInv, SInv, NEW r \in Request, req[r].kind = "closeout",
         NEW th, req' = [req EXCEPT ![r] = th], th.at # "run",
         th.kind = "closeout" => th.alias = req[r].alias /\ th.proc = req[r].proc,
         UNCHANGED <<up, bound, lease, txn>>,
         \A a \in Alias \ {req[r].alias} : closeout'[a] = closeout[a],
         th.kind = "closeout" =>
            /\ closeout'[req[r].alias].claim = closeout[req[r].alias].claim
            /\ closeout'[req[r].alias].owner = closeout[req[r].alias].owner
  PROVE  SInv'
<1>1. \A s \in Request : req'[s] = IF s = r THEN th ELSE req[s]
  BY DEF IInv, TypeOK
<1>2. RunsGoOn /\ CloseoutsGoOn
  BY <1>1 DEF RunsGoOn, CloseoutsGoOn, RunsOn, ServesOn
<1>3. \A s \in Request : req[s].kind = "closeout" /\ req[s].alias = req[r].alias => s = r
  BY DEF SInv, ClaimsHeld
<1>4. CloseoutsMove
  BY <1>1, <1>3 DEF CloseoutsMove, ClosedOut
<1>5. RowsStay /\ \A t \in Txn : txn'[t].status \in Unresolved => txn[t].status \in Unresolved
  BY RowsMoved DEF IInv
<1> QED BY <1>2, <1>4, <1>5, BindingsUnmoved, LeasesUnmoved, SameProcesses, LockStep

LEMMA HolderSingle ==
  ASSUME IInv, CInv, SInv, NEW r \in Request,
         RecordCloseout(r) \/ CompleteLocal(r) \/ CompleteLocalFails(r) \/ ReleaseCloseout(r)
  PROVE  SInv'
<1> DEFINE a == req[r].alias
<1>1. req[r] \in Thread /\ req[r].kind = "closeout" /\ a \in Alias
  BY Busy DEF RecordCloseout, CompleteLocal, CompleteLocalFails, ReleaseCloseout, Is
<1>2. UNCHANGED <<up, bound, lease, txn>>
  BY DEF RecordCloseout, CompleteLocal, CompleteLocalFails, ReleaseCloseout
<1>3. \A b \in Alias \ {a} : closeout'[b] = closeout[b]
  BY DEF RecordCloseout, CompleteLocal, CompleteLocalFails, ReleaseCloseout, IInv, TypeOK
<1>4. CASE ReleaseCloseout(r)
  <2>1. Idle.at = "idle" /\ Idle.kind = "idle"
    BY DEF Idle
  <2> QED BY <1>1, <1>2, <1>3, <1>4, <2>1, HolderWrites DEF ReleaseCloseout, EndRequest
<1>5. CASE RecordCloseout(r) \/ CompleteLocal(r) \/ CompleteLocalFails(r)
  <2>1. PICK at \in {"finish", "release"} : req' = [req EXCEPT ![r].at = at]
    BY <1>5 DEF RecordCloseout, CompleteLocal, CompleteLocalFails
  <2>2. PICK th : th = [req[r] EXCEPT !.at = at]
    OBVIOUS
  <2>3. th.kind = "closeout" /\ th.at = at /\ th.alias = a /\ th.proc = req[r].proc
    BY <1>1, <2>2 DEF Thread
  <2>4. req' = [req EXCEPT ![r] = th]
    BY <2>1, <2>2 DEF IInv, TypeOK
  <2>5. closeout[a] \in Closeout
    BY <1>1 DEF IInv, TypeOK
  <2>6. closeout' = closeout \/ \E status : closeout' = [closeout EXCEPT ![a].status = status]
    BY <1>5 DEF RecordCloseout, CompleteLocal, CompleteLocalFails
  <2>7. closeout'[a].claim = closeout[a].claim /\ closeout'[a].owner = closeout[a].owner
    <3>1. ASSUME NEW status, NEW row, row = [closeout[a] EXCEPT !.status = status]
          PROVE  row.claim = closeout[a].claim /\ row.owner = closeout[a].owner
      BY <2>5, <3>1 DEF Closeout
    <3>2. ASSUME NEW status, closeout' = [closeout EXCEPT ![a].status = status]
          PROVE  closeout'[a] = [closeout[a] EXCEPT !.status = status]
      BY <1>1, <3>2 DEF IInv, TypeOK
    <3> QED BY <2>6, <3>1, <3>2
  <2> QED BY <1>1, <1>2, <1>3, <2>3, <2>4, <2>7, HolderWrites
<1> QED BY <1>4, <1>5

(* A new run is alone on its machine.                                       *)
LEMMA NewRun ==
  ASSUME IInv, CInv, SInv, NEW r \in Request, NEW th, req' = [req EXCEPT ![r] = th],
         UNCHANGED bound, NEW a \in Alias, th.alias = a,
         \A s \in Request : s # r /\ req[s].at = "run" => req[s].alias \notin AliasesForAsset(a)
  PROVE  LiveRunsExclusive'
<1>1. \A s \in Request : req'[s] = IF s = r THEN th ELSE req[s]
  BY DEF IInv, TypeOK
<1>2. \A s \in Request : req[s].at = "run" => req[s].alias \in Alias
  BY DEF IInv, Threads, ThreadsGood, ThreadGood
<1>3. \A s \in Request : s # r /\ req[s].at = "run" => a \notin AliasesForAsset(req[s].alias)
  BY <1>2, LinkedBothWays
<1>4. \A b : AliasesForAsset(b)' = AliasesForAsset(b)
  BY DEF AliasesForAsset, Bound
<1> SUFFICES ASSUME NEW s \in Request, NEW q \in Request, s # q, req'[s].at = "run", req'[q].at = "run",
                    NEW b, b = req'[s].alias
             PROVE  req'[q].alias \notin AliasesForAsset(b)
  BY <1>4 DEF LiveRunsExclusive
<1>5. CASE s = r
  BY <1>1, <1>5
<1>6. CASE q = r
  BY <1>1, <1>3, <1>6
<1>7. CASE s # r /\ q # r
  BY <1>1, <1>7 DEF SInv, LiveRunsExclusive
<1> QED BY <1>5, <1>6, <1>7

(* A closeout is claimed on an idle machine.                                *)
LEMMA ClaimStep ==
  ASSUME IInv, CInv, SInv, NEW r \in Request, NEW p \in Process, NEW a \in Alias, up[p] = "up",
         MayClaimCloseout(p, a),
         NEW th, req' = [req EXCEPT ![r] = th], th.kind = "closeout", th.alias = a, th.proc = p,
         closeout'[a].claim = r, closeout'[a].owner = p,
         \A b \in Alias \ {a} : closeout'[b] = closeout[b],
         lease' = RecoverLeases(p, 0, a), txn' = RecoverInterrupted(p), UNCHANGED <<up, bound>>
  PROVE  SInv'
<1>1. \A s \in Request : req'[s] = IF s = r THEN th ELSE req[s]
  BY DEF IInv, TypeOK
<1>2. RowsStay /\ \A t \in Txn : txn'[t].status \in Unresolved <=> txn[t].status \in Unresolved
  BY RowsMoved DEF IInv
<1>3. \A s \in Request : req[s].kind = "closeout" => req[s].alias # a
  <2> SUFFICES ASSUME NEW s \in Request, req[s].kind = "closeout", req[s].alias = a
               PROVE  FALSE
    OBVIOUS
  <2>1. Live(p, req[s].proc)
    BY CloseoutsAreServed, ServedIsLive DEF SInv
  <2>2. closeout[a].claim = s /\ closeout[a].owner = req[s].proc
    BY DEF SInv, ClaimsHeld
  <2> QED BY <2>1, <2>2, AssetLocksAssumption DEF MayClaimCloseout
<1>4. \A s \in Request : req[s].at = "run" => req[s].alias \notin AliasesForAsset(a)
  <2> SUFFICES ASSUME NEW s \in Request, req[s].at = "run"
               PROVE  req[s].alias \notin AliasesForAsset(a)
    OBVIOUS
  <2>1. CASE req[s].kind = "closeout"
    BY <1>3, <2>1, NoneServed DEF MayClaimCloseout
  <2>2. CASE Running(req[s])
    BY <2>2, NoLeaseNoRun DEF MayClaimCloseout, AssetIdle
  <2> QED BY <2>1, <2>2 DEF Running
<1>5. LiveRunsExclusive'
  BY <1>4, NewRun
<1>6. LeasesHeld'
  <2>1. \A s \in Request : Running(req'[s]) => RunsOn(req[s], req'[s])
    BY <1>1 DEF Running, RunsOn
  <2> QED BY <2>1, LeasesCleaned, BindingsUnmoved, LeasesStay
<1>7. ClaimsHeld'
  <2>1. \A s \in Request : req[s].kind = "closeout" => req[s].alias \in Alias
    BY CloseoutsAreServed DEF IInv, Threads, ThreadsGood, ThreadGood
  <2> QED BY <1>1, <1>3, <2>1 DEF SInv, ClaimsHeld
<1>8. \A t \in Txn : txn[t].status \in Unresolved => txn[t].snap.asset # bound[a].asset
  <2>1. \A t \in Txn : txn[t].status \in Unresolved => txn[t].snap.asset \in Asset
    BY DEF CInv, Named, Unresolved, Working
  <2>2. bound[a].asset \in Asset => Bound(a)
    BY AssetLocksAssumption DEF IInv, BindingsGood, Bound
  <2> QED BY <2>1, <2>2, AssetLocksAssumption DEF MayClaimCloseout, ActiveAssetRemediation, Txn
<1>9. \A b \in Alias : b # a /\ ClosedOut(b)' => ClosedOut(b)
  BY <1>1 DEF ClosedOut
<1>10. \A t \in Txn : Fresh(t)' = Fresh(t)
  BY <1>2 DEF RowsStay, Fresh
<1>11. NeverBoth'
  <2>1. ASSUME NEW b \in Alias, NEW t \in Txn, ClosedOut(b)', txn'[t].status \in Unresolved, Fresh(t)'
        PROVE  txn'[t].snap.asset # bound'[b].asset
    <3>1. CASE b = a
      BY <1>2, <1>8, <2>1, <3>1 DEF RowsStay
    <3>2. CASE b # a
      BY <1>2, <1>9, <1>10, <2>1, <3>2 DEF SInv, NeverBoth, RowsStay
    <3> QED BY <3>1, <3>2
  <2> QED BY <2>1 DEF NeverBoth
<1>12. OneClosesOut'
  <2>1. ASSUME NEW b \in Alias, b # a, bound[b].asset = bound[a].asset, bound[a].asset \in Asset
        PROVE  ~ ClosedOut(b)
    <3>1. b \in AliasesForAsset(a)
      BY <2>1, AssetLocksAssumption DEF AliasesForAsset, IInv, BindingsGood, Bound
    <3>2. closeout[b].status \in Settled
      BY <2>1, <3>1 DEF MayClaimCloseout, UnresolvedCloseout
    <3>3. \A s \in Request : req[s].kind = "closeout" => req[s].alias # b
      BY <2>1, <3>1, CloseoutsAreServed, NoneServed DEF MayClaimCloseout
    <3> QED BY <3>2, <3>3 DEF ClosedOut
  <2> QED BY <1>9, <2>1 DEF SInv, OneClosesOut
<1> QED BY <1>5, <1>6, <1>7, <1>11, <1>12, SameProcesses DEF SInv

LEMMA StartCloseoutSingle ==
  ASSUME IInv, CInv, SInv, NEW r \in Request, NEW p \in Process, NEW a \in Alias, StartCloseout(r, p, a)
  PROVE  SInv'
<1>1. PICK th : th = [Idle EXCEPT !.kind = "closeout", !.at = "run", !.cmd = "revoke", !.proc = p, !.alias = a]
  OBVIOUS
<1>2. th.kind = "closeout" /\ th.alias = a /\ th.proc = p
  BY <1>1 DEF Idle
<1>3. req' = [req EXCEPT ![r] = th] /\ up[p] = "up"
  BY <1>1 DEF StartCloseout, Serve, Idle
<1>4. /\ closeout'[a].claim = r /\ closeout'[a].owner = p
      /\ \A b \in Alias \ {a} : closeout'[b] = closeout[b]
  BY DEF StartCloseout, IInv, TypeOK
<1> QED BY <1>2, <1>3, <1>4, ClaimStep DEF StartCloseout

LEMMA RecoverCloseoutSingle ==
  ASSUME IInv, CInv, SInv, NEW r \in Request, NEW p \in Process, NEW a \in Alias,
         NEW resolution, RecoverCloseout(r, p, a, resolution)
  PROVE  SInv'
<1>1. PICK th : th = [Idle EXCEPT !.kind = "closeout", !.at = "record", !.cmd = "revoke",
                                  !.proc = p, !.alias = a, !.result = resolution]
  OBVIOUS
<1>2. th.kind = "closeout" /\ th.alias = a /\ th.proc = p
  BY <1>1 DEF Idle
<1>3. req' = [req EXCEPT ![r] = th] /\ up[p] = "up"
  BY <1>1 DEF RecoverCloseout, Serve, Idle
<1>4. /\ closeout'[a].claim = r /\ closeout'[a].owner = p
      /\ \A b \in Alias \ {a} : closeout'[b] = closeout[b]
  BY DEF RecoverCloseout, IInv, TypeOK, Closeout
<1> QED BY <1>2, <1>3, <1>4, ClaimStep DEF RecoverCloseout

-----------------------------------------------------------------------------
(* Transactions are admitted, and commands sent *)

(* Where no closeout is unresolved for a live process, none closes out.      *)
LEMMA NotClosedOut ==
  ASSUME IInv, CInv, SInv, NEW p \in Process, up[p] = "up", NEW a \in Alias,
         ~ UnresolvedCloseout(p, a, Nil), NEW b \in Alias, b \in AliasesForAsset(a)
  PROVE  ~ ClosedOut(b)
<1>1. closeout[b].status \in Settled
  BY AssetLocksAssumption DEF UnresolvedCloseout
<1>2. \A s \in Request : req[s].kind = "closeout" => req[s].alias # b
  BY CloseoutsAreServed, NoneServed, AssetLocksAssumption
<1> QED BY <1>1, <1>2 DEF ClosedOut

(* A row becomes unresolved where nothing closes out.                       *)
LEMMA AdmitStep ==
  ASSUME IInv, CInv, SInv, NEW r \in Request, NEW th, req' = [req EXCEPT ![r] = th],
         th.at # "run", th.kind # "closeout",
         UNCHANGED <<up, bound, closeout>>, LeasesKept, NEW t \in Txn,
         \A u \in Txn : u # t => /\ txn'[u].snap = txn[u].snap /\ txn'[u].alias = txn[u].alias
                                 /\ txn'[u].status \in Unresolved => txn[u].status \in Unresolved,
         NEW a \in Alias, txn'[t].alias = a,
         bound[a] = txn'[t].snap => Bound(a),
         ~ UnresolvedCloseout(req[r].proc, a, Nil), req[r].proc \in Process, up[req[r].proc] = "up"
  PROVE  SInv'
<1>1. \A s \in Request : req'[s] = IF s = r THEN th ELSE req[s]
  BY DEF IInv, TypeOK
<1>2. RunsGoOn /\ CloseoutsGoOn /\ BindingsMoveUnused
  BY <1>1, BindingsUnmoved DEF RunsGoOn, CloseoutsGoOn, RunsOn, ServesOn
<1>3. LeasesHeld' /\ LiveRunsExclusive'
  BY <1>2, LeasesStay, RunsStay DEF RunsGoOn
<1>4. ClaimsHeld' /\ \A b \in Alias : ClosedOut(b)' => ClosedOut(b)
  BY <1>2, SetAside, ClaimsStay
<1>5. NeverBoth'
  <2>1. ASSUME NEW b \in Alias, NEW u \in Txn, ClosedOut(b)', txn'[u].status \in Unresolved, Fresh(u)'
        PROVE  txn'[u].snap.asset # bound'[b].asset
    <3>1. CASE u = t
      <4>1. bound[a] = txn'[t].snap /\ Bound(a)
        BY <2>1, <3>1 DEF Fresh
      <4>2. b \notin AliasesForAsset(a)
        BY <1>4, <2>1, NotClosedOut
      <4> QED BY <3>1, <4>1, <4>2 DEF AliasesForAsset
    <3>2. CASE u # t
      BY <1>4, <2>1, <3>2 DEF SInv, NeverBoth, Fresh
    <3> QED BY <3>1, <3>2
  <2> QED BY <2>1 DEF NeverBoth
<1>6. OneClosesOut'
  BY <1>4 DEF SInv, OneClosesOut
<1> QED BY <1>3, <1>4, <1>5, <1>6, SameProcesses DEF SInv

LEMMA CreateRemediationSingle ==
  ASSUME IInv, CInv, SInv, NEW r \in Request, CreateRemediation(r)
  PROVE  SInv'
<1> DEFINE p == req[r].proc
           a == req[r].alias
<1>1. /\ req[r] \in Thread /\ ThreadGood(req[r]) /\ a \in Alias /\ p \in Process /\ up[p] = "up"
      /\ req[r].kind = "apply" /\ req[r].at = "admit"
  BY Busy DEF CreateRemediation, Is, ThreadGood
<1>2. Bound(a)
  BY <1>1 DEF ThreadGood, CreateRemediation, Bound
<1>3. PICK t \in Txn :
        /\ txn' = [RecoverInterrupted(p) EXCEPT
             ![t] = [status |-> "preparing", from |-> "none", alias |-> a, snap |-> req[r].snap,
                     owner |-> p, backup |-> FALSE]]
        /\ req' = [req EXCEPT ![r].at = "probe", ![r].cmd = "preAudit", ![r].txn = t]
  BY DEF CreateRemediation
<1>4. /\ txn'[t].alias = a
      /\ \A u \in Txn : u # t => txn'[u] = RecoverInterrupted(p)[u]
  BY <1>3, RecoveredTyped DEF IInv
<1>5. \A u \in Txn : u # t => /\ txn'[u].snap = txn[u].snap /\ txn'[u].alias = txn[u].alias
                              /\ txn'[u].status \in Unresolved => txn[u].status \in Unresolved
  BY <1>4, InterruptedRow DEF IInv
<1>6. PICK th : th = [req[r] EXCEPT !.at = "probe", !.cmd = "preAudit", !.txn = t]
  OBVIOUS
<1>7. th.kind = "apply" /\ th.at = "probe"
  BY <1>1, <1>6 DEF Thread
<1>8. req' = [req EXCEPT ![r] = th]
  BY <1>3, <1>6 DEF IInv, TypeOK
<1>9. LeasesKept /\ ~ UnresolvedCloseout(p, a, Nil) /\ UNCHANGED <<up, bound, closeout>>
  BY <1>1, LeasesCleaned DEF CreateRemediation, AssetIdle
<1> QED BY <1>1, <1>2, <1>4, <1>5, <1>7, <1>8, <1>9, AdmitStep

LEMMA ClaimRollbackSingle ==
  ASSUME IInv, CInv, XInv, SInv, NEW r \in Request, ClaimRollback(r)
  PROVE  SInv'
<1> DEFINE p == req[r].proc
           a == req[r].alias
           t == req[r].txn
<1>1. /\ req[r] \in Thread /\ a \in Alias /\ t \in Txn /\ txn[t].alias = a
      /\ p \in Process /\ up[p] = "up" /\ req[r].kind = "rollback" /\ req[r].at = "admit"
      /\ txn[t].status \in Claimable
  BY Busy DEF ClaimRollback, Is, ThreadGood
<1>2. RecoverInterrupted(p) \in [Txn -> Row]
  BY RecoveredTyped DEF IInv
<1>3. PICK row : row = [RecoverInterrupted(p)[t] EXCEPT !.status = "rolling_back", !.owner = p, !.from = "none"]
  OBVIOUS
<1>4. \A u \in Txn : txn'[u] = IF u = t THEN row ELSE RecoverInterrupted(p)[u]
  BY <1>2, <1>3 DEF ClaimRollback
<1>5. RecoverInterrupted(p)[t] \in Row
  BY <1>1, <1>2
<1>6. row.snap = RecoverInterrupted(p)[t].snap /\ row.alias = RecoverInterrupted(p)[t].alias
  BY <1>3, <1>5 DEF Row
<1>7. txn'[t].snap = txn[t].snap /\ txn'[t].alias = a
  BY <1>1, <1>4, <1>6, InterruptedRow DEF IInv
<1>8. \A u \in Txn : u # t => /\ txn'[u].snap = txn[u].snap /\ txn'[u].alias = txn[u].alias
                              /\ txn'[u].status \in Unresolved => txn[u].status \in Unresolved
  BY <1>4, InterruptedRow DEF IInv
<1>9. bound[a] = txn'[t].snap => Bound(a)
  BY <1>1, <1>7 DEF XInv, RowsSnapped, Bound, Claimable
<1>10. PICK th : th = [req[r] EXCEPT !.at = "probe", !.cmd = "rollback"]
  OBVIOUS
<1>11. th.kind = "rollback" /\ th.at = "probe"
  BY <1>1, <1>10 DEF Thread
<1>12. req' = [req EXCEPT ![r] = th]
  BY <1>10 DEF ClaimRollback, IInv, TypeOK
<1>13. LeasesKept /\ ~ UnresolvedCloseout(p, a, Nil) /\ UNCHANGED <<up, bound, closeout>>
  BY LeasesUnmoved DEF ClaimRollback
<1> QED BY <1>1, <1>7, <1>8, <1>9, <1>11, <1>12, <1>13, AdmitStep

LEMMA AcquireSingle ==
  ASSUME IInv, CInv, SInv, NEW r \in Request, AcquireAssetExecution(r)
  PROVE  SInv'
<1> DEFINE p == req[r].proc
           a == req[r].alias
           leases == RecoverLeases(p, req[r].txn, Nil)
<1>1. /\ req[r] \in Thread /\ req[r].at = "lease" /\ a \in Alias /\ p \in Process /\ up[p] = "up"
      /\ req[r].kind # "closeout"
  BY Busy DEF AcquireAssetExecution, ThreadGood, CInv, ThreadsTrue, ThreadTrue
<1>2. UNCHANGED <<up, bound, txn, closeout>>
  BY DEF AcquireAssetExecution
<1>3. PICK th : th = [req[r] EXCEPT !.at = "run"]
  OBVIOUS
<1>4. th.kind = req[r].kind /\ th.at = "run" /\ th.alias = a /\ th.proc = p
  BY <1>1, <1>3 DEF Thread
<1>5. req' = [req EXCEPT ![r] = th] /\ \A s \in Request : req'[s] = IF s = r THEN th ELSE req[s]
  BY <1>3 DEF AcquireAssetExecution, IInv, TypeOK
<1>6. \A s \in Request : s # r /\ req[s].at = "run" => req[s].alias \notin AliasesForAsset(a)
  <2> SUFFICES ASSUME NEW s \in Request, req[s].at = "run"
               PROVE  req[s].alias \notin AliasesForAsset(a)
    OBVIOUS
  <2>1. CASE req[s].kind = "closeout"
    <3>1. req[s].alias # Nil
      BY AssetLocksAssumption DEF IInv, Threads, ThreadsGood, ThreadGood
    <3> QED BY <1>1, <2>1, <3>1, NoneServed DEF AcquireAssetExecution
  <2>2. CASE Running(req[s])
    BY <1>1, <2>2, NoLeaseNoRun DEF AcquireAssetExecution
  <2> QED BY <2>1, <2>2 DEF Running
<1>7. LiveRunsExclusive'
  BY <1>1, <1>2, <1>4, <1>5, <1>6, NewRun
<1>8. LeasesHeld'
  <2> SUFFICES ASSUME NEW s \in Request, NEW new, new = req'[s], Running(new)
               PROVE  lease'[ResourceOf(new.alias)] = [owner |-> new.proc, req |-> s, alias |-> new.alias]
    BY <1>2 DEF LeasesHeld, Running, ResourceOf, Bound
  <2>1. ResourceOf(a) \in Resource
    BY <1>1 DEF ResourceOf, Resource, Bound, CInv, Named
  <2>2. \A k \in Resource : lease'[k] = IF k = ResourceOf(a) THEN [owner |-> p, req |-> r, alias |-> a]
                                       ELSE leases[k]
    BY <2>1 DEF AcquireAssetExecution, RecoverLeases
  <2>3. CASE s = r
    BY <1>4, <1>5, <2>1, <2>2, <2>3
  <2>4. CASE s # r
    <3>1. new = req[s] /\ Running(req[s])
      BY <1>5, <2>4
    <3>2. PICK k \in Resource : k = ResourceOf(req[s].alias)
      BY <1>1, <3>1, LeaseStays
    <3>3. leases[k] = [owner |-> req[s].proc, req |-> s, alias |-> req[s].alias]
      <4>1. leases[k] = lease[k]
        BY <1>1, <3>1, <3>2, LeaseStays
      <4>2. lease[k] = [owner |-> req[s].proc, req |-> s, alias |-> req[s].alias]
        BY <3>1, <3>2 DEF SInv, LeasesHeld
      <4> QED BY <4>1, <4>2
    <3>4. k # ResourceOf(a)
      BY <3>3, AssetLocksAssumption DEF AcquireAssetExecution, NoLease
    <3> QED BY <2>2, <3>1, <3>2, <3>3, <3>4
  <2> QED BY <2>3, <2>4
<1>9. ClaimsHeld' /\ \A b \in Alias : ClosedOut(b)' => ClosedOut(b)
  <2>1. CloseoutsGoOn
    BY <1>1, <1>4, <1>5 DEF CloseoutsGoOn, ServesOn
  <2> QED BY <1>2, <2>1, BindingsUnmoved, SetAside, ClaimsStay
<1>10. NeverBoth' /\ OneClosesOut'
  BY <1>2, <1>9 DEF SInv, NeverBoth, OneClosesOut, Fresh
<1> QED BY <1>2, <1>7, <1>8, <1>9, <1>10, SameProcesses DEF SInv

-----------------------------------------------------------------------------
(* The machines, the operator and the processes *)

LEMMA EndCommandSingle ==
  ASSUME IInv, CInv, SInv, NEW c \in remote, EndCommand(c)
  PROVE  SInv'
<1>1. PICK outcome \in {"ok", "failed"} :
        req' = [s \in Request |-> IF Waiting(s, c) THEN [req[s] EXCEPT !.result = outcome] ELSE req[s]]
  BY DEF EndCommand
<1>2. UNCHANGED <<up, bound, lease, txn, closeout>>
  BY DEF EndCommand
<1>3. \A s \in Request : /\ req'[s].at = req[s].at /\ req'[s].kind = req[s].kind
                         /\ req'[s].alias = req[s].alias /\ req'[s].proc = req[s].proc
  <2> SUFFICES ASSUME NEW s \in Request
               PROVE  /\ req'[s].at = req[s].at /\ req'[s].kind = req[s].kind
                      /\ req'[s].alias = req[s].alias /\ req'[s].proc = req[s].proc
    OBVIOUS
  <2>1. PICK th : th = [req[s] EXCEPT !.result = outcome]
    OBVIOUS
  <2>2. req[s] \in Thread
    BY DEF IInv, TypeOK
  <2>3. th.at = req[s].at /\ th.kind = req[s].kind /\ th.alias = req[s].alias /\ th.proc = req[s].proc
    BY <2>1, <2>2 DEF Thread
  <2> QED BY <1>1, <2>1, <2>3
<1>4. RunsGoOn /\ CloseoutsGoOn
  BY <1>3 DEF RunsGoOn, CloseoutsGoOn, RunsOn, ServesOn
<1>5. RowsStay /\ \A t \in Txn : txn'[t].status \in Unresolved => txn[t].status \in Unresolved
  BY <1>2, RowsMoved DEF IInv
<1> QED BY <1>2, <1>4, <1>5, BindingsUnmoved, LeasesUnmoved, SetAside, SameProcesses, LockStep

(* Requests end with their process at most.                                 *)
LEMMA ElsewhereSingle ==
  ASSUME IInv, CInv, SInv, UpTogether', BindingsMoveUnused, LeasesKept, UNCHANGED closeout, RowsStay,
         \A t \in Txn : txn'[t].status \in Unresolved => txn[t].status \in Unresolved,
         \A s \in Request : req'[s] = req[s] \/ req'[s] = Idle
  PROVE  SInv'
<1>1. Idle.at = "idle" /\ Idle.kind = "idle"
  BY DEF Idle
<1>2. RunsGoOn /\ CloseoutsGoOn
  BY <1>1 DEF RunsGoOn, CloseoutsGoOn, RunsOn, ServesOn
<1> QED BY <1>2, SetAside, LockStep

LEMMA OperatorSingle ==
  ASSUME IInv, CInv, SInv, NEW p \in Process, Operator(p)
  PROVE  SInv'
<1>1. CASE RecoverInterruptedNow(p) \/ RecoverAuditJobs(p)
  <2>1. RowsStay /\ \A t \in Txn : txn'[t].status \in Unresolved => txn[t].status \in Unresolved
    BY <1>1, RowsMoved DEF RecoverInterruptedNow, RecoverAuditJobs, IInv
  <2> QED BY <1>1, <2>1, BindingsUnmoved, LeasesUnmoved, SameProcesses, ElsewhereSingle
          DEF RecoverInterruptedNow, RecoverAuditJobs
<1>2. ASSUME NEW t \in Txn, Reconcile(p, t) \/ CancelRemediation(p, t)
      PROVE  SInv'
  <2>1. RowsStay /\ \A u \in Txn : txn'[u].status \in Unresolved => txn[u].status \in Unresolved
    BY <1>2, ReconcileWrites, CancelWrites DEF IInv
  <2>2. UNCHANGED <<up, bound, lease, closeout, req>>
    BY <1>2 DEF Reconcile, ResolveNotApplied, ResolvePrepareRollback, ResolveRestoredManually, MayReconcile,
       CancelRemediation
  <2> QED BY <2>1, <2>2, BindingsUnmoved, LeasesUnmoved, SameProcesses, ElsewhereSingle
<1>3. ASSUME NEW a \in Alias, Rebind(p, a)
      PROVE  SInv'
  <2>1. BindingsMoveUnused /\ LeasesKept
    BY <1>3, BindingMovesUnused, LeasesCleaned DEF Rebind
  <2>2. RowsStay /\ \A t \in Txn : txn'[t].status \in Unresolved => txn[t].status \in Unresolved
    BY <1>3, RowsMoved DEF Rebind, IInv
  <2> QED BY <1>3, <2>1, <2>2, SameProcesses, ElsewhereSingle DEF Rebind
<1> QED BY <1>1, <1>2, <1>3 DEF Operator

LEMMA EnvironmentSingle ==
  ASSUME SingleController, IInv, CInv, SInv, Environment
  PROVE  SInv'
<1>1. ASSUME NEW a \in Alias, Relocate(a)
      PROVE  SInv'
  <2>1. RowsStay /\ \A t \in Txn : txn'[t].status \in Unresolved => txn[t].status \in Unresolved
    BY <1>1, RowsMoved DEF Relocate, IInv
  <2> QED BY <1>1, <2>1, BindingsUnmoved, LeasesUnmoved, SameProcesses, ElsewhereSingle DEF Relocate
<1>2. ASSUME NEW p \in Process, Start(p) \/ Crash(p)
      PROVE  SInv'
  <2>1. UpTogether'
    <3>1. CASE Start(p)
      BY <3>1 DEF Start, SInv, UpTogether, IInv, TypeOK
    <3>2. CASE Crash(p)
      BY <3>2 DEF Crash, SInv, UpTogether, IInv, TypeOK
    <3> QED BY <1>2, <3>1, <3>2
  <2>2. \A s \in Request : req'[s] = req[s] \/ req'[s] = Idle
    BY <1>2 DEF Start, Crash
  <2>3. UNCHANGED <<bound, lease, txn, closeout>>
    BY <1>2 DEF Start, Crash
  <2>4. RowsStay /\ \A t \in Txn : txn'[t].status \in Unresolved => txn[t].status \in Unresolved
    BY <2>3, RowsMoved DEF IInv
  <2> QED BY <2>1, <2>2, <2>3, <2>4, BindingsUnmoved, LeasesUnmoved, ElsewhereSingle
<1> QED BY <1>1, <1>2, EndCommandSingle DEF Environment

-----------------------------------------------------------------------------
(* The theorems *)

LEMMA InitSingle == Init => SInv
BY DEF Init, SInv, UpTogether, LeasesHeld, Running, ClaimsHeld, LiveRunsExclusive, NeverBoth, OneClosesOut, ClosedOut, Settled, Idle, NoRow,
   NoCloseout,
   Unresolved, Working

LEMMA NextSingle == SingleController /\ IInv /\ CInv /\ XInv /\ SInv /\ [Next]_vars => SInv'
<1> SUFFICES ASSUME SingleController, IInv, CInv, XInv, SInv, [Next]_vars
             PROVE  SInv'
  OBVIOUS
<1>1. ASSUME NEW r \in Request, Arrival(r)
      PROVE  SInv'
  BY <1>1, ServeSingle, StartCloseoutSingle, RecoverCloseoutSingle, StartRollbackSingle DEF Arrival
<1>2. ASSUME NEW r \in Request, Progress(r)
      PROVE  SInv'
  BY <1>2, ObserveSingle, CreateRemediationSingle, ClaimRollbackSingle, AcquireSingle, GiveUpSingle,
     EndRunSingle, EndSingle, RecordApplySingle, HolderSingle DEF Progress
<1>3. CASE UNCHANGED vars
  <2>1. RowsStay /\ \A t \in Txn : txn'[t].status \in Unresolved => txn[t].status \in Unresolved
    BY <1>3, RowsMoved DEF vars, IInv
  <2> QED BY <1>3, <2>1, BindingsUnmoved, LeasesUnmoved, SameProcesses, ElsewhereSingle DEF vars
<1> QED BY <1>1, <1>2, <1>3, OperatorSingle, EnvironmentSingle DEF Next

FullInv == IInv /\ CInv /\ XInv /\ SInv

LEMMA Single == ASSUME SingleController PROVE Spec => []FullInv
<1>1. Init => FullInv
  BY InitInvariant, InitTrue, InitExcludes, InitSingle DEF FullInv
<1>2. FullInv /\ [Next]_vars => FullInv'
  BY NextInvariant, NextTrue, NextExcludes, NextSingle DEF FullInv
<1> QED BY <1>1, <1>2, PTL DEF Spec

(* With one controller at a time two live runs are never on linked aliases:  *)
(* the leases and the claims of closeouts keep them apart.                  *)
THEOREM RunsAreExclusive == SingleController => (Spec => []LiveRunsExclusive)
<1> SUFFICES ASSUME SingleController PROVE Spec => []LiveRunsExclusive
  OBVIOUS
<1>1. FullInv => LiveRunsExclusive
  BY DEF FullInv, SInv
<1> QED BY Single, <1>1, PTL

(* With one controller at a time a closeout and a transaction never bar the *)
(* same machine together, so neither waits for the other to be settled.     *)
THEOREM CloseoutsMeetNoRemediation == SingleController => (Spec => []CloseoutExcludesRemediation)
<1> SUFFICES ASSUME SingleController PROVE Spec => []CloseoutExcludesRemediation
  OBVIOUS
<1>1. FullInv => CloseoutExcludesRemediation
  <2> SUFFICES ASSUME FullInv, NEW x \in Asset, NEW a \in ClosingOut(x), NEW t \in Holding(x)
               PROVE  FALSE
    BY DEF CloseoutExcludesRemediation
  <2>1. a \in Alias /\ bound[a].asset = x /\ ClosedOut(a)
    BY DEF ClosingOut, ClosedOut
  <2>2. t \in Txn /\ txn[t].status \in Unresolved /\ txn[t].snap.asset = x /\ Fresh(t)
    BY DEF Holding, UnresolvedOn, Fresh
  <2> QED BY <2>1, <2>2 DEF FullInv, SInv, NeverBoth
<1> QED BY Single, <1>1, PTL

LEMMA StepMovesUnused ==
  ASSUME FullInv, [Next]_vars
  PROVE  BindingsMoveUnused
<1>1. ASSUME NEW r \in Request, Capture(r) \/ Probe(r)
      PROVE  BindingsMoveUnused
  <2>1. req[r].proc \in Process /\ up[req[r].proc] = "up" /\ req[r].alias \in Alias
    BY <1>1, Busy DEF Capture, Probe, Is, ThreadGood, FullInv
  <2> QED BY <1>1, <2>1, ObservationIsQuiet DEF Capture, Probe, FullInv
<1>2. ASSUME NEW p \in Process, NEW a \in Alias, Rebind(p, a)
      PROVE  BindingsMoveUnused
  BY <1>2, BindingMovesUnused DEF Rebind, FullInv
<1>3. ASSUME NEW r \in Request, Arrival(r)
      PROVE  UNCHANGED bound
  BY <1>3 DEF Arrival, CreateAuditJob, StartDirectRun, StartApply, StartCloseout, RecoverCloseout, StartRollback
<1>4. ASSUME NEW r \in Request, Progress(r)
      PROVE  BindingsMoveUnused
  <2>1. CASE Capture(r) \/ Probe(r)
    BY <1>1, <2>1
  <2>2. CASE ~ (Capture(r) \/ Probe(r))
    <3>1. UNCHANGED bound
      BY <1>4, <2>2 DEF Progress, CreateRemediation, ClaimRollback, AcquireAssetExecution, GiveUp, EndRun,
         FinishAudit, RecordApply, RecordRollback, RecordCloseout, CompleteLocal, CompleteLocalFails, ReleaseCloseout
    <3> QED BY <3>1, BindingsUnmoved
  <2> QED BY <2>1, <2>2
<1>5. ASSUME NEW p \in Process, Operator(p)
      PROVE  BindingsMoveUnused
  <2>1. CASE \E a \in Alias : Rebind(p, a)
    BY <1>2, <2>1
  <2>2. CASE ~ \E a \in Alias : Rebind(p, a)
    <3>1. UNCHANGED bound
      BY <1>5, <2>2 DEF Operator, RecoverInterruptedNow, RecoverAuditJobs, Reconcile, ResolveNotApplied,
         ResolvePrepareRollback, ResolveRestoredManually, MayReconcile, CancelRemediation
    <3> QED BY <3>1, BindingsUnmoved
  <2> QED BY <2>1, <2>2
<1>6. CASE Environment \/ UNCHANGED vars
  BY <1>6, BindingsUnmoved DEF Environment, EndCommand, Relocate, Start, Crash, vars
<1> QED BY <1>3, <1>4, <1>5, <1>6, BindingsUnmoved DEF Next

(* With one controller at a time a binding gets a new generation only while *)
(* no unresolved transaction has its snapshot and no run holds its lease.   *)
THEOREM BindingsStayUnderUse == SingleController => (Spec => BindingStaysUnderUse)
<1> SUFFICES ASSUME SingleController PROVE Spec => BindingStaysUnderUse
  OBVIOUS
<1>1. ASSUME FullInv, [Next]_vars, NEW a \in Alias, bound'[a] # bound[a]
      PROVE  /\ \A t \in Txn : txn[t].alias = a /\ txn[t].snap = bound[a] => txn[t].status \notin Unresolved
             /\ \A r \in Request : req[r].at = "run" => req[r].alias # a
  <2>1. BindingsMoveUnused
    BY <1>1, StepMovesUnused
  <2> QED BY <1>1, <2>1 DEF BindingsMoveUnused, Unused
<1>2. FullInv /\ [Next]_vars =>
        [\A a \in Alias : bound'[a] # bound[a]
           => /\ \A t \in Txn : txn[t].alias = a /\ txn[t].snap = bound[a] => txn[t].status \notin Unresolved
              /\ \A r \in Request : req[r].at = "run" => req[r].alias # a]_vars
  BY <1>1
<1> QED BY Single, <1>2, PTL DEF BindingStaysUnderUse, Spec

-----------------------------------------------------------------------------
(* AssetLocks implements MachineLock: to the machines, the unresolved rows  *)
(* and the closeouts of the store are one lock each, which is taken when it *)
(* is free, under which one command runs at a time, and which is left when  *)
(* none runs.                                                               *)

(* A machine has one holder at most, and is changed for its holder only.    *)
HoldersAlone ==
  \A x \in Asset : /\ \A i, j \in LockHeld[x] : i = j
                   /\ LockBusy[x] \subseteq LockHeld[x]

LEMMA Alone == FullInv => HoldersAlone
<1> SUFFICES ASSUME FullInv, NEW x \in Asset
             PROVE  /\ \A i, j \in LockHeld[x] : i = j
                    /\ LockBusy[x] \subseteq LockHeld[x]
  BY DEF HoldersAlone
<1>1. LockHeld[x] = Holding(x) \cup ClosingOut(x)
  BY DEF LockHeld
<1>2. \A t \in Holding(x) : t \in Txn /\ txn[t].status \in Unresolved /\ txn[t].snap.asset = x /\ Fresh(t)
  BY DEF Holding, UnresolvedOn, Fresh
<1>3. \A a \in ClosingOut(x) : a \in Alias /\ bound[a].asset = x /\ ClosedOut(a)
  BY DEF ClosingOut, ClosedOut
<1>4. \A t, u \in Holding(x) : t = u
  BY DEF Holding, FullInv, IInv, Rows, OneUnresolvedPerAsset
<1>5. \A a, b \in ClosingOut(x) : a = b
  BY <1>3 DEF FullInv, SInv, OneClosesOut
<1>6. Holding(x) = {} \/ ClosingOut(x) = {}
  BY <1>2, <1>3 DEF FullInv, SInv, NeverBoth
<1>7. ASSUME NEW c \in remote, c.asset = x
      PROVE  HolderOf(c) \in Holding(x) \cup ClosingOut(x)
  <2>1. CommandTrue(c)
    BY DEF FullInv, CInv, CommandsTrue
  <2>2. CASE c.txn = 0
    <3>1. c.alias \in Alias
      BY DEF FullInv, IInv, TypeOK, Remote
    <3> QED BY <1>7, <2>1, <2>2, <3>1 DEF CommandTrue, HolderOf, ClosingOut, Revoking, Settled
  <2>3. CASE c.txn # 0
    <3>1. c.txn \in Txn /\ txn[c.txn].status \in Unresolved
      BY <2>3, CommandsOfRows DEF FullInv
    <3>2. Fresh(c.txn)
      BY <2>3 DEF FullInv, XInv, ChangesAreFresh
    <3> QED BY <1>7, <2>1, <2>3, <3>1, <3>2 DEF CommandTrue, HolderOf, Holding, UnresolvedOn, Fresh
  <2> QED BY <2>2, <2>3
<1>8. LockBusy[x] \subseteq LockHeld[x]
  BY <1>1, <1>7 DEF LockBusy
<1> QED BY <1>1, <1>4, <1>5, <1>6, <1>8

-----------------------------------------------------------------------------
(* Steps of the lock *)

LockStutters == LockHeld' = LockHeld /\ LockBusy' = LockBusy

(* Only the hold of h on machine m may change, while nobody comes or goes   *)
(* that is changing a machine.                                              *)
LEMMA TakenOrLeft ==
  ASSUME HoldersAlone, HoldersAlone', LockBusy' = LockBusy,
         NEW m \in Asset, NEW h \in Alias \cup Txn,
         \A x \in Asset \ {m} : LockHeld'[x] = LockHeld[x],
         LockHeld'[m] \ {h} = LockHeld[m] \ {h}
  PROVE  Lock!Next \/ LockStutters
<1>1. LockHeld = [x \in Asset |-> LockHeld[x]] /\ LockHeld' = [x \in Asset |-> LockHeld'[x]]
  BY DEF LockHeld
<1>2. /\ \A i, j \in LockHeld[m] : i = j
      /\ \A i, j \in LockHeld'[m] : i = j
      /\ LockBusy[m] \subseteq LockHeld[m] /\ LockBusy[m] \subseteq LockHeld'[m]
  BY DEF HoldersAlone
<1>3. CASE LockHeld'[m] = LockHeld[m]
  BY <1>1, <1>3 DEF LockStutters
<1>4. CASE h \in LockHeld'[m] /\ h \notin LockHeld[m]
  <2>1. LockHeld'[m] = {h} /\ LockHeld[m] = {} /\ LockBusy[m] = {}
    BY <1>2, <1>4
  <2>2. LockHeld' = [LockHeld EXCEPT ![m] = {h}]
    BY <1>1, <2>1
  <2>3. Lock!Take(m, h)
    BY <2>1, <2>2 DEF Lock!Take, Lock!Free
  <2> QED BY <2>3 DEF Lock!Next
<1>5. CASE h \in LockHeld[m] /\ h \notin LockHeld'[m]
  <2>1. LockHeld'[m] = {} /\ LockBusy[m] = {}
    BY <1>2, <1>5
  <2>2. LockHeld' = [LockHeld EXCEPT ![m] = {}]
    BY <1>1, <2>1
  <2>3. Lock!Leave(m)
    BY <2>1, <2>2 DEF Lock!Leave
  <2> QED BY <2>3 DEF Lock!Next
<1> QED BY <1>3, <1>4, <1>5

-----------------------------------------------------------------------------
(* Steps that leave the records of the lock alone, but for one *)

RowSame(t) ==
  /\ txn'[t].snap = txn[t].snap /\ txn'[t].alias = txn[t].alias
  /\ txn'[t].status \in Unresolved <=> txn[t].status \in Unresolved

CloseoutSame(a) == closeout'[a].status \in Settled <=> closeout[a].status \in Settled

LEMMA RowHoldsOn ==
  ASSUME IInv, BindingsMoveUnused, NEW t \in Txn, RowSame(t), NEW x
  PROVE  (t \in Holding(x))' <=> t \in Holding(x)
<1>1. txn[t].status \in Unresolved => txn[t].alias \in Alias
  BY DEF IInv, Rows, RowsGood, RowGood, Unresolved, Working
<1> QED BY <1>1 DEF RowSame, Holding, UnresolvedOn, BindingsMoveUnused, Unused

LEMMA CloseoutHoldsOn ==
  ASSUME BindingsMoveUnused, NEW a \in Alias, CloseoutSame(a), NEW x
  PROVE  (a \in ClosingOut(x))' <=> a \in ClosingOut(x)
BY DEF CloseoutSame, ClosingOut, BindingsMoveUnused, Unused, ClosedOut

LEMMA HoldersOf ==
  ASSUME NEW x \in Asset
  PROVE  /\ LockHeld[x] = Holding(x) \cup ClosingOut(x)
         /\ LockHeld'[x] = Holding(x)' \cup ClosingOut(x)'
         /\ Holding(x) \subseteq Txn /\ ClosingOut(x) \subseteq Alias
         /\ Holding(x)' \subseteq Txn /\ ClosingOut(x)' \subseteq Alias
BY DEF LockHeld, Holding, UnresolvedOn, ClosingOut

LEMMA HoldStays ==
  ASSUME IInv, BindingsMoveUnused, \A t \in Txn : RowSame(t), \A a \in Alias : CloseoutSame(a)
  PROVE  LockHeld' = LockHeld
<1>1. ASSUME NEW x \in Asset
      PROVE  Holding(x)' = Holding(x) /\ ClosingOut(x)' = ClosingOut(x)
  <2>1. \A t \in Txn : t \in Holding(x)' <=> t \in Holding(x)
    BY RowHoldsOn
  <2>2. \A a \in Alias : a \in ClosingOut(x)' <=> a \in ClosingOut(x)
    BY CloseoutHoldsOn
  <2> QED BY <1>1, <2>1, <2>2, HoldersOf
<1> QED BY <1>1 DEF LockHeld

LEMMA BusyStays == ASSUME UNCHANGED remote PROVE LockBusy' = LockBusy
BY DEF LockBusy, HolderOf

LEMMA StillStep ==
  ASSUME IInv, BindingsMoveUnused, \A t \in Txn : RowSame(t), \A a \in Alias : CloseoutSame(a),
         UNCHANGED remote
  PROVE  LockStutters
BY HoldStays, BusyStays DEF LockStutters

(* One transaction takes or leaves the lock of its machine.                 *)
LEMMA RowStep ==
  ASSUME IInv, HoldersAlone, HoldersAlone', BindingsMoveUnused, UNCHANGED remote,
         \A a \in Alias : CloseoutSame(a),
         NEW t \in Txn, \A u \in Txn : u # t => RowSame(u),
         txn'[t].snap = txn[t].snap \/ txn[t].status \notin Unresolved
  PROVE  Lock!Next \/ LockStutters
<1> DEFINE m == txn'[t].snap.asset
<1>1. \A x \in Asset : x # m => t \notin Holding(x) /\ t \notin Holding(x)'
  BY DEF Holding, UnresolvedOn
<1>2. \A x \in Asset, u \in Txn : u # t => (u \in Holding(x)' <=> u \in Holding(x))
  BY RowHoldsOn
<1>3. \A x \in Asset : ClosingOut(x)' = ClosingOut(x)
  BY CloseoutHoldsOn, HoldersOf
<1>4. \A x \in Asset : x # m => LockHeld'[x] = LockHeld[x]
  <2>1. ASSUME NEW x \in Asset, x # m
        PROVE  Holding(x)' = Holding(x)
    <3>1. \A u \in Txn : u \in Holding(x)' <=> u \in Holding(x)
      BY <1>1, <1>2, <2>1
    <3> QED BY <2>1, <3>1, HoldersOf
  <2> QED BY <1>3, <2>1, HoldersOf
<1>5. CASE m \in Asset
  <2>1. LockHeld'[m] \ {t} = LockHeld[m] \ {t}
    BY <1>2, <1>3, <1>5, HoldersOf
  <2> QED BY <1>4, <1>5, <2>1, BusyStays, TakenOrLeft
<1>6. CASE m \notin Asset
  <2>1. \A x \in Asset : LockHeld'[x] = LockHeld[x]
    BY <1>4, <1>6
  <2> QED BY <2>1, BusyStays DEF LockHeld, LockStutters
<1> QED BY <1>5, <1>6

(* One closeout takes or leaves the lock of its machine.                    *)
LEMMA SettleCloseoutStep ==
  ASSUME IInv, HoldersAlone, HoldersAlone', UNCHANGED <<bound, remote>>, \A t \in Txn : RowSame(t),
         NEW a \in Alias, \A b \in Alias \ {a} : CloseoutSame(b)
  PROVE  Lock!Next \/ LockStutters
<1> DEFINE m == bound[a].asset
<1>1. \A x \in Asset : x # m => a \notin ClosingOut(x) /\ a \notin ClosingOut(x)'
  BY DEF ClosingOut
<1>2. \A x \in Asset, b \in Alias : b # a => (b \in ClosingOut(x)' <=> b \in ClosingOut(x))
  BY BindingsUnmoved, CloseoutHoldsOn
<1>3. ASSUME NEW x \in Asset
      PROVE  Holding(x)' = Holding(x)
  <2>1. \A t \in Txn : t \in Holding(x)' <=> t \in Holding(x)
    BY BindingsUnmoved, RowHoldsOn
  <2> QED BY <2>1, HoldersOf
<1>4. \A x \in Asset : x # m => LockHeld'[x] = LockHeld[x]
  <2>1. ASSUME NEW x \in Asset, x # m
        PROVE  ClosingOut(x)' = ClosingOut(x)
    <3>1. \A b \in Alias : b \in ClosingOut(x)' <=> b \in ClosingOut(x)
      BY <1>1, <1>2, <2>1
    <3> QED BY <2>1, <3>1, HoldersOf
  <2> QED BY <1>3, <2>1, HoldersOf
<1>5. CASE m \in Asset
  <2>1. LockHeld'[m] \ {a} = LockHeld[m] \ {a}
    BY <1>2, <1>3, <1>5, HoldersOf
  <2> QED BY <1>4, <1>5, <2>1, BusyStays, TakenOrLeft
<1>6. CASE m \notin Asset
  <2>1. \A x \in Asset : LockHeld'[x] = LockHeld[x]
    BY <1>4, <1>6
  <2> QED BY <2>1, BusyStays DEF LockHeld, LockStutters
<1> QED BY <1>5, <1>6
-----------------------------------------------------------------------------
(* Requests *)

LEMMA RowsSame ==
  ASSUME TypeOK, NEW p, UNCHANGED txn \/ txn' = RecoverInterrupted(p)
  PROVE  \A t \in Txn : RowSame(t)
BY RowsRecovered DEF RowsAlike, RowSame

LEMMA CloseoutsSame ==
  ASSUME UNCHANGED closeout
  PROVE  \A a \in Alias : CloseoutSame(a)
BY DEF CloseoutSame

(* Requests that arrive, probe, end or give up leave the lock alone.        *)
LEMMA QuietLock ==
  ASSUME IInv, BindingsMoveUnused, UNCHANGED <<txn, closeout, remote>>
  PROVE  LockStutters
BY RowsSame, CloseoutsSame, StillStep DEF IInv

LEMMA RecoverCloseoutLock ==
  ASSUME IInv, NEW r \in Request, NEW p \in Process, NEW a \in Alias, NEW resolution,
         RecoverCloseout(r, p, a, resolution)
  PROVE  LockStutters
<1>1. UNCHANGED <<bound, remote>> /\ txn' = RecoverInterrupted(p)
  BY DEF RecoverCloseout
<1>2. PICK row : row = [closeout[a] EXCEPT !.owner = p, !.claim = r]
  OBVIOUS
<1>3. closeout' = [closeout EXCEPT ![a] = row]
  BY <1>2 DEF RecoverCloseout, IInv, TypeOK
<1>4. row.status = closeout[a].status
  BY <1>2 DEF IInv, TypeOK, Closeout
<1>5. \A b \in Alias : CloseoutSame(b)
  BY <1>3, <1>4 DEF CloseoutSame, IInv, TypeOK
<1> QED BY <1>1, <1>5, RowsSame, BindingsUnmoved, StillStep DEF IInv

(* A closeout begins: it takes the lock and its revocation runs at once.     *)
LEMMA StartCloseoutLock ==
  ASSUME IInv, HoldersAlone, HoldersAlone', NEW r \in Request, NEW p \in Process, NEW a \in Alias,
         StartCloseout(r, p, a)
  PROVE  Lock!Next \/ LockStutters
<1> DEFINE m == bound[a].asset
<1>1. PICK c : /\ c = [req |-> r, owner |-> p, cmd |-> "revoke", alias |-> a, asset |-> m, txn |-> 0]
               /\ remote' = remote \cup {c}
  BY DEF StartCloseout
<1>2. HolderOf(c) = a /\ c.asset = m
  BY <1>1 DEF HolderOf
<1>3. UNCHANGED bound /\ txn' = RecoverInterrupted(p) /\ closeout[a].status \in Settled
  BY DEF StartCloseout
<1>4. /\ closeout'[a].status = "in_progress"
      /\ \A b \in Alias : b # a => closeout'[b] = closeout[b]
  BY DEF StartCloseout, IInv, TypeOK
<1>5. ASSUME NEW x \in Asset
      PROVE  Holding(x)' = Holding(x)
  <2>1. \A t \in Txn : t \in Holding(x)' <=> t \in Holding(x)
    BY <1>3, RowsSame, BindingsUnmoved, RowHoldsOn DEF IInv
  <2> QED BY <2>1, HoldersOf
<1>6. ASSUME NEW x \in Asset
      PROVE  ClosingOut(x)' = IF x = m THEN ClosingOut(x) \cup {a} ELSE ClosingOut(x)
  BY <1>3, <1>4 DEF ClosingOut, Settled
<1>7. ASSUME NEW x \in Asset
      PROVE  LockBusy'[x] = IF x = m THEN LockBusy[x] \cup {a} ELSE LockBusy[x]
  BY <1>1, <1>2 DEF LockBusy, HolderOf
<1>8. CASE m \in Asset
  <2>1. a \notin LockHeld[m]
    BY <1>3, <1>8, HoldersOf, AssetLocksAssumption DEF ClosingOut
  <2>2. LockHeld'[m] = LockHeld[m] \cup {a}
    BY <1>5, <1>6, <1>8, HoldersOf
  <2>3. LockHeld[m] = {} /\ LockHeld'[m] = {a}
    BY <1>8, <2>1, <2>2 DEF HoldersAlone
  <2>4. LockBusy[m] = {} /\ LockBusy'[m] = {a}
    BY <1>7, <1>8, <2>3 DEF HoldersAlone
  <2>5. LockHeld' = [LockHeld EXCEPT ![m] = {a}]
    <3>1. \A x \in Asset : x # m => LockHeld'[x] = LockHeld[x]
      BY <1>5, <1>6, HoldersOf
    <3> QED BY <2>3, <3>1 DEF LockHeld
  <2>6. LockBusy' = [LockBusy EXCEPT ![m] = {a}]
    BY <1>7, <2>4 DEF LockBusy
  <2>7. Lock!TakeAndBegin(m, a)
    BY <2>3, <2>4, <2>5, <2>6 DEF Lock!TakeAndBegin, Lock!Free
  <2> QED BY <1>8, <2>7 DEF Lock!Next
<1>9. CASE m \notin Asset
  <2>1. \A x \in Asset : LockHeld'[x] = LockHeld[x] /\ LockBusy'[x] = LockBusy[x]
    BY <1>5, <1>6, <1>7, <1>9, HoldersOf
  <2> QED BY <2>1 DEF LockHeld, LockBusy, LockStutters
<1> QED BY <1>8, <1>9

(* The next command of a transaction is sent: its machine was not being     *)
(* changed.                                                                 *)
LEMMA AcquireLock ==
  ASSUME FullInv, FullInv', HoldersAlone', NEW r \in Request, AcquireAssetExecution(r)
  PROVE  Lock!Next \/ LockStutters
<1> DEFINE t == req[r].txn
<1>1. /\ req[r] \in Thread /\ ThreadGood(req[r]) /\ ThreadTrue(req[r]) /\ req[r].at = "lease"
  BY Busy DEF AcquireAssetExecution, FullInv, CInv, ThreadsTrue
<1>2. UNCHANGED <<bound, txn, closeout>>
  BY DEF AcquireAssetExecution
<1>3. LockHeld' = LockHeld
  BY <1>2, RowsSame, CloseoutsSame, BindingsUnmoved, HoldStays DEF FullInv, IInv
<1>4. CASE req[r].cmd \notin Mutating
  <2>1. remote' = remote
    BY <1>4 DEF AcquireAssetExecution
  <2> QED BY <1>3, <2>1, BusyStays DEF LockStutters
<1>5. CASE req[r].cmd \in Mutating
  <2>1. Engaged(req[r])
    BY <1>1, <1>5 DEF ThreadTrue, Thread, Mutating, ReadOnly, Engaged
  <2>2. t \in Txn /\ txn[t].status # "none" /\ req[r].snap.asset = txn[t].snap.asset
    BY <1>1, <2>1 DEF ThreadGood, ThreadTrue, Working
  <2>3. PICK m \in Asset : m = txn[t].snap.asset
    BY <2>2 DEF FullInv, CInv, Named
  <2>4. PICK c : /\ c = [req |-> r, owner |-> req[r].proc, cmd |-> req[r].cmd, alias |-> req[r].alias,
                         asset |-> req[r].snap.asset, txn |-> t]
                 /\ remote' = remote \cup {c}
    <3>1. PICK c : c = [req |-> r, owner |-> req[r].proc, cmd |-> req[r].cmd, alias |-> req[r].alias,
                        asset |-> req[r].snap.asset, txn |-> t]
      OBVIOUS
    <3>2. c.cmd \in Mutating
      BY <1>5, <3>1
    <3>3. remote' = remote \cup {d \in {c} : d.cmd \in Mutating}
      BY <3>1 DEF AcquireAssetExecution
    <3> QED BY <3>1, <3>2, <3>3
  <2>5. c.txn = t /\ c.asset = m /\ HolderOf(c) = t
    BY <2>2, <2>3, <2>4 DEF HolderOf, Txn
  <2>6. c \notin remote
    <3>1. WorksFor(r, c)
      BY <2>1, <2>2, <2>5 DEF WorksFor, Txn
    <3>2. ~ Undecided(req[r])
      BY <1>1 DEF Undecided
    <3> QED BY <3>1, <3>2, NotRunning DEF FullInv
  <2>7. \A d \in remote : d.asset # m
    <3>1. OneChangePerAsset'
      <4>1. (IInv /\ CInv /\ XInv)'
        BY DEF FullInv
      <4> QED BY <4>1, OneAtATime, PTL
    <3> QED BY <2>4, <2>5, <2>6, <3>1, AssetLocksAssumption DEF OneChangePerAsset
  <2>8. LockBusy[m] = {} /\ LockBusy'[m] = {t}
    BY <2>4, <2>5, <2>7 DEF LockBusy, HolderOf
  <2>9. LockHeld[m] = {t}
    BY <1>3, <2>8 DEF HoldersAlone
  <2>10. \A x \in Asset : x # m => LockBusy'[x] = LockBusy[x]
    BY <2>4, <2>5 DEF LockBusy, HolderOf
  <2>11. LockBusy' = [LockBusy EXCEPT ![m] = {t}]
    BY <2>8, <2>10 DEF LockBusy
  <2>12. Lock!Begin(m, t)
    BY <1>3, <2>8, <2>9, <2>11 DEF Lock!Begin
  <2> QED BY <2>2, <2>12 DEF Lock!Next
<1> QED BY <1>4, <1>5

(* A command ends.                                                          *)
LEMMA EndCommandLock ==
  ASSUME FullInv, NEW c \in remote, EndCommand(c)
  PROVE  Lock!Next \/ LockStutters
<1>1. remote' = remote \ {c} /\ UNCHANGED <<bound, txn, closeout>>
  BY DEF EndCommand
<1>2. LockHeld' = LockHeld
  BY <1>1, RowsSame, CloseoutsSame, BindingsUnmoved, HoldStays DEF FullInv, IInv
<1>3. \A x \in Asset : x # c.asset => LockBusy'[x] = LockBusy[x]
  BY <1>1 DEF LockBusy, HolderOf
<1>4. CASE c.asset \in Asset
  <2>1. OneChangePerAsset
    BY OneAtATime DEF FullInv
  <2>2. \A d \in remote' : d.asset # c.asset
    BY <1>1, <1>4, <2>1, AssetLocksAssumption DEF OneChangePerAsset
  <2>3. LockBusy'[c.asset] = {}
    BY <1>4, <2>2 DEF LockBusy
  <2>4. LockBusy' = [LockBusy EXCEPT ![c.asset] = {}]
    BY <1>3, <2>3 DEF LockBusy
  <2>5. Lock!End(c.asset)
    BY <1>2, <2>4 DEF Lock!End
  <2> QED BY <1>4, <2>5 DEF Lock!Next
<1>5. CASE c.asset \notin Asset
  <2>1. LockBusy' = LockBusy
    BY <1>3, <1>5 DEF LockBusy
  <2> QED BY <1>2, <2>1 DEF LockStutters
<1> QED BY <1>4, <1>5
-----------------------------------------------------------------------------
(* Rows and closeouts are written *)

LEMMA WrittenLock ==
  ASSUME FullInv, HoldersAlone, HoldersAlone', NEW t \in Txn, NEW row, txn' = [txn EXCEPT ![t] = row],
         RowsStay, UNCHANGED <<bound, closeout, remote>>
  PROVE  Lock!Next \/ LockStutters
<1>1. \A u \in Txn : u # t => RowSame(u)
  BY DEF RowSame, FullInv, IInv, TypeOK
<1>2. txn'[t].snap = txn[t].snap
  BY DEF RowsStay
<1> QED BY <1>1, <1>2, CloseoutsSame, BindingsUnmoved, RowStep DEF FullInv

LEMMA CreateRemediationLock ==
  ASSUME FullInv, HoldersAlone, HoldersAlone', NEW r \in Request, CreateRemediation(r)
  PROVE  Lock!Next \/ LockStutters
<1>1. PICK t \in Txn : /\ \A u \in Txn : txn[u] = NoRow <=> u >= t
                       /\ txn' = [RecoverInterrupted(req[r].proc) EXCEPT
                            ![t] = [status |-> "preparing", from |-> "none", alias |-> req[r].alias,
                                    snap |-> req[r].snap, owner |-> req[r].proc, backup |-> FALSE]]
  BY DEF CreateRemediation
<1>2. txn[t].status \notin Unresolved
  <2>1. txn[t] = NoRow
    BY <1>1 DEF Txn
  <2> QED BY <2>1 DEF NoRow, Unresolved, Working
<1>3. \A u \in Txn : u # t => txn'[u] = RecoverInterrupted(req[r].proc)[u]
  BY <1>1, RecoveredTyped DEF FullInv, IInv
<1>4. \A u \in Txn : u # t => RowSame(u)
  BY <1>3, InterruptedRow DEF RowSame, FullInv, IInv
<1>5. UNCHANGED <<bound, closeout, remote>>
  BY DEF CreateRemediation
<1> QED BY <1>2, <1>4, <1>5, CloseoutsSame, BindingsUnmoved, RowStep DEF FullInv

LEMMA ClaimRollbackLock ==
  ASSUME FullInv, HoldersAlone, HoldersAlone', NEW r \in Request, ClaimRollback(r)
  PROVE  Lock!Next \/ LockStutters
<1> DEFINE t == req[r].txn
           rows == RecoverInterrupted(req[r].proc)
<1>1. req[r].kind = "rollback" /\ req[r].at = "admit" /\ t \in Txn
  BY Busy DEF ClaimRollback, Is, ThreadGood, FullInv
<1>2. rows \in [Txn -> Row]
  BY RecoveredTyped DEF FullInv, IInv
<1>3. PICK row : row = [rows[t] EXCEPT !.status = "rolling_back", !.owner = req[r].proc, !.from = "none"]
  OBVIOUS
<1>4. \A u \in Txn : txn'[u] = IF u = t THEN row ELSE rows[u]
  BY <1>2, <1>3 DEF ClaimRollback
<1>5. txn'[t].snap = txn[t].snap
  <2>1. row.snap = rows[t].snap
    BY <1>1, <1>2, <1>3 DEF Row
  <2> QED BY <1>1, <1>4, <2>1, InterruptedRow DEF FullInv, IInv
<1>6. \A u \in Txn : u # t => RowSame(u)
  BY <1>4, InterruptedRow DEF RowSame, FullInv, IInv
<1>7. UNCHANGED <<bound, closeout, remote>>
  BY DEF ClaimRollback
<1> QED BY <1>1, <1>5, <1>6, <1>7, CloseoutsSame, BindingsUnmoved, RowStep DEF FullInv

LEMMA RecordLock ==
  ASSUME FullInv, HoldersAlone, HoldersAlone', NEW r \in Request, RecordApply(r) \/ RecordRollback(r)
  PROVE  Lock!Next \/ LockStutters
<1> DEFINE t == req[r].txn
<1>1. /\ req[r] \in Thread /\ ThreadGood(req[r]) /\ Engaged(req[r])
  BY Busy DEF RecordApply, RecordRollback, Is, Engaged, FullInv
<1>2. t \in Txn /\ txn[t].status \in Unresolved
  BY <1>1 DEF ThreadGood, Unresolved
<1>3. UNCHANGED <<bound, closeout, remote>>
  BY DEF RecordApply, RecordRollback
<1>4. CASE UNCHANGED txn
  BY <1>3, <1>4, BindingsUnmoved, QuietLock DEF FullInv
<1>5. ASSUME NEW status, NEW backup, UpdateRemediation(t, status, backup)
      PROVE  Lock!Next \/ LockStutters
  <2>1. RowsStay
    BY <1>2, <1>5, RowUpdated DEF FullInv, IInv
  <2>2. PICK row : txn' = [txn EXCEPT ![t] = row]
    BY <1>5 DEF UpdateRemediation, FullInv, IInv, TypeOK
  <2> QED BY <1>2, <1>3, <2>1, <2>2, WrittenLock
<1>6. UNCHANGED txn \/ \E status, backup : UpdateRemediation(t, status, backup)
  BY DEF RecordApply, RecordRollback
<1> QED BY <1>4, <1>5, <1>6

LEMMA HolderLock ==
  ASSUME FullInv, HoldersAlone, HoldersAlone', NEW r \in Request,
         RecordCloseout(r) \/ CompleteLocal(r) \/ CompleteLocalFails(r) \/ ReleaseCloseout(r)
  PROVE  Lock!Next \/ LockStutters
<1>1. req[r].alias \in Alias
  BY Busy DEF RecordCloseout, CompleteLocal, CompleteLocalFails, ReleaseCloseout, Is, FullInv
<1>2. UNCHANGED <<bound, txn, remote>>
  BY DEF RecordCloseout, CompleteLocal, CompleteLocalFails, ReleaseCloseout
<1>3. \A b \in Alias \ {req[r].alias} : closeout'[b] = closeout[b]
  BY DEF RecordCloseout, CompleteLocal, CompleteLocalFails, ReleaseCloseout, FullInv, IInv, TypeOK
<1> QED BY <1>1, <1>2, <1>3, RowsSame, SettleCloseoutStep DEF CloseoutSame, FullInv, IInv

-----------------------------------------------------------------------------
(* The operator, the machines and the processes *)

LEMMA OperatorLock ==
  ASSUME FullInv, HoldersAlone, HoldersAlone', NEW p \in Process, Operator(p)
  PROVE  Lock!Next \/ LockStutters
<1>1. CASE RecoverInterruptedNow(p) \/ RecoverAuditJobs(p)
  <2>1. UNCHANGED <<bound, closeout, remote>> /\ (UNCHANGED txn \/ txn' = RecoverInterrupted(p))
    BY <1>1 DEF RecoverInterruptedNow, RecoverAuditJobs
  <2> QED BY <2>1, RowsSame, CloseoutsSame, BindingsUnmoved, StillStep DEF FullInv, IInv
<1>2. ASSUME NEW t \in Txn, Reconcile(p, t) \/ CancelRemediation(p, t)
      PROVE  Lock!Next \/ LockStutters
  <2>1. RowsStay
    BY <1>2, ReconcileWrites, CancelWrites DEF FullInv, IInv
  <2>2. UNCHANGED <<bound, closeout, remote>>
    BY <1>2 DEF Reconcile, ResolveNotApplied, ResolvePrepareRollback, ResolveRestoredManually, MayReconcile,
       CancelRemediation
  <2>3. PICK row : txn' = [txn EXCEPT ![t] = row]
    BY <1>2 DEF Reconcile, ResolveNotApplied, ResolvePrepareRollback, ResolveRestoredManually,
       CancelRemediation, FullInv, IInv, TypeOK
  <2> QED BY <2>1, <2>2, <2>3, WrittenLock
<1>3. ASSUME NEW a \in Alias, Rebind(p, a), BindingsMoveUnused
      PROVE  Lock!Next \/ LockStutters
  BY <1>3, QuietLock DEF Rebind, FullInv
<1>4. ASSUME NEW a \in Alias, Rebind(p, a)
      PROVE  BindingsMoveUnused
  BY <1>4, BindingMovesUnused DEF Rebind, FullInv
<1> QED BY <1>1, <1>2, <1>3, <1>4 DEF Operator

LEMMA ProgressLock ==
  ASSUME FullInv, FullInv', HoldersAlone, HoldersAlone', BindingsMoveUnused,
         NEW r \in Request, Progress(r)
  PROVE  Lock!Next \/ LockStutters
<1>1. CASE Capture(r) \/ Probe(r) \/ GiveUp(r) \/ EndRun(r) \/ FinishAudit(r)
  BY <1>1, QuietLock DEF Capture, Probe, GiveUp, EndRun, FinishAudit, FullInv
<1> QED BY <1>1, CreateRemediationLock, ClaimRollbackLock, AcquireLock, RecordLock, HolderLock DEF Progress

LEMMA ArrivalLock ==
  ASSUME FullInv, HoldersAlone, HoldersAlone', BindingsMoveUnused, NEW r \in Request, Arrival(r)
  PROVE  Lock!Next \/ LockStutters
<1>1. ASSUME NEW p \in Process, NEW a \in Alias,
             CreateAuditJob(r, p, a) \/ StartDirectRun(r, p, a) \/ StartApply(r, p, a)
      PROVE  LockStutters
  BY <1>1, QuietLock DEF CreateAuditJob, StartDirectRun, StartApply, FullInv
<1>2. ASSUME NEW p \in Process, NEW t \in Txn, StartRollback(r, p, t)
      PROVE  LockStutters
  BY <1>2, QuietLock DEF StartRollback, FullInv
<1> QED BY <1>1, <1>2, StartCloseoutLock, RecoverCloseoutLock DEF Arrival, FullInv

LEMMA EnvironmentLock ==
  ASSUME FullInv, BindingsMoveUnused, Environment
  PROVE  Lock!Next \/ LockStutters
<1>1. CASE \E a \in Alias : Relocate(a)
  BY <1>1, QuietLock DEF Relocate, FullInv
<1>2. CASE \E p \in Process : Start(p) \/ Crash(p)
  BY <1>2, QuietLock DEF Start, Crash, FullInv
<1> QED BY <1>1, <1>2, EndCommandLock DEF Environment

LEMMA InitLock == Init => Lock!Init
<1> SUFFICES ASSUME Init PROVE Lock!Init
  OBVIOUS
<1>1. \A x \in Asset : Holding(x) = {} /\ ClosingOut(x) = {}
  BY DEF Init, Holding, UnresolvedOn, ClosingOut, NoRow, Unresolved, Working, NoCloseout, Settled
<1>2. \A x \in Asset : {HolderOf(c) : c \in {d \in remote : d.asset = x}} = {}
  BY DEF Init
<1> QED BY <1>1, <1>2 DEF Lock!Init, LockHeld, LockBusy

LEMMA NextLock ==
  ASSUME FullInv, FullInv', HoldersAlone, HoldersAlone', [Next]_vars
  PROVE  Lock!Next \/ LockStutters
<1>1. BindingsMoveUnused
  BY StepMovesUnused
<1>2. CASE UNCHANGED vars
  BY <1>1, <1>2, QuietLock DEF vars, FullInv
<1> QED BY <1>1, <1>2, ArrivalLock, ProgressLock, OperatorLock, EnvironmentLock DEF Next

(* With one controller at a time, every behaviour of the store, its requests, *)
(* crashes and operators is one of a lock per machine.                      *)
THEOREM StoreIsMachineLock == SingleController => (Spec => ImplementsMachineLock)
<1> SUFFICES ASSUME SingleController PROVE Spec => ImplementsMachineLock
  OBVIOUS
<1>1. FullInv /\ FullInv' /\ [Next]_vars => [Lock!Next]_<<LockHeld, LockBusy>>
  <2> SUFFICES ASSUME FullInv, FullInv', [Next]_vars
               PROVE  [Lock!Next]_<<LockHeld, LockBusy>>
    OBVIOUS
  <2>1. HoldersAlone
    BY Alone
  <2>2. HoldersAlone'
    BY Alone, PTL
  <2>3. Lock!Next \/ LockStutters
    BY <2>1, <2>2, NextLock
  <2> QED BY <2>3 DEF LockStutters
<1> QED BY Single, InitLock, <1>1, PTL DEF Spec, ImplementsMachineLock, Lock!Spec
=============================================================================
