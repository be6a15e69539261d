------------------------ MODULE RemediationSaga_proofs ------------------------
(***************************************************************************)
(* Proofs about RemediationSaga, for any number of transactions, requests  *)
(* and pages: what TargetFirewall takes for granted of its callers, what a *)
(* form may attest, and that whatever is left on a machine bars it or can  *)
(* be undone.                                                              *)
(***************************************************************************)
EXTENDS RemediationSaga, TLAPS

-----------------------------------------------------------------------------
(* The inductive invariant *)

Active(r) == req[r].at \in {"preAudit", "send", "run", "postAudit", "catch"}

Busy == [at : {"preAudit", "send", "run", "postAudit", "catch"},
         op : Op, txn : 0 .. MaxTxn, seen : Status, result : Outcome]

(* A request that has claimed its row has it for itself, in the status that *)
(* its claim or its last write gave it.                                     *)
HasRow(th) ==
  /\ th.txn \in Txn /\ row[th.txn].owner = "live"
  /\ row[th.txn].status = CASE th.op = "backup"   -> "preparing"
                            [] th.op = "apply"    -> "backed_up"
                            [] th.op = "rollback" -> "rolling_back"
  /\ th.op # "backup" => row[th.txn].backup

(* What it knows of its machine.                                            *)
KnowsTarget(th) ==
  /\ th.at = "catch" => th.result \in {"failed", "unknown"}
  /\ th.at = "preAudit" => th.op = "backup"
  /\ th.at = "postAudit" => th.op = "apply"
  /\ th.op = "backup" =>
       /\ th.at # "postAudit"
       /\ th.at \in {"preAudit", "send"} => target[th.txn] = "untouched"
       /\ th.at = "run" /\ th.result = "failed" => target[th.txn] = "untouched"
       /\ th.at = "run" /\ th.result = "ok" => target[th.txn] = "saved"
       /\ th.at = "catch" /\ th.result = "failed" =>
            target[th.txn] = "untouched" \/ store = "down" \/ Transient
  /\ th.op = "apply" /\ th.at = "send" => target[th.txn] = "saved"
  /\ th.op = "rollback" /\ th.at = "run" /\ th.result = "ok" => target[th.txn] = "restored"

Threads ==
  /\ \A r \in Request : Active(r) => HasRow(req[r]) /\ KnowsTarget(req[r])
  /\ \A r \in Request : ~ Active(r) =>
       req[r].op # "apply" /\ (req[r].op = "rollback" => req[r].txn \in Txn)
  /\ \A r, s \in Request : Active(r) /\ Active(s) => r = s

(* A row that was never in anybody's list of recoveries.                    *)
NeverOpened(t) ==
  \/ row[t].status = "none"
  \/ row[t].status \in {"preparing", "backed_up"} /\ row[t].owner = "live"

Rows ==
  /\ \A t \in Txn : row[t].status = "none" => row[t] = NoRow /\ target[t] = "untouched"
  /\ \A t, u \in Txn : row[t].status \in Unresolved /\ row[u].status \in Unresolved => t = u

(* A command is awaited by the request that sent it, or was lost by it; and  *)
(* it keeps its row unresolved and its target as it was when it was sent.   *)
CommandGood(c) ==
  /\ row[c.txn].status \in Working \cup {"interrupted"}
  /\ c.op = "backup" => target[c.txn] = "untouched"
  /\ c.op = "apply" => target[c.txn] = "saved"
  /\ IF c.by # Nil
     THEN /\ req[c.by].at = "run" /\ req[c.by].result = "none"
          /\ req[c.by].txn = c.txn /\ req[c.by].op = c.op
     ELSE \A r \in Request : Active(r) => req[r].at \in {"run", "catch"} /\ req[r].result = "unknown"

Commands ==
  /\ \A c \in remote : CommandGood(c)
  /\ \A c, d \in remote : c = d

(* A form with the current version is about a row that nobody works on, and *)
(* about a machine that was left alone since it was looked at.              *)
FormGood(f) ==
  /\ ~ NeverOpened(f.txn)
  /\ f.valid => row[f.txn].status \in Unresolved /\ row[f.txn].owner # "live" /\ f.quiet
  /\ f.valid /\ f.found # Nil =>
       /\ remote = {}
       /\ target[f.txn] = f.found \/ (target[f.txn] = "restored" /\ f.found # "untouched")

Forms == \A p \in Page : form[p] # Nil => FormGood(form[p])

IInv == TypeOK /\ Threads /\ Rows /\ Commands /\ Forms

RInv == IInv /\ TargetIsRecoverable
-----------------------------------------------------------------------------
(* Helpers *)

Sole(r) == \A s \in Request : Active(s) => s = r

(* No form has the current version.                                         *)
Stale == \A p \in Page : form[p] # Nil => ~ form[p].valid

(* What a dead process left is marked, and stays what it is otherwise.      *)
LEMMA RecoveredIs ==
  ASSUME TypeOK
  PROVE  /\ Recovered \in [Txn -> [status : Status, from : Status, owner : Owner, backup : BOOLEAN]]
         /\ \A t \in Txn :
              /\ Recovered[t].owner = row[t].owner /\ Recovered[t].backup = row[t].backup
              /\ Recovered[t] = row[t]
                 \/ (Recovered[t].status = "interrupted" /\ row[t].status \in Working /\ row[t].owner = "dead")
<1> USE DEF TypeOK
<1>1. ASSUME NEW t \in Txn
      PROVE  /\ Recovered[t] \in [status : Status, from : Status, owner : Owner, backup : BOOLEAN]
             /\ Recovered[t].owner = row[t].owner /\ Recovered[t].backup = row[t].backup
             /\ Recovered[t] = row[t]
                \/ (Recovered[t].status = "interrupted" /\ row[t].status \in Working /\ row[t].owner = "dead")
  BY DEF Recovered, Status, Unresolved, Working
<1> QED BY <1>1 DEF Recovered

(* A write changes one row, and takes the version from its forms.           *)
LEMMA UpdateIs ==
  ASSUME TypeOK, NEW t \in Txn, NEW status \in Status, NEW backup \in BOOLEAN, Update(t, status, backup)
  PROVE  /\ row' \in [Txn -> [status : Status, from : Status, owner : Owner, backup : BOOLEAN]]
         /\ \A u \in Txn : u # t => row'[u] = row[u]
         /\ row'[t].status = status /\ row'[t].backup = backup
         /\ row'[t].owner = IF status \in Working THEN row[t].owner ELSE Nil
BY DEF Update, Updated, TypeOK, Status, Owner

LEMMA NewVersionIs ==
  ASSUME TypeOK, NEW t \in Txn
  PROVE  /\ NewVersion(t) \in [Page -> [txn : Txn, found : Target \cup {Nil}, valid : BOOLEAN, quiet : BOOLEAN] \cup {Nil}]
         /\ \A p \in Page : NewVersion(t)[p] # Nil =>
              /\ form[p] # Nil /\ NewVersion(t)[p].txn = form[p].txn /\ NewVersion(t)[p].found = form[p].found
              /\ NewVersion(t)[p].quiet = form[p].quiet
              /\ NewVersion(t)[p].valid => form[p].valid /\ form[p].txn # t
BY DEF NewVersion, TypeOK

(* A request at work is alone, its row is the only unresolved one, and no   *)
(* form may be submitted.                                                   *)
LEMMA AtWork ==
  ASSUME IInv, NEW r \in Request, Active(r)
  PROVE  /\ req[r].txn \in Txn /\ HasRow(req[r]) /\ KnowsTarget(req[r]) /\ Sole(r) /\ Stale
         /\ \A t \in Txn : row[t].status \in Unresolved => t = req[r].txn
         /\ \A c \in remote : c.txn = req[r].txn
<1>1. HasRow(req[r]) /\ KnowsTarget(req[r]) /\ Sole(r)
  BY DEF IInv, Threads, Sole
<1>2. row[req[r].txn].status \in Unresolved /\ row[req[r].txn].owner = "live" /\ req[r].txn \in Txn
  BY <1>1 DEF HasRow, Unresolved, Working, IInv, TypeOK, Op
<1>3. \A t \in Txn : row[t].status \in Unresolved => t = req[r].txn
  BY <1>2 DEF IInv, Rows
<1>4. \A c \in remote : c.txn = req[r].txn
  BY <1>3 DEF IInv, Commands, CommandGood, TypeOK, Command, Unresolved
<1>5. Stale
  BY <1>2, <1>3 DEF Stale, IInv, Forms, FormGood, TypeOK
<1> QED BY <1>1, <1>2, <1>3, <1>4, <1>5

(* Before a command is sent and after its answer nothing is on its way.     *)
LEMMA NothingSent ==
  ASSUME SagaAssumption, IInv, NEW r \in Request, Active(r),
         ~ (req[r].at \in {"run", "catch"} /\ req[r].result = "unknown"),
         ~ (req[r].at = "run" /\ req[r].result = "none")
  PROVE  remote = {}
<1> SUFFICES ASSUME NEW c \in remote PROVE FALSE
  OBVIOUS
<1>1. CommandGood(c) /\ c.by \in Request \cup {Nil}
  BY DEF IInv, Commands, TypeOK, Command
<1>2. CASE c.by = Nil
  BY <1>1, <1>2 DEF CommandGood
<1>3. CASE c.by # Nil
  <2>1. c.by \in Request /\ req[c.by].at = "run" /\ req[c.by].result = "none"
    BY <1>1, <1>3 DEF CommandGood
  <2>2. c.by = r
    BY <2>1, AtWork DEF Active, Sole
  <2> QED BY <2>1, <2>2
<1> QED BY <1>2, <1>3

-----------------------------------------------------------------------------
(* Steps of a request that has its row *)

(* The request goes on or ends, it writes its own row at most, and a lost   *)
(* command keeps the row unresolved.                                        *)
LEMMA ThreadStep ==
  ASSUME SagaAssumption, IInv, TypeOK', NEW r \in Request, Active(r), NEW th,
         req' = [req EXCEPT ![r] = th],
         th = Asleep \/ (HasRow(th)' /\ KnowsTarget(th)' /\ th.at # "asleep" /\ th.at # "capture"),
         target' = target,
         \A u \in Txn : u # req[r].txn => row'[u] = row[u],
         row'[req[r].txn].status # "none",
         row'[req[r].txn].status \in {"preparing", "backed_up"} =>
           row[req[r].txn].status \in {"preparing", "backed_up"},
         \A p \in Page : form'[p] # Nil =>
           /\ form[p] # Nil /\ form'[p].txn = form[p].txn
           /\ form'[p].valid => form[p].valid,
         \/ remote' = {}
         \/ /\ remote' = remote /\ req[r].result = "unknown"
            /\ row'[req[r].txn].status \in Working \cup {"interrupted"}
            /\ th = Asleep \/ (th.at \in {"run", "catch"} /\ th.result = "unknown")
  PROVE  IInv'
<1> DEFINE tx == req[r].txn
<1>1. /\ tx \in Txn /\ HasRow(req[r]) /\ Sole(r) /\ Stale
      /\ \A t \in Txn : row[t].status \in Unresolved => t = tx
      /\ \A c \in remote : c.txn = tx
  BY AtWork
<1>2. Threads'
  <2>1. \A s \in Request : s # r => req'[s] = req[s] /\ ~ Active(s)
    BY <1>1 DEF Sole, IInv, TypeOK
  <2>2. req'[r] = th
    BY DEF IInv, TypeOK
  <2>3. \A s \in Request : Active(s)' => s = r
    BY <2>1 DEF Active
  <2>4. Active(r)' => HasRow(req[r])' /\ KnowsTarget(req[r])'
    BY <2>2 DEF Active, Asleep
  <2>5. \A s \in Request : ~ Active(s)' =>
          req'[s].op # "apply" /\ (req'[s].op = "rollback" => req'[s].txn \in Txn)
    <3>1. \A s \in Request : s # r =>
            req[s].op # "apply" /\ (req[s].op = "rollback" => req[s].txn \in Txn)
      BY <2>1 DEF IInv, Threads
    <3>2. ~ Active(r)' => th = Asleep
      BY <2>2 DEF Active, TypeOK
    <3> QED BY <2>1, <2>2, <3>1, <3>2 DEF Asleep
  <2> QED BY <2>3, <2>4, <2>5 DEF Threads
<1>3. Rows'
  <2>1. \A t \in Txn : row'[t].status = "none" => row'[t] = NoRow /\ target'[t] = "untouched"
    BY <1>1 DEF Rows, IInv
  <2>2. \A t \in Txn : row'[t].status \in Unresolved => t = tx
    BY <1>1
  <2> QED BY <2>1, <2>2 DEF Rows
<1>4. Commands'
  <2>1. CASE remote' = {}
    BY <2>1 DEF Commands
  <2>2. CASE /\ remote' = remote /\ req[r].result = "unknown"
             /\ row'[tx].status \in Working \cup {"interrupted"}
             /\ th = Asleep \/ (th.at \in {"run", "catch"} /\ th.result = "unknown")
    <3>1. ASSUME NEW c \in remote PROVE CommandGood(c)'
      <4>1. CommandGood(c) /\ c.txn = tx /\ c.by \in Request \cup {Nil}
        BY <1>1 DEF IInv, Commands, TypeOK, Command
      <4>2. c.by = Nil
        BY <4>1, <1>1, <2>2 DEF CommandGood, Active, Sole
      <4>3. \A s \in Request : Active(s)' => req'[s].at \in {"run", "catch"} /\ req'[s].result = "unknown"
        BY <1>1, <2>2 DEF Active, Sole, IInv, TypeOK, Asleep
      <4> QED BY <4>1, <4>2, <4>3, <2>2 DEF CommandGood
    <3>2. \A c, d \in remote : c = d
      BY DEF IInv, Commands
    <3> QED BY <2>2, <3>1, <3>2 DEF Commands
  <2> QED BY <2>1, <2>2
<1>5. Forms'
  <2> SUFFICES ASSUME NEW p \in Page, form'[p] # Nil PROVE FormGood(form[p])'
    BY DEF Forms
  <2>1. form[p] # Nil /\ form'[p].txn = form[p].txn /\ ~ form'[p].valid
    BY <1>1 DEF Stale
  <2>2. ~ NeverOpened(form[p].txn) /\ form[p].txn \in Txn
    BY <2>1 DEF IInv, Forms, FormGood, TypeOK
  <2>3. ~ NeverOpened(form[p].txn)'
    BY <2>1, <2>2, <1>1 DEF NeverOpened, HasRow
  <2> QED BY <2>1, <2>3 DEF FormGood
<1> QED BY <1>2, <1>3, <1>4, <1>5 DEF IInv

(* Every update of the row by its request.                                  *)
LEMMA UpdateStep ==
  ASSUME SagaAssumption, IInv, NEW r \in Request, Active(r), NEW th,
         NEW status \in Status, NEW backup \in BOOLEAN,
         Update(req[r].txn, status, backup),
         th = Asleep \/ th \in Busy,
         req' = [req EXCEPT ![r] = th],
         th = Asleep \/ (HasRow(th)' /\ KnowsTarget(th)'),
         UNCHANGED <<remote, target, store>>,
         status # "none",
         status \in {"preparing", "backed_up"} => row[req[r].txn].status \in {"preparing", "backed_up"},
         \/ remote = {}
         \/ /\ req[r].result = "unknown" /\ status \in Working \cup {"interrupted"}
            /\ th = Asleep
  PROVE  IInv'
<1> DEFINE tx == req[r].txn
<1>1. tx \in Txn
  BY AtWork
<1>2. /\ row' \in [Txn -> [status : Status, from : Status, owner : Owner, backup : BOOLEAN]]
      /\ \A u \in Txn : u # tx => row'[u] = row[u]
      /\ row'[tx].status = status
  BY <1>1, UpdateIs DEF IInv
<1>3. form' = NewVersion(tx)
  BY DEF Update
<1>4. TypeOK'
  <2>1. th \in [at : {"asleep", "capture", "preAudit", "send", "run", "postAudit", "catch"},
                op : Op, txn : 0 .. MaxTxn, seen : Status, result : Outcome]
    BY DEF Busy, Asleep, Op, Outcome, Status, SagaAssumption
  <2>2. form' \in [Page -> [txn : Txn, found : Target \cup {Nil}, valid : BOOLEAN, quiet : BOOLEAN] \cup {Nil}]
    BY <1>1, <1>3, NewVersionIs DEF IInv
  <2> QED BY <1>2, <2>1, <2>2 DEF IInv, TypeOK
<1>5. \A p \in Page : form'[p] # Nil => /\ form[p] # Nil /\ form'[p].txn = form[p].txn
                                        /\ form'[p].valid => form[p].valid
  BY <1>1, <1>3, NewVersionIs DEF IInv
<1>6. th = Asleep \/ (HasRow(th)' /\ KnowsTarget(th)' /\ th.at # "asleep" /\ th.at # "capture")
  BY DEF Busy
<1> QED BY <1>2, <1>4, <1>5, <1>6, ThreadStep

(* A step that only moves the request.                                      *)
LEMMA MoveOn ==
  ASSUME SagaAssumption, IInv, NEW r \in Request, Active(r), NEW th,
         th \in Busy,
         req' = [req EXCEPT ![r] = th], HasRow(th)', KnowsTarget(th)',
         UNCHANGED <<row, remote, target, form, store>>,
         \/ remote = {}
         \/ req[r].result = "unknown" /\ th.at \in {"run", "catch"} /\ th.result = "unknown"
  PROVE  IInv'
<1>1. TypeOK' /\ th.at # "asleep" /\ th.at # "capture"
  BY DEF IInv, TypeOK, Busy
<1>2. req[r].txn \in Txn /\ row[req[r].txn].status \in Working
  BY AtWork DEF HasRow, IInv, TypeOK, Op, Working
<1>3. row'[req[r].txn].status \in Working \cup {"interrupted"} /\ row'[req[r].txn].status # "none"
  BY <1>2 DEF Working
<1> QED BY <1>1, <1>2, <1>3, ThreadStep

LEMMA Threading ==
  ASSUME IInv, NEW r \in Request
  PROVE  req[r] \in [at : {"asleep", "capture", "preAudit", "send", "run", "postAudit", "catch"},
                     op : Op, txn : 0 .. MaxTxn, seen : Status, result : Outcome]
BY DEF IInv, TypeOK

(* A failure, or the loss of an answer, on its way to the row.              *)
LEMMA CatchStep ==
  ASSUME SagaAssumption, IInv, NEW r \in Request, Active(r), Catch(r),
         UNCHANGED <<row, remote, target, form, store>>,
         req[r].op = "backup" /\ req[r].result # "unknown" =>
           target[req[r].txn] = "untouched" \/ store = "down" \/ Transient,
         remote = {} \/ req[r].result = "unknown"
  PROVE  IInv'
<1>1. PICK th : th = [req[r] EXCEPT !.at = "catch", !.result = IF @ = "unknown" THEN @ ELSE "failed"]
  OBVIOUS
<1>2. /\ th \in Busy /\ th.at = "catch" /\ th.op = req[r].op /\ th.txn = req[r].txn
      /\ th.result \in {"failed", "unknown"} /\ (th.result = "unknown" <=> req[r].result = "unknown")
  BY <1>1, Threading DEF Outcome, Busy
<1>3. req' = [req EXCEPT ![r] = th]
  BY <1>1 DEF Catch, To
<1>4. HasRow(req[r])
  BY AtWork
<1>5. HasRow(th)'
  BY <1>2, <1>4 DEF HasRow
<1>6. KnowsTarget(th)'
  BY <1>2 DEF KnowsTarget
<1> QED BY <1>2, <1>3, <1>5, <1>6, MoveOn

LEMMA AssessPreAudit_Inv ==
  ASSUME SagaAssumption, IInv, NEW r \in Request, NEW ok \in BOOLEAN, AssessPreAudit(r, ok)
  PROVE  IInv'
<1> DEFINE t == req[r].txn
<1>1. Active(r) /\ req[r].at = "preAudit"
  BY DEF AssessPreAudit, At, Active
<1>2. /\ t \in Txn /\ HasRow(req[r]) /\ req[r].op = "backup" /\ target[t] = "untouched"
      /\ row[t].status = "preparing" /\ row[t].owner = "live"
  BY <1>1, AtWork DEF KnowsTarget, HasRow
<1>3. remote = {}
  BY <1>1, NothingSent
<1>4. CASE ok /\ store = "up"
  <2>1. PICK th : th = [req[r] EXCEPT !.at = "send"]
    OBVIOUS
  <2>2. /\ th \in Busy
        /\ th.at = "send" /\ th.op = "backup" /\ th.txn = t
    BY <2>1, <1>2, Threading DEF Busy
  <2>3. /\ Update(t, row[t].status, row[t].backup) /\ req' = [req EXCEPT ![r] = th]
        /\ UNCHANGED <<remote, target, store>>
    BY <1>4, <2>1 DEF AssessPreAudit, To
  <2>4. row[t].status \in Status /\ row[t].backup \in BOOLEAN
    BY <1>2 DEF IInv, TypeOK
  <2>5. row'[t].status = "preparing" /\ row'[t].owner = "live"
    BY <1>2, <2>3, <2>4, UpdateIs DEF IInv, Working
  <2>6. HasRow(th)' /\ KnowsTarget(th)'
    BY <1>2, <2>2, <2>3, <2>5 DEF HasRow, KnowsTarget
  <2> QED BY <1>1, <1>2, <1>3, <2>2, <2>3, <2>4, <2>6, UpdateStep
<1>5. CASE ~ (ok /\ store = "up")
  BY <1>1, <1>2, <1>3, <1>5, CatchStep DEF AssessPreAudit
<1> QED BY <1>4, <1>5

LEMMA RecordBackup_Inv ==
  ASSUME SagaAssumption, IInv, NEW r \in Request, RecordBackup(r)
  PROVE  IInv'
<1> DEFINE t == req[r].txn
<1>1. Active(r) /\ req[r].at = "run" /\ req[r].op = "backup" /\ req[r].result = "ok"
  BY DEF RecordBackup, Answered, At, Is, Active
<1>2. /\ t \in Txn /\ target[t] = "saved" /\ row[t].status = "preparing" /\ row[t].owner = "live"
  BY <1>1, AtWork DEF KnowsTarget, HasRow
<1>3. remote = {}
  BY <1>1, NothingSent
<1>4. CASE store = "up"
  <2>1. PICK th : th = [req[r] EXCEPT !.at = "send", !.op = "apply", !.result = "none"]
    OBVIOUS
  <2>2. th \in Busy /\ th.at = "send" /\ th.op = "apply" /\ th.txn = t
    BY <2>1, Threading DEF Busy, Op, Outcome
  <2>3. /\ Update(t, "backed_up", TRUE) /\ req' = [req EXCEPT ![r] = th]
        /\ UNCHANGED <<remote, target, store>>
    BY <1>4, <2>1 DEF RecordBackup, To
  <2>4. "backed_up" \in Status
    BY DEF Status, Unresolved, Working
  <2>5. row'[t].status = "backed_up" /\ row'[t].owner = "live" /\ row'[t].backup
    BY <1>2, <2>3, <2>4, UpdateIs DEF IInv, Working
  <2>6. HasRow(th)' /\ KnowsTarget(th)'
    BY <1>2, <2>2, <2>3, <2>5 DEF HasRow, KnowsTarget
  <2> QED BY <1>1, <1>2, <1>3, <2>2, <2>3, <2>4, <2>6, UpdateStep
<1>5. CASE store # "up"
  <2>1. store = "down"
    BY <1>5 DEF IInv, TypeOK
  <2> QED BY <1>1, <1>3, <1>5, <2>1, CatchStep DEF RecordBackup
<1> QED BY <1>4, <1>5

LEMMA RecordApply_Inv ==
  ASSUME SagaAssumption, IInv, NEW r \in Request, RecordApply(r)
  PROVE  IInv'
<1>1. Active(r) /\ req[r].at = "run" /\ req[r].op = "apply" /\ req[r].result = "ok"
  BY DEF RecordApply, Answered, At, Is, Active
<1>2. HasRow(req[r])
  BY <1>1, AtWork
<1>3. remote = {}
  BY <1>1, NothingSent
<1>4. CASE store = "up"
  <2>1. PICK th : th = [req[r] EXCEPT !.at = "postAudit"]
    OBVIOUS
  <2>2. th \in Busy /\ th.at = "postAudit" /\ th.op = "apply" /\ th.txn = req[r].txn
    BY <1>1, <2>1, Threading DEF Busy
  <2>3. req' = [req EXCEPT ![r] = th] /\ UNCHANGED <<row, remote, target, form, store>>
    BY <1>4, <2>1 DEF RecordApply, To
  <2>4. HasRow(th)' /\ KnowsTarget(th)'
    BY <1>1, <1>2, <2>2, <2>3 DEF HasRow, KnowsTarget
  <2> QED BY <1>1, <1>3, <2>2, <2>3, <2>4, MoveOn
<1>5. CASE store # "up"
  BY <1>1, <1>3, <1>5, CatchStep DEF RecordApply
<1> QED BY <1>4, <1>5

(* A request ends, with the outcome in its row.                             *)
LEMMA EndStep ==
  ASSUME SagaAssumption, IInv, NEW r \in Request, Active(r), End(r),
         NEW status \in Status, Update(req[r].txn, status, row[req[r].txn].backup),
         UNCHANGED <<remote, target, store>>, status \notin {"none", "preparing", "backed_up"},
         remote = {} \/ (req[r].result = "unknown" /\ status = "interrupted")
  PROVE  IInv'
<1>1. row[req[r].txn].backup \in BOOLEAN
  BY AtWork DEF IInv, TypeOK
<1>2. PICK th : th = Asleep
  OBVIOUS
<1> QED BY <1>1, <1>2, UpdateStep DEF End, To

LEMMA RecordPostAudit_Inv ==
  ASSUME SagaAssumption, IInv, NEW r \in Request, RecordPostAudit(r)
  PROVE  IInv'
<1>1. Active(r) /\ req[r].at = "postAudit" /\ req[r].op = "apply"
  <2>1. Active(r) /\ req[r].at = "postAudit"
    BY DEF RecordPostAudit, At, Active
  <2> QED BY <2>1, AtWork DEF KnowsTarget
<1>2. remote = {}
  BY <1>1, NothingSent
<1>3. CASE store = "up"
  BY <1>1, <1>2, <1>3, EndStep DEF RecordPostAudit, Status, Claimable
<1>4. CASE store # "up"
  BY <1>1, <1>2, <1>4, CatchStep DEF RecordPostAudit
<1> QED BY <1>3, <1>4

LEMMA RecordRollback_Inv ==
  ASSUME SagaAssumption, IInv, NEW r \in Request, RecordRollback(r)
  PROVE  IInv'
<1>1. Active(r) /\ req[r].at = "run" /\ req[r].op = "rollback" /\ req[r].result = "ok"
  BY DEF RecordRollback, Answered, At, Is, Active
<1>2. remote = {}
  BY <1>1, NothingSent
<1>3. CASE store = "up"
  BY <1>1, <1>2, <1>3, EndStep DEF RecordRollback, Status
<1>4. CASE store # "up"
  BY <1>1, <1>2, <1>4, CatchStep DEF RecordRollback
<1> QED BY <1>3, <1>4

LEMMA CommandFailed_Inv ==
  ASSUME SagaAssumption, IInv, NEW r \in Request, CommandFailed(r)
  PROVE  IInv'
<1>1. Active(r) /\ req[r].at = "run" /\ req[r].result \in {"failed", "unknown"}
  BY DEF CommandFailed, At, Active
<1>2. remote = {} \/ req[r].result = "unknown"
  BY <1>1, NothingSent
<1>3. req[r].op = "backup" /\ req[r].result # "unknown" => target[req[r].txn] = "untouched"
  BY <1>1, AtWork DEF KnowsTarget
<1> QED BY <1>1, <1>2, <1>3, CatchStep DEF CommandFailed

LEMMA RecordFailure_Inv ==
  ASSUME SagaAssumption, IInv, NEW r \in Request, RecordFailure(r)
  PROVE  IInv'
<1>1. Active(r) /\ req[r].at = "catch"
  BY DEF RecordFailure, At, Active
<1>2. req[r].result \in {"failed", "unknown"} /\ HasRow(req[r])
  BY <1>1, AtWork DEF KnowsTarget
<1>3. remote = {} \/ req[r].result = "unknown"
  BY <1>1, <1>2, NothingSent
<1>4. CASE store = "up"
  <2>1. /\ FailureStatus(r) \in Status \ {"none", "preparing", "backed_up"}
        /\ req[r].result = "unknown" => FailureStatus(r) = "interrupted"
    BY DEF FailureStatus, Status, Unresolved, Claimable, Working
  <2> QED BY <1>1, <1>3, <1>4, <2>1, EndStep DEF RecordFailure
<1>5. CASE store # "up"
  <2>1. PICK th : th = Asleep
    OBVIOUS
  <2>2. req' = [req EXCEPT ![r] = th] /\ UNCHANGED <<row, remote, target, form, store>>
    BY <1>5, <2>1 DEF RecordFailure, End, To
  <2>3. TypeOK'
    BY <2>1, <2>2 DEF IInv, TypeOK, Asleep, Op, Outcome, Status, SagaAssumption
  <2>4. req[r].txn \in Txn /\ row[req[r].txn].status \in Working
    BY <1>1, <1>2, Threading DEF HasRow, Op, Working
  <2> QED BY <1>1, <1>3, <2>1, <2>2, <2>3, <2>4, ThreadStep DEF Working
<1> QED BY <1>4, <1>5

LEMMA RunPlaybook_Inv ==
  ASSUME SagaAssumption, IInv, NEW r \in Request, NEW started \in BOOLEAN, RunPlaybook(r, started)
  PROVE  IInv'
<1> DEFINE t == req[r].txn
<1>1. Active(r) /\ req[r].at = "send"
  BY DEF RunPlaybook, At, Active
<1>2. /\ t \in Txn /\ HasRow(req[r]) /\ KnowsTarget(req[r]) /\ Sole(r) /\ Stale
  BY <1>1, AtWork
<1>3. remote = {}
  BY <1>1, NothingSent
<1>4. PICK th : th = [req[r] EXCEPT !.at = "run", !.result = IF started THEN "none" ELSE "failed"]
  OBVIOUS
<1>5. /\ th \in Busy /\ th.at = "run" /\ th.op = req[r].op /\ th.txn = t
      /\ th.result = IF started THEN "none" ELSE "failed"
  BY <1>4, Threading DEF Busy, Outcome
<1>6. req' = [req EXCEPT ![r] = th] /\ UNCHANGED <<row, target, store>>
  BY <1>4 DEF RunPlaybook, To
<1>7. HasRow(th)' /\ KnowsTarget(th)'
  BY <1>1, <1>2, <1>5, <1>6 DEF HasRow, KnowsTarget
<1>8. CASE ~ started
  BY <1>1, <1>3, <1>5, <1>6, <1>7, <1>8, MoveOn DEF RunPlaybook
<1>9. CASE started
  <2> PICK c : c = [txn |-> t, op |-> req[r].op, by |-> r,
                    verified |-> Is(r, "rollback") /\ req[r].seen = "recovery_ready"]
    OBVIOUS
  <2>1. remote' = {c} /\ c.txn = t /\ c.op = req[r].op /\ c.by = r
    BY <1>3, <1>9 DEF RunPlaybook
  <2>2. \A p \in Page : form'[p] # Nil => /\ form[p] # Nil /\ form'[p].txn = form[p].txn
                                          /\ form'[p].valid = form[p].valid
    BY <1>9 DEF RunPlaybook, IInv, TypeOK
  <2>3. TypeOK'
    <3>1. c \in Command
      BY <1>2, Threading DEF Command, Is
    <3>2. form' \in [Page -> [txn : Txn, found : Target \cup {Nil}, valid : BOOLEAN, quiet : BOOLEAN] \cup {Nil}]
      <4>1. form' = [p \in Page |-> IF form[p] # Nil /\ form[p].txn = t THEN [form[p] EXCEPT !.quiet = FALSE] ELSE form[p]]
        BY <1>9 DEF RunPlaybook
      <4> QED BY <4>1 DEF IInv, TypeOK
    <3>3. req' \in [Request -> [at : {"asleep", "capture", "preAudit", "send", "run", "postAudit", "catch"},
                               op : Op, txn : 0 .. MaxTxn, seen : Status, result : Outcome]]
      BY <1>5, <1>6 DEF IInv, TypeOK, Busy
    <3>4. remote' \subseteq Command
      BY <2>1, <3>1
    <3> QED BY <3>2, <3>3, <3>4, <1>6 DEF IInv, TypeOK
  <2>4. Threads'
    <3>1. \A s \in Request : s # r => req'[s] = req[s] /\ ~ Active(s)
      BY <1>2, <1>6 DEF Sole, IInv, TypeOK
    <3>2. req'[r] = th
      BY <1>6 DEF IInv, TypeOK
    <3>3. \A s \in Request : Active(s)' => s = r
      BY <3>1 DEF Active
    <3>4. Active(r)'
      BY <3>2, <1>5 DEF Active
    <3>5. \A s \in Request : s # r =>
            req[s].op # "apply" /\ (req[s].op = "rollback" => req[s].txn \in Txn)
      BY <3>1 DEF IInv, Threads
    <3> QED BY <3>1, <3>2, <3>3, <3>4, <3>5, <1>7 DEF Threads
  <2>5. Rows'
    BY <1>6 DEF IInv, Rows
  <2>6. Commands'
    <3>1. row[t].status \in Working
      BY <1>2, Threading DEF HasRow, Op, Working
    <3>2. /\ req[r].op = "backup" => target[t] = "untouched"
          /\ req[r].op = "apply" => target[t] = "saved"
      BY <1>1, <1>2 DEF KnowsTarget
    <3>3. req'[r] = th
      BY <1>6 DEF IInv, TypeOK
    <3>4. r # Nil
      BY DEF SagaAssumption
    <3>5. CommandGood(c)'
      BY <1>5, <1>6, <1>9, <2>1, <3>1, <3>2, <3>3, <3>4 DEF CommandGood
    <3>6. \A d \in remote' : d = c
      BY <2>1
    <3> QED BY <3>5, <3>6 DEF Commands
  <2>7. Forms'
    BY <1>2, <1>6, <2>2 DEF Forms, FormGood, Stale, IInv, NeverOpened
  <2> QED BY <2>3, <2>4, <2>5, <2>6, <2>7 DEF IInv
<1> QED BY <1>8, <1>9

-----------------------------------------------------------------------------
(* Steps of a request that has no row yet *)

(* Marking what dead processes left changes nothing that anybody relies on. *)
LEMMA Marked ==
  ASSUME IInv, row' = row \/ row' = Recovered, target' = target
  PROVE  /\ row' \in [Txn -> [status : Status, from : Status, owner : Owner, backup : BOOLEAN]]
         /\ Rows'
         /\ \A t \in Txn :
              /\ row'[t].owner = row[t].owner /\ row'[t].backup = row[t].backup
              /\ row[t].owner = "live" => row'[t] = row[t]
              /\ row'[t].status \in Unresolved <=> row[t].status \in Unresolved
              /\ row'[t].status = row[t].status
                 \/ (row'[t].status = "interrupted" /\ row[t].status \in Working)
              /\ NeverOpened(t)' <=> NeverOpened(t)
<1>1. /\ row' \in [Txn -> [status : Status, from : Status, owner : Owner, backup : BOOLEAN]]
      /\ \A t \in Txn :
              /\ row'[t].owner = row[t].owner /\ row'[t].backup = row[t].backup
              /\ row'[t] = row[t]
                 \/ (row'[t].status = "interrupted" /\ row[t].status \in Working /\ row[t].owner = "dead")
  BY RecoveredIs DEF IInv, TypeOK, Working
<1>2. \A t \in Txn : row'[t].status \in Unresolved <=> row[t].status \in Unresolved
  BY <1>1 DEF Unresolved, Working
<1>3. \A t \in Txn : NeverOpened(t)' <=> NeverOpened(t)
  BY <1>1 DEF NeverOpened, Working
<1>4. \A t \in Txn : row'[t].status = "none" => row[t].status = "none"
  BY <1>1
<1>5. Rows'
  BY <1>1, <1>2, <1>4 DEF IInv, Rows
<1> QED BY <1>1, <1>2, <1>3, <1>5

(* A request that arrives, waits or is turned away.                         *)
LEMMA BystanderStep ==
  ASSUME SagaAssumption, IInv, NEW r \in Request, ~ Active(r), NEW th,
         th \in [at : {"asleep", "capture"}, op : Op, txn : 0 .. MaxTxn, seen : Status, result : Outcome],
         th.op # "apply", th.op = "rollback" => th.txn \in Txn,
         req' = [req EXCEPT ![r] = th],
         row' = row \/ row' = Recovered,
         UNCHANGED <<remote, target, form, store>>
  PROVE  IInv'
<1>1. /\ row' \in [Txn -> [status : Status, from : Status, owner : Owner, backup : BOOLEAN]]
      /\ Rows'
      /\ \A t \in Txn :
              /\ row'[t].owner = row[t].owner
              /\ row[t].owner = "live" => row'[t] = row[t]
              /\ row'[t].status \in Unresolved <=> row[t].status \in Unresolved
              /\ row'[t].status = row[t].status
                 \/ (row'[t].status = "interrupted" /\ row[t].status \in Working)
              /\ NeverOpened(t)' <=> NeverOpened(t)
  BY Marked
<1>2. TypeOK'
  BY <1>1 DEF IInv, TypeOK
<1>3. req'[r] = th /\ \A s \in Request : s # r => req'[s] = req[s]
  BY DEF IInv, TypeOK
<1>4. \A s \in Request : Active(s)' <=> Active(s)
  BY <1>3 DEF Active
<1>5. Threads'
  <2>1. ASSUME NEW s \in Request, Active(s)
        PROVE  HasRow(req[s])' /\ KnowsTarget(req[s])'
    <3>1. HasRow(req[s]) /\ KnowsTarget(req[s]) /\ s # r
      BY <2>1, AtWork
    <3>2. req'[s] = req[s] /\ row'[req[s].txn] = row[req[s].txn]
      BY <1>1, <1>3, <3>1 DEF HasRow
    <3> QED BY <3>1, <3>2 DEF HasRow, KnowsTarget
  <2>2. \A s \in Request : ~ Active(s)' =>
          req'[s].op # "apply" /\ (req'[s].op = "rollback" => req'[s].txn \in Txn)
    BY <1>3, <1>4 DEF IInv, Threads
  <2> QED BY <1>4, <2>1, <2>2 DEF IInv, Threads
<1>6. Commands'
  <2>1. ASSUME NEW c \in remote PROVE CommandGood(c)'
    <3>1. CommandGood(c) /\ c.txn \in Txn /\ c.by \in Request \cup {Nil}
      BY DEF IInv, Commands, TypeOK, Command
    <3>2. row'[c.txn].status \in Working \cup {"interrupted"}
      BY <1>1, <3>1 DEF CommandGood
    <3>3. \A s \in Request : Active(s) => req'[s] = req[s]
      BY <1>3
    <3>4. c.by # Nil => Active(c.by) /\ c.by \in Request
      BY <3>1 DEF CommandGood, Active
    <3> QED BY <1>4, <3>1, <3>2, <3>3, <3>4 DEF CommandGood
  <2> QED BY <2>1 DEF IInv, Commands
<1>7. Forms'
  BY <1>1 DEF IInv, Forms, FormGood, TypeOK
<1> QED BY <1>1, <1>2, <1>5, <1>6, <1>7 DEF IInv

LEMMA StartApply_Inv ==
  ASSUME SagaAssumption, IInv, NEW r \in Request, StartApply(r)
  PROVE  IInv'
<1>1. PICK th : th = [Asleep EXCEPT !.at = "capture"]
  OBVIOUS
<1>2. /\ th \in [at : {"asleep", "capture"}, op : Op, txn : 0 .. MaxTxn, seen : Status, result : Outcome]
      /\ th.op = "backup"
  BY <1>1 DEF Asleep, Op, Outcome, Status, SagaAssumption
<1>3. ~ Active(r) /\ req' = [req EXCEPT ![r] = th] /\ UNCHANGED <<row, remote, target, form, store>>
  BY <1>1 DEF StartApply, At, To, Active
<1> QED BY <1>2, <1>3, BystanderStep

LEMMA StartRollback_Inv ==
  ASSUME SagaAssumption, IInv, NEW r \in Request, NEW t \in Txn, StartRollback(r, t)
  PROVE  IInv'
<1>1. PICK th : th = [Asleep EXCEPT !.at = "capture", !.op = "rollback", !.txn = t, !.seen = row[t].status]
  OBVIOUS
<1>2. /\ th \in [at : {"asleep", "capture"}, op : Op, txn : 0 .. MaxTxn, seen : Status, result : Outcome]
      /\ th.op = "rollback" /\ th.txn = t
  <2>1. t \in 0 .. MaxTxn
    BY DEF Txn, SagaAssumption
  <2>2. row[t].status \in Status
    BY DEF IInv, TypeOK
  <2> QED BY <1>1, <2>1, <2>2 DEF Asleep, Op, Outcome
<1>3. ~ Active(r) /\ req' = [req EXCEPT ![r] = th] /\ UNCHANGED <<row, remote, target, form, store>>
  BY <1>1 DEF StartRollback, At, To, Active
<1> QED BY <1>2, <1>3, BystanderStep

(* A request that is turned away at its claim.                              *)
LEMMA TurnedAway ==
  ASSUME SagaAssumption, IInv, NEW r \in Request, At(r, "capture"), End(r),
         row' = row \/ row' = Recovered, UNCHANGED <<remote, target, form, store>>
  PROVE  IInv'
<1>1. PICK th : th = Asleep
  OBVIOUS
<1>2. /\ th \in [at : {"asleep", "capture"}, op : Op, txn : 0 .. MaxTxn, seen : Status, result : Outcome]
      /\ th.op = "backup"
  BY <1>1 DEF Asleep, Op, Outcome, Status, SagaAssumption
<1>3. ~ Active(r) /\ req' = [req EXCEPT ![r] = th]
  BY <1>1 DEF At, Active, End, To
<1> QED BY <1>2, <1>3, BystanderStep

(* A request claims its row when no other row is unresolved: nobody is at   *)
(* work and nothing is on its way.                                          *)
LEMMA ClaimStep ==
  ASSUME SagaAssumption, IInv, NEW r \in Request, ~ Active(r), NEW th, th \in Busy,
         req' = [req EXCEPT ![r] = th], HasRow(th)', KnowsTarget(th)',
         \A t \in Txn : row[t].status \in Unresolved => t = th.txn /\ row[t].status = "recovery_ready",
         \A u \in Txn : u # th.txn => row'[u] = row[u],
         row' \in [Txn -> [status : Status, from : Status, owner : Owner, backup : BOOLEAN]],
         ~ NeverOpened(th.txn)' \/ NeverOpened(th.txn),
         form' \in [Page -> [txn : Txn, found : Target \cup {Nil}, valid : BOOLEAN, quiet : BOOLEAN] \cup {Nil}],
         \A p \in Page : form'[p] # Nil =>
           form[p] # Nil /\ form'[p].txn = form[p].txn /\ ~ form'[p].valid,
         UNCHANGED <<remote, target, store>>
  PROVE  IInv'
<1>1. \A s \in Request : ~ Active(s)
  BY AtWork DEF HasRow, Unresolved, Working, IInv, TypeOK, Op
<1>2. remote = {}
  BY DEF IInv, Commands, CommandGood, TypeOK, Command, Unresolved, Working
<1>4. req'[r] = th /\ \A s \in Request : s # r => req'[s] = req[s]
  BY DEF IInv, TypeOK
<1>5. TypeOK'
  BY DEF IInv, TypeOK, Busy
<1>6. Threads'
  <2>1. \A s \in Request : Active(s)' => s = r
    BY <1>1, <1>4 DEF Active
  <2>2. Active(r)'
    BY <1>4 DEF Busy, Active
  <2>3. \A s \in Request : s # r =>
          req'[s].op # "apply" /\ (req'[s].op = "rollback" => req'[s].txn \in Txn)
    BY <1>1, <1>4 DEF IInv, Threads
  <2> QED BY <1>4, <2>1, <2>2, <2>3 DEF Threads
<1>7. Rows'
  <2>1. row'[th.txn].status # "none" /\ th.txn \in Txn
    BY Threading DEF HasRow, Busy, Op
  <2>2. \A t \in Txn : row'[t].status = "none" => row'[t] = NoRow /\ target'[t] = "untouched"
    BY <2>1 DEF IInv, Rows
  <2>3. \A t \in Txn : row'[t].status \in Unresolved => t = th.txn
    OBVIOUS
  <2> QED BY <2>2, <2>3 DEF Rows
<1>8. Commands'
  BY <1>2 DEF Commands
<1>9. Forms'
  <2> SUFFICES ASSUME NEW p \in Page, form'[p] # Nil PROVE FormGood(form[p])'
    BY DEF Forms
  <2>1. form[p] # Nil /\ form'[p].txn = form[p].txn /\ ~ form'[p].valid
    OBVIOUS
  <2>2. ~ NeverOpened(form[p].txn) /\ form[p].txn \in Txn
    BY <2>1 DEF IInv, Forms, FormGood, TypeOK
  <2>3. ~ NeverOpened(form[p].txn)'
    BY <2>1, <2>2 DEF NeverOpened
  <2> QED BY <2>1, <2>3 DEF FormGood
<1> QED BY <1>5, <1>6, <1>7, <1>8, <1>9 DEF IInv

LEMMA CreateRemediation_Inv ==
  ASSUME SagaAssumption, IInv, NEW r \in Request, CreateRemediation(r)
  PROVE  IInv'
<1>1. At(r, "capture") /\ ~ Active(r) /\ req[r].op = "backup" /\ UNCHANGED <<remote, target, form, store>>
  <2>1. At(r, "capture") /\ ~ Active(r) /\ req[r].op # "rollback" /\ UNCHANGED <<remote, target, form, store>>
    BY DEF CreateRemediation, At, Is, Active
  <2>2. req[r].op \in Op /\ req[r].op # "apply"
    BY <2>1, Threading DEF IInv, Threads
  <2> QED BY <2>1, <2>2 DEF Op
<1>2. CASE store = "up" /\ Idle(Recovered, 0)
  <2>1. PICK t \in Txn :
          /\ row[t] = NoRow
          /\ row' = [Recovered EXCEPT ![t] = [NoRow EXCEPT !.status = "preparing", !.owner = "live"]]
          /\ To(r, [req[r] EXCEPT !.at = "preAudit", !.txn = t])
    BY <1>2 DEF CreateRemediation
  <2>2. \A u \in Txn : Recovered[u].status \notin Unresolved
    BY <1>2 DEF Idle, Txn, SagaAssumption
  <2>3. \A u \in Txn : Recovered[u] = row[u]
    BY <2>2, RecoveredIs DEF IInv, Unresolved
  <2>4. PICK th : th = [req[r] EXCEPT !.at = "preAudit", !.txn = t]
    OBVIOUS
  <2>5. th \in Busy /\ th.at = "preAudit" /\ th.op = "backup" /\ th.txn = t
    <3>1. t \in 0 .. MaxTxn
      BY DEF Txn, SagaAssumption
    <3> QED BY <2>4, <1>1, <3>1, Threading DEF Busy
  <2>6. req' = [req EXCEPT ![r] = th]
    BY <2>1, <2>4 DEF To
  <2>7. /\ row'[t] = [NoRow EXCEPT !.status = "preparing", !.owner = "live"]
        /\ \A u \in Txn : u # t => row'[u] = row[u]
        /\ row' \in [Txn -> [status : Status, from : Status, owner : Owner, backup : BOOLEAN]]
    BY <2>1, <2>3, RecoveredIs DEF IInv, NoRow, Status, Unresolved, Working, Owner
  <2>8. target[t] = "untouched" /\ NeverOpened(t)
    BY <2>1 DEF IInv, Rows, NoRow, NeverOpened
  <2>9. HasRow(th)' /\ KnowsTarget(th)'
    BY <1>1, <2>5, <2>7, <2>8 DEF HasRow, KnowsTarget, NoRow
  <2>10. \A p \in Page : form'[p] # Nil =>
           form[p] # Nil /\ form'[p].txn = form[p].txn /\ ~ form'[p].valid
    BY <1>1, <2>2, <2>3 DEF IInv, Forms, FormGood, TypeOK
  <2>11. form' \in [Page -> [txn : Txn, found : Target \cup {Nil}, valid : BOOLEAN, quiet : BOOLEAN] \cup {Nil}]
    BY <1>1 DEF IInv, TypeOK
  <2> QED BY <1>1, <2>2, <2>3, <2>5, <2>6, <2>7, <2>8, <2>9, <2>10, <2>11, ClaimStep
<1>3. CASE ~ (store = "up" /\ Idle(Recovered, 0))
  BY <1>1, <1>3, TurnedAway DEF CreateRemediation
<1> QED BY <1>2, <1>3

LEMMA ClaimRollback_Inv ==
  ASSUME SagaAssumption, IInv, NEW r \in Request, ClaimRollback(r)
  PROVE  IInv'
<1> DEFINE t == req[r].txn
<1>1. /\ At(r, "capture") /\ ~ Active(r) /\ req[r].op = "rollback" /\ t \in Txn
      /\ UNCHANGED <<remote, target, store>>
  <2>1. At(r, "capture") /\ ~ Active(r) /\ req[r].op = "rollback" /\ UNCHANGED <<remote, target, store>>
    BY DEF ClaimRollback, At, Is, Active
  <2> QED BY <2>1 DEF IInv, Threads
<1>2. CASE store = "up" /\ Recovered[t].status \in Claimable /\ Recovered[t].backup /\ Idle(Recovered, t) /\ ~ Newer(Recovered, t)
  <2>1. /\ row' = [Recovered EXCEPT ![t].status = "rolling_back", ![t].owner = "live", ![t].from = "none"]
        /\ form' = NewVersion(t)
        /\ To(r, [req[r] EXCEPT !.at = "send"])
    BY <1>2 DEF ClaimRollback, ClaimedForms
  <2>2. \A u \in Txn : row[u].status \in Unresolved => u = t /\ row[u].status = "recovery_ready"
    <3>1. ASSUME NEW u \in Txn, row[u].status \in Unresolved
          PROVE  Recovered[u].status \in Unresolved
      BY <3>1, RecoveredIs DEF IInv, Unresolved
    <3>2. row[t].status \in Claimable
      BY <1>1, <1>2, RecoveredIs DEF IInv, Claimable
    <3> QED BY <1>2, <3>1, <3>2 DEF Idle, Unresolved, Working, Claimable
  <2>3. \A u \in Txn : Recovered[u] = row[u]
    BY <2>2, RecoveredIs DEF IInv, Unresolved, Working
  <2>4. PICK th : th = [req[r] EXCEPT !.at = "send"]
    OBVIOUS
  <2>5. th \in Busy /\ th.at = "send" /\ th.op = "rollback" /\ th.txn = t
    BY <2>4, <1>1, Threading DEF Busy
  <2>6. req' = [req EXCEPT ![r] = th]
    BY <2>1, <2>4 DEF To
  <2>7. /\ row'[t].status = "rolling_back" /\ row'[t].owner = "live" /\ row'[t].backup
        /\ \A u \in Txn : u # t => row'[u] = row[u]
        /\ row' \in [Txn -> [status : Status, from : Status, owner : Owner, backup : BOOLEAN]]
    BY <1>1, <1>2, <2>1, <2>3, RecoveredIs DEF IInv, Status, Unresolved, Working, Owner
  <2>8. HasRow(th)' /\ KnowsTarget(th)'
    BY <1>1, <2>5, <2>7 DEF HasRow, KnowsTarget
  <2>9. ~ NeverOpened(th.txn)'
    BY <2>5, <2>7 DEF NeverOpened
  <2>10. /\ form' \in [Page -> [txn : Txn, found : Target \cup {Nil}, valid : BOOLEAN, quiet : BOOLEAN] \cup {Nil}]
         /\ \A p \in Page : form'[p] # Nil =>
              form[p] # Nil /\ form'[p].txn = form[p].txn /\ ~ form'[p].valid
    <3>1. \A p \in Page : form[p] # Nil => form[p].txn = t \/ ~ form[p].valid
      BY <2>2 DEF IInv, Forms, FormGood, TypeOK
    <3>2. /\ form' \in [Page -> [txn : Txn, found : Target \cup {Nil}, valid : BOOLEAN, quiet : BOOLEAN] \cup {Nil}]
          /\ \A p \in Page : form'[p] # Nil =>
               /\ form[p] # Nil /\ form'[p].txn = form[p].txn
               /\ form'[p].valid => form[p].valid /\ form[p].txn # t
      BY <1>1, <2>1, NewVersionIs DEF IInv
    <3> QED BY <3>1, <3>2
  <2> QED BY <1>1, <2>2, <2>5, <2>6, <2>7, <2>8, <2>9, <2>10, ClaimStep
<1>3. CASE ~ (store = "up" /\ Recovered[t].status \in Claimable /\ Recovered[t].backup /\ Idle(Recovered, t) /\ ~ Newer(Recovered, t))
  BY <1>1, <1>3, TurnedAway DEF ClaimRollback
<1> QED BY <1>2, <1>3

-----------------------------------------------------------------------------
(* Steps of operators, of the machine, of the store and of the process *)

(* A step that leaves the requests, the commands and the machine alone,     *)
(* keeps the rows of those at work, and brings no unresolved row.           *)
LEMMA RowStep ==
  ASSUME IInv, TypeOK',
         UNCHANGED <<req, remote, target>>,
         store' = store,
         \A t \in Txn :
           /\ row[t].owner = "live" /\ row[t].status \in Working => row'[t] = row[t]
           /\ row'[t].status = "none" => row'[t] = row[t]
           /\ row'[t].status \in Unresolved => row[t].status \in Unresolved,
         \A c \in remote : row'[c.txn].status \in Working \cup {"interrupted"},
         Forms'
  PROVE  IInv'
<1>1. \A r \in Request : Active(r)' <=> Active(r)
  BY DEF Active
<1>2. Threads'
  <2>1. ASSUME NEW r \in Request, Active(r)
        PROVE  HasRow(req[r])' /\ KnowsTarget(req[r])'
    <3>1. HasRow(req[r]) /\ KnowsTarget(req[r])
      BY <2>1, AtWork
    <3>2. row'[req[r].txn] = row[req[r].txn]
      BY <3>1, Threading DEF HasRow, Working, Op
    <3> QED BY <3>1, <3>2 DEF HasRow, KnowsTarget
  <2> QED BY <1>1, <2>1 DEF IInv, Threads
<1>3. Rows'
  BY DEF IInv, Rows
<1>4. Commands'
  BY <1>1 DEF IInv, Commands, CommandGood
<1> QED BY <1>2, <1>3, <1>4 DEF IInv

LEMMA CancelRemediation_Inv ==
  ASSUME SagaAssumption, IInv, NEW t \in Txn, CancelRemediation(t)
  PROVE  IInv'
<1>1. /\ row[t].status = "failed" /\ row' = [row EXCEPT ![t].status = "cancelled"]
      /\ UNCHANGED <<req, remote, target, form, store>>
  BY DEF CancelRemediation
<1>2. row'[t].status = "cancelled" /\ \A u \in Txn : u # t => row'[u] = row[u]
  BY <1>1 DEF IInv, TypeOK
<1>3. TypeOK'
  BY <1>1 DEF IInv, TypeOK, Status
<1>4. \A c \in remote : c.txn \in Txn /\ row[c.txn].status \in Working \cup {"interrupted"}
  BY DEF IInv, Commands, CommandGood, TypeOK, Command
<1>5. \A c \in remote : row'[c.txn].status \in Working \cup {"interrupted"}
  BY <1>1, <1>2, <1>4 DEF Working
<1>6. Forms'
  <2> SUFFICES ASSUME NEW p \in Page, form[p] # Nil PROVE FormGood(form[p])'
    BY <1>1 DEF Forms
  <2>1. FormGood(form[p]) /\ form[p].txn \in Txn
    BY DEF IInv, Forms, TypeOK
  <2>2. CASE form[p].txn = t
    BY <1>1, <1>2, <2>1, <2>2 DEF FormGood, NeverOpened, Unresolved, Working
  <2>3. CASE form[p].txn # t
    BY <1>1, <1>2, <2>1, <2>3 DEF FormGood, NeverOpened
  <2> QED BY <2>2, <2>3
<1> QED BY <1>1, <1>2, <1>3, <1>5, <1>6, RowStep DEF Working, Unresolved

LEMMA OpenRecovery_Inv ==
  ASSUME SagaAssumption, IInv, NEW p \in Page, NEW t \in Txn, OpenRecovery(p, t)
  PROVE  IInv'
<1>1. PICK f : f = [txn |-> t, found |-> Nil, valid |-> TRUE, quiet |-> TRUE]
  OBVIOUS
<1>2. /\ Recovered[t].status \in Unresolved /\ Recovered[t].owner # "live"
      /\ row' = Recovered /\ form' = [form EXCEPT ![p] = f]
      /\ UNCHANGED <<req, remote, target, store>>
  BY <1>1 DEF OpenRecovery
<1>3. /\ row' \in [Txn -> [status : Status, from : Status, owner : Owner, backup : BOOLEAN]]
      /\ \A u \in Txn :
              /\ row'[u].owner = row[u].owner
              /\ row[u].owner = "live" => row'[u] = row[u]
              /\ row'[u].status \in Unresolved <=> row[u].status \in Unresolved
              /\ row'[u].status = row[u].status
                 \/ (row'[u].status = "interrupted" /\ row[u].status \in Working)
              /\ NeverOpened(u)' <=> NeverOpened(u)
  BY <1>2, Marked
<1>4. TypeOK'
  BY <1>1, <1>2, <1>3 DEF IInv, TypeOK
<1>5. \A c \in remote : row'[c.txn].status \in Working \cup {"interrupted"}
  BY <1>3 DEF IInv, Commands, CommandGood, TypeOK, Command
<1>6. Forms'
  <2>1. ~ NeverOpened(t)'
    BY <1>2 DEF NeverOpened, Unresolved, Working
  <2>2. FormGood(f)'
    BY <1>1, <1>2, <2>1 DEF FormGood
  <2>3. ASSUME NEW q \in Page, q # p, form[q] # Nil PROVE FormGood(form[q])'
    BY <1>2, <1>3, <2>3 DEF IInv, Forms, FormGood, TypeOK
  <2>4. \A q \in Page : form'[q] = IF q = p THEN f ELSE form[q]
    BY <1>2 DEF IInv, TypeOK
  <2> QED BY <2>2, <2>3, <2>4 DEF Forms
<1>7. \A u \in Txn : row'[u].status = "none" => row'[u] = row[u]
  BY <1>2, RecoveredIs DEF IInv
<1> QED BY <1>2, <1>3, <1>4, <1>5, <1>6, <1>7, RowStep

LEMMA CloseRecovery_Inv ==
  ASSUME SagaAssumption, IInv, NEW p \in Page, CloseRecovery(p)
  PROVE  IInv'
<1>1. form' = [form EXCEPT ![p] = Nil] /\ UNCHANGED <<row, req, remote, target, store>>
  BY DEF CloseRecovery
<1>2. TypeOK'
  BY <1>1 DEF IInv, TypeOK
<1>3. Forms'
  <2>1. \A q \in Page : form'[q] # Nil => form[q] # Nil /\ form'[q] = form[q]
    BY <1>1 DEF IInv, TypeOK
  <2> QED BY <1>1, <2>1 DEF IInv, Forms, FormGood, NeverOpened
<1>4. \A c \in remote : row'[c.txn].status \in Working \cup {"interrupted"}
  BY <1>1 DEF IInv, Commands, CommandGood
<1> QED BY <1>1, <1>2, <1>3, <1>4, RowStep

LEMMA Reconcile_Inv ==
  ASSUME SagaAssumption, IInv, NEW p \in Page, NEW resolution \in Resolutions, Reconcile(p, resolution)
  PROVE  IInv'
<1>1. PICK t : t = form[p].txn
  OBVIOUS
<1>2. PICK status : status = CASE resolution = "not_applied" -> "cancelled"
                               [] resolution = "prepare_rollback" -> "recovery_ready"
                               [] resolution = "restored_manually" -> "rolled_back"
  OBVIOUS
<1>3. /\ form[p] # Nil /\ form[p].found # Nil /\ form[p].valid /\ t \in Txn
      /\ row[t].status \in Unresolved /\ row[t].owner # "live"
      /\ UNCHANGED <<req, remote, target, store>>
  BY <1>1 DEF Reconcile, MayReconcile, CurrentVersion, IInv, TypeOK
<1>4. remote = {}
  BY <1>3 DEF IInv, Forms, FormGood
<1>5. status \in Status \ ({"none"} \cup Working)
  BY <1>2 DEF Resolutions, Status, Unresolved, Working
<1>6. /\ row' = [row EXCEPT ![t].status = status, ![t].owner = Nil, ![t].backup = @ \/ resolution = "prepare_rollback"]
      /\ form' = [NewVersion(t) EXCEPT ![p] = Nil]
  BY <1>1, <1>2 DEF Reconcile
<1>7. /\ row' \in [Txn -> [status : Status, from : Status, owner : Owner, backup : BOOLEAN]]
      /\ row'[t].status = status /\ \A u \in Txn : u # t => row'[u] = row[u]
  <2>1. PICK b : b = (row[t].backup \/ resolution = "prepare_rollback")
    OBVIOUS
  <2>2. b \in BOOLEAN
    BY <2>1
  <2>3. row' = [row EXCEPT ![t].status = status, ![t].owner = Nil, ![t].backup = b]
    BY <1>6, <2>1, Zenon
  <2>4. PICK x : x = [row[t] EXCEPT !.status = status, !.owner = Nil, !.backup = b]
    OBVIOUS
  <2>5. row' = [row EXCEPT ![t] = x]
    BY <2>3, <2>4
  <2>6. status \in Status /\ Nil \in Owner
    BY <1>5 DEF Owner
  <2>7. x \in [status : Status, from : Status, owner : Owner, backup : BOOLEAN] /\ x.status = status
    <3>1. row[t] \in [status : Status, from : Status, owner : Owner, backup : BOOLEAN]
      BY <1>3 DEF IInv, TypeOK
    <3> QED BY <2>2, <2>4, <2>6, <3>1
  <2> QED BY <1>3, <2>5, <2>7 DEF IInv, TypeOK
<1>8. /\ form' \in [Page -> [txn : Txn, found : Target \cup {Nil}, valid : BOOLEAN, quiet : BOOLEAN] \cup {Nil}]
      /\ \A q \in Page : form'[q] # Nil =>
           /\ form[q] # Nil /\ form'[q].txn = form[q].txn /\ form'[q].found = form[q].found
           /\ form'[q].quiet = form[q].quiet
           /\ form'[q].valid => form[q].valid /\ form[q].txn # t
  BY <1>3, <1>6, NewVersionIs DEF IInv
<1>9. TypeOK'
  BY <1>3, <1>7, <1>8 DEF IInv, TypeOK
<1>10. Forms'
  <2> SUFFICES ASSUME NEW q \in Page, form'[q] # Nil PROVE FormGood(form[q])'
    BY DEF Forms
  <2>1. FormGood(form[q]) /\ form[q].txn \in Txn
    BY <1>8 DEF IInv, Forms, TypeOK
  <2>2. CASE form[q].txn = t
    BY <1>5, <1>7, <1>8, <2>2 DEF FormGood, NeverOpened, Working
  <2>3. CASE form[q].txn # t
    BY <1>3, <1>7, <1>8, <2>1, <2>3 DEF FormGood, NeverOpened
  <2> QED BY <2>2, <2>3
<1> QED BY <1>3, <1>4, <1>5, <1>7, <1>9, <1>10, RowStep

LEMMA Inspect_Inv ==
  ASSUME SagaAssumption, IInv, NEW p \in Page, NEW byHand \in BOOLEAN, Inspect(p, byHand)
  PROVE  IInv'
<1>1. PICK t : t = form[p].txn
  OBVIOUS
<1>2. /\ form[p] # Nil /\ t \in Txn /\ remote = {}
      /\ byHand => target[t] # "untouched"
      /\ target' = IF byHand THEN [target EXCEPT ![t] = "restored"] ELSE target
      /\ form' = [form EXCEPT ![p].found = target'[t]]
      /\ UNCHANGED <<row, req, remote, store>>
  BY <1>1 DEF Inspect, IInv, TypeOK
<1>3. /\ target' \in [Txn -> Target]
      /\ \A u \in Txn : target'[u] = target[u] \/ (u = t /\ target[u] # "untouched" /\ target'[u] = "restored")
  BY <1>2 DEF IInv, TypeOK, Target
<1>4. /\ form' \in [Page -> [txn : Txn, found : Target \cup {Nil}, valid : BOOLEAN, quiet : BOOLEAN] \cup {Nil}]
      /\ \A q \in Page : form'[q] # Nil =>
           /\ form[q] # Nil /\ form'[q].txn = form[q].txn
           /\ form'[q].quiet = form[q].quiet /\ form'[q].valid = form[q].valid
           /\ form'[q].found = IF q = p THEN target'[t] ELSE form[q].found
  BY <1>2, <1>3 DEF IInv, TypeOK
<1>5. TypeOK'
  BY <1>2, <1>3, <1>4 DEF IInv, TypeOK
<1>6. ~ NeverOpened(t)
  BY <1>1, <1>2 DEF IInv, Forms, FormGood
<1>7. Threads'
  <2>1. ASSUME NEW r \in Request, Active(r)
        PROVE  HasRow(req[r])' /\ KnowsTarget(req[r])'
    <3>1. HasRow(req[r]) /\ KnowsTarget(req[r]) /\ req[r].op \in Op
      BY <2>1, AtWork, Threading
    <3>2. HasRow(req[r])'
      BY <1>2, <3>1 DEF HasRow
    <3>3. CASE req[r].op = "rollback"
      BY <1>2, <1>3, <3>1, <3>3 DEF HasRow, KnowsTarget
    <3>4. CASE req[r].op # "rollback"
      <4>1. req[r].txn # t
        BY <1>6, <3>1, <3>4 DEF HasRow, NeverOpened, Op
      <4> QED BY <1>2, <1>3, <3>1, <4>1 DEF HasRow, KnowsTarget
    <3> QED BY <3>2, <3>3, <3>4
  <2>2. \A r \in Request : Active(r)' <=> Active(r)
    BY <1>2 DEF Active
  <2> QED BY <1>2, <2>1, <2>2 DEF IInv, Threads
<1>8. Rows'
  BY <1>2, <1>3, <1>6 DEF IInv, Rows, NeverOpened
<1>9. Commands'
  BY <1>2 DEF Commands
<1>10. Forms'
  <2> SUFFICES ASSUME NEW q \in Page, form'[q] # Nil PROVE FormGood(form[q])'
    BY DEF Forms
  <2>1. FormGood(form[q]) /\ form[q].txn \in Txn
    BY <1>4 DEF IInv, Forms, TypeOK
  <2>2. ~ NeverOpened(form[q].txn)'
    BY <1>2, <1>4, <2>1 DEF FormGood, NeverOpened
  <2>3. CASE q = p
    BY <1>1, <1>2, <1>4, <2>1, <2>2, <2>3 DEF FormGood
  <2>4. CASE q # p
    BY <1>2, <1>3, <1>4, <2>1, <2>2, <2>4 DEF FormGood
  <2> QED BY <2>3, <2>4
<1> QED BY <1>5, <1>7, <1>8, <1>9, <1>10 DEF IInv

(* What the helper's answer says of the machine.                            *)
LEMMA EffectIs ==
  ASSUME IInv, NEW c \in remote, NEW e \in Effect(c)
  PROVE  /\ e[1] \in Target /\ e[2] \in {"ok", "failed", "unknown"}
         /\ c.op = "backup" => /\ e[2] = "failed" => e[1] = "untouched"
                               /\ e[2] = "ok" => e[1] = "saved"
         /\ c.op = "rollback" /\ e[2] = "ok" => e[1] = "restored"
<1>1. c.op \in Op /\ c.txn \in Txn /\ target[c.txn] \in Target /\ (c.op = "backup" => target[c.txn] = "untouched")
  BY DEF IInv, TypeOK, Command, Commands, CommandGood
<1>2. CASE \E u \in Txn \ {c.txn} : target[u] \in Held
  <2>1. e = <<target[c.txn], "failed">>
    BY <1>2 DEF Effect
  <2> QED BY <1>1, <2>1
<1>3. CASE ~ (\E u \in Txn \ {c.txn} : target[u] \in Held)
  <2>1. CASE c.op = "backup"
    <3>1. e \in {<<"saved", "ok">>, <<"saved", "unknown">>, <<target[c.txn], "failed">>}
      BY <1>1, <1>3, <2>1 DEF Effect
    <3> QED BY <1>1, <2>1, <3>1 DEF Target, Held
  <2>2. CASE c.op = "apply"
    <3>1. e \in {<<"changed", "ok">>, <<target[c.txn], "failed">>, <<target[c.txn], "unknown">>,
                 <<"apply_failed", "failed">>, <<"apply_unknown", "unknown">>}
      BY <1>1, <1>3, <2>2 DEF Effect
    <3> QED BY <1>1, <2>2, <3>1 DEF Target, Held, Changed
  <2>3. CASE c.op = "rollback"
    <3>1. e \in {<<"restored", "ok">>, <<target[c.txn], "failed">>, <<target[c.txn], "unknown">>,
                 <<"restoring", "failed">>, <<"reload_unknown", "unknown">>}
      BY <1>1, <1>3, <2>3 DEF Effect
    <3> QED BY <1>1, <2>3, <3>1 DEF Target, Held, Changed
  <2> QED BY <1>1, <2>1, <2>2, <2>3 DEF Op
<1> QED BY <1>2, <1>3

(* A command that is there is the only one, and no form looked meanwhile.   *)
LEMMA OneCommand ==
  ASSUME SagaAssumption, IInv, NEW c \in remote
  PROVE  /\ remote = {c} /\ c \in Command /\ CommandGood(c)
         /\ c.by # Nil => c.by \in Request /\ Active(c.by)
         /\ \A r \in Request : Active(r) => req[r].txn = c.txn
         /\ \A p \in Page : form[p] # Nil => ~ form[p].valid \/ form[p].found = Nil
<1>1. remote = {c} /\ c \in Command /\ CommandGood(c)
  BY DEF IInv, Commands, TypeOK
<1>2. c.by # Nil => c.by \in Request /\ Active(c.by)
  BY <1>1 DEF Command, CommandGood, Active
<1>3. \A r \in Request : Active(r) => req[r].txn = c.txn
  BY AtWork
<1>4. \A p \in Page : form[p] # Nil => ~ form[p].valid \/ form[p].found = Nil
  BY <1>1 DEF IInv, Forms, FormGood
<1> QED BY <1>1, <1>2, <1>3, <1>4

LEMMA Execute_Inv ==
  ASSUME SagaAssumption, IInv, NEW c \in remote, Execute(c)
  PROVE  IInv'
<1>1. PICK e \in Effect(c) :
        /\ target' = [target EXCEPT ![c.txn] = e[1]]
        /\ req' = IF c.by = Nil THEN req ELSE [req EXCEPT ![c.by].result = e[2]]
  BY DEF Execute
<1>2. UNCHANGED <<row, form, store>> /\ remote' = remote \ {c}
  BY DEF Execute
<1>3. /\ remote = {c} /\ c \in Command /\ CommandGood(c)
      /\ c.by # Nil => c.by \in Request /\ Active(c.by)
      /\ \A r \in Request : Active(r) => req[r].txn = c.txn
      /\ \A p \in Page : form[p] # Nil => ~ form[p].valid \/ form[p].found = Nil
  BY OneCommand
<1>4. /\ e[1] \in Target /\ e[2] \in {"ok", "failed", "unknown"}
      /\ c.op = "backup" => /\ e[2] = "failed" => e[1] = "untouched"
                            /\ e[2] = "ok" => e[1] = "saved"
      /\ c.op = "rollback" /\ e[2] = "ok" => e[1] = "restored"
  BY EffectIs
<1>5. c.txn \in Txn /\ remote' = {}
  BY <1>2, <1>3 DEF Command
<1>6. /\ target' \in [Txn -> Target] /\ target'[c.txn] = e[1]
      /\ \A t \in Txn : t # c.txn => target'[t] = target[t]
  BY <1>1, <1>4, <1>5 DEF IInv, TypeOK
<1>7. /\ req' \in [Request -> [at : {"asleep", "capture", "preAudit", "send", "run", "postAudit", "catch"},
                               op : Op, txn : 0 .. MaxTxn, seen : Status, result : Outcome]]
      /\ \A r \in Request : r # c.by => req'[r] = req[r]
      /\ c.by # Nil => req'[c.by] = [req[c.by] EXCEPT !.result = e[2]]
  BY <1>1, <1>3, <1>4 DEF IInv, TypeOK, Outcome
<1>8. TypeOK'
  BY <1>2, <1>5, <1>6, <1>7 DEF IInv, TypeOK
<1>9. Threads'
  <2>1. \A r \in Request : Active(r)' <=> Active(r)
    <3>1. c.by # Nil => req'[c.by].at = req[c.by].at
      BY <1>3, <1>7, Threading
    <3>2. ASSUME NEW r \in Request PROVE req'[r].at = req[r].at
      <4>1. CASE c.by = Nil
        BY <1>1, <4>1
      <4>2. CASE c.by # Nil
        BY <1>7, <3>1, <4>2
      <4> QED BY <4>1, <4>2
    <3> QED BY <3>2 DEF Active
  <2>2. ASSUME NEW r \in Request, Active(r)
        PROVE  HasRow(req[r])' /\ KnowsTarget(req[r])'
    <3>1. HasRow(req[r]) /\ KnowsTarget(req[r]) /\ req[r].txn = c.txn /\ req[r].op \in Op
      BY <1>3, <2>2, AtWork, Threading
    <3>2. CASE c.by = Nil
      <4>1. req'[r] = req[r] /\ req[r].at \in {"run", "catch"} /\ req[r].result = "unknown"
        BY <1>1, <1>3, <2>2, <3>2 DEF CommandGood
      <4> QED BY <1>2, <3>1, <4>1 DEF HasRow, KnowsTarget
    <3>3. CASE c.by # Nil
      <4>1. r = c.by /\ req[r].at = "run" /\ req[r].op = c.op
        BY <1>3, <2>2, <3>3, AtWork DEF CommandGood, Sole
      <4>2. /\ req'[r].at = "run" /\ req'[r].op = c.op /\ req'[r].txn = c.txn /\ req'[r].result = e[2]
        BY <1>7, <3>1, <3>3, <4>1, Threading
      <4>3. HasRow(req[r])'
        BY <1>2, <3>1, <4>1, <4>2 DEF HasRow
      <4> QED BY <1>4, <1>6, <4>2, <4>3 DEF KnowsTarget
    <3> QED BY <3>2, <3>3
  <2>3. ASSUME NEW r \in Request, ~ Active(r) PROVE req'[r] = req[r]
    <3>1. CASE c.by = Nil
      BY <1>1, <3>1
    <3>2. CASE c.by # Nil
      BY <1>3, <1>7, <2>3, <3>2
    <3> QED BY <3>1, <3>2
  <2> QED BY <2>1, <2>2, <2>3 DEF IInv, Threads
<1>10. Rows'
  <2>1. row[c.txn].status # "none"
    BY <1>3 DEF CommandGood, Working
  <2> QED BY <1>2, <1>6, <2>1 DEF IInv, Rows
<1>11. Commands'
  BY <1>5 DEF Commands
<1>12. Forms'
  BY <1>2, <1>3 DEF IInv, Forms, FormGood, NeverOpened
<1> QED BY <1>8, <1>9, <1>10, <1>11, <1>12 DEF IInv

LEMMA LoseConnection_Inv ==
  ASSUME SagaAssumption, IInv, NEW c \in remote, LoseConnection(c)
  PROVE  IInv'
<1>1. PICK d : d = [c EXCEPT !.by = Nil]
  OBVIOUS
<1>2. /\ c.by # Nil /\ remote' = (remote \ {c}) \cup {d}
      /\ req' = [req EXCEPT ![c.by].result = "unknown"]
      /\ UNCHANGED <<row, target, form, store>>
  BY <1>1 DEF LoseConnection
<1>3. /\ remote = {c} /\ c \in Command /\ CommandGood(c)
      /\ c.by \in Request /\ Active(c.by)
      /\ \A p \in Page : form[p] # Nil => ~ form[p].valid \/ form[p].found = Nil
  BY <1>2, OneCommand
<1>4. /\ remote' = {d} /\ d \in Command /\ d.by = Nil /\ d.txn = c.txn /\ d.op = c.op
  BY <1>1, <1>2, <1>3 DEF Command
<1>5. PICK by : by = c.by
  OBVIOUS
<1>6. /\ \A r \in Request : r # by => req'[r] = req[r]
      /\ req'[by] = [req[by] EXCEPT !.result = "unknown"]
      /\ req' \in [Request -> [at : {"asleep", "capture", "preAudit", "send", "run", "postAudit", "catch"},
                               op : Op, txn : 0 .. MaxTxn, seen : Status, result : Outcome]]
  BY <1>2, <1>3, <1>5 DEF IInv, TypeOK, Outcome
<1>7. /\ req[by].at = "run" /\ by \in Request /\ Sole(by) /\ HasRow(req[by]) /\ KnowsTarget(req[by])
  BY <1>2, <1>3, <1>5, AtWork DEF CommandGood
<1>8. /\ req'[by].at = "run" /\ req'[by].op = req[by].op /\ req'[by].txn = req[by].txn
      /\ req'[by].result = "unknown"
  BY <1>6, <1>7, Threading
<1>9. TypeOK'
  BY <1>2, <1>4, <1>6 DEF IInv, TypeOK
<1>10. \A r \in Request : Active(r)' <=> r = by
  BY <1>6, <1>7, <1>8 DEF Active, Sole
<1>11. Threads'
  <2>1. HasRow(req[by])' /\ KnowsTarget(req[by])'
    BY <1>2, <1>7, <1>8 DEF HasRow, KnowsTarget
  <2>2. \A r \in Request : r # by => ~ Active(r) /\ req'[r] = req[r]
    BY <1>6, <1>7 DEF Sole
  <2> QED BY <1>10, <2>1, <2>2 DEF IInv, Threads
<1>12. Rows'
  BY <1>2 DEF IInv, Rows
<1>13. Commands'
  <2>1. CommandGood(d)'
    BY <1>2, <1>3, <1>4, <1>8, <1>10 DEF CommandGood
  <2> QED BY <1>4, <2>1 DEF Commands
<1>14. Forms'
  BY <1>2, <1>3 DEF IInv, Forms, FormGood, NeverOpened
<1> QED BY <1>9, <1>11, <1>12, <1>13, <1>14 DEF IInv

LEMMA Store_Inv ==
  ASSUME SagaAssumption, IInv, StoreFails \/ StoreRecovers
  PROVE  IInv'
<1>1. UNCHANGED <<row, req, remote, target, form>> /\ store' \in {"up", "down"} /\ (store' = "down" \/ Transient)
  BY DEF StoreFails, StoreRecovers
<1>2. TypeOK'
  BY <1>1 DEF IInv, TypeOK
<1>3. Threads'
  <2>1. \A r \in Request : HasRow(req[r])' <=> HasRow(req[r])
    BY <1>1 DEF HasRow
  <2>2. \A r \in Request : KnowsTarget(req[r]) => KnowsTarget(req[r])'
    BY <1>1 DEF KnowsTarget
  <2> QED BY <1>1, <2>1, <2>2 DEF IInv, Threads, Active
<1>4. Rows' /\ Commands' /\ Forms'
  BY <1>1 DEF IInv, Rows, Commands, CommandGood, Active, Forms, FormGood, NeverOpened
<1> QED BY <1>2, <1>3, <1>4 DEF IInv

LEMMA Restart_Inv ==
  ASSUME SagaAssumption, IInv, NEW container \in {"same", "new"}, Restart(container)
  PROVE  IInv'
<1>1. /\ req' = [r \in Request |-> Asleep] /\ store' = "up" /\ UNCHANGED <<target, form>>
      /\ remote' = {[c EXCEPT !.by = Nil] : c \in remote}
  BY DEF Restart
<1>2. /\ row' \in [Txn -> [status : Status, from : Status, owner : Owner, backup : BOOLEAN]]
      /\ \A t \in Txn : row'[t].status = row[t].status /\ row'[t].owner # "live"
      /\ \A t \in Txn : row[t].owner = Nil => row'[t] = row[t]
  <2>1. row' = [t \in Txn |-> IF row[t].owner = Nil THEN row[t]
                 ELSE [row[t] EXCEPT !.owner = IF container = "same" THEN (IF @ = "live" THEN "dead" ELSE @) ELSE "unknown"]]
    BY DEF Restart
  <2>2. Nil # "live"
    BY DEF SagaAssumption
  <2> QED BY <2>1, <2>2 DEF IInv, TypeOK, Owner
<1>3. \A r \in Request : req'[r] = Asleep /\ ~ Active(r)'
  BY <1>1 DEF Active, Asleep
<1>4. \A c \in remote' : \E d \in remote : c.txn = d.txn /\ c.op = d.op /\ c.by = Nil /\ c \in Command
  BY <1>1 DEF IInv, TypeOK, Command
<1>5. TypeOK'
  <2>1. req' \in [Request -> [at : {"asleep", "capture", "preAudit", "send", "run", "postAudit", "catch"},
                              op : Op, txn : 0 .. MaxTxn, seen : Status, result : Outcome]]
    BY <1>1 DEF Asleep, Op, Outcome, Status, SagaAssumption
  <2> QED BY <1>1, <1>2, <1>4, <2>1 DEF IInv, TypeOK
<1>6. Threads'
  BY <1>3 DEF Threads, Asleep
<1>7. Rows'
  BY <1>1, <1>2 DEF IInv, Rows, NoRow
<1>8. Commands'
  <2>1. \A c \in remote' : CommandGood(c)'
    BY <1>1, <1>2, <1>3, <1>4 DEF IInv, Commands, CommandGood, TypeOK, Command
  <2>2. \A c, d \in remote' : c = d
    BY <1>1 DEF IInv, Commands
  <2> QED BY <2>1, <2>2 DEF Commands
<1>9. Forms'
  <2>1. remote = {} => remote' = {}
    BY <1>1
  <2>2. \A t \in Txn : ~ NeverOpened(t) => ~ NeverOpened(t)'
    BY <1>2 DEF NeverOpened
  <2> QED BY <1>1, <1>2, <2>1, <2>2 DEF IInv, Forms, FormGood, TypeOK
<1> QED BY <1>5, <1>6, <1>7, <1>8, <1>9 DEF IInv

-----------------------------------------------------------------------------
(* The invariant *)

LEMMA Controller_Inv ==
  ASSUME SagaAssumption, IInv, NEW r \in Request, Controller(r)
  PROVE  IInv'
<1>1. CASE StartApply(r)
  BY <1>1, StartApply_Inv
<1>2. CASE \E t \in Txn : StartRollback(r, t)
  BY <1>2, StartRollback_Inv
<1>3. CASE CreateRemediation(r)
  BY <1>3, CreateRemediation_Inv
<1>4. CASE ClaimRollback(r)
  BY <1>4, ClaimRollback_Inv
<1>5. CASE \E ok \in BOOLEAN : AssessPreAudit(r, ok) \/ RunPlaybook(r, ok)
  BY <1>5, AssessPreAudit_Inv, RunPlaybook_Inv
<1>6. CASE RecordBackup(r)
  BY <1>6, RecordBackup_Inv
<1>7. CASE RecordApply(r)
  BY <1>7, RecordApply_Inv
<1>8. CASE RecordPostAudit(r)
  BY <1>8, RecordPostAudit_Inv
<1>9. CASE RecordRollback(r)
  BY <1>9, RecordRollback_Inv
<1>10. CASE CommandFailed(r)
  BY <1>10, CommandFailed_Inv
<1>11. CASE RecordFailure(r)
  BY <1>11, RecordFailure_Inv
<1> QED
  BY <1>1, <1>2, <1>3, <1>4, <1>5, <1>6, <1>7, <1>8, <1>9, <1>10, <1>11 DEF Controller

LEMMA Operator_Inv ==
  ASSUME SagaAssumption, IInv, NEW p \in Page, Operator(p)
  PROVE  IInv'
<1>1. CASE \E t \in Txn : OpenRecovery(p, t)
  BY <1>1, OpenRecovery_Inv
<1>2. CASE CloseRecovery(p)
  BY <1>2, CloseRecovery_Inv
<1>3. CASE \E byHand \in BOOLEAN : Inspect(p, byHand)
  BY <1>3, Inspect_Inv
<1>4. CASE \E resolution \in Resolutions : Reconcile(p, resolution)
  BY <1>4, Reconcile_Inv
<1> QED BY <1>1, <1>2, <1>3, <1>4 DEF Operator

LEMMA Init_Inv ==
  ASSUME SagaAssumption, Init
  PROVE  RInv
<1>1. TypeOK
  BY DEF Init, TypeOK, SagaAssumption, NoRow, Asleep, Status, Owner, Op, Outcome, Target
<1>2. Threads
  BY DEF Init, Threads, Active, Asleep
<1>3. Rows
  BY DEF Init, Rows, NoRow, Unresolved, Working
<1>4. Commands /\ Forms
  BY DEF Init, Commands, Forms
<1>5. TargetIsRecoverable
  BY DEF Init, TargetIsRecoverable, Held, Changed
<1> QED BY <1>1, <1>2, <1>3, <1>4, <1>5 DEF RInv, IInv

LEMMA Next_Inv ==
  ASSUME SagaAssumption, IInv, [Next]_vars
  PROVE  IInv'
<1>1. CASE \E r \in Request : Controller(r)
  BY <1>1, Controller_Inv
<1>2. CASE \E p \in Page : Operator(p)
  BY <1>2, Operator_Inv
<1>3. CASE \E t \in Txn : CancelRemediation(t)
  BY <1>3, CancelRemediation_Inv
<1>4. CASE \E c \in remote : Execute(c) \/ LoseConnection(c)
  BY <1>4, Execute_Inv, LoseConnection_Inv
<1>5. CASE StoreFails \/ StoreRecovers
  BY <1>5, Store_Inv
<1>6. CASE \E container \in {"same", "new"} : Restart(container)
  BY <1>6, Restart_Inv
<1>7. CASE UNCHANGED vars
  <2>1. UNCHANGED <<row, req, remote, target, form, store>>
    BY <1>7 DEF vars
  <2>2. TypeOK' /\ Threads'
    BY <2>1 DEF IInv, TypeOK, Threads, Active, HasRow, KnowsTarget
  <2>3. Rows' /\ Commands' /\ Forms'
    BY <2>1 DEF IInv, Rows, Commands, CommandGood, Active, Forms, FormGood, NeverOpened
  <2> QED BY <2>2, <2>3 DEF IInv
<1> QED BY <1>1, <1>2, <1>3, <1>4, <1>5, <1>6, <1>7 DEF Next

(* What requests, forms and commands know of each other's rows is true in    *)
(* every state, whatever fails, is lost, restarts or is submitted late       *)
(* (remediation.ts:234-398, state-store.ts:1011-1130).                       *)
THEOREM Invariance == SagaAssumption => (Spec => []IInv)
<1> SUFFICES ASSUME SagaAssumption PROVE Spec => []IInv
  OBVIOUS
<1>1. Init => IInv
  BY Init_Inv DEF RInv
<1>2. IInv /\ [Next]_vars => IInv'
  BY Next_Inv
<1> QED BY <1>1, <1>2, PTL DEF Spec

LEMMA Promises == ASSUME IInv PROVE TypeOK /\ CallsAsPromised /\ AttestedAsSeen
<1>1. TypeOK
  BY DEF IInv
<1>2. CallsAsPromised
  BY DEF IInv, Commands, CommandGood, CallsAsPromised
<1>3. AttestedAsSeen
  BY DEF IInv, Forms, FormGood, AttestedAsSeen, MayReconcile, CurrentVersion
<1> QED BY <1>1, <1>2, <1>3

(* The helper never gets two commands at a time, nor an apply for a          *)
(* transaction whose rollback began: what TargetFirewall takes for granted   *)
(* (remediation.ts:234-273, 361-393, state-store.ts:1105).                   *)
THEOREM CommandsAsPromised == SagaAssumption => (Spec => []CallsAsPromised)
<1> SUFFICES ASSUME SagaAssumption PROVE Spec => []CallsAsPromised
  OBVIOUS
<1>1. IInv => CallsAsPromised
  BY Promises
<1> QED BY <1>1, Invariance, PTL

(* A recovery that the store accepts is about the machine its operator saw:  *)
(* since the form was opened nothing was sent for its transaction            *)
(* (state-store.ts:1043, operation-owner.ts:37).                             *)
THEOREM FormsAttestWhatWasSeen == SagaAssumption => (Spec => []AttestedAsSeen)
<1> SUFFICES ASSUME SagaAssumption PROVE Spec => []AttestedAsSeen
  OBVIOUS
<1>1. IInv => AttestedAsSeen
  BY Promises
<1> QED BY <1>1, Invariance, PTL

-----------------------------------------------------------------------------
(* The way back *)

Dirty(t) == target[t] \in Held \cup Changed

Undoable(x) == x.status \in Unresolved \/ (x.backup /\ x.status \in Claimable)

(* A step keeps the way back of every transaction whose machine it leaves   *)
(* alone when it keeps its row undoable.                                    *)
LEMMA WayBack ==
  ASSUME TargetIsRecoverable,
         \A t \in Txn : Dirty(t)' => Dirty(t) \/ row'[t].status \in Unresolved,
         \A t \in Txn : Dirty(t)' /\ Undoable(row[t]) => Undoable(row'[t])
  PROVE  TargetIsRecoverable'
BY DEF TargetIsRecoverable, Undoable, Dirty

(* The writes of the request r to its row t.                                *)
LEMMA OwnRow ==
  ASSUME IInv, TargetIsRecoverable, NEW r \in Request, Active(r),
         NEW status \in Status, NEW backup \in BOOLEAN,
         Update(req[r].txn, status, backup), target' = target,
         \/ status \in Unresolved
         \/ status \in Claimable /\ backup
         \/ ~ Dirty(req[r].txn)
  PROVE  TargetIsRecoverable'
<1> DEFINE tx == req[r].txn
<1>1. tx \in Txn
  BY AtWork
<1>2. row'[tx].status = status /\ row'[tx].backup = backup /\ \A u \in Txn : u # tx => row'[u] = row[u]
  BY <1>1, UpdateIs DEF IInv
<1> QED BY <1>1, <1>2 DEF TargetIsRecoverable, Dirty

LEMMA Controller_Recoverable ==
  ASSUME SagaAssumption, ~ Transient, RInv, NEW r \in Request, Controller(r)
  PROVE  TargetIsRecoverable'
<1> USE DEF RInv
<1>1. ASSUME UNCHANGED <<row, target>> PROVE TargetIsRecoverable'
  BY <1>1 DEF TargetIsRecoverable
<1>2. CASE \/ StartApply(r) \/ (\E t \in Txn : StartRollback(r, t)) \/ RecordApply(r) \/ CommandFailed(r)
           \/ \E ok \in BOOLEAN : RunPlaybook(r, ok)
  BY <1>1, <1>2 DEF StartApply, StartRollback, RecordApply, CommandFailed, RunPlaybook
<1>3. CASE CreateRemediation(r)
  <2>1. \A u \in Txn : row'[u] = row[u] \/ row'[u] = Recovered[u] \/ row'[u].status = "preparing"
    <3>1. ASSUME NEW t \in Txn, row' = [Recovered EXCEPT ![t] = [NoRow EXCEPT !.status = "preparing", !.owner = "live"]],
                 NEW u \in Txn
          PROVE  row'[u] = Recovered[u] \/ row'[u].status = "preparing"
      BY <3>1, RecoveredIs DEF IInv, NoRow
    <3> QED BY <1>3, <3>1 DEF CreateRemediation
  <2>2. target' = target
    BY <1>3 DEF CreateRemediation
  <2>3. \A u \in Txn : Undoable(row[u]) => Undoable(row'[u])
    BY <2>1, RecoveredIs DEF IInv, Undoable, Unresolved, Working
  <2> QED BY <2>2, <2>3, WayBack DEF Dirty
<1>4. CASE ClaimRollback(r)
  <2>1. \A u \in Txn : row'[u] = row[u] \/ row'[u] = Recovered[u] \/ row'[u].status = "rolling_back"
    <3>1. ASSUME NEW t, row' = [Recovered EXCEPT ![t].status = "rolling_back", ![t].owner = "live", ![t].from = "none"],
                 NEW u \in Txn
          PROVE  row'[u] = Recovered[u] \/ row'[u].status = "rolling_back"
      BY <3>1, RecoveredIs DEF IInv
    <3>2. PICK t : t = req[r].txn
      OBVIOUS
    <3> QED BY <1>4, <3>1, <3>2 DEF ClaimRollback
  <2>2. target' = target
    BY <1>4 DEF ClaimRollback
  <2>3. \A u \in Txn : Undoable(row[u]) => Undoable(row'[u])
    BY <2>1, RecoveredIs DEF IInv, Undoable, Unresolved, Working
  <2> QED BY <2>2, <2>3, WayBack DEF Dirty
<1>5. CASE \E ok \in BOOLEAN : AssessPreAudit(r, ok)
  <2>1. Active(r) /\ req[r].at = "preAudit" /\ target' = target
    BY <1>5 DEF AssessPreAudit, At, Active
  <2>2. row[req[r].txn].status = "preparing" /\ req[r].txn \in Txn
    BY <2>1, AtWork DEF HasRow, KnowsTarget
  <2>3. row[req[r].txn].status \in Unresolved /\ row[req[r].txn].status \in Status /\ row[req[r].txn].backup \in BOOLEAN
    BY <2>2 DEF IInv, TypeOK, Unresolved, Working
  <2>4. Update(req[r].txn, row[req[r].txn].status, row[req[r].txn].backup) \/ UNCHANGED row
    BY <1>5 DEF AssessPreAudit
  <2> QED BY <1>1, <2>1, <2>3, <2>4, OwnRow
<1>6. CASE RecordBackup(r)
  <2>1. Active(r) /\ target' = target
    BY <1>6 DEF RecordBackup, Answered, At, Active
  <2>2. Update(req[r].txn, "backed_up", TRUE) \/ UNCHANGED row
    BY <1>6 DEF RecordBackup
  <2>3. "backed_up" \in Unresolved /\ "backed_up" \in Status
    BY DEF Status, Unresolved, Working
  <2> QED BY <1>1, <2>1, <2>2, <2>3, OwnRow
<1>7. CASE RecordPostAudit(r)
  <2>1. Active(r) /\ req[r].at = "postAudit" /\ target' = target
    BY <1>7 DEF RecordPostAudit, At, Active
  <2>2. row[req[r].txn].backup /\ row[req[r].txn].backup \in BOOLEAN
    BY <2>1, AtWork DEF HasRow, KnowsTarget, IInv, TypeOK
  <2>3. Update(req[r].txn, "applied", row[req[r].txn].backup) \/ UNCHANGED row
    BY <1>7 DEF RecordPostAudit
  <2>4. "applied" \in Claimable /\ "applied" \in Status
    BY DEF Status, Claimable
  <2> QED BY <1>1, <2>1, <2>2, <2>3, <2>4, OwnRow
<1>8. CASE RecordRollback(r)
  <2>1. Active(r) /\ req[r].at = "run" /\ req[r].op = "rollback" /\ req[r].result = "ok" /\ target' = target
    BY <1>8 DEF RecordRollback, Answered, At, Is, Active
  <2>2. ~ Dirty(req[r].txn) /\ row[req[r].txn].backup \in BOOLEAN
    BY <2>1, AtWork DEF KnowsTarget, Dirty, Held, Changed, IInv, TypeOK
  <2>3. Update(req[r].txn, "rolled_back", row[req[r].txn].backup) \/ UNCHANGED row
    BY <1>8 DEF RecordRollback
  <2>4. "rolled_back" \in Status
    BY DEF Status
  <2> QED BY <1>1, <2>1, <2>2, <2>3, <2>4, OwnRow
<1>9. CASE RecordFailure(r)
  <2>1. Active(r) /\ req[r].at = "catch" /\ target' = target
    BY <1>9 DEF RecordFailure, At, Active
  <2>2. /\ req[r].result \in {"failed", "unknown"} /\ req[r].op \in Op /\ row[req[r].txn].backup \in BOOLEAN
        /\ req[r].op # "backup" => row[req[r].txn].backup
        /\ req[r].op = "backup" /\ req[r].result = "failed" /\ store = "up" => ~ Dirty(req[r].txn)
    BY <2>1, AtWork, Threading DEF HasRow, KnowsTarget, Dirty, Held, Changed, IInv, TypeOK
  <2>3. CASE store # "up"
    BY <1>1, <1>9, <2>3 DEF RecordFailure
  <2>4. CASE store = "up"
    <3>1. Update(req[r].txn, FailureStatus(r), row[req[r].txn].backup)
      BY <1>9, <2>4 DEF RecordFailure
    <3>2. FailureStatus(r) \in Status
      BY DEF FailureStatus, Status, Unresolved, Claimable
    <3>3. \/ FailureStatus(r) \in Unresolved
          \/ FailureStatus(r) \in Claimable /\ row[req[r].txn].backup
          \/ ~ Dirty(req[r].txn)
      BY <2>2, <2>4 DEF FailureStatus, Unresolved, Claimable, Is
    <3> QED BY <2>1, <2>2, <3>1, <3>2, <3>3, OwnRow
  <2> QED BY <2>3, <2>4
<1> QED
  BY <1>2, <1>3, <1>4, <1>5, <1>6, <1>7, <1>8, <1>9 DEF Controller

LEMMA Operator_Recoverable ==
  ASSUME SagaAssumption, RInv, NEW p \in Page, Operator(p)
  PROVE  TargetIsRecoverable'
<1> USE DEF RInv
<1>1. CASE \E t \in Txn : OpenRecovery(p, t)
  <2>1. row' = Recovered /\ target' = target
    BY <1>1 DEF OpenRecovery
  <2>2. \A u \in Txn : Undoable(row[u]) => Undoable(row'[u])
    BY <2>1, RecoveredIs DEF IInv, Undoable, Unresolved, Working
  <2> QED BY <2>1, <2>2, WayBack DEF Dirty
<1>2. CASE CloseRecovery(p)
  BY <1>2 DEF CloseRecovery, TargetIsRecoverable
<1>3. CASE \E byHand \in BOOLEAN : Inspect(p, byHand)
  <2>1. PICK t : t = form[p].txn
    OBVIOUS
  <2>2. row' = row /\ (target' = target \/ target' = [target EXCEPT ![t] = "restored"])
    BY <1>3, <2>1 DEF Inspect
  <2>3. \A u \in Txn : target'[u] = target[u] \/ target'[u] = "restored"
    BY <2>2 DEF IInv, TypeOK
  <2>4. \A u \in Txn : Dirty(u)' => Dirty(u)
    BY <2>3 DEF Dirty, Held, Changed
  <2> QED BY <2>2, <2>4, WayBack
<1>4. CASE \E resolution \in Resolutions : Reconcile(p, resolution)
  <2>1. PICK resolution \in Resolutions : Reconcile(p, resolution)
    BY <1>4
  <2>2. PICK t : t = form[p].txn
    OBVIOUS
  <2>3. PICK status : status = CASE resolution = "not_applied" -> "cancelled"
                               [] resolution = "prepare_rollback" -> "recovery_ready"
                               [] resolution = "restored_manually" -> "rolled_back"
    OBVIOUS
  <2>4. /\ form[p] # Nil /\ form[p].found # Nil /\ form[p].valid /\ Attested(form[p].found, resolution)
        /\ row' = [row EXCEPT ![t].status = status, ![t].owner = Nil, ![t].backup = @ \/ resolution = "prepare_rollback"]
        /\ target' = target
    BY <2>1, <2>2, <2>3 DEF Reconcile, MayReconcile, CurrentVersion
  <2>5. target[t] = form[p].found \/ (target[t] = "restored" /\ form[p].found # "untouched")
    BY <2>2, <2>4 DEF IInv, Forms, FormGood
  <2>6. resolution # "prepare_rollback" => ~ Dirty(t)
    BY <2>4, <2>5 DEF Resolutions, Attested, Dirty, Held, Changed
  <2>7. resolution = "prepare_rollback" => row'[t].status \in Unresolved
    BY <2>2, <2>3, <2>4 DEF IInv, TypeOK, Unresolved
  <2>8. \A u \in Txn : u # t => row'[u] = row[u]
    BY <2>4 DEF IInv, TypeOK
  <2> QED BY <2>4, <2>6, <2>7, <2>8 DEF TargetIsRecoverable, Dirty
<1> QED BY <1>1, <1>2, <1>3, <1>4 DEF Operator

LEMMA Next_Recoverable ==
  ASSUME SagaAssumption, ~ Transient, RInv, [Next]_vars
  PROVE  TargetIsRecoverable'
<1> USE DEF RInv
<1>1. CASE \E r \in Request : Controller(r)
  BY <1>1, Controller_Recoverable
<1>2. CASE \E p \in Page : Operator(p)
  BY <1>2, Operator_Recoverable
<1>3. CASE \E t \in Txn : CancelRemediation(t)
  <2>1. PICK t \in Txn : CancelRemediation(t)
    BY <1>3
  <2>2. row' = [row EXCEPT ![t].status = "cancelled"] /\ target' = target
    BY <2>1 DEF CancelRemediation
  <2>3. ~ Dirty(t)
    BY <2>1 DEF CancelRemediation, TargetIsRecoverable, Dirty, Unresolved, Working
  <2>4. \A u \in Txn : u # t => row'[u] = row[u]
    BY <2>2 DEF IInv, TypeOK
  <2> QED BY <2>2, <2>3, <2>4 DEF TargetIsRecoverable, Dirty
<1>4. CASE \E c \in remote : Execute(c)
  <2>1. PICK c \in remote : Execute(c)
    BY <1>4
  <2>2. c.txn \in Txn /\ row[c.txn].status \in Unresolved
    BY OneCommand DEF Command, CommandGood, Unresolved
  <2>3. row' = row /\ \E e \in Effect(c) : target' = [target EXCEPT ![c.txn] = e[1]]
    BY <2>1 DEF Execute
  <2>4. \A u \in Txn : u # c.txn => target'[u] = target[u]
    BY <2>3 DEF IInv, TypeOK
  <2> QED BY <2>2, <2>3, <2>4 DEF TargetIsRecoverable
<1>5. CASE (\E c \in remote : LoseConnection(c)) \/ StoreFails \/ StoreRecovers \/ UNCHANGED vars
  BY <1>5 DEF LoseConnection, StoreFails, StoreRecovers, vars, TargetIsRecoverable
<1>6. CASE \E container \in {"same", "new"} : Restart(container)
  <2>1. target' = target /\ \A t \in Txn : row'[t].status = row[t].status /\ row'[t].backup = row[t].backup
    BY <1>6 DEF Restart, IInv, TypeOK
  <2> QED BY <2>1 DEF TargetIsRecoverable
<1> QED BY <1>1, <1>2, <1>3, <1>4, <1>5, <1>6 DEF Next

(* As long as a store that refused a write refuses the next one too, a       *)
(* change or a marker that a transaction left on its machine bars the host   *)
(* or can be rolled back: no failure, lost answer, restart or form ends the  *)
(* row before (remediation.ts:247-252, 325, 388, state-store.ts:1035-1060).  *)
(* Without that condition it is false, as the run saga_orphan shows.         *)
THEOREM WhatIsLeftCanBeUndone ==
  SagaAssumption /\ ~ Transient => (Spec => []TargetIsRecoverable)
<1> SUFFICES ASSUME SagaAssumption, ~ Transient PROVE Spec => []TargetIsRecoverable
  OBVIOUS
<1>1. Init => RInv
  BY Init_Inv
<1>2. RInv /\ [Next]_vars => RInv'
  BY Next_Inv, Next_Recoverable DEF RInv
<1>3. RInv => TargetIsRecoverable
  BY DEF RInv
<1> QED BY <1>1, <1>2, <1>3, PTL DEF Spec
=============================================================================
