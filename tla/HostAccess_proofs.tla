-------------------------- MODULE HostAccess_proofs --------------------------
(* Proofs about access to the managed hosts, for any hosts, servers, keys   *)
(* and requests: enrolment and closeout of a host exclude each other, no    *)
(* key is stranded on a target, the files, records and targets agree, and a *)
(* server keeps one trusted key.                                            *)
EXTENDS HostAccess, FiniteSetTheorems, TLAPS

-----------------------------------------------------------------------------
(* The inductive invariant *)

BootTask  == [op : {"bootstrap"}, host : Host, step : {"checked", "locked", "connecting", "generated", "installed"}]
CloseTask ==
  [op : {"closeout", "absent", "unchanged"}, host : Host, outcome : Status,
   step : {"reclaimed", "claimed", "locked", "revoking", "revoked", "failed",
           "accepted", "cleanup", "deleting", "row", "done", "release"}]
TrustTask == [op : {"trust"}, server : Server, key : ServerKey, read : BOOLEAN, seen : SUBSET ServerKey]
Task == {Idle} \cup BootTask \cup CloseTask \cup TrustTask

Record == [status : Status, claim : Request \cup {Nil, Stale}, fingerprint : Key \cup {Nil}]

Shapes ==
  /\ files \in [Host -> SUBSET File]
  /\ private \in [Host -> Key \cup {Nil}]
  /\ credential \in [Host -> [verified : BOOLEAN, fingerprint : Key \cup {Nil}]]
  /\ closeLock \in [Host -> Request \cup {Nil, Stale}]
  /\ authorized \in [Host -> SUBSET Key] /\ used \subseteq Key
  /\ inventory \subseteq Host
  /\ record \in [Host -> Record]
  /\ form \in [Host -> [seen : {"nothing", "absent", "unchanged"}, fresh : BOOLEAN]]
  /\ known \in [Server -> SUBSET ServerKey] /\ trustLock \in BOOLEAN
  /\ task \in [Request -> Task]

(* What a host's files say of each other and of the target.                 *)
FilesGood(h) ==
  /\ private[h] # Nil <=> Private \in files[h]
  /\ files[h] # {} => Directory \in files[h]
  /\ Metadata \notin files[h] => credential[h] = Blank
  /\ credential[h].verified <=> credential[h].fingerprint # Nil
  /\ credential[h].fingerprint # Nil /\ private[h] # Nil => credential[h].fingerprint = private[h]
  /\ authorized[h] \subseteq {private[h]}
  /\ files[h] \cap {Private, Public} # {} => Metadata \in files[h]
  /\ {private[h], credential[h].fingerprint, record[h].fingerprint} \subseteq used \cup {Nil}

(* A settled closeout has left the key in place, or the key is gone; only   *)
(* an unsettled one may have revoked a verified key.                        *)
RecordGood(h) ==
  /\ record[h].status # "none" <=> record[h].fingerprint # Nil
  /\ record[h].status = "not_changed" => record[h].fingerprint \in authorized[h]
  /\ record[h].status = "completed" => record[h].fingerprint # private[h]
  /\ Verified(h) /\ record[h].status \in Settled => private[h] \in authorized[h]
  /\ h \in inventory => Verified(h) \/ record[h].status = "remote_revoked"
  /\ closeLock[h] # Nil => record[h].status # "none"

Closing(t) == t.op \in {"closeout", "absent", "unchanged"}
Busy(t)    == t.op = "bootstrap" \/ Closing(t)

ClaimGood(h) ==
  record[h].claim \in Request => Closing(task[record[h].claim]) /\ task[record[h].claim].host = h

(* A form that may still be sent tells what is on the target.               *)
FormGood(h) ==
  form[h].fresh =>
    /\ record[h].claim \notin Request
    /\ record[h].status # "none" /\ form[h].seen = "absent" => record[h].fingerprint \notin authorized[h]
    /\ record[h].status # "none" /\ form[h].seen = "unchanged" => record[h].fingerprint \in authorized[h]

HostGood(h) == FilesGood(h) /\ RecordGood(h) /\ ClaimGood(h) /\ FormGood(h)

InLock(t) == t.op = "bootstrap" /\ t.step # "checked"
Enrols(t) == t.op = "bootstrap" /\ t.step \in {"connecting", "generated", "installed"}
Revokes(t) ==
  Closing(t) /\ t.step \in {"revoking", "revoked", "accepted", "cleanup", "deleting", "row", "done"}

(* An enrolment never brings back the key that a closeout is about.         *)
BootGood(t) ==
  /\ InLock(t) => BootLock \in files[t.host]
  /\ Enrols(t) =>
       /\ Metadata \in files[t.host]
       /\ credential[t.host].verified => Private \in files[t.host]
       /\ record[t.host].status # "none" /\ private[t.host] = record[t.host].fingerprint =>
            record[t.host].fingerprint \in authorized[t.host]
  /\ t.op = "bootstrap" /\ t.step \in {"generated", "installed"} => Private \in files[t.host]
  /\ t.op = "bootstrap" /\ t.step = "installed" => private[t.host] \in authorized[t.host]

(* The key of the closeout, as the step of its request knows it.            *)
KeyGood(t) ==
  LET there == record[t.host].fingerprint \in authorized[t.host] IN
    /\ t.op = "closeout" /\ t.step \in {"claimed", "locked", "revoking"} => there
    /\ t.step \in {"revoked", "cleanup"} => ~ there
    /\ t.op = "absent" /\ t.step # "release" => ~ there
    /\ t.op = "unchanged" /\ t.step # "release" => there
    /\ t.step = "failed" /\ t.outcome = "not_changed" => there
    /\ t.step = "deleting" => authorized[t.host] = {}

StatusGood(t) ==
  LET status == record[t.host].status IN
    /\ status # "none"
    /\ t.op = "closeout" /\ t.step \in {"claimed", "locked", "revoking", "revoked"} => status = "in_progress"
    /\ t.step \in {"cleanup", "deleting", "row", "done"} => status = "remote_revoked"
    /\ t.op = "unchanged" /\ t.step # "release" => status \notin {"remote_revoked", "remote_partial", "completed"}
    /\ t.step = "failed" =>
         /\ t.outcome # "none"
         /\ t.outcome = "completed" => status = "completed"
         /\ status = "remote_revoked" => t.outcome = "remote_revoked"

StepGood(t) ==
  /\ t.step \in {"reclaimed", "accepted"} => t.op # "closeout"
  /\ t.step \in {"revoking", "revoked"} => t.op = "closeout"
  /\ t.step \in {"cleanup", "deleting", "row", "done"} => t.op # "unchanged"
  /\ t.step = "revoking" =>
       Verified(t.host) /\ credential[t.host].fingerprint = record[t.host].fingerprint
  /\ t.step = "deleting" => Directory \in files[t.host]
  /\ t.step \in {"row", "done"} => files[t.host] \cap {Metadata, Private} = {}
  /\ t.step = "done" => t.host \notin inventory

(* One request at a time closes a host out, and past its lock it has it.    *)
CloseGood(r, t) ==
  /\ record[t.host].claim = r
  /\ t.step = "locked" \/ Revokes(t) => closeLock[t.host] = r
  /\ KeyGood(t) /\ StatusGood(t) /\ StepGood(t)

TaskGood(r) ==
  /\ task[r].op = "bootstrap" => BootGood(task[r])
  /\ Closing(task[r]) => CloseGood(r, task[r])

Apart ==
  \A q, r \in Request :
    /\ InLock(task[q]) /\ InLock(task[r]) /\ task[q].host = task[r].host => q = r
    /\ Enrols(task[q]) /\ Revokes(task[r]) => task[q].host # task[r].host

TrustGood ==
  /\ \A s \in Server : \A k, l \in known[s] : k = l
  /\ \A r \in Request : task[r].op = "trust" =>
       trustLock /\ (task[r].read => task[r].seen = known[task[r].server])
  /\ \A q, r \in Request : task[q].op = "trust" /\ task[r].op = "trust" => q = r

IInv ==
  /\ Shapes
  /\ \A h \in Host : HostGood(h)
  /\ \A r \in Request : TaskGood(r)
  /\ Apart
  /\ TrustGood

-----------------------------------------------------------------------------
(* Tasks                                                                    *)

CloseStep == {"reclaimed", "claimed", "locked", "revoking", "revoked", "failed",
              "accepted", "cleanup", "deleting", "row", "done", "release"}
BootStep  == {"checked", "locked", "connecting", "generated", "installed"}

LEMMA IdleTask == Idle \in Task /\ Idle.op = "idle" /\ ~ Busy(Idle) /\ ~ Closing(Idle)
BY DEF Idle, Task, Busy, Closing

LEMMA TaskKinds ==
  ASSUME NEW t \in Task
  PROVE  /\ t.op = "bootstrap" => t \in BootTask
         /\ Closing(t) => t \in CloseTask
         /\ t.op = "trust" => t \in TrustTask
         /\ t.op = "idle" => t = Idle
         /\ t.op \in {"idle", "bootstrap", "closeout", "absent", "unchanged", "trust"}
BY DEF Task, BootTask, CloseTask, TrustTask, Idle, Closing

Others(r) == \A q \in Request : q # r => task'[q] = task[q]

LEMMA MoveCloseTask ==
  ASSUME Shapes, NEW r \in Request, Closing(task[r]), NEW step \in CloseStep, Move(r, step)
  PROVE  /\ task' \in [Request -> Task] /\ Others(r)
         /\ Closing(task'[r]) /\ task'[r].op = task[r].op /\ task'[r].host = task[r].host
         /\ task'[r].outcome = task[r].outcome /\ task'[r].step = step
<1>1. task \in [Request -> Task] BY DEF Shapes
<1>2. task[r] \in CloseTask BY <1>1, TaskKinds
<1>3. PICK new : new = [task[r] EXCEPT !.step = step] OBVIOUS
<1>4. /\ new \in CloseTask /\ new.op = task[r].op /\ new.host = task[r].host
      /\ new.outcome = task[r].outcome /\ new.step = step
  BY <1>2, <1>3 DEF CloseTask, CloseStep
<1>5. new \in Task BY <1>4 DEF Task
<1>6. task' = [task EXCEPT ![r] = new] BY <1>3 DEF Move
<1> QED BY <1>1, <1>4, <1>5, <1>6 DEF Others, Closing

LEMMA FailTask ==
  ASSUME Shapes, NEW r \in Request, Closing(task[r]), NEW outcome \in Status, FailWith(r, outcome)
  PROVE  /\ task' \in [Request -> Task] /\ Others(r)
         /\ Closing(task'[r]) /\ task'[r].op = task[r].op /\ task'[r].host = task[r].host
         /\ task'[r].outcome = outcome /\ task'[r].step = "failed"
<1>1. task \in [Request -> Task] BY DEF Shapes
<1>2. task[r] \in CloseTask BY <1>1, TaskKinds
<1>3. PICK new : new = [task[r] EXCEPT !.step = "failed", !.outcome = outcome] OBVIOUS
<1>4. /\ new \in CloseTask /\ new.op = task[r].op /\ new.host = task[r].host
      /\ new.outcome = outcome /\ new.step = "failed"
  BY <1>2, <1>3 DEF CloseTask
<1>5. new \in Task BY <1>4 DEF Task
<1>6. task' = [task EXCEPT ![r] = new] BY <1>1, <1>3 DEF FailWith
<1> QED BY <1>1, <1>4, <1>5, <1>6 DEF Others, Closing

LEMMA MoveBootTask ==
  ASSUME Shapes, NEW r \in Request, task[r].op = "bootstrap", NEW step \in BootStep, Move(r, step)
  PROVE  /\ task' \in [Request -> Task] /\ Others(r)
         /\ task'[r].op = "bootstrap" /\ task'[r].host = task[r].host /\ task'[r].step = step
<1>1. task \in [Request -> Task] BY DEF Shapes
<1>2. task[r] \in BootTask BY <1>1, TaskKinds
<1>3. PICK new : new = [task[r] EXCEPT !.step = step] OBVIOUS
<1>4. new \in BootTask /\ new.op = "bootstrap" /\ new.host = task[r].host /\ new.step = step
  BY <1>2, <1>3 DEF BootTask, BootStep
<1>5. new \in Task BY <1>4 DEF Task
<1>6. task' = [task EXCEPT ![r] = new] BY <1>3 DEF Move
<1> QED BY <1>1, <1>4, <1>5, <1>6 DEF Others

LEMMA FinishTask ==
  ASSUME Shapes, NEW r \in Request, Finish(r)
  PROVE  task' \in [Request -> Task] /\ Others(r) /\ task'[r] = Idle
BY IdleTask DEF Shapes, Finish, Others

(* A request that closes a host out is the only one.                        *)
LEMMA OneCloser ==
  ASSUME IInv, NEW r \in Request, NEW q \in Request, Closing(task[r]), Closing(task[q]),
         task[q].host = task[r].host
  PROVE  q = r
BY DEF IInv, TaskGood, CloseGood

-----------------------------------------------------------------------------
(* Steps about one host                                                     *)

SameHost(h) ==
  /\ files'[h] = files[h] /\ private'[h] = private[h] /\ credential'[h] = credential[h]
  /\ closeLock'[h] = closeLock[h] /\ authorized'[h] = authorized[h]
  /\ record'[h] = record[h] /\ form'[h] = form[h]
  /\ h \in inventory' <=> h \in inventory

LEMMA SameTask ==
  ASSUME NEW r \in Request, task[r].host \in Host, SameHost(task[r].host), TaskGood(r), task'[r] = task[r]
  PROVE  TaskGood(r)'
<1>1. PICK t : t = task[r] OBVIOUS
<1>2. PICK h : h = t.host OBVIOUS
<1>3. SameHost(h) BY <1>1, <1>2
<1>4. t.op = "bootstrap" => BootGood(t)' BY <1>1, <1>2, <1>3 DEF TaskGood, BootGood, SameHost
<1>5. Closing(t) => CloseGood(r, t)'
  BY <1>1, <1>2, <1>3 DEF TaskGood, CloseGood, KeyGood, StatusGood, StepGood, SameHost, Verified
<1> QED BY <1>1, <1>4, <1>5 DEF TaskGood

LEMMA SameHostGood ==
  ASSUME NEW h \in Host, HostGood(h), SameHost(h), used \subseteq used',
         record[h].claim \in Request => task'[record[h].claim] = task[record[h].claim]
  PROVE  HostGood(h)'
<1>1. FilesGood(h)' BY DEF HostGood, FilesGood, SameHost
<1>2. RecordGood(h)' BY DEF HostGood, RecordGood, SameHost, Verified
<1>3. ClaimGood(h)' BY DEF HostGood, ClaimGood, SameHost
<1>4. FormGood(h)' BY DEF HostGood, FormGood, SameHost
<1> QED BY <1>1, <1>2, <1>3, <1>4 DEF HostGood

(* A task that is about the host, or about none.                            *)
About(t, h) == Busy(t) => t.host = h

LEMMA BusyHost == ASSUME NEW t \in Task, Busy(t) PROVE t.host \in Host
BY TaskKinds DEF Busy, BootTask, CloseTask

(* One request, or none, does something about one host; what it does to the *)
(* other requests for that host is left to be shown.                        *)
LEMMA HostStep ==
  ASSUME IInv, Shapes', NEW h \in Host, NEW r \in Request, Others(r),
         About(task[r], h), About(task'[r], h),
         used \subseteq used', \A g \in Host : g # h => SameHost(g),
         HostGood(h)', TaskGood(r)',
         \A q \in Request : q # r /\ Busy(task[q]) /\ task[q].host = h => TaskGood(q)',
         Apart', TrustGood'
  PROVE  IInv'
<1>1. ASSUME NEW q \in Request PROVE TaskGood(q)'
  <2>1. CASE q = r BY <2>1
  <2>2. CASE q # r /\ ~ Busy(task[q])
    <3>1. task'[q] = task[q] BY <2>2 DEF Others
    <3> QED BY <2>2, <3>1 DEF Busy, TaskGood
  <2>3. CASE q # r /\ Busy(task[q]) /\ task[q].host = h BY <2>3
  <2>4. CASE q # r /\ Busy(task[q]) /\ task[q].host # h
    <3>1. task'[q] = task[q] BY <2>4 DEF Others
    <3>2. task[q].host \in Host BY <2>4, BusyHost DEF IInv, Shapes
    <3>3. SameHost(task[q].host) BY <2>4, <3>2
    <3>4. TaskGood(q) BY DEF IInv
    <3> QED BY <3>1, <3>2, <3>3, <3>4, SameTask
  <2> QED BY <2>1, <2>2, <2>3, <2>4
<1>2. ASSUME NEW g \in Host PROVE HostGood(g)'
  <2>1. CASE g = h BY <2>1
  <2>2. CASE g # h
    <3>1. HostGood(g) BY DEF IInv
    <3>2. record[g].claim \in Request => task'[record[g].claim] = task[record[g].claim]
      BY <2>2, <3>1 DEF HostGood, ClaimGood, About, Busy, Others
    <3> QED BY <2>2, <3>1, <3>2, SameHostGood
  <2> QED BY <2>1, <2>2
<1> QED BY <1>1, <1>2 DEF IInv

(* A request that is not about trust leaves the trusted keys alone.         *)
LEMMA SameTrust ==
  ASSUME IInv, NEW r \in Request, Others(r), task'[r].op # "trust", UNCHANGED trust
  PROVE  TrustGood'
BY DEF IInv, TrustGood, Others, trust

(* No request comes under a lock it was not under.                          *)
LEMMA SameApart ==
  ASSUME IInv, NEW r \in Request, NEW h \in Host, Others(r), About(task[r], h), About(task'[r], h),
         InLock(task'[r]) => InLock(task[r]),
         Enrols(task'[r]) => Enrols(task[r]),
         Revokes(task'[r]) => Revokes(task[r])
  PROVE  Apart'
BY DEF IInv, Apart, Others, About, Busy, InLock, Enrols, Revokes

-----------------------------------------------------------------------------
(* Closeout                                                                 *)

(* What every step of a closeout knows.                                     *)
LEMMA Closes ==
  ASSUME IInv, NEW r \in Request, Closing(task[r])
  PROVE  /\ task[r].host \in Host /\ HostGood(task[r].host)
         /\ task[r] \in CloseTask /\ CloseGood(r, task[r])
         /\ record[task[r].host].status # "none" /\ record[task[r].host].claim = r
         /\ ~ form[task[r].host].fresh
<1>1. task[r] \in Task BY DEF IInv, Shapes
<1>2. task[r] \in CloseTask /\ task[r].host \in Host BY <1>1, TaskKinds DEF CloseTask
<1>3. CloseGood(r, task[r]) /\ HostGood(task[r].host) BY <1>2 DEF IInv, TaskGood
<1> QED BY <1>2, <1>3 DEF CloseGood, StatusGood, HostGood, FormGood

(* The other requests for the host enrol, and are not disturbed as long as  *)
(* the files and the key stay.                                              *)
LEMMA OtherBoots ==
  ASSUME IInv, NEW r \in Request, Closing(task[r]), NEW h \in Host, task[r].host = h, Others(r),
         files'[h] = files[h], private'[h] = private[h], credential'[h] = credential[h],
         authorized'[h] = authorized[h], record'[h].fingerprint = record[h].fingerprint
  PROVE  \A q \in Request : q # r /\ Busy(task[q]) /\ task[q].host = h => TaskGood(q)'
<1>1. TAKE q \in Request
<1>2. HAVE q # r /\ Busy(task[q]) /\ task[q].host = h
<1>3. ~ Closing(task[q]) /\ task[q].op = "bootstrap" BY <1>2, OneCloser DEF Busy
<1>4. PICK t : t = task[q] OBVIOUS
<1>5. task'[q] = t BY <1>2, <1>4 DEF Others
<1>6. record[h].status # "none" BY Closes
<1>7. BootGood(t) BY <1>3, <1>4 DEF IInv, TaskGood
<1>8. BootGood(t)' BY <1>2, <1>4, <1>6, <1>7 DEF BootGood
<1> QED BY <1>3, <1>4, <1>5, <1>8 DEF TaskGood

LEMMA CloserApart ==
  ASSUME IInv, NEW r \in Request, Closing(task[r]), Others(r),
         Closing(task'[r]), task'[r].host = task[r].host,
         Revokes(task'[r]) => Revokes(task[r]) \/ BootLock \notin files[task[r].host]
  PROVE  Apart'
<1>1. \A q \in Request : Enrols(task[q]) /\ task[q].host = task[r].host => BootLock \in files[task[r].host]
  BY DEF IInv, TaskGood, BootGood, Enrols, InLock
<1>2. ~ InLock(task'[r]) /\ ~ Enrols(task'[r]) BY DEF Closing, InLock, Enrols
<1> QED BY <1>1, <1>2 DEF IInv, Apart, Others

(* A step that changes the lock, the record or the task only.               *)
LEMMA CloserStep ==
  ASSUME IInv, NEW r \in Request, Closing(task[r]), NEW h \in Host, task[r].host = h,
         task' \in [Request -> Task], Others(r), Closing(task'[r]), task'[r].host = h,
         UNCHANGED <<disk, authorized, used, inventory, trust>>,
         closeLock' \in [Host -> Request \cup {Nil, Stale}],
         record' \in [Host -> Record],
         form' \in [Host -> [seen : {"nothing", "absent", "unchanged"}, fresh : BOOLEAN]],
         \A g \in Host : g # h => closeLock'[g] = closeLock[g] /\ record'[g] = record[g] /\ form'[g] = form[g],
         record'[h].fingerprint = record[h].fingerprint, record'[h].claim = r, ~ form'[h].fresh,
         Revokes(task'[r]) => Revokes(task[r]) \/ BootLock \notin files[h],
         RecordGood(h)', NEW t, t = task'[r], CloseGood(r, t)'
  PROVE  IInv'
<1>1. UNCHANGED <<files, private, credential, authorized, used, inventory, known, trustLock>> BY DEF disk, trust
<1>2. Shapes' BY <1>1 DEF IInv, Shapes
<1>3. \A g \in Host : g # h => SameHost(g) BY <1>1 DEF SameHost
<1>4. HostGood(h) BY DEF IInv
<1>5. HostGood(h)'
  <2>1. FilesGood(h)' BY <1>1, <1>4 DEF HostGood, FilesGood
  <2>2. ClaimGood(h)' BY DEF ClaimGood
  <2>3. FormGood(h)' BY DEF FormGood
  <2> QED BY <2>1, <2>2, <2>3 DEF HostGood
<1>6. TaskGood(r)'
  <2>1. Closing(t) /\ t.op # "bootstrap" BY DEF Closing
  <2> QED BY <2>1 DEF TaskGood
<1>7. \A q \in Request : q # r /\ Busy(task[q]) /\ task[q].host = h => TaskGood(q)' BY <1>1, OtherBoots
<1>8. Apart' BY CloserApart
<1>9. TrustGood' BY <1>1, SameTrust DEF Closing, trust
<1>10. About(task[r], h) /\ About(task'[r], h) BY DEF About
<1> QED BY <1>1, <1>2, <1>3, <1>5, <1>6, <1>7, <1>8, <1>9, <1>10, HostStep

(* A step that saves nothing: only the lock and the task change.            *)
LEMMA CloserMoves ==
  ASSUME IInv, NEW r \in Request, Closing(task[r]), NEW h \in Host, task[r].host = h,
         task' \in [Request -> Task], Others(r), Closing(task'[r]), task'[r].host = h,
         UNCHANGED <<disk, authorized, used, inventory, record, form, trust>>,
         closeLock' \in [Host -> Request \cup {Nil, Stale}],
         \A g \in Host : g # h => closeLock'[g] = closeLock[g],
         NEW t, t = task'[r],
         Revokes(t) => Revokes(task[r]) \/ BootLock \notin files[h],
         t.step = "locked" \/ Revokes(t) => closeLock'[h] = r,
         KeyGood(t), StatusGood(t), StepGood(t)
  PROVE  IInv'
<1>1. /\ UNCHANGED <<disk, authorized, used, inventory, trust>>
      /\ UNCHANGED <<record, form, files, private, credential, inventory, authorized>>
  BY DEF disk
<1>2. record' \in [Host -> Record] /\ form' \in [Host -> [seen : {"nothing", "absent", "unchanged"}, fresh : BOOLEAN]]
  BY <1>1 DEF IInv, Shapes
<1>3. \A g \in Host : g # h => closeLock'[g] = closeLock[g] /\ record'[g] = record[g] /\ form'[g] = form[g]
  BY <1>1
<1>4. HostGood(h) /\ record[h].status # "none" /\ record[h].claim = r /\ ~ form[h].fresh BY Closes
<1>5. record'[h].fingerprint = record[h].fingerprint /\ record'[h].claim = r /\ ~ form'[h].fresh BY <1>1, <1>4
<1>6. RecordGood(h)' BY <1>1, <1>4 DEF HostGood, RecordGood, Verified
<1>7. KeyGood(t)' /\ StatusGood(t)' /\ StepGood(t)' BY <1>1 DEF KeyGood, StatusGood, StepGood, Verified
<1>8. CloseGood(r, t)' BY <1>5, <1>7 DEF CloseGood
<1>9. Revokes(task'[r]) => Revokes(task[r]) \/ BootLock \notin files[h] OBVIOUS
<1> QED BY <1>1, <1>2, <1>3, <1>5, <1>6, <1>8, <1>9, CloserStep

(* A step that saves a status.                                              *)
LEMMA CloserSaves ==
  ASSUME IInv, NEW r \in Request, Closing(task[r]), NEW h \in Host, task[r].host = h,
         task' \in [Request -> Task], Others(r), Closing(task'[r]), task'[r].host = h,
         UNCHANGED <<disk, closeLock, authorized, used, inventory, trust>>,
         NEW status \in Status, SaveStatus(h, status), status # "none",
         status = "not_changed" => record[h].fingerprint \in authorized[h],
         status = "completed" => record[h].fingerprint # private[h],
         Verified(h) /\ status \in Settled => private[h] \in authorized[h],
         h \in inventory => Verified(h) \/ status = "remote_revoked",
         NEW t, t = task'[r], t.op = task[r].op,
         t.step = "release" \/ (t.step = "cleanup" /\ Revokes(task[r]) /\ status = "remote_revoked" /\ t.op # "unchanged"
                                 /\ record[h].fingerprint \notin authorized[h])
  PROVE  IInv'
<1>1. /\ UNCHANGED <<disk, authorized, used, inventory, trust>>
      /\ UNCHANGED <<files, private, credential, inventory, authorized, closeLock>>
  BY DEF disk
<1>2. HostGood(h) /\ record[h].status # "none" /\ record[h].claim = r /\ ~ form[h].fresh /\ CloseGood(r, task[r])
  BY Closes
<1>3. record \in [Host -> Record] /\ form \in [Host -> [seen : {"nothing", "absent", "unchanged"}, fresh : BOOLEAN]]
      /\ closeLock \in [Host -> Request \cup {Nil, Stale}]
  BY DEF IInv, Shapes
<1>4. PICK rec : rec = [record[h] EXCEPT !.status = status] OBVIOUS
<1>5. rec \in Record /\ rec.status = status /\ rec.fingerprint = record[h].fingerprint /\ rec.claim = r
  BY <1>2, <1>3, <1>4 DEF Record
<1>6. record' = [record EXCEPT ![h] = rec] /\ form' = [form EXCEPT ![h].fresh = FALSE]
  BY <1>4 DEF SaveStatus, SaveRecord
<1>7. record' \in [Host -> Record] /\ record'[h] = rec /\ \A g \in Host : g # h => record'[g] = record[g]
  BY <1>3, <1>5, <1>6
<1>8. /\ form' \in [Host -> [seen : {"nothing", "absent", "unchanged"}, fresh : BOOLEAN]]
      /\ ~ form'[h].fresh /\ \A g \in Host : g # h => form'[g] = form[g]
  BY <1>3, <1>6
<1>9. RecordGood(h)' BY <1>1, <1>2, <1>5, <1>7 DEF HostGood, RecordGood, Verified
<1>10. KeyGood(t)' /\ StepGood(t)' BY <1>1, <1>5, <1>7 DEF KeyGood, StepGood
<1>11. StatusGood(t)' BY <1>5, <1>7 DEF StatusGood
<1>12. CloseGood(r, t)' BY <1>1, <1>2, <1>5, <1>7, <1>10, <1>11 DEF CloseGood, Revokes
<1>13. \A g \in Host : g # h => closeLock'[g] = closeLock[g] /\ record'[g] = record[g] /\ form'[g] = form[g]
  BY <1>1, <1>7, <1>8
<1>14. Revokes(task'[r]) => Revokes(task[r]) \/ BootLock \notin files[h] BY DEF Revokes
<1>15. closeLock' \in [Host -> Request \cup {Nil, Stale}] BY <1>1, <1>3
<1>16. record'[h].fingerprint = record[h].fingerprint /\ record'[h].claim = r BY <1>5, <1>7
<1> QED BY <1>1, <1>7, <1>8, <1>9, <1>12, <1>13, <1>14, <1>15, <1>16, CloserStep

LEMMA AtCloseStep ==
  ASSUME IInv, NEW r \in Request, NEW step \in CloseStep, AtStep(r, step),
         step # "locked" \/ task[r].op # "bootstrap"
  PROVE  Closing(task[r]) /\ task[r].step = step
<1>1. task[r] \in Task BY DEF IInv, Shapes
<1>2. task[r].op = "bootstrap" => task[r].step \in BootStep BY <1>1, TaskKinds DEF BootTask, BootStep
<1> QED BY <1>1, <1>2, TaskKinds DEF AtStep, Closing, CloseStep, BootStep

(* Nothing was sent for a closeout that is refused, and a recovery that is  *)
(* refused leaves the record as it is.                                      *)
LEMMA RefusedGood ==
  ASSUME IInv, NEW r \in Request, Closing(task[r]),
         task[r].step \in {"reclaimed", "claimed", "locked"}, Refuse(r)
  PROVE  /\ task' \in [Request -> Task] /\ Others(r)
         /\ Closing(task'[r]) /\ task'[r].host = task[r].host /\ task'[r].step = "failed"
         /\ \A t : t = task'[r] => KeyGood(t) /\ StatusGood(t) /\ StepGood(t)
<1>1. PICK h : h = task[r].host OBVIOUS
<1>2. h \in Host /\ HostGood(h) /\ CloseGood(r, task[r]) /\ record[h].status # "none" BY <1>1, Closes
<1>3. PICK outcome : outcome = IF On(r, "closeout") THEN "not_changed" ELSE record[h].status OBVIOUS
<1>4. outcome \in Status
  <2>1. record[h] \in Record BY <1>2 DEF IInv, Shapes
  <2> QED BY <1>3, <2>1 DEF Record, Status, Settled
<1>5. FailWith(r, outcome) BY <1>1, <1>3 DEF Refuse
<1>6. /\ task' \in [Request -> Task] /\ Others(r)
      /\ Closing(task'[r]) /\ task'[r].op = task[r].op /\ task'[r].host = h
      /\ task'[r].outcome = outcome /\ task'[r].step = "failed"
  BY <1>1, <1>4, <1>5, FailTask DEF IInv
<1>7. ASSUME NEW t, t = task'[r] PROVE KeyGood(t) /\ StatusGood(t) /\ StepGood(t)
  <2>1. KeyGood(t) BY <1>1, <1>2, <1>3, <1>6, <1>7 DEF KeyGood, CloseGood, StepGood, HostGood, RecordGood, On
  <2>2. StatusGood(t) BY <1>1, <1>2, <1>3, <1>6, <1>7 DEF StatusGood, CloseGood, StepGood, On
  <2>3. StepGood(t) BY <1>6, <1>7 DEF StepGood
  <2> QED BY <2>1, <2>2, <2>3
<1> QED BY <1>1, <1>6, <1>7

LEMMA LockTypes ==
  ASSUME IInv, NEW h \in Host, NEW owner \in Request \cup {Nil}
  PROVE  /\ [closeLock EXCEPT ![h] = owner] \in [Host -> Request \cup {Nil, Stale}]
         /\ [closeLock EXCEPT ![h] = owner][h] = owner
         /\ \A g \in Host : g # h => [closeLock EXCEPT ![h] = owner][g] = closeLock[g]
         /\ closeLock \in [Host -> Request \cup {Nil, Stale}]
BY DEF IInv, Shapes

LEMMA ReleaseInterruptedStep == ASSUME IInv, NEW r \in Request, ReleaseInterrupted(r) PROVE IInv'
<1>1. Closing(task[r]) /\ task[r].step = "reclaimed" BY AtCloseStep DEF ReleaseInterrupted, CloseStep
<1>2. PICK h : h = task[r].host OBVIOUS
<1>3. h \in Host /\ CloseGood(r, task[r]) BY <1>1, <1>2, Closes
<1>4. UNCHANGED <<disk, authorized, used, inventory, record, form, trust>> BY DEF ReleaseInterrupted
<1>5. CASE closeLock[h] \in Request
  <2>1. Refuse(r) /\ UNCHANGED closeLock BY <1>2, <1>5 DEF ReleaseInterrupted
  <2>2. PICK t : t = task'[r] OBVIOUS
  <2>3. /\ task' \in [Request -> Task] /\ Others(r) /\ Closing(task'[r]) /\ task'[r].host = h
        /\ t.step = "failed" /\ KeyGood(t) /\ StatusGood(t) /\ StepGood(t)
    BY <1>1, <1>2, <2>1, <2>2, RefusedGood
  <2>4. ~ Revokes(t) /\ t.step # "locked" BY <2>3 DEF Revokes
  <2> QED BY <1>1, <1>2, <1>3, <1>4, <2>1, <2>2, <2>3, <2>4, CloserMoves, LockTypes
<1>6. CASE closeLock[h] \notin Request
  <2>1. Move(r, "claimed") /\ closeLock' = [closeLock EXCEPT ![h] = Nil] BY <1>2, <1>6 DEF ReleaseInterrupted
  <2>2. PICK t : t = task'[r] OBVIOUS
  <2>3. /\ task' \in [Request -> Task] /\ Others(r) /\ Closing(task'[r]) /\ task'[r].host = h
        /\ t.op = task[r].op /\ t.step = "claimed"
    BY <1>1, <1>2, <2>1, <2>2, MoveCloseTask DEF CloseStep, IInv
  <2>4. ~ Revokes(t) /\ t.step # "locked" BY <2>3 DEF Revokes
  <2>5. KeyGood(t) /\ StatusGood(t) /\ StepGood(t)
    BY <1>1, <1>2, <1>3, <2>2, <2>3 DEF CloseGood, KeyGood, StatusGood, StepGood
  <2>6. /\ closeLock' \in [Host -> Request \cup {Nil, Stale}]
        /\ \A g \in Host : g # h => closeLock'[g] = closeLock[g]
    BY <1>3, <2>1, LockTypes
  <2> QED BY <1>1, <1>2, <1>3, <1>4, <2>2, <2>3, <2>4, <2>5, <2>6, CloserMoves
<1> QED BY <1>5, <1>6

LEMMA LockCredentialStep == ASSUME IInv, NEW r \in Request, LockCredential(r) PROVE IInv'
<1>1. Closing(task[r]) /\ task[r].step = "claimed" BY AtCloseStep DEF LockCredential, CloseStep
<1>2. PICK h : h = task[r].host OBVIOUS
<1>3. h \in Host /\ CloseGood(r, task[r]) BY <1>1, <1>2, Closes
<1>4. UNCHANGED <<disk, authorized, used, inventory, record, form, trust>> BY DEF LockCredential
<1>5. CASE closeLock[h] # Nil
  <2>1. Refuse(r) /\ UNCHANGED closeLock BY <1>2, <1>5 DEF LockCredential
  <2>2. PICK t : t = task'[r] OBVIOUS
  <2>3. /\ task' \in [Request -> Task] /\ Others(r) /\ Closing(task'[r]) /\ task'[r].host = h
        /\ t.step = "failed" /\ KeyGood(t) /\ StatusGood(t) /\ StepGood(t)
    BY <1>1, <1>2, <2>1, <2>2, RefusedGood
  <2>4. ~ Revokes(t) /\ t.step # "locked" BY <2>3 DEF Revokes
  <2> QED BY <1>1, <1>2, <1>3, <1>4, <2>1, <2>2, <2>3, <2>4, CloserMoves, LockTypes
<1>6. CASE closeLock[h] = Nil
  <2>1. Move(r, "locked") /\ closeLock' = [closeLock EXCEPT ![h] = r] BY <1>2, <1>6 DEF LockCredential
  <2>2. PICK t : t = task'[r] OBVIOUS
  <2>3. /\ task' \in [Request -> Task] /\ Others(r) /\ Closing(task'[r]) /\ task'[r].host = h
        /\ t.op = task[r].op /\ t.step = "locked"
    BY <1>1, <1>2, <2>1, <2>2, MoveCloseTask DEF CloseStep, IInv
  <2>4. ~ Revokes(t) BY <2>3 DEF Revokes
  <2>5. KeyGood(t) /\ StatusGood(t) /\ StepGood(t)
    BY <1>1, <1>2, <1>3, <2>2, <2>3 DEF CloseGood, KeyGood, StatusGood, StepGood
  <2>6. /\ closeLock' \in [Host -> Request \cup {Nil, Stale}] /\ closeLock'[h] = r
        /\ \A g \in Host : g # h => closeLock'[g] = closeLock[g]
    BY <1>3, <2>1, LockTypes
  <2> QED BY <1>1, <1>2, <1>3, <1>4, <2>2, <2>3, <2>4, <2>5, <2>6, CloserMoves
<1> QED BY <1>5, <1>6

LEMMA CheckBootLockStep == ASSUME IInv, NEW r \in Request, CheckBootLock(r) PROVE IInv'
<1>1. Closing(task[r]) /\ task[r].step = "locked" BY AtCloseStep DEF CheckBootLock, CloseStep
<1>2. PICK h : h = task[r].host OBVIOUS
<1>3. h \in Host /\ CloseGood(r, task[r]) BY <1>1, <1>2, Closes
<1>4. UNCHANGED <<disk, authorized, used, inventory, record, form, trust>> BY DEF CheckBootLock
<1>5. PICK t : t = task'[r] OBVIOUS
<1>6. CASE Refuse(r) /\ (closeLock' = [closeLock EXCEPT ![h] = Nil] \/ UNCHANGED closeLock)
  <2>1. /\ task' \in [Request -> Task] /\ Others(r) /\ Closing(task'[r]) /\ task'[r].host = h
        /\ t.step = "failed" /\ KeyGood(t) /\ StatusGood(t) /\ StepGood(t)
    BY <1>1, <1>2, <1>5, <1>6, RefusedGood
  <2>2. ~ Revokes(t) /\ t.step # "locked" BY <2>1 DEF Revokes
  <2>3. /\ closeLock' \in [Host -> Request \cup {Nil, Stale}]
        /\ \A g \in Host : g # h => closeLock'[g] = closeLock[g]
    BY <1>3, <1>6, LockTypes
  <2> QED BY <1>1, <1>2, <1>3, <1>4, <1>5, <2>1, <2>2, <2>3, CloserMoves
<1>7. CASE BootLock \notin files[h] /\ UNCHANGED closeLock /\ ~ Refuse(r)
  <2>1. PICK step \in {"accepted", "revoking"} :
          /\ Move(r, step)
          /\ step = "accepted" <=> task[r].op # "closeout"
          /\ step = "revoking" => Verified(h) /\ credential[h].fingerprint = record[h].fingerprint
    BY <1>2, <1>7 DEF CheckBootLock, On
  <2>2. /\ task' \in [Request -> Task] /\ Others(r) /\ Closing(task'[r]) /\ task'[r].host = h
        /\ t.op = task[r].op /\ t.step = step
    BY <1>1, <1>2, <1>5, <2>1, MoveCloseTask DEF CloseStep, IInv
  <2>3. KeyGood(t) /\ StatusGood(t) /\ StepGood(t)
    BY <1>1, <1>2, <1>3, <1>5, <2>1, <2>2 DEF CloseGood, KeyGood, StatusGood, StepGood
  <2>4. closeLock'[h] = r BY <1>1, <1>2, <1>3, <1>7 DEF CloseGood
  <2>5. closeLock' \in [Host -> Request \cup {Nil, Stale}] /\ \A g \in Host : g # h => closeLock'[g] = closeLock[g]
    BY <1>3, <1>7, LockTypes
  <2> QED BY <1>1, <1>2, <1>3, <1>4, <1>5, <1>7, <2>2, <2>3, <2>4, <2>5, CloserMoves
<1> QED BY <1>2, <1>6, <1>7 DEF CheckBootLock

LEMMA RecordFailureStep == ASSUME IInv, NEW r \in Request, RecordFailure(r) PROVE IInv'
<1>1. Closing(task[r]) /\ task[r].step = "failed" BY AtCloseStep DEF RecordFailure, CloseStep
<1>2. PICK h : h = task[r].host OBVIOUS
<1>3. h \in Host /\ HostGood(h) /\ task[r] \in CloseTask /\ CloseGood(r, task[r]) BY <1>1, <1>2, Closes
<1>4. UNCHANGED <<disk, closeLock, authorized, used, inventory, trust>> BY DEF RecordFailure
<1>5. PICK t : t = task'[r] OBVIOUS
<1>6. PICK status : status = task[r].outcome OBVIOUS
<1>7. status \in Status /\ SaveStatus(h, status) /\ Move(r, "release")
  BY <1>2, <1>3, <1>6 DEF RecordFailure, CloseTask
<1>8. /\ task' \in [Request -> Task] /\ Others(r) /\ Closing(task'[r]) /\ task'[r].host = h
      /\ t.op = task[r].op /\ t.step = "release"
  BY <1>1, <1>2, <1>5, <1>7, MoveCloseTask DEF CloseStep, IInv
<1>9. /\ status # "none"
      /\ status = "not_changed" => record[h].fingerprint \in authorized[h]
      /\ status = "completed" => record[h].status = "completed"
      /\ record[h].status = "remote_revoked" => status = "remote_revoked"
  BY <1>1, <1>2, <1>3, <1>6 DEF CloseGood, KeyGood, StatusGood
<1>10. status = "completed" => record[h].fingerprint # private[h] BY <1>3, <1>9 DEF HostGood, RecordGood
<1>11. h \in inventory => Verified(h) \/ status = "remote_revoked" BY <1>3, <1>9 DEF HostGood, RecordGood
<1>12. Verified(h) /\ status \in Settled => private[h] \in authorized[h]
  BY <1>3, <1>9 DEF HostGood, RecordGood, FilesGood, Settled
<1> QED BY <1>1, <1>2, <1>3, <1>4, <1>5, <1>7, <1>8, <1>9, <1>10, <1>11, <1>12, CloserSaves

LEMMA RecordRevokedStep == ASSUME IInv, NEW r \in Request, RecordRevoked(r) PROVE IInv'
<1>1. Closing(task[r]) /\ task[r].step = "revoked" BY AtCloseStep DEF RecordRevoked, CloseStep
<1>2. PICK h : h = task[r].host OBVIOUS
<1>3. h \in Host /\ HostGood(h) /\ CloseGood(r, task[r]) BY <1>1, <1>2, Closes
<1>4. UNCHANGED <<disk, closeLock, authorized, used, inventory, trust>> BY DEF RecordRevoked
<1>5. PICK t : t = task'[r] OBVIOUS
<1>6. PICK status : status = "remote_revoked" OBVIOUS
<1>7. /\ status \in Status /\ SaveStatus(h, status) /\ Move(r, "cleanup")
      /\ status \notin Settled /\ status # "none" /\ status # "not_changed" /\ status # "completed"
  BY <1>2, <1>6 DEF RecordRevoked, Status, Settled
<1>8. /\ task' \in [Request -> Task] /\ Others(r) /\ Closing(task'[r]) /\ task'[r].host = h
      /\ t.op = task[r].op /\ t.step = "cleanup"
  BY <1>1, <1>2, <1>5, <1>7, MoveCloseTask DEF CloseStep, IInv
<1>9. t.op = "closeout" /\ Revokes(task[r]) /\ record[h].fingerprint \notin authorized[h]
  BY <1>1, <1>2, <1>3, <1>8 DEF CloseGood, StepGood, KeyGood, Revokes
<1> QED BY <1>1, <1>2, <1>3, <1>4, <1>5, <1>6, <1>7, <1>8, <1>9, CloserSaves

LEMMA RecordAttestedStep == ASSUME IInv, NEW r \in Request, RecordAttested(r) PROVE IInv'
<1>1. Closing(task[r]) /\ task[r].step = "accepted" BY AtCloseStep DEF RecordAttested, CloseStep
<1>2. PICK h : h = task[r].host OBVIOUS
<1>3. h \in Host /\ HostGood(h) /\ CloseGood(r, task[r]) BY <1>1, <1>2, Closes
<1>4. UNCHANGED <<disk, closeLock, authorized, used, inventory, trust>> BY DEF RecordAttested
<1>5. PICK t : t = task'[r] OBVIOUS
<1>6. PICK status, step : /\ status = IF On(r, "unchanged") THEN "not_changed" ELSE "remote_revoked"
                          /\ step = IF On(r, "unchanged") THEN "release" ELSE "cleanup"
  OBVIOUS
<1>7. status \in Status /\ SaveStatus(h, status) /\ Move(r, step) /\ step \in CloseStep
  BY <1>2, <1>6 DEF RecordAttested, Status, Settled, CloseStep
<1>8. /\ task' \in [Request -> Task] /\ Others(r) /\ Closing(task'[r]) /\ task'[r].host = h
      /\ t.op = task[r].op /\ t.step = step
  BY <1>1, <1>2, <1>5, <1>7, MoveCloseTask DEF IInv
<1>9. CASE On(r, "unchanged")
  <2>1. status = "not_changed" /\ t.step = "release" BY <1>6, <1>8, <1>9
  <2>2. record[h].fingerprint \in authorized[h] /\ record[h].status # "remote_revoked"
    BY <1>1, <1>2, <1>3, <1>9 DEF CloseGood, KeyGood, StatusGood, On
  <2>3. private[h] \in authorized[h] /\ (h \in inventory => Verified(h))
    BY <1>3, <2>2 DEF HostGood, FilesGood, RecordGood
  <2> QED BY <1>1, <1>2, <1>3, <1>4, <1>5, <1>7, <1>8, <2>1, <2>2, <2>3, CloserSaves
<1>10. CASE ~ On(r, "unchanged")
  <2>1. /\ status = "remote_revoked" /\ t.step = "cleanup" /\ status \notin Settled
        /\ status # "none" /\ status # "not_changed" /\ status # "completed"
    BY <1>6, <1>8, <1>10 DEF Settled
  <2>2. t.op = "absent" BY <1>1, <1>3, <1>8, <1>10 DEF CloseGood, StepGood, Closing, On
  <2>3. t.op # "unchanged" /\ Revokes(task[r]) /\ record[h].fingerprint \notin authorized[h]
    BY <1>1, <1>2, <1>3, <1>8, <2>2 DEF CloseGood, KeyGood, Revokes
  <2> QED BY <1>1, <1>2, <1>3, <1>4, <1>5, <1>7, <1>8, <2>1, <2>3, CloserSaves
<1> QED BY <1>9, <1>10

LEMMA RecordCompletedStep == ASSUME IInv, NEW r \in Request, RecordCompleted(r) PROVE IInv'
<1>1. Closing(task[r]) /\ task[r].step = "done" BY AtCloseStep DEF RecordCompleted, CloseStep
<1>2. PICK h : h = task[r].host OBVIOUS
<1>3. h \in Host /\ HostGood(h) /\ CloseGood(r, task[r]) BY <1>1, <1>2, Closes
<1>4. UNCHANGED <<disk, closeLock, authorized, used, inventory, trust>> BY DEF RecordCompleted
<1>5. PICK t : t = task'[r] OBVIOUS
<1>6. PICK status : status = "completed" OBVIOUS
<1>7. status \in Status /\ SaveStatus(h, status) /\ Move(r, "release") /\ status # "none" /\ status # "not_changed"
  BY <1>2, <1>6 DEF RecordCompleted, Status, Settled
<1>8. /\ task' \in [Request -> Task] /\ Others(r) /\ Closing(task'[r]) /\ task'[r].host = h
      /\ t.op = task[r].op /\ t.step = "release"
  BY <1>1, <1>2, <1>5, <1>7, MoveCloseTask DEF CloseStep, IInv
<1>9. Metadata \notin files[h] /\ Private \notin files[h] /\ h \notin inventory
  BY <1>1, <1>2, <1>3 DEF CloseGood, StepGood
<1>10. ~ Verified(h) BY <1>9 DEF Verified
<1>11. record[h].fingerprint # private[h]
  <2>1. record[h].status # "none" BY <1>1, <1>2, Closes
  <2> QED BY <1>3, <1>9, <2>1 DEF HostGood, FilesGood, RecordGood
<1> QED BY <1>1, <1>2, <1>3, <1>4, <1>5, <1>7, <1>8, <1>9, <1>10, <1>11, CloserSaves

LEMMA ReleaseLockStep == ASSUME IInv, NEW r \in Request, ReleaseLock(r) PROVE IInv'
<1>1. Closing(task[r]) /\ task[r].step = "release" BY AtCloseStep DEF ReleaseLock, CloseStep
<1>2. PICK h : h = task[r].host OBVIOUS
<1>3. h \in Host /\ CloseGood(r, task[r]) BY <1>1, <1>2, Closes
<1>4. UNCHANGED <<disk, authorized, used, inventory, record, form, trust>> BY DEF ReleaseLock
<1>5. PICK t : t = task'[r] OBVIOUS
<1>6. /\ task' \in [Request -> Task] /\ Others(r) /\ Closing(task'[r]) /\ task'[r].host = h /\ t = task[r]
  BY <1>1, <1>2, <1>5 DEF ReleaseLock, Others, IInv, Shapes
<1>7. KeyGood(t) /\ StatusGood(t) /\ StepGood(t) BY <1>3, <1>6 DEF CloseGood
<1>8. t.step # "locked" /\ ~ Revokes(t) BY <1>1, <1>6 DEF Revokes
<1>9. /\ closeLock' \in [Host -> Request \cup {Nil, Stale}]
      /\ \A g \in Host : g # h => closeLock'[g] = closeLock[g]
  BY <1>2, <1>3, LockTypes DEF ReleaseLock
<1> QED BY <1>1, <1>2, <1>3, <1>4, <1>5, <1>6, <1>7, <1>8, <1>9, CloserMoves

(* The record's key is not on the target any more, so what may be deleted   *)
(* opens nothing.                                                           *)
LEMMA CheckStoreStep == ASSUME AccessAssumption, IInv, NEW r \in Request, CheckStore(r) PROVE IInv'
<1>1. Closing(task[r]) /\ task[r].step = "cleanup" BY AtCloseStep DEF CheckStore, CloseStep
<1>2. PICK h : h = task[r].host OBVIOUS
<1>3. h \in Host /\ HostGood(h) /\ CloseGood(r, task[r]) BY <1>1, <1>2, Closes
<1>4. UNCHANGED <<disk, authorized, used, inventory, record, form, trust>> /\ UNCHANGED closeLock
  BY DEF CheckStore, closeout
<1>5. PICK t : t = task'[r] OBVIOUS
<1>6. /\ closeLock' \in [Host -> Request \cup {Nil, Stale}]
      /\ \A g \in Host : g # h => closeLock'[g] = closeLock[g]
  BY <1>3, <1>4, LockTypes
<1>7. /\ record[h].fingerprint \notin authorized[h] /\ record[h].status = "remote_revoked"
      /\ task[r].op # "unchanged" /\ record[h].fingerprint # Nil /\ closeLock'[h] = r
  BY <1>1, <1>2, <1>3, <1>4 DEF CloseGood, KeyGood, StatusGood, StepGood, HostGood, RecordGood, Revokes
<1>8. Revokes(task[r]) BY <1>1 DEF Revokes
<1>9. CASE FailWith(r, "remote_revoked")
  <2>1. "remote_revoked" \in Status BY DEF Status
  <2>2. /\ task' \in [Request -> Task] /\ Others(r) /\ Closing(task'[r]) /\ task'[r].host = h
        /\ t.op = task[r].op /\ t.step = "failed" /\ t.outcome = "remote_revoked"
    BY <1>1, <1>2, <1>5, <1>9, <2>1, FailTask DEF IInv
  <2>3. KeyGood(t) /\ StatusGood(t) /\ StepGood(t)
    BY <1>1, <1>2, <1>3, <1>5, <1>7, <2>2 DEF CloseGood, KeyGood, StatusGood, StepGood
  <2>4. ~ Revokes(t) /\ t.step # "locked" BY <2>2 DEF Revokes
  <2> QED BY <1>1, <1>2, <1>3, <1>4, <1>5, <1>6, <2>2, <2>3, <2>4, CloserMoves
<1>10. CASE Move(r, "row") /\ files[h] = {}
  <2>1. /\ task' \in [Request -> Task] /\ Others(r) /\ Closing(task'[r]) /\ task'[r].host = h
        /\ t.op = task[r].op /\ t.step = "row"
    BY <1>1, <1>2, <1>5, <1>10, MoveCloseTask DEF CloseStep, IInv
  <2>2. KeyGood(t) /\ StatusGood(t) /\ StepGood(t)
    BY <1>1, <1>2, <1>3, <1>5, <1>7, <1>10, <2>1 DEF CloseGood, KeyGood, StatusGood, StepGood
  <2> QED BY <1>1, <1>2, <1>3, <1>4, <1>5, <1>6, <1>7, <1>8, <2>1, <2>2, CloserMoves
<1>11. CASE Move(r, "deleting") /\ (files[h] = {Directory} \/ MayDelete(h))
  <2>1. /\ task' \in [Request -> Task] /\ Others(r) /\ Closing(task'[r]) /\ task'[r].host = h
        /\ t.op = task[r].op /\ t.step = "deleting"
    BY <1>1, <1>2, <1>5, <1>11, MoveCloseTask DEF CloseStep, IInv
  <2>2. Directory \in files[h] BY <1>3, <1>11 DEF MayDelete, HostGood, FilesGood
  <2>3. private[h] # Nil => MayDelete(h) BY <1>3, <1>11 DEF HostGood, FilesGood, Private, Directory
  <2>4. private[h] # Nil => private[h] = record[h].fingerprint
    BY <1>3, <1>7, <2>3 DEF HostGood, FilesGood, MayDelete
  <2>5. authorized[h] = {}
    <3>1. authorized[h] \subseteq {private[h]} \ {record[h].fingerprint} BY <1>3, <1>7 DEF HostGood, FilesGood
    <3>2. authorized[h] \subseteq Key /\ Nil \notin authorized[h]
      BY <1>3 DEF IInv, Shapes, AccessAssumption
    <3> QED BY <2>4, <3>1, <3>2
  <2>6. KeyGood(t) /\ StatusGood(t) /\ StepGood(t)
    BY <1>1, <1>2, <1>3, <1>5, <1>7, <2>1, <2>2, <2>5 DEF CloseGood, KeyGood, StatusGood, StepGood
  <2> QED BY <1>1, <1>2, <1>3, <1>4, <1>5, <1>6, <1>7, <1>8, <2>1, <2>6, CloserMoves
<1> QED BY <1>2, <1>9, <1>10, <1>11 DEF CheckStore

(* Past its second lock a closeout meets enrolments only that will find it. *)
LEMMA WaitingBoots ==
  ASSUME IInv, NEW r \in Request, Revokes(task[r]), NEW h \in Host, task[r].host = h, Others(r),
         BootLock \in files[h] => BootLock \in files'[h]
  PROVE  \A q \in Request : q # r /\ Busy(task[q]) /\ task[q].host = h => TaskGood(q)'
<1>1. TAKE q \in Request
<1>2. HAVE q # r /\ Busy(task[q]) /\ task[q].host = h
<1>3. ~ Closing(task[q]) /\ task[q].op = "bootstrap" BY <1>2, OneCloser DEF Busy, Revokes
<1>4. PICK t : t = task[q] OBVIOUS
<1>5. task'[q] = t BY <1>2, <1>4 DEF Others
<1>6. ~ Enrols(t) BY <1>2, <1>4 DEF IInv, Apart
<1>7. BootGood(t) BY <1>3, <1>4 DEF IInv, TaskGood
<1>8. BootGood(t)' BY <1>2, <1>3, <1>4, <1>6, <1>7 DEF BootGood, Enrols
<1> QED BY <1>3, <1>4, <1>5, <1>8 DEF TaskGood

(* A step of such a closeout that does something to the host.               *)
LEMMA RevokerStep ==
  ASSUME IInv, Shapes', NEW r \in Request, Revokes(task[r]), NEW h \in Host, task[r].host = h, Others(r),
         Closing(task'[r]), task'[r].host = h,
         UNCHANGED <<closeLock, record, form, used, trust>>,
         \A g \in Host : g # h => /\ files'[g] = files[g] /\ private'[g] = private[g]
                                  /\ credential'[g] = credential[g] /\ authorized'[g] = authorized[g]
                                  /\ g \in inventory' <=> g \in inventory,
         BootLock \in files[h] => BootLock \in files'[h],
         FilesGood(h)', RecordGood(h)',
         NEW t, t = task'[r], KeyGood(t)', StatusGood(t)', StepGood(t)'
  PROVE  IInv'
<1>1. Closing(task[r]) BY DEF Revokes
<1>2. \A g \in Host : g # h => SameHost(g) BY DEF SameHost
<1>3. record[h].claim = r /\ ~ form[h].fresh /\ CloseGood(r, task[r]) BY <1>1, Closes
<1>4. HostGood(h)' BY <1>3 DEF HostGood, ClaimGood, FormGood
<1>5. TaskGood(r)'
  <2>1. Closing(t) /\ t.op # "bootstrap" BY DEF Closing
  <2>2. closeLock[h] = r BY <1>3 DEF CloseGood
  <2>3. CloseGood(r, t)' BY <1>3, <2>2 DEF CloseGood
  <2> QED BY <2>1, <2>3 DEF TaskGood
<1>6. \A q \in Request : q # r /\ Busy(task[q]) /\ task[q].host = h => TaskGood(q)' BY WaitingBoots
<1>7. Apart' BY <1>1, CloserApart
<1>8. TrustGood' BY SameTrust DEF Closing
<1>9. About(task[r], h) /\ About(task'[r], h) BY DEF About
<1> QED BY <1>2, <1>4, <1>5, <1>6, <1>7, <1>8, <1>9, HostStep

LEMMA RevokeRemoteStep == ASSUME IInv, NEW r \in Request, RevokeRemote(r) PROVE IInv'
<1>1. Closing(task[r]) /\ task[r].step = "revoking" BY AtCloseStep DEF RevokeRemote, CloseStep
<1>2. PICK h : h = task[r].host OBVIOUS
<1>3. h \in Host /\ HostGood(h) /\ CloseGood(r, task[r]) BY <1>1, <1>2, Closes
<1>4. UNCHANGED <<disk, closeout, used, inventory, trust>> BY DEF RevokeRemote
<1>5. UNCHANGED <<files, private, credential, closeLock, record, form, used, inventory, known, trustLock>>
  BY <1>4 DEF disk, closeout, trust
<1>6. PICK t : t = task'[r] OBVIOUS
<1>7. /\ task[r].op = "closeout" /\ Verified(h) /\ credential[h].fingerprint = record[h].fingerprint
      /\ record[h].fingerprint \in authorized[h] /\ record[h].status = "in_progress" /\ closeLock[h] = r
  BY <1>1, <1>2, <1>3 DEF CloseGood, StepGood, KeyGood, StatusGood, Revokes
<1>8. Revokes(task[r]) BY <1>1 DEF Revokes
<1>9. ASSUME NEW outcome \in {"remote_partial", "unknown", "not_changed"}, FailWith(r, outcome)
      PROVE  /\ task' \in [Request -> Task] /\ Others(r) /\ Closing(t) /\ t.host = h
             /\ t.op = "closeout" /\ t.step = "failed" /\ t.outcome = outcome
  <2>1. outcome \in Status BY <1>9 DEF Status, Settled
  <2> QED BY <1>1, <1>2, <1>6, <1>7, <1>9, <2>1, FailTask DEF IInv
<1>10. CASE UNCHANGED authorized /\ (FailWith(r, "not_changed") \/ FailWith(r, "unknown"))
  <2>1. PICK outcome \in {"not_changed", "unknown"} :
          /\ task' \in [Request -> Task] /\ Others(r) /\ Closing(t) /\ t.host = h
          /\ t.op = "closeout" /\ t.step = "failed" /\ t.outcome = outcome
    BY <1>9, <1>10
  <2>2. KeyGood(t) /\ StatusGood(t) /\ StepGood(t)
    BY <1>1, <1>2, <1>3, <1>7, <2>1 DEF CloseGood, KeyGood, StatusGood, StepGood
  <2>3. ~ Revokes(t) /\ t.step # "locked" BY <2>1 DEF Revokes
  <2>4. /\ closeLock' \in [Host -> Request \cup {Nil, Stale}]
        /\ \A g \in Host : g # h => closeLock'[g] = closeLock[g]
    BY <1>3, <1>5, LockTypes
  <2>5. UNCHANGED <<disk, authorized, used, inventory, record, form, trust>> BY <1>4, <1>5, <1>10
  <2> QED BY <1>1, <1>2, <1>3, <1>6, <2>1, <2>2, <2>3, <2>4, <2>5, CloserMoves
<1>11. CASE /\ authorized' = [authorized EXCEPT ![h] = @ \ {record[h].fingerprint}]
            /\ Move(r, "revoked") \/ FailWith(r, "remote_partial") \/ FailWith(r, "unknown")
  <2>1. /\ task' \in [Request -> Task] /\ Others(r) /\ Closing(t) /\ t.host = h /\ t.op = "closeout"
        /\ t.step = "revoked" \/ (t.step = "failed" /\ t.outcome \in {"remote_partial", "unknown"})
    <3>1. CASE Move(r, "revoked") BY <1>1, <1>2, <1>6, <1>7, <3>1, MoveCloseTask DEF CloseStep, IInv
    <3>2. CASE FailWith(r, "remote_partial") BY <1>9, <3>2
    <3>3. CASE FailWith(r, "unknown") BY <1>9, <3>3
    <3> QED BY <1>11, <3>1, <3>2, <3>3
  <2>2. /\ authorized' \in [Host -> SUBSET Key] /\ authorized'[h] = authorized[h] \ {record[h].fingerprint}
        /\ \A g \in Host : g # h => authorized'[g] = authorized[g]
    BY <1>3, <1>11 DEF IInv, Shapes
  <2>3. Shapes' BY <1>5, <2>1, <2>2 DEF IInv, Shapes
  <2>4. FilesGood(h)' BY <1>3, <1>5, <2>2 DEF HostGood, FilesGood
  <2>5. RecordGood(h)' BY <1>3, <1>5, <1>7 DEF HostGood, RecordGood, Verified, Settled
  <2>6. KeyGood(t)' BY <1>5, <2>1, <2>2 DEF KeyGood
  <2>7. StatusGood(t)' BY <1>5, <1>7, <2>1 DEF StatusGood
  <2>8. StepGood(t)' BY <2>1 DEF StepGood
  <2>9. UNCHANGED <<closeLock, record, form, used, trust>> BY <1>4, <1>5
  <2>10. \A g \in Host : g # h => /\ files'[g] = files[g] /\ private'[g] = private[g]
                                  /\ credential'[g] = credential[g] /\ authorized'[g] = authorized[g]
                                  /\ g \in inventory' <=> g \in inventory
    BY <1>5, <2>2
  <2>11. BootLock \in files[h] => BootLock \in files'[h] BY <1>5
  <2> QED BY <1>2, <1>3, <1>6, <1>8, <2>1, <2>3, <2>4, <2>5, <2>6, <2>7, <2>8, <2>9, <2>10, <2>11, RevokerStep
<1> QED BY <1>2, <1>7, <1>10, <1>11 DEF RevokeRemote

(* The key goes first, what names it last.                                  *)
LEMMA NextFileFacts ==
  ASSUME NEW h, Directory \in files[h]
  PROVE  /\ NextFile(h) \in files[h] /\ NextFile(h) \in {Private, Public, Metadata, Directory}
         /\ NextFile(h) = Metadata => files[h] \cap {Private, Public} = {}
         /\ NextFile(h) = Directory => files[h] \cap {Private, Public, Metadata} = {}
<1>1. /\ DeleteOrder[1] = Private /\ DeleteOrder[2] = Public
      /\ DeleteOrder[3] = Metadata /\ DeleteOrder[4] = Directory
  BY DEF DeleteOrder
<1>2. \E i \in 1 .. 4 : DeleteOrder[i] \in files[h] /\ \A j \in 1 .. i - 1 : DeleteOrder[j] \notin files[h]
  <2>1. CASE Private \in files[h]
    <3>1. 1 \in 1 .. 4 /\ DeleteOrder[1] \in files[h] /\ \A j \in 1 .. 1 - 1 : DeleteOrder[j] \notin files[h]
      BY <1>1, <2>1
    <3> QED BY <3>1
  <2>2. CASE Private \notin files[h] /\ Public \in files[h]
    <3>1. 2 \in 1 .. 4 /\ DeleteOrder[2] \in files[h] /\ \A j \in 1 .. 2 - 1 : DeleteOrder[j] \notin files[h]
      <4>1. \A j \in 1 .. 2 - 1 : j = 1 OBVIOUS
      <4> QED BY <1>1, <2>2, <4>1
    <3> QED BY <3>1
  <2>3. CASE Private \notin files[h] /\ Public \notin files[h] /\ Metadata \in files[h]
    <3>1. 3 \in 1 .. 4 /\ DeleteOrder[3] \in files[h] /\ \A j \in 1 .. 3 - 1 : DeleteOrder[j] \notin files[h]
      <4>1. \A j \in 1 .. 3 - 1 : j = 1 \/ j = 2 OBVIOUS
      <4> QED BY <1>1, <2>3, <4>1
    <3> QED BY <3>1
  <2>4. CASE Private \notin files[h] /\ Public \notin files[h] /\ Metadata \notin files[h]
    <3>1. 4 \in 1 .. 4 /\ DeleteOrder[4] \in files[h] /\ \A j \in 1 .. 4 - 1 : DeleteOrder[j] \notin files[h]
      <4>1. \A j \in 1 .. 4 - 1 : j = 1 \/ j = 2 \/ j = 3 OBVIOUS
      <4> QED BY <1>1, <2>4, <4>1
    <3> QED BY <3>1
  <2> QED BY <2>1, <2>2, <2>3, <2>4
<1>3. PICK i : i = CHOOSE k \in 1 .. 4 : /\ DeleteOrder[k] \in files[h]
                                        /\ \A j \in 1 .. k - 1 : DeleteOrder[j] \notin files[h]
  OBVIOUS
<1>4. i \in 1 .. 4 /\ DeleteOrder[i] \in files[h] /\ \A j \in 1 .. i - 1 : DeleteOrder[j] \notin files[h]
  BY <1>2, <1>3
<1>5. NextFile(h) = DeleteOrder[i] BY <1>3 DEF NextFile
<1>6. CASE i = 1 BY <1>1, <1>4, <1>5, <1>6 DEF Private, Metadata, Directory
<1>7. CASE i = 2 BY <1>1, <1>4, <1>5, <1>7 DEF Public, Metadata, Directory
<1>8. CASE i = 3
  <2>1. 1 \in 1 .. i - 1 /\ 2 \in 1 .. i - 1 BY <1>8
  <2> QED BY <1>1, <1>4, <1>5, <1>8, <2>1 DEF Metadata, Directory
<1>9. CASE i = 4
  <2>1. 1 \in 1 .. i - 1 /\ 2 \in 1 .. i - 1 /\ 3 \in 1 .. i - 1 BY <1>9
  <2> QED BY <1>1, <1>4, <1>5, <1>9, <2>1 DEF Metadata, Directory
<1> QED BY <1>4, <1>6, <1>7, <1>8, <1>9

LEMMA DeleteNextStep == ASSUME IInv, NEW r \in Request, DeleteNext(r) PROVE IInv'
<1>1. Closing(task[r]) /\ task[r].step = "deleting" BY AtCloseStep DEF DeleteNext, CloseStep
<1>2. PICK h : h = task[r].host OBVIOUS
<1>3. h \in Host /\ HostGood(h) /\ task[r] \in CloseTask /\ CloseGood(r, task[r]) BY <1>1, <1>2, Closes
<1>4. UNCHANGED <<closeout, authorized, used, inventory, trust>> BY DEF DeleteNext
<1>5. UNCHANGED <<closeLock, record, form, authorized, used, inventory, known, trustLock>> BY <1>4 DEF closeout, trust
<1>6. PICK t : t = task'[r] OBVIOUS
<1>7. /\ Directory \in files[h] /\ record[h].status = "remote_revoked" /\ authorized[h] = {}
      /\ task[r].op # "unchanged" /\ task[r].op \in {"closeout", "absent"}
      /\ closeLock[h] = r /\ Revokes(task[r])
  BY <1>1, <1>2, <1>3 DEF CloseGood, StepGood, KeyGood, StatusGood, Revokes, Closing
<1>8. PICK f : f = NextFile(h) OBVIOUS
<1>9. /\ f \in files[h] /\ f \in {Private, Public, Metadata, Directory}
      /\ f = Metadata => files[h] \cap {Private, Public} = {}
      /\ f = Directory => files[h] \cap {Private, Public, Metadata} = {}
  BY <1>7, <1>8, NextFileFacts
<1>10. CASE f = Directory /\ BootLock \in files[h]
  <2>1. FailWith(r, "remote_revoked") /\ UNCHANGED disk BY <1>2, <1>8, <1>10 DEF DeleteNext
  <2>2. "remote_revoked" \in Status BY DEF Status
  <2>3. /\ task' \in [Request -> Task] /\ Others(r) /\ Closing(t) /\ t.host = h
        /\ t.op = task[r].op /\ t.step = "failed" /\ t.outcome = "remote_revoked"
    BY <1>1, <1>2, <1>6, <2>1, <2>2, FailTask DEF IInv
  <2>4. KeyGood(t) /\ StatusGood(t) /\ StepGood(t)
    BY <1>1, <1>2, <1>3, <1>7, <2>3 DEF CloseGood, KeyGood, StatusGood, StepGood
  <2>5. ~ Revokes(t) /\ t.step # "locked" BY <2>3 DEF Revokes
  <2>6. /\ closeLock' \in [Host -> Request \cup {Nil, Stale}]
        /\ \A g \in Host : g # h => closeLock'[g] = closeLock[g]
    BY <1>3, <1>5, LockTypes
  <2>7. UNCHANGED <<disk, authorized, used, inventory, record, form, trust>> BY <1>4, <1>5, <2>1
  <2> QED BY <1>1, <1>2, <1>3, <1>6, <2>3, <2>4, <2>5, <2>6, <2>7, CloserMoves
<1>11. CASE ~ (f = Directory /\ BootLock \in files[h])
  <2>1. /\ files' = [files EXCEPT ![h] = @ \ {f}]
        /\ private' = IF f = Private THEN [private EXCEPT ![h] = Nil] ELSE private
        /\ credential' = IF f = Metadata THEN [credential EXCEPT ![h] = Blank] ELSE credential
        /\ IF f = Directory THEN Move(r, "row") ELSE UNCHANGED task
    BY <1>2, <1>8, <1>11 DEF DeleteNext
  <2>2. /\ task' \in [Request -> Task] /\ Others(r) /\ Closing(t) /\ t.host = h /\ t.op = task[r].op
        /\ t.step = IF f = Directory THEN "row" ELSE "deleting"
    <3>1. CASE f = Directory BY <1>1, <1>2, <1>6, <2>1, <3>1, MoveCloseTask DEF CloseStep, IInv
    <3>2. CASE f # Directory BY <1>1, <1>2, <1>6, <2>1, <3>2 DEF Others, IInv, Shapes
    <3> QED BY <3>1, <3>2
  <2>3. /\ files' \in [Host -> SUBSET File] /\ files'[h] = files[h] \ {f}
        /\ \A g \in Host : g # h => files'[g] = files[g]
    BY <1>3, <2>1 DEF IInv, Shapes
  <2>4. /\ private' \in [Host -> Key \cup {Nil}] /\ private'[h] = IF f = Private THEN Nil ELSE private[h]
        /\ \A g \in Host : g # h => private'[g] = private[g]
    BY <1>3, <2>1 DEF IInv, Shapes
  <2>5. Blank \in [verified : BOOLEAN, fingerprint : Key \cup {Nil}] /\ Blank.fingerprint = Nil /\ Blank.verified = FALSE
    BY DEF Blank
  <2>6. /\ credential' \in [Host -> [verified : BOOLEAN, fingerprint : Key \cup {Nil}]]
        /\ credential'[h] = IF f = Metadata THEN Blank ELSE credential[h]
        /\ \A g \in Host : g # h => credential'[g] = credential[g]
    BY <1>3, <2>1, <2>5 DEF IInv, Shapes
  <2>7. Shapes' BY <1>5, <2>2, <2>3, <2>4, <2>6 DEF IInv, Shapes
  <2>8. files[h] \subseteq File /\ (BootLock \in files'[h] <=> BootLock \in files[h])
    BY <1>3, <1>9, <2>3 DEF IInv, Shapes, BootLock, Private, Public, Metadata, Directory
  <2>9. FilesGood(h)'
    <3>1. Private # Public /\ Private # Metadata /\ Private # Directory /\ Public # Metadata
          /\ Public # Directory /\ Metadata # Directory
      BY DEF Private, Public, Metadata, Directory
    <3>2. FilesGood(h) BY <1>3 DEF HostGood
    <3>3. (private[h] # Nil <=> Private \in files[h])' BY <1>9, <2>3, <2>4, <3>1, <3>2 DEF FilesGood
    <3>4. (files[h] # {} => Directory \in files[h])'
      <4>1. CASE f = Directory
        <5>1. files[h] \subseteq {Private, Public, Metadata, BootLock, Directory} BY <2>8 DEF File
        <5>2. files'[h] = {} BY <1>9, <1>11, <2>3, <4>1, <5>1
        <5> QED BY <5>2
      <4>2. CASE f # Directory BY <1>7, <2>3, <4>2
      <4> QED BY <4>1, <4>2
    <3>5. (Metadata \notin files[h] => credential[h] = Blank)' BY <1>9, <2>3, <2>6, <3>1, <3>2 DEF FilesGood
    <3>6. (credential[h].verified <=> credential[h].fingerprint # Nil)' BY <2>5, <2>6, <3>2 DEF FilesGood
    <3>7. (credential[h].fingerprint # Nil /\ private[h] # Nil => credential[h].fingerprint = private[h])'
      BY <2>4, <2>5, <2>6, <3>2 DEF FilesGood
    <3>8. (authorized[h] \subseteq {private[h]})' BY <1>5, <1>7
    <3>9. (files[h] \cap {Private, Public} # {} => Metadata \in files[h])'
      BY <1>9, <2>3, <3>1, <3>2 DEF FilesGood
    <3>10. ({private[h], credential[h].fingerprint, record[h].fingerprint} \subseteq used \cup {Nil})'
      BY <1>5, <2>4, <2>5, <2>6, <3>2 DEF FilesGood
    <3> QED BY <3>3, <3>4, <3>5, <3>6, <3>7, <3>8, <3>9, <3>10 DEF FilesGood
  <2>10. RecordGood(h)' BY <1>3, <1>5, <1>7 DEF HostGood, RecordGood, Settled
  <2>11. KeyGood(t)' BY <1>1, <1>2, <1>3, <1>5, <1>7, <2>2 DEF CloseGood, KeyGood
  <2>12. StatusGood(t)' BY <1>1, <1>2, <1>3, <1>5, <1>7, <2>2 DEF CloseGood, StatusGood
  <2>13. StepGood(t)'
    <3>1. f # Directory => Directory \in files'[h] BY <1>7, <2>3
    <3>2. f = Directory => files'[h] \cap {Metadata, Private} = {} BY <1>9, <2>3
    <3>3. t.step \in {"row", "deleting"} /\ (t.step = "row" <=> f = Directory) BY <2>2
    <3> QED BY <1>7, <2>2, <3>1, <3>2, <3>3 DEF StepGood
  <2>14. UNCHANGED <<closeLock, record, form, used, trust>> BY <1>4, <1>5
  <2>15. \A g \in Host : g # h => /\ files'[g] = files[g] /\ private'[g] = private[g]
                                  /\ credential'[g] = credential[g] /\ authorized'[g] = authorized[g]
                                  /\ g \in inventory' <=> g \in inventory
    BY <1>5, <2>3, <2>4, <2>6
  <2> QED BY <1>2, <1>3, <1>6, <1>7, <2>2, <2>7, <2>8, <2>9, <2>10, <2>11, <2>12, <2>13, <2>14, <2>15, RevokerStep
<1> QED BY <1>10, <1>11

LEMMA RemoveRowStep == ASSUME IInv, NEW r \in Request, RemoveRow(r) PROVE IInv'
<1>1. Closing(task[r]) /\ task[r].step = "row" BY AtCloseStep DEF RemoveRow, CloseStep
<1>2. PICK h : h = task[r].host OBVIOUS
<1>3. h \in Host /\ HostGood(h) /\ CloseGood(r, task[r]) BY <1>1, <1>2, Closes
<1>4. UNCHANGED <<disk, closeout, authorized, used, trust>> BY DEF RemoveRow
<1>5. UNCHANGED <<files, private, credential, closeLock, record, form, authorized, used, known, trustLock>>
  BY <1>4 DEF disk, closeout, trust
<1>6. PICK t : t = task'[r] OBVIOUS
<1>7. Move(r, "done") /\ inventory' = inventory \ {h} BY <1>2 DEF RemoveRow
<1>8. /\ task' \in [Request -> Task] /\ Others(r) /\ Closing(t) /\ t.host = h
      /\ t.op = task[r].op /\ t.step = "done"
  BY <1>1, <1>2, <1>6, <1>7, MoveCloseTask DEF CloseStep, IInv
<1>9. Shapes' BY <1>5, <1>7, <1>8 DEF IInv, Shapes
<1>10. FilesGood(h)' BY <1>3, <1>5 DEF HostGood, FilesGood
<1>11. RecordGood(h)' BY <1>3, <1>5, <1>7 DEF HostGood, RecordGood, Verified
<1>12. KeyGood(t)' BY <1>1, <1>2, <1>3, <1>5, <1>8 DEF CloseGood, KeyGood
<1>13. StatusGood(t)' BY <1>1, <1>2, <1>3, <1>5, <1>8 DEF CloseGood, StatusGood
<1>14. StepGood(t)' BY <1>1, <1>2, <1>3, <1>5, <1>7, <1>8 DEF CloseGood, StepGood
<1>15. Revokes(task[r]) BY <1>1 DEF Revokes
<1>16. UNCHANGED <<closeLock, record, form, used, trust>> BY <1>4, <1>5
<1>17. \A g \in Host : g # h => /\ files'[g] = files[g] /\ private'[g] = private[g]
                                /\ credential'[g] = credential[g] /\ authorized'[g] = authorized[g]
                                /\ g \in inventory' <=> g \in inventory
  BY <1>5, <1>7
<1>18. BootLock \in files[h] => BootLock \in files'[h] BY <1>5
<1> QED BY <1>2, <1>3, <1>6, <1>8, <1>9, <1>10, <1>11, <1>12, <1>13, <1>14, <1>15, <1>16, <1>17, <1>18, RevokerStep

LEMMA ReleaseClaimStep == ASSUME AccessAssumption, IInv, NEW r \in Request, ReleaseClaim(r) PROVE IInv'
<1>1. Closing(task[r]) /\ task[r].step = "release" BY AtCloseStep DEF ReleaseClaim, CloseStep
<1>2. PICK h : h = task[r].host OBVIOUS
<1>3. /\ h \in Host /\ HostGood(h) /\ CloseGood(r, task[r])
      /\ record[h].claim = r /\ record[h].status # "none" /\ ~ form[h].fresh
  BY <1>1, <1>2, Closes
<1>4. /\ UNCHANGED <<disk, closeLock, authorized, used, inventory, trust>>
      /\ UNCHANGED <<files, private, credential, closeLock, authorized, used, inventory, known, trustLock>>
  BY DEF ReleaseClaim, disk, trust
<1>5. task' \in [Request -> Task] /\ Others(r) /\ task'[r] = Idle BY FinishTask DEF ReleaseClaim, IInv
<1>6. PICK status : status = IF record[h].status = "in_progress" THEN "unknown" ELSE record[h].status OBVIOUS
<1>7. PICK rec : rec = [record[h] EXCEPT !.claim = Nil, !.status = status] OBVIOUS
<1>8. record[h] \in Record BY <1>3 DEF IInv, Shapes
<1>9. /\ rec \in Record /\ rec.claim = Nil /\ rec.fingerprint = record[h].fingerprint /\ rec.status = status
  BY <1>6, <1>7, <1>8 DEF Record, Status
<1>10. record' = [record EXCEPT ![h] = rec] /\ form' = [form EXCEPT ![h].fresh = FALSE]
  BY <1>2, <1>3, <1>6, <1>7 DEF ReleaseClaim, SaveRecord
<1>11. /\ record' \in [Host -> Record] /\ record'[h] = rec /\ \A g \in Host : g # h => record'[g] = record[g]
       /\ form' \in [Host -> [seen : {"nothing", "absent", "unchanged"}, fresh : BOOLEAN]]
       /\ ~ form'[h].fresh /\ \A g \in Host : g # h => form'[g] = form[g]
  BY <1>3, <1>9, <1>10 DEF IInv, Shapes
<1>12. Shapes' BY <1>4, <1>5, <1>11 DEF IInv, Shapes
<1>13. Nil \notin Request BY DEF AccessAssumption
<1>14. HostGood(h)'
  <2>1. FilesGood(h)' BY <1>3, <1>4, <1>9, <1>11 DEF HostGood, FilesGood
  <2>2. RecordGood(h)' BY <1>3, <1>4, <1>6, <1>9, <1>11 DEF HostGood, RecordGood, Verified, Settled
  <2>3. ClaimGood(h)' BY <1>9, <1>11, <1>13 DEF ClaimGood
  <2>4. FormGood(h)' BY <1>11 DEF FormGood
  <2> QED BY <2>1, <2>2, <2>3, <2>4 DEF HostGood
<1>15. TaskGood(r)' BY <1>5, IdleTask DEF TaskGood, Busy
<1>16. \A q \in Request : q # r /\ Busy(task[q]) /\ task[q].host = h => TaskGood(q)'
  BY <1>1, <1>2, <1>3, <1>4, <1>5, <1>9, <1>11, OtherBoots
<1>17. ~ InLock(task'[r]) /\ ~ Enrols(task'[r]) /\ ~ Revokes(task'[r]) /\ task'[r].op # "trust"
  BY <1>5, IdleTask DEF InLock, Enrols, Revokes
<1>18. About(task[r], h) /\ About(task'[r], h) BY <1>2, <1>5, IdleTask DEF About
<1>19. Apart' BY <1>3, <1>5, <1>17, <1>18, SameApart
<1>20. TrustGood' BY <1>4, <1>5, <1>17, SameTrust
<1>21. \A g \in Host : g # h => SameHost(g) BY <1>4, <1>11 DEF SameHost
<1> QED BY <1>3, <1>4, <1>5, <1>12, <1>14, <1>15, <1>16, <1>18, <1>19, <1>20, <1>21, HostStep

(* A request begins to close the host out: nobody else does.                *)
LEMMA BeginClosing ==
  ASSUME IInv, NEW r \in Request, NEW h \in Host, task[r] = Idle,
         record[h].claim \notin Request, NEW rec \in Record, SaveRecord(h, rec), rec.claim = r,
         (rec.fingerprint = record[h].fingerprint /\ record[h].status # "none")
           \/ (rec.fingerprint \in authorized[h] /\ rec.fingerprint \in used \cup {Nil}),
         rec.fingerprint # Nil, rec.status \notin {"none"},
         rec.status = "in_progress" \/ (rec.status = record[h].status /\ rec.fingerprint = record[h].fingerprint),
         record[h].status = "remote_revoked" => rec.status = "remote_revoked",
         NEW t \in CloseTask, t.host = h, task' = [task EXCEPT ![r] = t],
         t.step \in {"reclaimed", "claimed"}, (t.step = "reclaimed" <=> t.op # "closeout"),
         UNCHANGED <<disk, closeLock, authorized, used, inventory, trust>>,
         t.op = "closeout" => rec.status = "in_progress",
         t.op = "absent" => rec.fingerprint \notin authorized[h],
         t.op # "absent" => rec.fingerprint \in authorized[h],
         t.op = "unchanged" => rec.status \notin {"remote_revoked", "remote_partial", "completed"}
  PROVE  IInv'
<1>1. UNCHANGED <<files, private, credential, closeLock, authorized, used, inventory, known, trustLock>>
  BY DEF disk, trust
<1>2. t \in Task BY DEF Task
<1>3. Closing(t) BY DEF CloseTask, Closing
<1>4. task' \in [Request -> Task] /\ Others(r) /\ task'[r] = t BY <1>2 DEF IInv, Shapes, Others
<1>5. HostGood(h) BY DEF IInv
<1>6. record' = [record EXCEPT ![h] = rec] /\ form' = [form EXCEPT ![h].fresh = FALSE] BY DEF SaveRecord
<1>7. /\ record' \in [Host -> Record] /\ record'[h] = rec /\ \A g \in Host : g # h => record'[g] = record[g]
      /\ form' \in [Host -> [seen : {"nothing", "absent", "unchanged"}, fresh : BOOLEAN]]
      /\ ~ form'[h].fresh /\ \A g \in Host : g # h => form'[g] = form[g]
  BY <1>6 DEF IInv, Shapes
<1>8. Shapes' BY <1>1, <1>4, <1>7 DEF IInv, Shapes
<1>9. HostGood(h)'
  <2>1. FilesGood(h)' BY <1>1, <1>5, <1>7 DEF HostGood, FilesGood
  <2>2. RecordGood(h)' BY <1>1, <1>5, <1>7 DEF HostGood, RecordGood, Verified, Settled
  <2>3. ClaimGood(h)' BY <1>3, <1>4, <1>7 DEF ClaimGood
  <2>4. FormGood(h)' BY <1>7 DEF FormGood
  <2> QED BY <2>1, <2>2, <2>3, <2>4 DEF HostGood
<1>10. TaskGood(r)'
  <2>1. KeyGood(t)' BY <1>1, <1>7 DEF KeyGood
  <2>2. StatusGood(t)' BY <1>7 DEF StatusGood
  <2>3. StepGood(t)' BY DEF StepGood
  <2>4. ~ Revokes(t) /\ t.step # "locked" /\ t.op # "bootstrap" BY <1>3 DEF Revokes, Closing
  <2>5. CloseGood(r, t)' BY <1>7, <2>1, <2>2, <2>3, <2>4 DEF CloseGood
  <2> QED BY <1>4, <2>4, <2>5 DEF TaskGood
<1>11. ASSUME NEW q \in Request, q # r, Busy(task[q]), task[q].host = h PROVE TaskGood(q)'
  <2>1. ~ Closing(task[q]) BY <1>11 DEF IInv, TaskGood, CloseGood
  <2>2. PICK b : b = task[q] OBVIOUS
  <2>3. b.op = "bootstrap" /\ BootGood(b) BY <1>11, <2>1, <2>2 DEF IInv, TaskGood, Busy
  <2>4. BootGood(b)' BY <1>1, <1>7, <1>11, <2>2, <2>3 DEF BootGood
  <2> QED BY <1>4, <1>11, <2>1, <2>2, <2>3, <2>4 DEF TaskGood, Others
<1>12. ~ InLock(t) /\ ~ Enrols(t) /\ ~ Revokes(t) /\ t.op # "trust" BY <1>3 DEF InLock, Enrols, Revokes, Closing
<1>13. About(task[r], h) /\ About(task'[r], h) BY <1>4, IdleTask DEF About
<1>14. Apart' BY <1>4, <1>12, <1>13, SameApart
<1>15. TrustGood' BY <1>4, <1>12, SameTrust
<1>16. \A g \in Host : g # h => SameHost(g) BY <1>1, <1>7 DEF SameHost
<1> QED BY <1>1, <1>4, <1>8, <1>9, <1>10, <1>11, <1>13, <1>14, <1>15, <1>16, HostStep

LEMMA StartCloseoutStep ==
  ASSUME AccessAssumption, IInv, NEW r \in Request, NEW h \in Host, StartCloseout(r, h) PROVE IInv'
<1>1. PICK rec : rec = [status |-> "in_progress", claim |-> r, fingerprint |-> credential[h].fingerprint] OBVIOUS
<1>2. PICK t : t = [op |-> "closeout", host |-> h, outcome |-> "not_changed", step |-> "claimed"] OBVIOUS
<1>3. /\ task[r] = Idle /\ Verified(h) /\ ~ Unresolved(h)
      /\ SaveRecord(h, rec) /\ task' = [task EXCEPT ![r] = t]
      /\ UNCHANGED <<disk, closeLock, authorized, used, inventory, trust>>
  BY <1>1, <1>2 DEF StartCloseout
<1>4. HostGood(h) BY DEF IInv
<1>5. record[h].status \in Settled /\ record[h].claim \notin Request BY <1>3 DEF Unresolved
<1>6. credential[h].fingerprint \in Key \cup {Nil} BY DEF IInv, Shapes
<1>7. rec \in Record /\ rec.claim = r /\ rec.status = "in_progress" /\ rec.fingerprint = credential[h].fingerprint
  BY <1>1, <1>6 DEF Record, Status
<1>8. t \in CloseTask /\ t.op = "closeout" /\ t.host = h /\ t.step = "claimed"
  BY <1>2 DEF CloseTask, Status, Settled
<1>9. credential[h].verified /\ private[h] # Nil BY <1>3, <1>4 DEF Verified, HostGood, FilesGood
<1>10. rec.fingerprint # Nil /\ rec.fingerprint = private[h] /\ rec.fingerprint \in used \cup {Nil}
  BY <1>4, <1>7, <1>9 DEF HostGood, FilesGood
<1>11. rec.fingerprint \in authorized[h] BY <1>3, <1>4, <1>5, <1>10 DEF HostGood, RecordGood
<1>12. record[h].status # "remote_revoked" BY <1>5 DEF Settled
<1> QED BY <1>3, <1>5, <1>7, <1>8, <1>10, <1>11, <1>12, BeginClosing

(* What the operator saw is still so: since the form was opened no closeout *)
(* had the host, and an enrolment does not bring its key back.              *)
LEMMA RecoverCloseoutStep ==
  ASSUME IInv, NEW r \in Request, NEW h \in Host, RecoverCloseout(r, h) PROVE IInv'
<1>1. HostGood(h) /\ record[h] \in Record BY DEF IInv, Shapes
<1>2. task[r] = Idle /\ MayRecover(h) BY DEF RecoverCloseout
<1>3. record[h].status # "none" BY <1>1, <1>2 DEF MayRecover, HostGood, RecordGood
<1>4. PICK rec : rec = [status |-> record[h].status, claim |-> r, fingerprint |-> record[h].fingerprint] OBVIOUS
<1>5. PICK t : t = [op |-> form[h].seen, host |-> h, outcome |-> "unknown", step |-> "reclaimed"] OBVIOUS
<1>6. /\ SaveRecord(h, rec) /\ task' = [task EXCEPT ![r] = t]
      /\ UNCHANGED <<disk, closeLock, authorized, used, inventory, trust>>
  BY <1>3, <1>4, <1>5 DEF RecoverCloseout, ClosedKey
<1>7. form[h].fresh /\ form[h].seen \in {"absent", "unchanged"}
  BY <1>2 DEF MayRecover, CurrentVersion, IInv, Shapes
<1>8. /\ rec \in Record /\ rec.claim = r /\ rec.status = record[h].status
      /\ rec.fingerprint = record[h].fingerprint /\ rec.fingerprint # Nil /\ record[h].claim \notin Request
  BY <1>1, <1>2, <1>3, <1>4 DEF Record, HostGood, RecordGood, MayRecover
<1>9. t \in CloseTask /\ t.op = form[h].seen /\ t.host = h /\ t.step = "reclaimed"
  BY <1>5, <1>7 DEF CloseTask, Status
<1>10. /\ t.op = "absent" => rec.fingerprint \notin authorized[h]
       /\ t.op # "absent" => rec.fingerprint \in authorized[h]
       /\ t.op = "unchanged" => rec.status \notin {"remote_revoked", "remote_partial", "completed"}
  BY <1>1, <1>2, <1>3, <1>7, <1>8, <1>9 DEF HostGood, FormGood, MayRecover
<1>11. t.op # "closeout" BY <1>7, <1>9
<1> QED BY <1>2, <1>3, <1>6, <1>8, <1>9, <1>10, <1>11, BeginClosing

-----------------------------------------------------------------------------
(* Enrolment                                                                *)

LEMMA OthersKept ==
  ASSUME IInv, NEW r \in Request, NEW h \in Host, Others(r),
         \A q \in Request : q # r /\ task[q].host = h => ~ InLock(task[q]),
         UNCHANGED <<closeLock, record, inventory>>,
         record[h].fingerprint \in authorized'[h] <=> record[h].fingerprint \in authorized[h],
         \/ \A q \in Request : Revokes(task[q]) => task[q].host # h
         \/ /\ private'[h] = private[h] /\ credential'[h] = credential[h] /\ authorized'[h] = authorized[h]
            /\ files'[h] \cap {Metadata, Private} = files[h] \cap {Metadata, Private}
            /\ Directory \in files[h] => Directory \in files'[h]
  PROVE  \A q \in Request : q # r /\ Busy(task[q]) /\ task[q].host = h => TaskGood(q)'
<1>1. TAKE q \in Request
<1>2. HAVE q # r /\ Busy(task[q]) /\ task[q].host = h
<1>3. PICK t : t = task[q] OBVIOUS
<1>4. task'[q] = t /\ ~ InLock(t) /\ TaskGood(q) BY <1>2, <1>3 DEF Others, IInv
<1>5. CASE t.op = "bootstrap"
  <2>1. BootGood(t)' BY <1>4, <1>5 DEF BootGood, InLock, Enrols
  <2> QED BY <1>4, <1>5, <2>1 DEF TaskGood, Closing
<1>6. CASE Closing(t)
  <2>1. CloseGood(q, t) BY <1>3, <1>4, <1>6 DEF TaskGood
  <2>2. KeyGood(t)'
    <3>1. t.step = "deleting" => authorized'[h] = {}
      BY <1>2, <1>3, <1>6, <2>1 DEF CloseGood, KeyGood, Revokes
    <3> QED BY <1>2, <1>3, <2>1, <3>1 DEF CloseGood, KeyGood
  <2>3. StatusGood(t)' BY <1>2, <1>3, <2>1 DEF CloseGood, StatusGood
  <2>4. StepGood(t)'
    <3>1. CASE Revokes(t)
      <4>1. /\ private'[h] = private[h] /\ credential'[h] = credential[h]
            /\ files'[h] \cap {Metadata, Private} = files[h] \cap {Metadata, Private}
            /\ Directory \in files[h] => Directory \in files'[h]
        BY <1>2, <1>3, <3>1
      <4> QED BY <1>2, <1>3, <2>1, <4>1 DEF CloseGood, StepGood, Verified
    <3>2. CASE ~ Revokes(t) BY <1>6, <2>1, <3>2 DEF CloseGood, StepGood, Revokes
    <3> QED BY <3>1, <3>2
  <2>5. CloseGood(q, t)' BY <2>1, <2>2, <2>3, <2>4 DEF CloseGood
  <2> QED BY <1>4, <1>6, <2>5 DEF TaskGood, Closing
<1> QED BY <1>2, <1>3, <1>5, <1>6 DEF Busy

(* A step of an enrolment; the records are none of its business.            *)
LEMMA EnrolStep ==
  ASSUME IInv, Shapes', NEW r \in Request, NEW h \in Host, About(task[r], h), Others(r),
         task[r].op \in {"idle", "bootstrap"},
         task'[r] = Idle \/ (task'[r].op = "bootstrap" /\ task'[r].host = h),
         UNCHANGED <<closeLock, record, form, inventory, trust>>, used \subseteq used',
         \A g \in Host : g # h => /\ files'[g] = files[g] /\ private'[g] = private[g]
                                  /\ credential'[g] = credential[g] /\ authorized'[g] = authorized[g],
         record[h].fingerprint \in authorized'[h] <=> record[h].fingerprint \in authorized[h],
         FilesGood(h)', RecordGood(h)',
         \A q \in Request : q # r /\ Busy(task[q]) /\ task[q].host = h => TaskGood(q)',
         NEW t, t = task'[r], t.op = "bootstrap" => BootGood(t)',
         InLock(t) => InLock(task[r]) \/ BootLock \notin files[h],
         Enrols(t) => Enrols(task[r]) \/ \A q \in Request : Revokes(task[q]) => task[q].host # h
  PROVE  IInv'
<1>1. ~ Closing(task[r]) /\ ~ Closing(t) /\ t.op # "trust" BY IdleTask DEF Closing
<1>2. HostGood(h) BY DEF IInv
<1>3. HostGood(h)'
  <2>1. ClaimGood(h)' BY <1>1, <1>2 DEF HostGood, ClaimGood, Others
  <2>2. FormGood(h)' BY <1>2 DEF HostGood, FormGood
  <2> QED BY <2>1, <2>2 DEF HostGood
<1>4. TaskGood(r)' BY <1>1 DEF TaskGood
<1>5. About(t, h) BY IdleTask DEF About
<1>6. \A g \in Host : g # h => SameHost(g) BY DEF SameHost
<1>7. Apart'
  <2>1. \A q \in Request : InLock(task[q]) /\ task[q].host = h => BootLock \in files[h]
    BY DEF IInv, TaskGood, BootGood, InLock
  <2>2. ~ Revokes(t) BY <1>1 DEF Revokes
  <2>3. (InLock(t) => t.host = h) /\ (InLock(task[r]) => task[r].host = h)
    BY <1>5 DEF About, Busy, InLock
  <2> QED BY <2>1, <2>2, <2>3 DEF IInv, Apart, Others, Enrols, InLock
<1>8. TrustGood' BY <1>1, SameTrust
<1> QED BY <1>3, <1>4, <1>5, <1>6, <1>7, <1>8, HostStep

LEMMA Boots ==
  ASSUME IInv, NEW r \in Request, task[r].op = "bootstrap"
  PROVE  task[r].host \in Host /\ HostGood(task[r].host) /\ task[r] \in BootTask /\ BootGood(task[r])
         /\ About(task[r], task[r].host)
<1>1. task[r] \in Task BY DEF IInv, Shapes
<1>2. task[r] \in BootTask /\ task[r].host \in Host BY <1>1, TaskKinds DEF BootTask
<1> QED BY <1>2 DEF IInv, TaskGood, About

(* Who holds the enrolment lock of a host holds it alone.                   *)
LEMMA AloneInLock ==
  ASSUME IInv, NEW r \in Request, InLock(task[r])
  PROVE  \A q \in Request : q # r /\ task[q].host = task[r].host => ~ InLock(task[q])
BY DEF IInv, Apart

LEMMA NobodyInLock ==
  ASSUME IInv, NEW h \in Host, BootLock \notin files[h]
  PROVE  \A q \in Request : task[q].host = h => ~ InLock(task[q])
BY DEF IInv, TaskGood, BootGood, InLock

LEMMA BeginBootstrapStep ==
  ASSUME IInv, NEW r \in Request, NEW h \in Host, BeginBootstrap(r, h) PROVE IInv'
<1>1. PICK t : t = [op |-> "bootstrap", host |-> h, step |-> "checked"] OBVIOUS
<1>2. t \in Task /\ t.op = "bootstrap" /\ t.host = h /\ t.step = "checked" BY <1>1 DEF Task, BootTask
<1>3. task[r] = Idle /\ task' = [task EXCEPT ![r] = t] BY <1>1 DEF BeginBootstrap
<1>4. task' \in [Request -> Task] /\ Others(r) /\ task'[r] = t BY <1>2, <1>3 DEF IInv, Shapes, Others
<1>5. /\ UNCHANGED <<closeLock, record, form, inventory, trust>>
      /\ UNCHANGED <<files, private, credential, authorized, used, known, trustLock>>
  BY DEF BeginBootstrap, disk, closeout, trust
<1>6. Shapes' BY <1>4, <1>5 DEF IInv, Shapes
<1>7. HostGood(h) BY DEF IInv
<1>8. FilesGood(h)' /\ RecordGood(h)' BY <1>5, <1>7 DEF HostGood, FilesGood, RecordGood, Verified
<1>9. \A g \in Host : SameHost(g) BY <1>5 DEF SameHost
<1>10. ASSUME NEW q \in Request, q # r, Busy(task[q]), task[q].host = h PROVE TaskGood(q)'
  BY <1>4, <1>9, <1>10, SameTask DEF Others, IInv
<1>11. BootGood(t)' BY <1>2 DEF BootGood, InLock, Enrols
<1>12. ~ InLock(t) /\ ~ Enrols(t) BY <1>2 DEF InLock, Enrols
<1>13. About(task[r], h) /\ task[r].op = "idle" BY <1>3, IdleTask DEF About, Idle
<1> QED BY <1>2, <1>4, <1>5, <1>6, <1>8, <1>10, <1>11, <1>12, <1>13, EnrolStep

(* The lock is given back and nothing else is changed.                      *)
LEMMA ReleaseStep ==
  ASSUME IInv, NEW r \in Request, InLock(task[r]), Release(r),
         UNCHANGED <<private, credential, closeout, authorized, used, inventory, trust>>
  PROVE  IInv'
<1>1. PICK h : h = task[r].host OBVIOUS
<1>2. task[r].op = "bootstrap" BY DEF InLock
<1>3. h \in Host /\ HostGood(h) /\ About(task[r], h) BY <1>1, <1>2, Boots
<1>4. task' \in [Request -> Task] /\ Others(r) /\ task'[r] = Idle BY FinishTask DEF Release, IInv
<1>5. files' = [files EXCEPT ![h] = @ \ {BootLock}] BY <1>1 DEF Release
<1>6. /\ files' \in [Host -> SUBSET File] /\ files'[h] = files[h] \ {BootLock}
      /\ \A g \in Host : g # h => files'[g] = files[g]
  BY <1>3, <1>5 DEF IInv, Shapes
<1>7. /\ UNCHANGED <<closeLock, record, form, inventory, trust>>
      /\ UNCHANGED <<private, credential, authorized, used, known, trustLock>>
  BY DEF closeout, trust
<1>8. Shapes' BY <1>4, <1>6, <1>7 DEF IInv, Shapes
<1>9. /\ files'[h] \cap {Metadata, Private, Public, Directory} = files[h] \cap {Metadata, Private, Public, Directory}
      /\ files'[h] # {} => files[h] # {}
  BY <1>6 DEF BootLock, Metadata, Private, Public, Directory
<1>10. FilesGood(h)' BY <1>3, <1>7, <1>9 DEF HostGood, FilesGood
<1>11. RecordGood(h)' BY <1>3, <1>7, <1>9 DEF HostGood, RecordGood, Verified
<1>12. \A q \in Request : q # r /\ task[q].host = h => ~ InLock(task[q]) BY <1>1, AloneInLock
<1>13. /\ private'[h] = private[h] /\ credential'[h] = credential[h] /\ authorized'[h] = authorized[h]
       /\ files'[h] \cap {Metadata, Private} = files[h] \cap {Metadata, Private}
       /\ Directory \in files[h] => Directory \in files'[h]
  BY <1>7, <1>9
<1>14. \A q \in Request : q # r /\ Busy(task[q]) /\ task[q].host = h => TaskGood(q)'
  BY <1>3, <1>4, <1>7, <1>12, <1>13, OthersKept
<1>15. Idle.op = "idle" /\ ~ InLock(Idle) /\ ~ Enrols(Idle) BY DEF Idle, InLock, Enrols
<1> QED BY <1>2, <1>3, <1>4, <1>6, <1>7, <1>8, <1>10, <1>11, <1>14, <1>15, EnrolStep

LEMMA TakeBootLockStep == ASSUME IInv, NEW r \in Request, TakeBootLock(r) PROVE IInv'
<1>1. PICK h : h = task[r].host OBVIOUS
<1>2. task[r].op = "bootstrap" /\ task[r].step = "checked" BY DEF TakeBootLock, On, AtStep
<1>3. h \in Host /\ HostGood(h) /\ About(task[r], h) BY <1>1, <1>2, Boots
<1>4. PICK t : t = task'[r] OBVIOUS
<1>5. /\ UNCHANGED <<closeLock, record, form, inventory, trust>>
      /\ UNCHANGED <<private, credential, authorized, used, known, trustLock>>
  BY DEF TakeBootLock, closeout, trust
<1>6. \/ Finish(r) /\ UNCHANGED files
      \/ /\ Move(r, "locked") /\ files' = [files EXCEPT ![h] = @ \cup {Directory, BootLock}]
         /\ BootLock \notin files[h]
  BY <1>1 DEF TakeBootLock
<1>7. /\ task' \in [Request -> Task] /\ Others(r)
      /\ t = Idle \/ (t.op = "bootstrap" /\ t.host = h /\ t.step = "locked" /\ BootLock \notin files[h])
  <2>1. CASE Finish(r) BY <1>4, <2>1, FinishTask DEF IInv
  <2>2. CASE Move(r, "locked") /\ BootLock \notin files[h]
    BY <1>1, <1>2, <1>4, <2>2, MoveBootTask DEF BootStep, IInv
  <2> QED BY <1>6, <2>1, <2>2
<1>8. /\ files' \in [Host -> SUBSET File] /\ \A g \in Host : g # h => files'[g] = files[g]
      /\ files'[h] = files[h] \/ (files'[h] = files[h] \cup {Directory, BootLock} /\ BootLock \notin files[h])
  BY <1>3, <1>6 DEF IInv, Shapes, File
<1>9. t # Idle => BootLock \in files'[h]
  <2>1. CASE Finish(r) BY <1>4, <2>1, FinishTask DEF IInv
  <2>2. CASE files' = [files EXCEPT ![h] = @ \cup {Directory, BootLock}] BY <1>3, <2>2 DEF IInv, Shapes
  <2> QED BY <1>6, <2>1, <2>2
<1>10. Shapes' BY <1>5, <1>7, <1>8 DEF IInv, Shapes
<1>11. /\ files'[h] \cap {Metadata, Private, Public} = files[h] \cap {Metadata, Private, Public}
       /\ files'[h] = files[h] \/ Directory \in files'[h]
       /\ Directory \in files[h] => Directory \in files'[h]
  BY <1>8 DEF BootLock, Metadata, Private, Public, Directory
<1>12. FilesGood(h)' BY <1>3, <1>5, <1>11 DEF HostGood, FilesGood
<1>13. RecordGood(h)' BY <1>3, <1>5, <1>11 DEF HostGood, RecordGood, Verified
<1>14. ASSUME NEW q \in Request, q # r, Busy(task[q]), task[q].host = h PROVE TaskGood(q)'
  <2>1. CASE t = Idle
    <3>1. Finish(r) /\ UNCHANGED files BY <1>6, <1>7, <2>1, <1>2, <1>4, MoveBootTask DEF IInv, BootStep, Idle
    <3>2. \A g \in Host : SameHost(g) BY <1>5, <3>1 DEF SameHost
    <3> QED BY <1>3, <1>7, <1>14, <3>2, SameTask DEF Others, IInv
  <2>2. CASE t # Idle
    <3>1. \A p \in Request : p # r /\ task[p].host = h => ~ InLock(task[p]) BY <1>3, <1>7, <2>2, NobodyInLock
    <3>2. /\ private'[h] = private[h] /\ credential'[h] = credential[h] /\ authorized'[h] = authorized[h]
          /\ files'[h] \cap {Metadata, Private} = files[h] \cap {Metadata, Private}
          /\ Directory \in files[h] => Directory \in files'[h]
      BY <1>5, <1>11
    <3> QED BY <1>3, <1>5, <1>7, <1>14, <3>1, <3>2, OthersKept
  <2> QED BY <2>1, <2>2
<1>15. t.op = "bootstrap" => BootGood(t)'
  <2>1. ASSUME t.op = "bootstrap" PROVE BootGood(t)'
    <3>1. t.host = h /\ t.step = "locked" /\ BootLock \in files'[h] BY <1>7, <1>9, <2>1 DEF Idle
    <3> QED BY <2>1, <3>1 DEF BootGood, InLock, Enrols
  <2> QED BY <2>1
<1>16. (InLock(t) => BootLock \notin files[h]) /\ ~ Enrols(t) BY <1>7 DEF InLock, Enrols, Idle
<1> QED BY <1>2, <1>3, <1>4, <1>5, <1>7, <1>8, <1>10, <1>12, <1>13, <1>14, <1>15, <1>16, EnrolStep

(* Under its lock an enrolment looks for a closeout, which either has not   *)
(* taken its own lock or will find this one.                                *)
LEMMA PrepareCredentialStep ==
  ASSUME AccessAssumption, IInv, NEW r \in Request, NEW existing \in BOOLEAN, PrepareCredential(r, existing)
  PROVE  IInv'
<1>1. PICK h : h = task[r].host OBVIOUS
<1>2. task[r].op = "bootstrap" /\ task[r].step = "locked" BY DEF PrepareCredential, On, AtStep
<1>3. h \in Host /\ HostGood(h) /\ BootGood(task[r]) /\ About(task[r], h) BY <1>1, <1>2, Boots
<1>4. InLock(task[r]) BY <1>2 DEF InLock
<1>5. CASE ~ MayPrepare(h, existing)
  <2>1. Release(r) /\ UNCHANGED <<private, credential, closeout, authorized, used, inventory, trust>>
    BY <1>1, <1>5 DEF PrepareCredential
  <2> QED BY <1>4, <2>1, ReleaseStep
<1>6. CASE MayPrepare(h, existing)
  <2>1. PICK t : t = task'[r] OBVIOUS
  <2>2. /\ Move(r, "connecting") /\ files' = [files EXCEPT ![h] = @ \cup {Metadata}]
        /\ credential' = IF Metadata \in files[h] THEN credential ELSE [credential EXCEPT ![h] = Blank]
    BY <1>1, <1>6 DEF PrepareCredential
  <2>3. /\ task' \in [Request -> Task] /\ Others(r) /\ t.op = "bootstrap" /\ t.host = h /\ t.step = "connecting"
    BY <1>1, <1>2, <2>1, <2>2, MoveBootTask DEF BootStep, IInv
  <2>4. /\ files' \in [Host -> SUBSET File] /\ files'[h] = files[h] \cup {Metadata}
        /\ \A g \in Host : g # h => files'[g] = files[g]
    BY <1>3, <2>2 DEF IInv, Shapes, File
  <2>5. credential[h] = Blank \/ Metadata \in files[h] BY <1>3 DEF HostGood, FilesGood
  <2>6. credential' = credential BY <1>3, <2>2, <2>5 DEF IInv, Shapes
  <2>7. /\ UNCHANGED <<closeLock, record, form, inventory, trust>>
        /\ UNCHANGED <<private, authorized, used, known, trustLock>>
    BY DEF PrepareCredential, closeout, trust
  <2>8. Shapes' BY <2>3, <2>4, <2>6, <2>7 DEF IInv, Shapes
  <2>9. closeLock[h] = Nil /\ record[h].status \in Settled BY <1>6 DEF MayPrepare, ClearForEnrolment, Unresolved
  <2>10. Nil \notin Request BY DEF AccessAssumption
  <2>11. \A q \in Request : Revokes(task[q]) => task[q].host # h
    BY <2>9, <2>10 DEF IInv, TaskGood, CloseGood, Revokes
  <2>12. Private \in files'[h] <=> Private \in files[h] BY <2>4 DEF Private, Metadata
  <2>13. Directory \in files[h]
    BY <1>1, <1>3, <1>4 DEF HostGood, FilesGood, BootGood
  <2>14. FilesGood(h)' BY <1>3, <2>4, <2>6, <2>7, <2>12, <2>13 DEF HostGood, FilesGood
  <2>15. Verified(h)' <=> Verified(h)
    <3>1. credential[h].verified => Metadata \in files[h] BY <2>5 DEF Blank
    <3> QED BY <2>4, <2>6, <2>12, <3>1 DEF Verified
  <2>16. RecordGood(h)' BY <1>3, <2>7, <2>15 DEF HostGood, RecordGood
  <2>17. \A q \in Request : q # r /\ task[q].host = h => ~ InLock(task[q]) BY <1>1, <1>4, AloneInLock
  <2>18. \A q \in Request : q # r /\ Busy(task[q]) /\ task[q].host = h => TaskGood(q)'
    BY <1>3, <2>3, <2>7, <2>11, <2>17, OthersKept
  <2>19. credential[h].verified => Private \in files[h] BY <1>6, <2>5 DEF MayPrepare, Blank
  <2>20. record[h].status # "none" /\ private[h] = record[h].fingerprint => record[h].fingerprint \in authorized[h]
    BY <1>3, <2>9 DEF HostGood, RecordGood, Settled
  <2>21. BootLock \in files[h] BY <1>1, <1>3, <1>4 DEF BootGood
  <2>22. BootGood(t)' BY <2>3, <2>4, <2>6, <2>7, <2>19, <2>20, <2>21 DEF BootGood
  <2> QED BY <1>2, <1>3, <1>4, <2>1, <2>3, <2>4, <2>6, <2>7, <2>8, <2>11, <2>14, <2>16, <2>18, <2>22, EnrolStep
<1> QED BY <1>5, <1>6

(* A helper that is connected meets no closeout past its lock.              *)
LEMMA NoRevoker ==
  ASSUME IInv, NEW r \in Request, Enrols(task[r])
  PROVE  \A q \in Request : Revokes(task[q]) => task[q].host # task[r].host
BY DEF IInv, Apart

LEMMA EnsureKeyStep == ASSUME AccessAssumption, IInv, NEW r \in Request, EnsureKey(r) PROVE IInv'
<1>1. PICK h : h = task[r].host OBVIOUS
<1>2. task[r].op = "bootstrap" /\ task[r].step = "connecting" BY DEF EnsureKey, On, AtStep
<1>3. h \in Host /\ HostGood(h) /\ BootGood(task[r]) /\ About(task[r], h) BY <1>1, <1>2, Boots
<1>4. InLock(task[r]) /\ Enrols(task[r]) BY <1>2 DEF InLock, Enrols
<1>5. PICK t : t = task'[r] OBVIOUS
<1>6. PICK step \in {"generated", "installed"} :
        /\ Move(r, step)
        /\ step = "installed" => (private[h] \in authorized[h] /\ Private \in files[h])
        /\ \/ /\ Private \in files[h] /\ UNCHANGED <<private, used>>
              /\ files' = [files EXCEPT ![h] = @ \cup {Public}]
           \/ /\ Private \notin files[h]
              /\ \E k \in Key \ used : /\ private' = [private EXCEPT ![h] = k] /\ used' = used \cup {k}
                                       /\ files' = [files EXCEPT ![h] = @ \cup {Private, Public}]
  BY <1>1 DEF EnsureKey
<1>7. task' \in [Request -> Task] /\ Others(r) /\ t.op = "bootstrap" /\ t.host = h /\ t.step = step
  BY <1>1, <1>2, <1>5, <1>6, MoveBootTask DEF BootStep, IInv
<1>8. /\ UNCHANGED <<closeLock, record, form, inventory, trust>>
      /\ UNCHANGED <<credential, authorized, known, trustLock>>
  BY DEF EnsureKey, closeout, trust
<1>9. /\ files' \in [Host -> SUBSET File] /\ files'[h] = files[h] \cup {Private, Public}
      /\ \A g \in Host : g # h => files'[g] = files[g]
  <2>1. CASE files' = [files EXCEPT ![h] = @ \cup {Public}] /\ Private \in files[h]
    BY <1>3, <2>1 DEF IInv, Shapes, File
  <2>2. CASE files' = [files EXCEPT ![h] = @ \cup {Private, Public}] BY <1>3, <2>2 DEF IInv, Shapes, File
  <2> QED BY <1>6, <2>1, <2>2
<1>10. Nil \notin Key BY DEF AccessAssumption
<1>11. /\ private' \in [Host -> Key \cup {Nil}] /\ used \subseteq used' /\ used' \subseteq Key
       /\ \A g \in Host : g # h => private'[g] = private[g]
       /\ \/ Private \in files[h] /\ private'[h] = private[h] /\ private[h] # Nil
          \/ Private \notin files[h] /\ private'[h] \in used' \ used /\ private'[h] # Nil
  BY <1>3, <1>6, <1>10 DEF IInv, Shapes, HostGood, FilesGood
<1>12. Shapes' BY <1>7, <1>8, <1>9, <1>11 DEF IInv, Shapes
<1>13. Metadata \in files[h] /\ (credential[h].verified => Private \in files[h]) /\ BootLock \in files[h]
  BY <1>1, <1>3, <1>4 DEF BootGood
<1>14. /\ Metadata \in files'[h] /\ Directory \in files'[h] /\ BootLock \in files'[h] /\ Private \in files'[h]
  BY <1>3, <1>9, <1>13 DEF HostGood, FilesGood
<1>15. Private \notin files[h] => /\ private[h] = Nil /\ authorized[h] = {}
                                  /\ credential[h].fingerprint = Nil
  <2>1. Private \notin files[h] => private[h] = Nil /\ credential[h].fingerprint = Nil
    BY <1>3, <1>13 DEF HostGood, FilesGood
  <2>2. authorized[h] \subseteq Key /\ authorized[h] \subseteq {private[h]}
    BY <1>3 DEF IInv, Shapes, HostGood, FilesGood
  <2> QED BY <1>10, <2>1, <2>2
<1>16. FilesGood(h)' BY <1>3, <1>8, <1>11, <1>14, <1>15 DEF HostGood, FilesGood
<1>17. RecordGood(h)'
  <2>1. private'[h] # record[h].fingerprint \/ private'[h] = private[h]
    BY <1>3, <1>11 DEF HostGood, FilesGood
  <2>2. Verified(h)' <=> Verified(h) BY <1>8, <1>13, <1>14 DEF Verified
  <2>3. Verified(h) => private'[h] = private[h] BY <1>11 DEF Verified
  <2> QED BY <1>3, <1>8, <2>1, <2>2, <2>3 DEF HostGood, RecordGood
<1>18. \A q \in Request : q # r /\ Busy(task[q]) /\ task[q].host = h => TaskGood(q)'
  <2>1. \A q \in Request : q # r /\ task[q].host = h => ~ InLock(task[q]) BY <1>1, <1>4, AloneInLock
  <2>2. \A q \in Request : Revokes(task[q]) => task[q].host # h BY <1>1, <1>4, NoRevoker
  <2> QED BY <1>3, <1>7, <1>8, <2>1, <2>2, OthersKept
<1>19. BootGood(t)'
  <2>1. record[h].status # "none" /\ private'[h] = record[h].fingerprint => record[h].fingerprint \in authorized[h]
    BY <1>1, <1>3, <1>4, <1>11 DEF BootGood, HostGood, FilesGood
  <2>2. step = "installed" => private'[h] \in authorized[h] BY <1>6, <1>11
  <2> QED BY <1>7, <1>8, <1>14, <2>1, <2>2 DEF BootGood
<1> QED BY <1>2, <1>3, <1>4, <1>5, <1>7, <1>8, <1>9, <1>11, <1>12, <1>16, <1>17, <1>18, <1>19, EnrolStep

LEMMA BootstrapFailsStep == ASSUME IInv, NEW r \in Request, BootstrapFails(r) PROVE IInv'
<1>1. InLock(task[r]) BY DEF BootstrapFails, On, InLock
<1>2. Release(r) /\ UNCHANGED <<private, credential, closeout, authorized, used, inventory, trust>>
  BY DEF BootstrapFails
<1> QED BY <1>1, <1>2, ReleaseStep

LEMMA MarkVerifiedStep == ASSUME IInv, NEW r \in Request, MarkVerified(r) PROVE IInv'
<1>1. PICK h : h = task[r].host OBVIOUS
<1>2. task[r].op = "bootstrap" /\ task[r].step = "installed" BY DEF MarkVerified, On, AtStep
<1>3. h \in Host /\ HostGood(h) /\ BootGood(task[r]) /\ About(task[r], h) BY <1>1, <1>2, Boots
<1>4. InLock(task[r]) /\ Enrols(task[r]) BY <1>2 DEF InLock, Enrols
<1>5. task' \in [Request -> Task] /\ Others(r) /\ task'[r] = Idle BY FinishTask DEF MarkVerified, Release, IInv
<1>6. /\ files' = [files EXCEPT ![h] = @ \ {BootLock}]
      /\ credential' = [credential EXCEPT ![h] = [verified |-> TRUE, fingerprint |-> private[h]]]
  BY <1>1 DEF MarkVerified, Release
<1>7. /\ files' \in [Host -> SUBSET File] /\ files'[h] = files[h] \ {BootLock}
      /\ \A g \in Host : g # h => files'[g] = files[g]
  BY <1>3, <1>6 DEF IInv, Shapes
<1>8. private[h] \in Key \cup {Nil} BY <1>3 DEF IInv, Shapes
<1>9. /\ credential' \in [Host -> [verified : BOOLEAN, fingerprint : Key \cup {Nil}]]
      /\ credential'[h].verified = TRUE /\ credential'[h].fingerprint = private[h]
      /\ \A g \in Host : g # h => credential'[g] = credential[g]
  BY <1>3, <1>6, <1>8 DEF IInv, Shapes
<1>10. /\ UNCHANGED <<closeLock, record, form, inventory, trust>>
       /\ UNCHANGED <<private, authorized, used, known, trustLock>>
  BY DEF MarkVerified, closeout, trust
<1>11. Shapes' BY <1>5, <1>7, <1>9, <1>10 DEF IInv, Shapes
<1>12. Metadata \in files[h] /\ Private \in files[h] /\ private[h] \in authorized[h] /\ private[h] # Nil
  BY <1>1, <1>2, <1>3, <1>4 DEF BootGood, HostGood, FilesGood
<1>13. files'[h] \cap {Metadata, Private, Public, Directory} = files[h] \cap {Metadata, Private, Public, Directory}
  BY <1>7 DEF BootLock, Metadata, Private, Public, Directory
<1>14. FilesGood(h)' BY <1>3, <1>9, <1>10, <1>12, <1>13 DEF HostGood, FilesGood
<1>15. RecordGood(h)' BY <1>3, <1>9, <1>10, <1>12, <1>13 DEF HostGood, RecordGood, Verified
<1>16. \A q \in Request : q # r /\ Busy(task[q]) /\ task[q].host = h => TaskGood(q)'
  <2>1. \A q \in Request : q # r /\ task[q].host = h => ~ InLock(task[q]) BY <1>1, <1>4, AloneInLock
  <2>2. \A q \in Request : Revokes(task[q]) => task[q].host # h BY <1>1, <1>4, NoRevoker
  <2> QED BY <1>3, <1>5, <1>10, <2>1, <2>2, OthersKept
<1>17. Idle.op = "idle" /\ ~ InLock(Idle) /\ ~ Enrols(Idle) BY DEF Idle, InLock, Enrols
<1> QED BY <1>2, <1>3, <1>5, <1>7, <1>9, <1>10, <1>11, <1>14, <1>15, <1>16, <1>17, EnrolStep

LEMMA InstallKeyStep == ASSUME AccessAssumption, IInv, NEW r \in Request, InstallKey(r) PROVE IInv'
<1>1. PICK h : h = task[r].host OBVIOUS
<1>2. task[r].op = "bootstrap" /\ task[r].step = "generated" BY DEF InstallKey, On, AtStep
<1>3. h \in Host /\ HostGood(h) /\ BootGood(task[r]) /\ About(task[r], h) BY <1>1, <1>2, Boots
<1>4. InLock(task[r]) /\ Enrols(task[r]) BY <1>2 DEF InLock, Enrols
<1>5. PICK t : t = task'[r] OBVIOUS
<1>6. Move(r, "installed") /\ authorized' = [authorized EXCEPT ![h] = @ \cup {private[h]}] BY <1>1 DEF InstallKey
<1>7. task' \in [Request -> Task] /\ Others(r) /\ t.op = "bootstrap" /\ t.host = h /\ t.step = "installed"
  BY <1>1, <1>2, <1>5, <1>6, MoveBootTask DEF BootStep, IInv
<1>8. /\ UNCHANGED <<closeLock, record, form, inventory, trust>>
      /\ UNCHANGED <<files, private, credential, used, known, trustLock>>
  BY DEF InstallKey, disk, closeout, trust
<1>9. /\ Metadata \in files[h] /\ Private \in files[h] /\ BootLock \in files[h]
      /\ credential[h].verified => Private \in files[h]
      /\ record[h].status # "none" /\ private[h] = record[h].fingerprint => record[h].fingerprint \in authorized[h]
  BY <1>1, <1>2, <1>3, <1>4 DEF BootGood
<1>10. private[h] # Nil /\ private[h] \in Key BY <1>3, <1>9 DEF HostGood, FilesGood, IInv, Shapes
<1>11. /\ authorized' \in [Host -> SUBSET Key] /\ authorized'[h] = authorized[h] \cup {private[h]}
       /\ \A g \in Host : g # h => authorized'[g] = authorized[g]
  BY <1>3, <1>6, <1>10 DEF IInv, Shapes
<1>12. Shapes' BY <1>7, <1>8, <1>11 DEF IInv, Shapes
<1>13. record[h].fingerprint \in authorized'[h] <=> record[h].fingerprint \in authorized[h]
  BY <1>3, <1>9, <1>10, <1>11 DEF HostGood, RecordGood
<1>14. FilesGood(h)' BY <1>3, <1>8, <1>11 DEF HostGood, FilesGood
<1>15. RecordGood(h)' BY <1>3, <1>8, <1>11, <1>13 DEF HostGood, RecordGood, Verified
<1>16. \A q \in Request : q # r /\ Busy(task[q]) /\ task[q].host = h => TaskGood(q)'
  <2>1. \A q \in Request : q # r /\ task[q].host = h => ~ InLock(task[q]) BY <1>1, <1>4, AloneInLock
  <2>2. \A q \in Request : Revokes(task[q]) => task[q].host # h BY <1>1, <1>4, NoRevoker
  <2> QED BY <1>3, <1>7, <1>8, <1>13, <2>1, <2>2, OthersKept
<1>17. BootGood(t)' BY <1>7, <1>8, <1>9, <1>11, <1>13 DEF BootGood
<1>18. \A g \in Host : g # h => /\ files'[g] = files[g] /\ private'[g] = private[g]
                                /\ credential'[g] = credential[g] /\ authorized'[g] = authorized[g]
  BY <1>8, <1>11
<1> QED BY <1>2, <1>3, <1>4, <1>5, <1>7, <1>8, <1>12, <1>13, <1>14, <1>15, <1>16, <1>17, <1>18, EnrolStep

-----------------------------------------------------------------------------
(* The inventory, the forms and the trusted keys                            *)

(* A step that no request takes.                                            *)
LEMMA NoRequest ==
  ASSUME IInv, Shapes', NEW h \in Host,
         UNCHANGED <<files, private, credential, closeLock, authorized, used, record, known, trustLock, task>>,
         \A g \in Host : g # h => form'[g] = form[g] /\ (g \in inventory' <=> g \in inventory),
         h \in inventory' => h \in inventory \/ Verified(h),
         FormGood(h)'
  PROVE  IInv'
<1>1. ASSUME NEW r \in Request PROVE TaskGood(r)'
  <2>1. TaskGood(r) BY DEF IInv
  <2>2. PICK t : t = task[r] OBVIOUS
  <2>3. t.op = "bootstrap" => BootGood(t)' BY <2>1, <2>2 DEF TaskGood, BootGood
  <2>4. Closing(t) => CloseGood(r, t)'
    <3>1. SUFFICES ASSUME Closing(t) PROVE CloseGood(r, t)' OBVIOUS
    <3>2. CloseGood(r, t) /\ t.host \in Host BY <2>1, <2>2, <3>1, Closes DEF TaskGood
    <3>3. KeyGood(t)' /\ StatusGood(t)' BY <3>2 DEF CloseGood, KeyGood, StatusGood
    <3>4. t.step = "done" => t.host \notin inventory'
      BY <3>2 DEF CloseGood, StepGood, Verified
    <3>5. StepGood(t)' BY <3>2, <3>4 DEF CloseGood, StepGood, Verified
    <3> QED BY <3>2, <3>3, <3>5 DEF CloseGood
  <2> QED BY <2>2, <2>3, <2>4 DEF TaskGood
<1>2. ASSUME NEW g \in Host PROVE HostGood(g)'
  <2>1. HostGood(g) BY DEF IInv
  <2>2. FilesGood(g)' /\ ClaimGood(g)' BY <2>1 DEF HostGood, FilesGood, ClaimGood
  <2>3. RecordGood(g)' BY <2>1 DEF HostGood, RecordGood, Verified
  <2>4. FormGood(g)'
    <3>1. CASE g = h BY <3>1
    <3>2. CASE g # h BY <2>1, <3>2 DEF HostGood, FormGood
    <3> QED BY <3>1, <3>2
  <2> QED BY <2>2, <2>3, <2>4 DEF HostGood
<1>3. Apart' BY DEF IInv, Apart
<1>4. TrustGood' BY DEF IInv, TrustGood
<1> QED BY <1>1, <1>2, <1>3, <1>4 DEF IInv

LEMMA SaveHostStep == ASSUME IInv, NEW h \in Host, SaveHost(h) \/ DeleteHost(h) PROVE IInv'
<1>1. UNCHANGED <<files, private, credential, closeLock, authorized, used, record, form, known, trustLock, task>>
  BY DEF SaveHost, DeleteHost, disk, closeout, trust
<1>2. /\ inventory' \subseteq Host
      /\ h \in inventory' => h \in inventory \/ Verified(h)
      /\ \A g \in Host : g # h => (g \in inventory' <=> g \in inventory)
  BY DEF SaveHost, DeleteHost, IInv, Shapes
<1>3. Shapes' BY <1>1, <1>2 DEF IInv, Shapes
<1>4. FormGood(h)' BY <1>1 DEF IInv, HostGood, FormGood
<1>5. \A g \in Host : g # h => form'[g] = form[g] BY <1>1
<1> QED BY <1>1, <1>2, <1>3, <1>4, <1>5, NoRequest

LEMMA InspectStep == ASSUME IInv, NEW h \in Host, Inspect(h) PROVE IInv'
<1>1. UNCHANGED <<files, private, credential, closeLock, authorized, used, inventory, record, known, trustLock, task>>
  BY DEF Inspect, disk, trust
<1>2. PICK f : f = [seen |-> IF ClosedKey(h) \in authorized[h] THEN "unchanged" ELSE "absent", fresh |-> TRUE]
  OBVIOUS
<1>3. form' = [form EXCEPT ![h] = f] BY <1>2 DEF Inspect
<1>4. f \in [seen : {"nothing", "absent", "unchanged"}, fresh : BOOLEAN] BY <1>2
<1>5. /\ form' \in [Host -> [seen : {"nothing", "absent", "unchanged"}, fresh : BOOLEAN]]
      /\ form'[h] = f /\ \A g \in Host : g # h => form'[g] = form[g]
  BY <1>3, <1>4 DEF IInv, Shapes
<1>6. Shapes' BY <1>1, <1>5 DEF IInv, Shapes
<1>7. record[h].claim \notin Request
  <2>1. HostGood(h) BY DEF IInv
  <2>2. \A r \in Request : ~ (Closing(task[r]) /\ task[r].host = h) BY DEF Inspect, Quiet, Closing
  <2> QED BY <2>1, <2>2 DEF HostGood, ClaimGood
<1>8. FormGood(h)' BY <1>1, <1>2, <1>5, <1>7 DEF FormGood, ClosedKey
<1>9. \A g \in Host : g # h => form'[g] = form[g] /\ (g \in inventory' <=> g \in inventory) BY <1>1, <1>5
<1> QED BY <1>1, <1>6, <1>8, <1>9, NoRequest

(* A step about trust touches no host and no other request.                 *)
LEMMA TrustStep ==
  ASSUME IInv, NEW r \in Request, Others(r), ~ Busy(task[r]), ~ Busy(task'[r]),
         task' \in [Request -> Task], known' \in [Server -> SUBSET ServerKey], trustLock' \in BOOLEAN,
         UNCHANGED <<disk, closeout, authorized, used, inventory>>, TrustGood'
  PROVE  IInv'
<1>1. UNCHANGED <<files, private, credential, closeLock, authorized, used, inventory, record, form>>
  BY DEF disk, closeout
<1>2. Shapes' BY <1>1 DEF IInv, Shapes
<1>3. \A h \in Host : SameHost(h) BY <1>1 DEF SameHost
<1>4. ASSUME NEW q \in Request PROVE TaskGood(q)'
  <2>1. CASE q = r BY <2>1 DEF TaskGood, Busy
  <2>2. CASE q # r
    <3>1. task'[q] = task[q] /\ TaskGood(q) BY <2>2 DEF Others, IInv
    <3>2. CASE Busy(task[q])
      <4>1. task[q].host \in Host BY <3>2, BusyHost DEF IInv, Shapes
      <4> QED BY <1>3, <3>1, <4>1, SameTask
    <3>3. CASE ~ Busy(task[q]) BY <3>1, <3>3 DEF TaskGood, Busy
    <3> QED BY <3>2, <3>3
  <2> QED BY <2>1, <2>2
<1>5. ASSUME NEW h \in Host PROVE HostGood(h)'
  <2>1. HostGood(h) BY DEF IInv
  <2>2. record[h].claim \in Request => task'[record[h].claim] = task[record[h].claim]
    BY <2>1 DEF HostGood, ClaimGood, Busy, Others
  <2> QED BY <1>1, <1>3, <2>1, <2>2, SameHostGood
<1>6. ~ InLock(task'[r]) /\ ~ Enrols(task'[r]) /\ ~ Revokes(task'[r])
  BY DEF Busy, InLock, Enrols, Revokes
<1>7. Apart' BY <1>6 DEF IInv, Apart, Others
<1> QED BY <1>2, <1>4, <1>5, <1>7 DEF IInv

LEMMA TrustIsNotBusy == ASSUME NEW t, t.op \in {"idle", "trust"} PROVE ~ Busy(t)
BY DEF Busy, Closing

LEMMA TakeTrustLockStep ==
  ASSUME IInv, NEW r \in Request, NEW s \in Server, NEW k \in ServerKey, TakeTrustLock(r, s, k)
  PROVE  IInv'
<1>1. PICK t : t = [op |-> "trust", server |-> s, key |-> k, read |-> FALSE, seen |-> {}] OBVIOUS
<1>2. t \in Task /\ t.op = "trust" /\ t.read = FALSE BY <1>1 DEF Task, TrustTask
<1>3. task' = [task EXCEPT ![r] = t] /\ task[r] = Idle /\ ~ trustLock BY <1>1 DEF TakeTrustLock
<1>4. task' \in [Request -> Task] /\ Others(r) /\ task'[r] = t BY <1>2, <1>3 DEF IInv, Shapes, Others
<1>5. UNCHANGED <<disk, closeout, authorized, used, inventory>> /\ known' = known /\ trustLock' = TRUE
  BY DEF TakeTrustLock
<1>6. known' \in [Server -> SUBSET ServerKey] /\ trustLock' \in BOOLEAN BY <1>5 DEF IInv, Shapes
<1>7. \A q \in Request : task[q].op # "trust" BY <1>3 DEF IInv, TrustGood
<1>8. \A q \in Request : task'[q].op = "trust" => q = r BY <1>4, <1>7 DEF Others
<1>9. \A u \in Server : \A i, j \in known'[u] : i = j BY <1>5 DEF IInv, TrustGood
<1>10. TrustGood' BY <1>2, <1>4, <1>5, <1>8, <1>9 DEF TrustGood
<1>11. ~ Busy(task[r]) /\ ~ Busy(task'[r]) BY <1>2, <1>3, <1>4, IdleTask, TrustIsNotBusy
<1> QED BY <1>4, <1>5, <1>6, <1>10, <1>11, TrustStep

LEMMA Trusts ==
  ASSUME IInv, NEW r \in Request, task[r].op = "trust"
  PROVE  /\ task[r] \in TrustTask /\ ~ Busy(task[r]) /\ trustLock
         /\ task[r].read => task[r].seen = known[task[r].server]
         /\ \A q \in Request : task[q].op = "trust" => q = r
<1>1. task[r] \in TrustTask BY TaskKinds DEF IInv, Shapes
<1> QED BY <1>1, TrustIsNotBusy DEF IInv, TrustGood

LEMMA ReadTrustedStep == ASSUME IInv, NEW r \in Request, ReadTrusted(r) PROVE IInv'
<1>1. task[r].op = "trust" BY DEF ReadTrusted, On
<1>2. PICK t : t = [task[r] EXCEPT !.read = TRUE, !.seen = known[task[r].server]] OBVIOUS
<1>3. task' = [task EXCEPT ![r] = t] BY <1>2 DEF ReadTrusted, IInv, Shapes
<1>4. task[r] \in TrustTask /\ ~ Busy(task[r]) /\ trustLock /\ \A q \in Request : task[q].op = "trust" => q = r
  BY <1>1, Trusts
<1>5. known[task[r].server] \in SUBSET ServerKey BY <1>4 DEF TrustTask, IInv, Shapes
<1>6. t \in TrustTask /\ t.op = "trust" /\ t.read = TRUE /\ t.seen = known[t.server]
  BY <1>2, <1>4, <1>5 DEF TrustTask
<1>7. task' \in [Request -> Task] /\ Others(r) /\ task'[r] = t
  BY <1>3, <1>6 DEF IInv, Shapes, Others, Task
<1>8. UNCHANGED <<disk, closeout, authorized, used, inventory>> /\ known' = known /\ trustLock' = trustLock
  BY DEF ReadTrusted, trust
<1>9. known' \in [Server -> SUBSET ServerKey] /\ trustLock' \in BOOLEAN BY <1>8 DEF IInv, Shapes
<1>10. \A q \in Request : task'[q].op = "trust" => q = r BY <1>4, <1>7 DEF Others
<1>11. \A u \in Server : \A i, j \in known'[u] : i = j BY <1>8 DEF IInv, TrustGood
<1>12. TrustGood' BY <1>4, <1>6, <1>7, <1>8, <1>10, <1>11 DEF TrustGood
<1>13. ~ Busy(task'[r]) BY <1>6, <1>7, TrustIsNotBusy
<1> QED BY <1>4, <1>7, <1>8, <1>9, <1>12, <1>13, TrustStep

(* What was read is still what is there: the key is added to no other.      *)
LEMMA SaveTrustedStep == ASSUME IInv, NEW r \in Request, SaveTrusted(r) PROVE IInv'
<1>1. task[r].op = "trust" /\ task[r].read BY DEF SaveTrusted, On
<1>2. PICK t : t = task[r] OBVIOUS
<1>3. /\ t \in TrustTask /\ ~ Busy(t) /\ t.seen = known[t.server]
      /\ \A q \in Request : task[q].op = "trust" => q = r
  BY <1>1, <1>2, Trusts
<1>4. t.server \in Server /\ t.key \in ServerKey BY <1>3 DEF TrustTask
<1>5. task' \in [Request -> Task] /\ Others(r) /\ task'[r] = Idle
  BY FinishTask DEF SaveTrusted, IInv
<1>6. UNCHANGED <<disk, closeout, authorized, used, inventory>> /\ trustLock' = FALSE BY DEF SaveTrusted
<1>7. known \in [Server -> SUBSET ServerKey] /\ \A u \in Server : \A i, j \in known[u] : i = j
  BY DEF IInv, Shapes, TrustGood
<1>8. known' \in [Server -> SUBSET ServerKey] /\ \A u \in Server : \A i, j \in known'[u] : i = j
  <2>1. CASE t.seen = {}
    <3>1. known' = [known EXCEPT ![t.server] = @ \cup {t.key}] BY <1>2, <2>1 DEF SaveTrusted
    <3>2. known[t.server] = {} BY <1>3, <2>1
    <3>3. known' \in [Server -> SUBSET ServerKey] BY <1>4, <1>7, <3>1
    <3>4. ASSUME NEW u \in Server PROVE \A i, j \in known'[u] : i = j
      <4>1. CASE u = t.server
        <5>1. known'[u] = {t.key} BY <1>4, <1>7, <3>1, <3>2, <4>1
        <5> QED BY <5>1
      <4>2. CASE u # t.server
        <5>1. known'[u] = known[u] BY <1>7, <3>1, <4>2
        <5> QED BY <1>7, <5>1
      <4> QED BY <4>1, <4>2
    <3> QED BY <3>3, <3>4
  <2>2. CASE t.seen # {}
    <3>1. known' = known BY <1>2, <2>2 DEF SaveTrusted
    <3> QED BY <1>7, <3>1
  <2> QED BY <2>1, <2>2
<1>9. \A q \in Request : task'[q].op # "trust" BY <1>3, <1>5, IdleTask DEF Others
<1>10. TrustGood' BY <1>8, <1>9 DEF TrustGood
<1>11. ~ Busy(task'[r]) BY <1>5, IdleTask
<1> QED BY <1>2, <1>3, <1>5, <1>6, <1>8, <1>10, <1>11, TrustStep

-----------------------------------------------------------------------------
(* The container                                                            *)

LEMMA RestartStep == ASSUME AccessAssumption, IInv, Restart PROVE IInv'
<1>1. Nil \notin Request /\ Stale \notin Request /\ Nil # Stale BY DEF AccessAssumption
<1>2. UNCHANGED <<private, credential, form, authorized, used, inventory, known, trustLock>>
  BY DEF Restart, trust
<1>3. Shapes BY DEF IInv
<1>4. task' \in [Request -> Task] /\ \A r \in Request : task'[r] = Idle
  BY IdleTask DEF Restart
<1>5. /\ files' \in [Host -> SUBSET File]
      /\ \A h \in Host : files'[h] = files[h] \ {BootLock}
  BY <1>3 DEF Restart, Shapes
<1>6. /\ closeLock' \in [Host -> Request \cup {Nil, Stale}]
      /\ \A h \in Host : closeLock'[h] # Nil <=> closeLock[h] # Nil
  BY <1>1, <1>3 DEF Restart, Shapes
<1>7. ASSUME NEW h \in Host
      PROVE  /\ record'[h] \in Record
             /\ record'[h].status = record[h].status /\ record'[h].fingerprint = record[h].fingerprint
             /\ record'[h].claim \notin Request
  <2>1. record[h] \in Record BY <1>3 DEF Shapes
  <2>2. CASE record[h].claim = Nil
    <3>1. record'[h] = record[h] BY <2>2 DEF Restart
    <3> QED BY <1>1, <2>1, <2>2, <3>1
  <2>3. CASE record[h].claim # Nil
    <3>1. record'[h] = [record[h] EXCEPT !.claim = Stale] BY <2>3 DEF Restart
    <3> QED BY <1>1, <2>1, <3>1 DEF Record
  <2> QED BY <2>2, <2>3
<1>8. record' \in [Host -> Record]
  <2>1. record' = [h \in Host |-> record'[h]] BY DEF Restart
  <2> QED BY <1>7, <2>1
<1>9. Shapes' BY <1>2, <1>3, <1>4, <1>5, <1>6, <1>8 DEF Shapes
<1>10. ASSUME NEW h \in Host PROVE HostGood(h)'
  <2>1. HostGood(h) BY DEF IInv
  <2>2. /\ files'[h] = files[h] \ {BootLock}
        /\ files'[h] \cap {Private, Public, Metadata, Directory} = files[h] \cap {Private, Public, Metadata, Directory}
    BY <1>5 DEF Private, Public, Metadata, Directory, BootLock
  <2>3. /\ record'[h].status = record[h].status /\ record'[h].fingerprint = record[h].fingerprint
        /\ record'[h].claim \notin Request
    BY <1>7
  <2>4. closeLock'[h] # Nil <=> closeLock[h] # Nil BY <1>6
  <2>5. FilesGood(h)' BY <1>2, <2>1, <2>2, <2>3 DEF HostGood, FilesGood
  <2>6. RecordGood(h)' BY <1>2, <2>1, <2>2, <2>3, <2>4 DEF HostGood, RecordGood, Verified
  <2>7. ClaimGood(h)' BY <2>3 DEF ClaimGood
  <2>8. FormGood(h)' BY <1>2, <2>1, <2>3 DEF HostGood, FormGood
  <2> QED BY <2>5, <2>6, <2>7, <2>8 DEF HostGood
<1>11. \A r \in Request : task'[r].op = "idle" BY <1>4, IdleTask
<1>12. \A r \in Request : TaskGood(r)' BY <1>11 DEF TaskGood, Closing
<1>13. Apart' BY <1>11 DEF Apart, InLock, Enrols, Revokes, Closing
<1>14. TrustGood' BY <1>2, <1>11 DEF IInv, TrustGood
<1> QED BY <1>9, <1>10, <1>12, <1>13, <1>14 DEF IInv

-----------------------------------------------------------------------------
(* The invariant                                                            *)

LEMMA InitIInv == ASSUME AccessAssumption, Init PROVE IInv
<1>1. Nil \notin Request BY DEF AccessAssumption
<1>2. \A r \in Request : task[r] = Idle BY DEF Init
<1>3. \A r \in Request : task[r].op = "idle" BY <1>2, IdleTask
<1>4. task \in [Request -> Task] BY IdleTask DEF Init
<1>5. record \in [Host -> Record] BY DEF Init, Record, Status, Settled
<1>6. known \in [Server -> SUBSET ServerKey] /\ \A s \in Server : \A k, l \in known[s] : k = l
  BY DEF Init
<1>7. form \in [Host -> [seen : {"nothing", "absent", "unchanged"}, fresh : BOOLEAN]] BY DEF Init
<1>8. credential \in [Host -> [verified : BOOLEAN, fingerprint : Key \cup {Nil}]] BY DEF Init, Blank
<1>9. Shapes BY <1>4, <1>5, <1>6, <1>7, <1>8 DEF Shapes, Init
<1>10. ASSUME NEW h \in Host PROVE HostGood(h)
  <2>1. FilesGood(h) BY DEF FilesGood, Init, Blank
  <2>2. RecordGood(h) BY DEF RecordGood, Init, Blank, Verified
  <2>3. ClaimGood(h) BY <1>1 DEF ClaimGood, Init
  <2>4. FormGood(h) BY DEF FormGood, Init
  <2> QED BY <2>1, <2>2, <2>3, <2>4 DEF HostGood
<1>11. \A r \in Request : TaskGood(r) BY <1>3 DEF TaskGood, Closing
<1>12. Apart BY <1>3 DEF Apart, InLock, Enrols, Revokes, Closing
<1>13. TrustGood BY <1>3, <1>6 DEF TrustGood
<1> QED BY <1>9, <1>10, <1>11, <1>12, <1>13 DEF IInv

LEMMA Step == ASSUME AccessAssumption, IInv, [Next]_vars PROVE IInv'
<1>1. ASSUME NEW r \in Request, Bootstrap(r) PROVE IInv'
  BY <1>1, BeginBootstrapStep, TakeBootLockStep, PrepareCredentialStep, EnsureKeyStep, InstallKeyStep,
     MarkVerifiedStep, BootstrapFailsStep DEF Bootstrap
<1>2. ASSUME NEW r \in Request, Trust(r) PROVE IInv'
  BY <1>2, TakeTrustLockStep, ReadTrustedStep, SaveTrustedStep DEF Trust
<1>3. ASSUME NEW r \in Request, Decommission(r) PROVE IInv'
  BY <1>3, StartCloseoutStep, RecoverCloseoutStep, ReleaseInterruptedStep, LockCredentialStep, CheckBootLockStep,
     RevokeRemoteStep, RecordFailureStep, RecordRevokedStep, RecordAttestedStep, CheckStoreStep, DeleteNextStep,
     RemoveRowStep, RecordCompletedStep, ReleaseLockStep, ReleaseClaimStep DEF Decommission
<1>4. ASSUME NEW h \in Host, SaveHost(h) \/ DeleteHost(h) \/ Inspect(h) PROVE IInv'
  BY <1>4, SaveHostStep, InspectStep
<1>5. CASE Restart BY <1>5, RestartStep
<1>6. CASE UNCHANGED vars
  <2>1. UNCHANGED <<files, private, credential, closeLock, authorized, used, inventory, record, form, known,
                    trustLock, task>>
    BY <1>6 DEF vars
  <2>2. Shapes' BY <2>1 DEF IInv, Shapes
  <2>3. ASSUME NEW h \in Host PROVE HostGood(h)'
    BY <2>1 DEF IInv, HostGood, FilesGood, RecordGood, ClaimGood, FormGood, Verified
  <2>4. ASSUME NEW r \in Request PROVE TaskGood(r)'
    <3>1. TaskGood(r) BY DEF IInv
    <3>2. (task[r].op = "bootstrap" => BootGood(task[r]))' BY <2>1, <3>1 DEF TaskGood, BootGood
    <3>3. (Closing(task[r]) => CloseGood(r, task[r]))'
      BY <2>1, <3>1 DEF TaskGood, CloseGood, KeyGood, StatusGood, StepGood, Verified
    <3> QED BY <3>2, <3>3 DEF TaskGood
  <2>5. Apart' /\ TrustGood' BY <2>1 DEF IInv, Apart, TrustGood
  <2> QED BY <2>2, <2>3, <2>4, <2>5 DEF IInv
<1> QED BY <1>1, <1>2, <1>3, <1>4, <1>5, <1>6 DEF Next

(* The files of every host, the record and the form of its closeout, and    *)
(* where every request stands agree, whatever fails, is killed or restarts. *)
THEOREM Invariance == ASSUME AccessAssumption PROVE Spec => []IInv
<1>1. Init => IInv BY InitIInv
<1>2. IInv /\ [Next]_vars => IInv' BY Step
<1> QED BY <1>1, <1>2, PTL DEF Spec

LEMMA TypesHold == ASSUME IInv PROVE TypeOK
<1>1. ASSUME NEW r \in Request PROVE TaskOK(task[r])
  <2>1. task[r] \in Task BY DEF IInv, Shapes
  <2> QED BY <2>1 DEF Task, BootTask, CloseTask, TrustTask, TaskOK
<1> QED BY <1>1 DEF IInv, Shapes, Record, TypeOK

(* No step, and no container that stops between two, leaves a file, lock,   *)
(* record or request of another shape (host-credentials.ts,                 *)
(* host-closeout.ts).                                                       *)
THEOREM TypeCorrect == ASSUME AccessAssumption PROVE Spec => []TypeOK
<1>1. IInv => TypeOK BY TypesHold
<1> QED BY <1>1, Invariance, PTL

LEMMA Excluding == ASSUME IInv PROVE EnrolOrRevoke
<1>1. SUFFICES ASSUME NEW h \in Host, NEW q \in Enrolling(h), NEW r \in Revoking(h) PROVE FALSE
  BY DEF EnrolOrRevoke
<1>2. q \in Request /\ Enrols(task[q]) /\ task[q].host = h BY DEF Enrolling, Enrols, On
<1>3. r \in Request /\ Revokes(task[r]) /\ task[r].host = h BY DEF Revoking, Revokes, Closing
<1> QED BY <1>2, <1>3 DEF IInv, Apart

(* An enrolment that may still put a key on a target never meets a closeout *)
(* or a recovery of the same host that is past its own lock, for any number *)
(* of requests and hosts (host-credentials.ts:97-105, 229-236).             *)
THEOREM EnrolmentExcludesCloseout == ASSUME AccessAssumption PROVE Spec => []EnrolOrRevoke
<1>1. IInv => EnrolOrRevoke BY Excluding
<1> QED BY <1>1, Invariance, PTL

LEMMA NothingStranded == ASSUME IInv PROVE NoStrandedAccess
BY DEF IInv, HostGood, FilesGood, NoStrandedAccess

(* A key that opens a target is always the one whose private half is in the *)
(* credential directory of the host: no failure, restart or late form       *)
(* leaves access that nobody can use or revoke (host-closeout.ts:17-27,     *)
(* 80-115).                                                                 *)
THEOREM NoKeyStranded == ASSUME AccessAssumption PROVE Spec => []NoStrandedAccess
<1>1. IInv => NoStrandedAccess BY NothingStranded
<1> QED BY <1>1, Invariance, PTL

LEMMA RecordsMatch == ASSUME IInv PROVE KeysMatchTheirRecords
<1>1. RowsHaveKeys BY DEF IInv, Shapes, HostGood, RecordGood, RowsHaveKeys
<1>2. ASSUME NEW h \in Host, Verified(h), ~ Unresolved(h)
      PROVE  private[h] = credential[h].fingerprint /\ private[h] \in authorized[h]
  <2>1. FilesGood(h) /\ RecordGood(h) BY DEF IInv, HostGood
  <2>2. private[h] # Nil /\ credential[h].fingerprint # Nil BY <1>2, <2>1 DEF FilesGood, Verified
  <2>3. private[h] = credential[h].fingerprint BY <2>1, <2>2 DEF FilesGood
  <2>4. private[h] \in authorized[h] BY <1>2, <2>1 DEF RecordGood, Unresolved
  <2> QED BY <2>3, <2>4
<1>3. KeyFilesStayNamed BY DEF IInv, HostGood, FilesGood, KeyFilesStayNamed
<1> QED BY <1>1, <1>2, <1>3 DEF KeysMatchTheirRecords, VerifiedKeyOpens

(* An inventory row has a verified pair unless its closeout revoked it, a   *)
(* verified pair opens its target unless a closeout is unresolved, and half *)
(* a pair keeps the metadata that name it (hosts/route.ts:353,              *)
(* bootstrap/route.ts:51-52, host-credentials.ts:214, 247).                 *)
THEOREM RecordsMatchKeys == ASSUME AccessAssumption PROVE Spec => []KeysMatchTheirRecords
<1>1. IInv => KeysMatchTheirRecords BY RecordsMatch
<1> QED BY <1>1, Invariance, PTL

LEMMA OneKeyEach == ASSUME IInv PROVE OneServerKey
<1>1. ASSUME NEW s \in Server PROVE Cardinality(known[s]) <= 1
  <2>1. CASE known[s] = {} BY <2>1, FS_EmptySet
  <2>2. CASE known[s] # {}
    <3>1. PICK k \in known[s] : TRUE BY <2>2
    <3>2. known[s] = {k} BY <3>1 DEF IInv, TrustGood
    <3>3. Cardinality({k}) = 1 BY FS_Singleton
    <3> QED BY <3>2, <3>3
  <2> QED BY <2>1, <2>2
<1> QED BY <1>1 DEF OneServerKey

(* However many requests read, wait and append, known_hosts trusts at most  *)
(* one key of the type for a server (ssh-access.ts:242).                    *)
THEOREM ServersKeepOneKey == ASSUME AccessAssumption PROVE Spec => []OneServerKey
<1>1. IInv => OneServerKey BY OneKeyEach
<1> QED BY <1>1, Invariance, PTL
==============================================================================
