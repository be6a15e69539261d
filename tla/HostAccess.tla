----------------------------- MODULE HostAccess ------------------------------
(* Access to the managed hosts: the individual key pairs on the controller's *)
(* disk, their public halves on the targets, the inventory rows and the      *)
(* trusted server keys; enrolment of a key, closeout of a host and recovery  *)
(* of an interrupted closeout, with the directory locks that keep them       *)
(* apart. Each test or creation of a lock is a step of its own, as is each   *)
(* file that a cleanup removes; the one container may stop at any of them.   *)
(* Bindings, leases and remediation barriers are those of AssetLocks.        *)
EXTENDS Naturals, FiniteSets, Sequences

CONSTANTS
  Host,        \* aliases; a credential belongs to the identity of one alias
  Server,      \* address and port pairs
  At,          \* the server of each host
  Key,         \* key pairs that enrolment may generate
  ServerKey,   \* host keys, all of one type, that a scan may offer
  Request,
  Nil, Stale   \* no owner; an owner that died with its container

(* The module that instantiates this one assumes it.                        *)
AccessAssumption ==
  /\ At \in [Host -> Server]
  /\ Nil # Stale /\ {Nil, Stale} \cap (Request \cup Key \cup Host) = {}

Private   == "id_ed25519"
Public    == "id_ed25519.pub"
Metadata  == "metadata.json"
BootLock  == ".bootstrap-lock"
Directory == "directory"     \* the credential directory itself
File      == {Private, Public, Metadata, BootLock, Directory}

Settled == {"none", "not_changed", "completed"}
Status  == Settled \cup {"in_progress", "unknown", "remote_revoked", "remote_partial"}

VARIABLES
  files,        \* what a host's credential directory holds
  private,      \* the key pair in it
  credential,   \* the content of its metadata
  closeLock,    \* owner of <id>.decommission-lock, next to the directory
  authorized,   \* HCP keys in authorized_keys of the target
  used,         \* key pairs generated so far
  inventory,    \* hosts with an inventory row
  record,       \* the closeout records of the store
  form,         \* what the operator saw on the target; fresh while the
                \* record still has the version the form was opened with
  known,        \* trusted keys of each server in known_hosts
  trustLock,    \* known_hosts.hcp-lock exists
  task

vars == <<files, private, credential, closeLock, authorized, used, inventory,
          record, form, known, trustLock, task>>
disk     == <<files, private, credential>>
closeout == <<closeLock, record, form>>
trust    == <<known, trustLock>>

Blank == [verified |-> FALSE, fingerprint |-> Nil]
Idle  == [op |-> "idle"]

TaskOK(t) ==
  \/ t = Idle
  \/ t \in [op : {"bootstrap"}, host : Host, step : {"checked", "locked", "connecting", "generated", "installed"}]
  \/ t \in [op : {"closeout", "absent", "unchanged"}, host : Host, outcome : Status,
            step : {"reclaimed", "claimed", "locked", "revoking", "revoked", "failed",
                    "accepted", "cleanup", "deleting", "row", "done", "release"}]
  \/ t \in [op : {"trust"}, server : Server, key : ServerKey, read : BOOLEAN, seen : SUBSET ServerKey]

TypeOK ==
  /\ files \in [Host -> SUBSET File]
  /\ private \in [Host -> Key \cup {Nil}]
  /\ credential \in [Host -> [verified : BOOLEAN, fingerprint : Key \cup {Nil}]]
  /\ closeLock \in [Host -> Request \cup {Nil, Stale}]
  /\ authorized \in [Host -> SUBSET Key] /\ used \subseteq Key
  /\ inventory \subseteq Host
  /\ record \in [Host -> [status : Status, claim : Request \cup {Nil, Stale}, fingerprint : Key \cup {Nil}]]
  /\ form \in [Host -> [seen : {"nothing", "absent", "unchanged"}, fresh : BOOLEAN]]
  /\ known \in [Server -> SUBSET ServerKey] /\ trustLock \in BOOLEAN
  /\ \A r \in Request : TaskOK(task[r])

-----------------------------------------------------------------------------
(* What the checks read                                                     *)

On(r, op) == task[r].op = op
AtStep(r, step) == task[r].op \notin {"idle", "trust"} /\ task[r].step = step
Move(r, step) == task' = [task EXCEPT ![r].step = step]
Finish(r) == task' = [task EXCEPT ![r] = Idle]

(* validateHostCredential with requireVerified                              *)
Verified(h) == {Metadata, Private} \subseteq files[h] /\ credential[h].verified

(* hasUnresolvedHostCloseout of the host's own record                       *)
Unresolved(h) == record[h].status \notin Settled \/ record[h].claim \in Request

ClearForEnrolment(h) == closeLock[h] = Nil /\ ~ Unresolved(h)

(* Every save of a record gives it a new recovery version.                  *)
SaveRecord(h, rec) ==
  /\ record' = [record EXCEPT ![h] = rec]
  /\ form' = [form EXCEPT ![h].fresh = FALSE]

SaveStatus(h, status) == SaveRecord(h, [record[h] EXCEPT !.status = status])

-----------------------------------------------------------------------------
(* Trust of a server's key                                                  *)

(* Mutant: two requests save keys at once.                                  *)
TakeTrustLockTwice(r, s, k) ==
  /\ task[r] = Idle
  /\ trustLock' = TRUE
  /\ task' = [task EXCEPT ![r] = [op |-> "trust", server |-> s, key |-> k, read |-> FALSE, seen |-> {}]]
  /\ UNCHANGED <<disk, closeout, authorized, used, inventory, known>>

TakeTrustLock(r, s, k) ==
  /\ task[r] = Idle /\ ~ trustLock
  /\ trustLock' = TRUE
  /\ task' = [task EXCEPT ![r] = [op |-> "trust", server |-> s, key |-> k, read |-> FALSE, seen |-> {}]]
  /\ UNCHANGED <<disk, closeout, authorized, used, inventory, known>>

ReadTrusted(r) ==
  /\ On(r, "trust") /\ ~ task[r].read
  /\ task' = [task EXCEPT ![r].read = TRUE, ![r].seen = known[task[r].server]]
  /\ UNCHANGED <<disk, closeout, authorized, used, inventory, trust>>

(* The same key is already trusted, another key of the type is a conflict.  *)
SaveTrusted(r) ==
  /\ On(r, "trust") /\ task[r].read
  /\ known' = IF task[r].seen = {} THEN [known EXCEPT ![task[r].server] = @ \cup {task[r].key}] ELSE known
  /\ trustLock' = FALSE
  /\ Finish(r)
  /\ UNCHANGED <<disk, closeout, authorized, used, inventory>>

-----------------------------------------------------------------------------
(* Enrolment of a key                                                       *)

BeginBootstrap(r, h) ==
  /\ task[r] = Idle /\ ClearForEnrolment(h)
  /\ task' = [task EXCEPT ![r] = [op |-> "bootstrap", host |-> h, step |-> "checked"]]
  /\ UNCHANGED <<disk, closeout, authorized, used, inventory, trust>>

TakeBootLock(r) ==
  /\ On(r, "bootstrap") /\ AtStep(r, "checked")
  /\ LET h == task[r].host IN
       IF BootLock \in files[h]
       THEN Finish(r) /\ UNCHANGED files
       ELSE Move(r, "locked") /\ files' = [files EXCEPT ![h] = @ \cup {Directory, BootLock}]
  /\ UNCHANGED <<private, credential, closeout, authorized, used, inventory, trust>>

Release(r) == Finish(r) /\ files' = [files EXCEPT ![task[r].host] = @ \ {BootLock}]

(* Mutant: the closeout is not looked for again under the lock.             *)
MayPrepareUnpaired(h, existing) ==
  IF Metadata \in files[h]
  THEN credential[h].verified => Private \in files[h]
  ELSE ~ existing

(* `existing`: the form names a credential, whose metadata must be there.   *)
MayPrepare(h, existing) ==
  /\ ClearForEnrolment(h)
  /\ IF Metadata \in files[h]
     THEN credential[h].verified => Private \in files[h]
     ELSE ~ existing

PrepareCredential(r, existing) ==
  /\ On(r, "bootstrap") /\ AtStep(r, "locked")
  /\ LET h == task[r].host IN
       IF MayPrepare(h, existing)
       THEN /\ Move(r, "connecting")
            /\ files' = [files EXCEPT ![h] = @ \cup {Metadata}]
            /\ credential' = IF Metadata \in files[h] THEN credential ELSE [credential EXCEPT ![h] = Blank]
       ELSE Release(r) /\ UNCHANGED credential
  /\ UNCHANGED <<private, closeout, authorized, used, inventory, trust>>

Trusted(h) == known[At[h]] # {}

(* The helper tries a saved key first, then the password; only after the    *)
(* password was accepted may it make a pair.                                *)
EnsureKey(r) ==
  /\ On(r, "bootstrap") /\ AtStep(r, "connecting")
  /\ LET h == task[r].host IN
       /\ Trusted(h)
       /\ IF Private \in files[h]
          THEN /\ Move(r, IF private[h] \in authorized[h] THEN "installed" ELSE "generated")
               /\ files' = [files EXCEPT ![h] = @ \cup {Public}]
               /\ UNCHANGED <<private, used>>
          ELSE \E k \in Key \ used :
                 /\ Move(r, "generated")
                 /\ files' = [files EXCEPT ![h] = @ \cup {Private, Public}]
                 /\ private' = [private EXCEPT ![h] = k]
                 /\ used' = used \cup {k}
  /\ UNCHANGED <<credential, closeout, authorized, inventory, trust>>

InstallKey(r) ==
  /\ On(r, "bootstrap") /\ AtStep(r, "generated")
  /\ authorized' = [authorized EXCEPT ![task[r].host] = @ \cup {private[task[r].host]}]
  /\ Move(r, "installed")
  /\ UNCHANGED <<disk, closeout, used, inventory, trust>>

(* Mutant: the pair is marked before the helper reported the login by it.   *)
MarkVerifiedEarly(r) ==
  /\ On(r, "bootstrap") /\ task[r].step \in {"generated", "installed"}
  /\ credential' = [credential EXCEPT ![task[r].host] = [verified |-> TRUE, fingerprint |-> private[task[r].host]]]
  /\ Release(r)
  /\ UNCHANGED <<private, closeout, authorized, used, inventory, trust>>

MarkVerified(r) ==
  /\ On(r, "bootstrap") /\ AtStep(r, "installed")
  /\ credential' = [credential EXCEPT ![task[r].host] = [verified |-> TRUE, fingerprint |-> private[task[r].host]]]
  /\ Release(r)
  /\ UNCHANGED <<private, closeout, authorized, used, inventory, trust>>

(* Any failure or timeout of the helper; what it did so far stays.          *)
BootstrapFails(r) ==
  /\ On(r, "bootstrap") /\ task[r].step \in {"connecting", "generated", "installed"}
  /\ Release(r)
  /\ UNCHANGED <<private, credential, closeout, authorized, used, inventory, trust>>

-----------------------------------------------------------------------------
(* The inventory                                                            *)

SaveHost(h) ==
  /\ h \notin inventory /\ \A g \in inventory : At[g] # At[h]
  /\ Verified(h)
  /\ inventory' = inventory \cup {h}
  /\ UNCHANGED <<disk, closeout, authorized, used, trust, task>>

DeleteHost(h) ==
  /\ h \in inventory /\ ~ Unresolved(h)
  /\ inventory' = inventory \ {h}
  /\ UNCHANGED <<disk, closeout, authorized, used, trust, task>>

-----------------------------------------------------------------------------
(* Closeout of a host                                                       *)

StartCloseout(r, h) ==
  /\ task[r] = Idle
  /\ h \in inventory /\ Verified(h) /\ closeLock[h] = Nil /\ ~ Unresolved(h)
  /\ SaveRecord(h, [status |-> "in_progress", claim |-> r, fingerprint |-> credential[h].fingerprint])
  /\ task' = [task EXCEPT ![r] = [op |-> "closeout", host |-> h, outcome |-> "not_changed", step |-> "claimed"]]
  /\ UNCHANGED <<disk, closeLock, authorized, used, inventory, trust>>

(* A step that fails: `outcome` is what the record will say.                *)
FailWith(r, outcome) == task' = [task EXCEPT ![r].step = "failed", ![r].outcome = outcome]

(* A refused closeout has changed nothing, a refused recovery keeps what    *)
(* the record said.                                                         *)
Refuse(r) == FailWith(r, IF On(r, "closeout") THEN "not_changed" ELSE record[task[r].host].status)

LockCredential(r) ==
  /\ AtStep(r, "claimed")
  /\ LET h == task[r].host IN
       IF closeLock[h] # Nil
       THEN Refuse(r) /\ UNCHANGED closeLock
       ELSE Move(r, "locked") /\ closeLock' = [closeLock EXCEPT ![h] = r]
  /\ UNCHANGED <<disk, authorized, used, inventory, record, form, trust>>

(* The other half of the pair: an enrolment that holds its lock wins.       *)
CheckBootLock(r) ==
  /\ AtStep(r, "locked") /\ task[r].op # "bootstrap"
  /\ LET h == task[r].host IN
       IF BootLock \in files[h]
       THEN Refuse(r) /\ closeLock' = [closeLock EXCEPT ![h] = Nil]
       ELSE /\ IF ~ On(r, "closeout") THEN Move(r, "accepted")
               ELSE IF Verified(h) /\ credential[h].fingerprint = record[h].fingerprint THEN Move(r, "revoking")
               ELSE Refuse(r)
            /\ UNCHANGED closeLock
  /\ UNCHANGED <<disk, authorized, used, inventory, record, form, trust>>

(* The remote program and what the controller learns of it: the key is gone *)
(* and said to be gone, gone but a later step failed, or surely untouched;  *)
(* a lost answer says nothing of either.                                    *)
RevokeRemote(r) ==
  /\ AtStep(r, "revoking")
  /\ LET h == task[r].host
         k == credential[h].fingerprint IN
       \/ /\ Trusted(h) /\ k \in authorized[h]
          /\ authorized' = [authorized EXCEPT ![h] = @ \ {k}]
          /\ Move(r, "revoked") \/ FailWith(r, "remote_partial") \/ FailWith(r, "unknown")
       \/ /\ UNCHANGED authorized
          /\ FailWith(r, "not_changed") \/ FailWith(r, "unknown")
  /\ UNCHANGED <<disk, closeout, used, inventory, trust>>

(* Mutant: a lost answer of the remote program is taken for success.        *)
LostIsRevoked(r) ==
  /\ AtStep(r, "failed")
  /\ LET lost == task[r].outcome = "unknown" IN
       /\ SaveStatus(task[r].host, IF lost THEN "remote_revoked" ELSE task[r].outcome)
       /\ Move(r, IF lost THEN "cleanup" ELSE "release")
  /\ UNCHANGED <<disk, closeLock, authorized, used, inventory, trust>>

RecordFailure(r) ==
  /\ AtStep(r, "failed")
  /\ SaveStatus(task[r].host, task[r].outcome)
  /\ Move(r, "release")
  /\ UNCHANGED <<disk, closeLock, authorized, used, inventory, trust>>

(* Mutant: the local cleanup starts before the record tells why.            *)
RecordRevokedLate(r) ==
  /\ AtStep(r, "revoked")
  /\ Move(r, "cleanup")
  /\ UNCHANGED <<disk, closeout, authorized, used, inventory, trust>>

(* The removal of the remote key is on record before anything local goes.   *)
RecordRevoked(r) ==
  /\ AtStep(r, "revoked")
  /\ SaveStatus(task[r].host, "remote_revoked")
  /\ Move(r, "cleanup")
  /\ UNCHANGED <<disk, closeLock, authorized, used, inventory, trust>>

(* deleteHostCredential before its first removal                            *)
MayDelete(h) ==
  /\ Metadata \in files[h] /\ credential[h].fingerprint = record[h].fingerprint
  /\ BootLock \notin files[h]

CheckStore(r) ==
  /\ AtStep(r, "cleanup")
  /\ LET h == task[r].host IN
       CASE files[h] = {}          -> Move(r, "row")
         [] files[h] = {Directory} -> Move(r, "deleting")
         [] MayDelete(h)           -> Move(r, "deleting")
         [] OTHER                  -> FailWith(r, "remote_revoked")
  /\ UNCHANGED <<disk, closeout, authorized, used, inventory, trust>>

(* Mutant: the metadata that proves whose key it was go first.              *)
MetadataFirst == <<Metadata, Private, Public, Directory>>

DeleteOrder == <<Private, Public, Metadata, Directory>>

NextFile(h) == DeleteOrder[CHOOSE i \in 1 .. 4 : /\ DeleteOrder[i] \in files[h]
                                                /\ \A j \in 1 .. i - 1 : DeleteOrder[j] \notin files[h]]

(* rmdir refuses a directory that an enrolment has put its lock into.       *)
DeleteNext(r) ==
  /\ AtStep(r, "deleting")
  /\ LET h == task[r].host IN
       IF NextFile(h) = Directory /\ BootLock \in files[h]
       THEN FailWith(r, "remote_revoked") /\ UNCHANGED disk
       ELSE /\ files' = [files EXCEPT ![h] = @ \ {NextFile(h)}]
            /\ private' = IF NextFile(h) = Private THEN [private EXCEPT ![h] = Nil] ELSE private
            /\ credential' = IF NextFile(h) = Metadata THEN [credential EXCEPT ![h] = Blank] ELSE credential
            /\ IF NextFile(h) = Directory THEN Move(r, "row") ELSE UNCHANGED task
  /\ UNCHANGED <<closeout, authorized, used, inventory, trust>>

RemoveRow(r) ==
  /\ AtStep(r, "row")
  /\ inventory' = inventory \ {task[r].host}
  /\ Move(r, "done")
  /\ UNCHANGED <<disk, closeout, authorized, used, trust>>

RecordCompleted(r) ==
  /\ AtStep(r, "done")
  /\ SaveStatus(task[r].host, "completed")
  /\ Move(r, "release")
  /\ UNCHANGED <<disk, closeLock, authorized, used, inventory, trust>>

(* The lock first, then the claim; a status still in progress is unknown.   *)
ReleaseLock(r) ==
  /\ AtStep(r, "release") /\ closeLock[task[r].host] = r
  /\ closeLock' = [closeLock EXCEPT ![task[r].host] = Nil]
  /\ UNCHANGED <<disk, authorized, used, inventory, record, form, trust, task>>

ReleaseClaim(r) ==
  /\ AtStep(r, "release") /\ closeLock[task[r].host] # r
  /\ LET h == task[r].host IN
       IF record[h].claim = r
       THEN SaveRecord(h, [record[h] EXCEPT !.claim = Nil,
                           !.status = IF @ = "in_progress" THEN "unknown" ELSE @])
       ELSE UNCHANGED <<record, form>>
  /\ Finish(r)
  /\ UNCHANGED <<disk, closeLock, authorized, used, inventory, trust>>

-----------------------------------------------------------------------------
(* Recovery of an interrupted closeout                                      *)

Quiet(h) == \A r \in Request : task[r].op \notin {"idle", "trust"} => task[r].host # h

(* The key the recovery is about                                            *)
ClosedKey(h) == IF record[h].status # "none" THEN record[h].fingerprint ELSE credential[h].fingerprint

(* With every process of the operation stopped the operator looks for the   *)
(* key on the target; the form keeps the version of the record.             *)
Inspect(h) ==
  /\ Quiet(h)
  /\ record[h].status # "none" \/ closeLock[h] # Nil
  /\ form' = [form EXCEPT ![h] = [seen |-> IF ClosedKey(h) \in authorized[h] THEN "unchanged" ELSE "absent",
                                  fresh |-> TRUE]]
  /\ UNCHANGED <<disk, closeLock, record, authorized, used, inventory, trust, task>>

(* Mutant: the version the form was opened with is not compared.            *)
AnyVersion(h) == form[h].seen # "nothing"

CurrentVersion(h) == form[h].seen # "nothing" /\ form[h].fresh

MayRecover(h) ==
  /\ CurrentVersion(h)
  /\ IF record[h].status # "none" THEN TRUE
     ELSE closeLock[h] # Nil /\ h \in inventory /\ Metadata \in files[h] /\ credential[h].fingerprint # Nil
  /\ form[h].seen = "unchanged" => record[h].status \notin {"remote_revoked", "remote_partial", "completed"}
  /\ record[h].claim \notin Request

RecoverCloseout(r, h) ==
  /\ task[r] = Idle
  /\ MayRecover(h)
  /\ SaveRecord(h, [status |-> IF record[h].status = "none" THEN "in_progress" ELSE record[h].status,
                    claim |-> r, fingerprint |-> ClosedKey(h)])
  /\ task' = [task EXCEPT ![r] = [op |-> form[h].seen, host |-> h, outcome |-> "unknown", step |-> "reclaimed"]]
  /\ UNCHANGED <<disk, closeLock, authorized, used, inventory, trust>>

(* A lock whose owner lives is never released for it.                       *)
ReleaseInterrupted(r) ==
  /\ AtStep(r, "reclaimed")
  /\ LET h == task[r].host IN
       IF closeLock[h] \in Request
       THEN Refuse(r) /\ UNCHANGED closeLock
       ELSE Move(r, "claimed") /\ closeLock' = [closeLock EXCEPT ![h] = Nil]
  /\ UNCHANGED <<disk, authorized, used, inventory, record, form, trust>>

RecordAttested(r) ==
  /\ AtStep(r, "accepted")
  /\ IF On(r, "unchanged")
     THEN SaveStatus(task[r].host, "not_changed") /\ Move(r, "release")
     ELSE SaveStatus(task[r].host, "remote_revoked") /\ Move(r, "cleanup")
  /\ UNCHANGED <<disk, closeLock, authorized, used, inventory, trust>>

(* The container stops and starts again: no request or helper survives, the *)
(* entrypoint removes the enrolment locks and leaves every other lock.      *)
Restart ==
  /\ task' = [r \in Request |-> Idle]
  /\ files' = [h \in Host |-> files[h] \ {BootLock}]
  /\ closeLock' = [h \in Host |-> IF closeLock[h] = Nil THEN Nil ELSE Stale]
  /\ record' = [h \in Host |-> IF record[h].claim = Nil THEN record[h] ELSE [record[h] EXCEPT !.claim = Stale]]
  /\ UNCHANGED <<private, credential, form, authorized, used, inventory, trust>>

-----------------------------------------------------------------------------
(* Specification                                                            *)

(* known_hosts may come filled from the deployment.                         *)
Init ==
  /\ files = [h \in Host |-> {}] /\ private = [h \in Host |-> Nil]
  /\ credential = [h \in Host |-> Blank]
  /\ closeLock = [h \in Host |-> Nil]
  /\ authorized = [h \in Host |-> {}] /\ used = {} /\ inventory = {}
  /\ record = [h \in Host |-> [status |-> "none", claim |-> Nil, fingerprint |-> Nil]]
  /\ form = [h \in Host |-> [seen |-> "nothing", fresh |-> FALSE]]
  /\ known \in [Server -> {{}} \cup {{k} : k \in ServerKey}] /\ trustLock = FALSE
  /\ task = [r \in Request |-> Idle]

Bootstrap(r) ==
  \/ \E h \in Host : BeginBootstrap(r, h)
  \/ TakeBootLock(r)
  \/ \E existing \in BOOLEAN : PrepareCredential(r, existing)
  \/ EnsureKey(r) \/ InstallKey(r) \/ MarkVerified(r) \/ BootstrapFails(r)

Trust(r) ==
  \/ \E s \in Server, k \in ServerKey : TakeTrustLock(r, s, k)
  \/ ReadTrusted(r) \/ SaveTrusted(r)

Decommission(r) ==
  \/ \E h \in Host : StartCloseout(r, h) \/ RecoverCloseout(r, h)
  \/ ReleaseInterrupted(r) \/ LockCredential(r) \/ CheckBootLock(r)
  \/ RevokeRemote(r) \/ RecordFailure(r) \/ RecordRevoked(r) \/ RecordAttested(r)
  \/ CheckStore(r) \/ DeleteNext(r) \/ RemoveRow(r) \/ RecordCompleted(r)
  \/ ReleaseLock(r) \/ ReleaseClaim(r)

Next ==
  \/ \E r \in Request : Bootstrap(r) \/ Trust(r) \/ Decommission(r)
  \/ \E h \in Host : SaveHost(h) \/ DeleteHost(h) \/ Inspect(h)
  \/ Restart

Spec == Init /\ [][Next]_vars

-----------------------------------------------------------------------------
(* Properties                                                               *)

Enrolling(h) == {r \in Request : /\ On(r, "bootstrap") /\ task[r].host = h
                                 /\ task[r].step \in {"connecting", "generated", "installed"}}
Revoking(h)  == {r \in Request : /\ task[r].op \in {"closeout", "absent", "unchanged"} /\ task[r].host = h
                                 /\ task[r].step \in {"revoking", "revoked", "accepted", "cleanup", "deleting"}}

(* While a helper may install the key of a host, no closeout or recovery of *)
(* that host is past its own lock: the two directory locks are taken before *)
(* each side looks for the other's (host-credentials.ts:97-105, 229-236).   *)
EnrolOrRevoke == \A h \in Host : Enrolling(h) = {} \/ Revoking(h) = {}

(* A key that HCP put on a target never loses its private half on the       *)
(* controller while it still opens the target, whatever fails, restarts or  *)
(* is recovered by an old form (host-closeout.ts:17-27, 80-115).            *)
NoStrandedAccess == \A h \in Host : authorized[h] \subseteq {private[h]}

RowsHaveKeys == \A h \in inventory : Verified(h) \/ record[h].status = "remote_revoked"

VerifiedKeyOpens ==
  \A h \in Host : Verified(h) /\ ~ Unresolved(h) =>
    private[h] = credential[h].fingerprint /\ private[h] \in authorized[h]

KeyFilesStayNamed ==
  \A h \in Host : files[h] \cap {Private, Public} # {} => Metadata \in files[h]

(* The files, the records and the target agree at every point where a       *)
(* cleanup or an enrolment may be cut short: an inventory row has a         *)
(* verified key pair, unless a closeout on record has revoked it            *)
(* (hosts/route.ts:353); a pair whose metadata say "verified" opens its     *)
(* target, unless a closeout is unresolved (bootstrap/route.ts:51-52); half *)
(* a key pair keeps the metadata that name it, without which no cleanup can *)
(* be resumed (host-credentials.ts:214, 247).                               *)
KeysMatchTheirRecords == RowsHaveKeys /\ VerifiedKeyOpens /\ KeyFilesStayNamed

(* known_hosts never trusts two different keys of one type for a server,    *)
(* although each save reads the file, waits and appends (ssh-access.ts:242). *)
OneServerKey == \A s \in Server : Cardinality(known[s]) <= 1
=============================================================================
