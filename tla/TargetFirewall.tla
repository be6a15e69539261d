--------------------------- MODULE TargetFirewall ---------------------------
(***************************************************************************)
(* The firewall helper that the controller runs on a machine               *)
(* (hcp-firewall.py): it saves the configuration directory, changes the    *)
(* firewall with native commands, and restores the saved directory by two  *)
(* renames and a reload.  The helper may be killed between any two durable *)
(* steps, a durable write may fail before or after it took effect, and a   *)
(* native command may go on after the helper gave up waiting for it.       *)
(*                                                                         *)
(* Calls arrive in any order.  What the callers promise is in Start: a     *)
(* transaction has one call at a time, the operator confirms that earlier  *)
(* processes ended only when they did, and a transaction whose rollback    *)
(* began is never applied again.                                           *)
(***************************************************************************)
EXTENDS Naturals

CONSTANTS
  Txn,         \* transactions of this machine
  Helper,      \* helper processes that may exist at one time
  Admin,       \* the administrator, as the author of a rule
  None,
  Partial,     \* a directory or archive that is half written
  Edits,       \* TRUE: the administrator changes the configuration too
  TornOwner,   \* TRUE: a helper may be killed while it writes owner.json
  MaxMishaps   \* bound: kills, failed writes, failed and unanswered commands

ASSUME TargetFirewallAssumption ==
  /\ Admin \notin Txn /\ None \notin Txn /\ Partial # None
  /\ Edits \in BOOLEAN /\ TornOwner \in BOOLEAN
  /\ MaxMishaps \in Nat

VARIABLES
  selected,  \* the active backend
  dest,      \* its directory in /etc, or None between the two renames
  live,      \* the rules the kernel enforces
  marker,    \* .operation-state.json
  copy,      \* [Txn -> the archive with its metadata]
  journal,   \* [Txn -> rollback-state.json]
  staging,   \* [Txn -> the staging directory of its rollback]
  helper,    \* what each helper process is doing
  inflight,  \* native commands that are running, with or without a helper
  told,      \* [Txn -> the last answer the callers got]
  mishaps    \* how many may still happen

durable == <<marker, copy, journal, staging>>
vars == <<selected, dest, live, marker, copy, journal, staging, helper, inflight,
          told, mishaps>>

-----------------------------------------------------------------------------
(* Records *)

(* A tree or a rule set is the set of its rules.                             *)
Rule == (Txn \cup {Admin}) \X {1, 2}
Tree == SUBSET Rule

Marker == [txn : Txn, phase : {"backed_up", "apply_intent", "apply_failed",
                               "apply_unknown", "rollback"}]

Moving    == {"move_old_intent", "old_saved", "install_intent"}
Reloading == {"installed", "reload_intent", "reload_unknown", "reload_failed",
              "reload_completed"}
ROLLBACK_PHASES == {"preparing", "prepared", "completed"} \cup Moving \cup Reloading

(* preparedSha256 is not kept: 757 makes it the digest of the copy.          *)
Journal == [phase : ROLLBACK_PHASES, previous : Tree, cleanup : BOOLEAN]
Staging == [owned : BOOLEAN, residue : BOOLEAN, etc : Tree \cup {None, Partial},
            previous : Tree \cup {None}]
NewStaging == [owned |-> FALSE, residue |-> FALSE, etc |-> None, previous |-> None]

(* A file that is missing is no record, and no tree is missing or half       *)
(* written.                                                                  *)
ASSUME AbsenceAssumption ==
  /\ None \notin Marker \cup Journal \cup Staging
  /\ \A tree \in Tree : tree # None /\ tree # Partial

Released == {"idle", "failed", "succeeded"}
Waiting  == {"running", "reloading"}
Working  == {"entered", "archiving", "copied", "changing", "stopping", "finishing",
             "marking", "resuming", "staged", "extracting", "extracted", "reload",
             "notReloaded", "reloaded"} \cup Waiting
Process  == [at : Released \cup Working, txn : Txn \cup {None},
             op : {"none", "backup", "apply", "rollback"},
             attested : BOOLEAN, unknown : BOOLEAN, seen : Tree \cup {None}]
Idle     == [at |-> "idle", txn |-> None, op |-> "none", attested |-> FALSE,
             unknown |-> FALSE, seen |-> None]

(* Commands 1 and 2 change the firewall, 0 reloads it.                       *)
Command == [txn : Txn, cmd : 0 .. 2]

TypeOK ==
  /\ selected \in {"ufw", "firewalld"}
  /\ dest \in Tree \cup {None}
  /\ live \in Tree
  /\ marker \in Marker \cup {None}
  /\ copy \in [Txn -> Tree \cup {None, Partial}]
  /\ journal \in [Txn -> Journal \cup {None}]
  /\ staging \in [Txn -> Staging \cup {None}]
  /\ helper \in [Helper -> Process]
  /\ inflight \subseteq Command
  /\ told \in [Txn -> {"none", "ok", "failed", "unknown"}]
  /\ mishaps \in 0 .. MaxMishaps

Init ==
  /\ selected \in {"ufw", "firewalld"}
  /\ dest = {} /\ live = {}
  /\ marker = None
  /\ copy = [t \in Txn |-> None]
  /\ journal = [t \in Txn |-> None]
  /\ staging = [t \in Txn |-> None]
  /\ helper = [h \in Helper |-> Idle]
  /\ inflight = {}
  /\ told = [t \in Txn |-> "none"]
  /\ mishaps = MaxMishaps

-----------------------------------------------------------------------------
(* Helper processes and their durable writes *)

Locked(h)   == helper[h].at \in Working
TargetFree  == \A h \in Helper : ~Locked(h)
Quiet       == inflight = {} /\ \A h \in Helper : helper[h].at = "idle"

At(h, place)       == [helper EXCEPT ![h].at = place]
Fail(h, unknown)   == [helper EXCEPT ![h].at = "failed", ![h].unknown = unknown]

(* A write or rename is done, or raises before or after it took effect (the  *)
(* directory cannot be synced).                                              *)
Writes == {"done"} \cup (IF mishaps > 0 THEN {"lost", "unsynced"} ELSE {})

Write(h, write, next) ==
  /\ helper' = IF write = "done" THEN next ELSE Fail(h, FALSE)
  /\ mishaps' = IF write = "done" THEN mishaps ELSE mishaps - 1

RecordActive(h, value, next) ==
  \E write \in Writes :
     /\ marker' = IF write = "lost" THEN marker ELSE value
     /\ Write(h, write, next)

Checkpoint(h, entry, next) ==
  \E write \in Writes :
     /\ journal' = IF write = "lost" THEN journal
                   ELSE [journal EXCEPT ![helper[h].txn] = entry]
     /\ Write(h, write, next)

RollbackCheckpoint(h, phase, next) ==
  Checkpoint(h, [journal[helper[h].txn] EXCEPT !.phase = phase], next)

PendingElsewhere(t) == marker # None /\ marker.txn # t
Pending(t, phases)  == marker # None /\ marker.txn = t /\ marker.phase \in phases
VerifiedBackup(t)   == copy[t] \notin {None, Partial}

(* Mutant: only the error is asked, not what was recorded before it.         *)
ErrorIsUnknown(h) == helper[h].unknown

OutcomeIsUnknown(h) ==
  LET t == helper[h].txn IN
  \/ helper[h].unknown
  \/ Pending(t, {"backed_up"}) /\ helper[h].op = "backup"
  \/ Pending(t, {"apply_intent", "apply_unknown"})
  \/ /\ Pending(t, {"rollback"})
     /\ journal[t] # None => journal[t].phase \in {"reload_intent", "reload_unknown"}

-----------------------------------------------------------------------------
(* Native commands *)

(* Mutant: the rule after the one that is meant.                             *)
OnDiskNext(t, k) == {<<t, k + 1>>}

(* A ufw command changes the files and the kernel; firewall-cmd changes the  *)
(* kernel first and the permanent configuration with a second command.       *)
OnDisk(t, k) ==
  IF selected = "ufw" THEN {<<t, k>>} ELSE IF k = 2 THEN {<<t, 1>>} ELSE {}
InKernel(t, k) ==
  IF selected = "ufw" THEN {<<t, k>>} ELSE IF k = 1 THEN {<<t, 1>>} ELSE {}

With(tree, rules) == IF tree = None THEN None ELSE tree \cup rules

(* Mutant: the permanent configuration is not looked at.                     *)
MissingAtRuntime(t) == {k \in {1, 2} : ~(InKernel(t, k) \subseteq live)}

Missing(t) ==
  {k \in {1, 2} : dest = None \/ ~(OnDisk(t, k) \subseteq dest /\ InKernel(t, k) \subseteq live)}

(* A command that does not succeed may have done all, half or none of it.    *)
TakesEffect(c, reach) ==
  IF c.cmd = 0
  THEN /\ live' = IF reach = "all" /\ dest # None THEN dest ELSE live
       /\ dest' = dest
  ELSE /\ dest' = IF reach = "nothing" THEN dest ELSE With(dest, OnDisk(c.txn, c.cmd))
       /\ live' = IF reach = "all" THEN live \cup InKernel(c.txn, c.cmd) ELSE live

Waits(h, c) == helper[h].at \in Waiting /\ helper[h].txn = c.txn

Submit(h, cmd, place) ==
  /\ inflight' = inflight \cup {[txn |-> helper[h].txn, cmd |-> cmd]}
  /\ helper' = At(h, place)
  /\ UNCHANGED <<selected, dest, live, durable, told, mishaps>>

CommandSucceeds(h, c) ==
  /\ c \in inflight /\ Waits(h, c)
  /\ TakesEffect(c, "all")
  /\ inflight' = inflight \ {c}
  /\ helper' = At(h, IF c.cmd = 0 THEN "reloaded" ELSE "changing")
  /\ UNCHANGED <<selected, durable, told, mishaps>>

(* It reports an error, or reports none and the rule is not there.           *)
CommandFails(h, c) ==
  /\ c \in inflight /\ Waits(h, c)
  /\ mishaps > 0
  /\ mishaps' = mishaps - 1
  /\ \E reach \in {"nothing", "disk", "all"} : TakesEffect(c, reach)
  /\ inflight' = inflight \ {c}
  /\ helper' = At(h, IF c.cmd = 0 THEN "notReloaded" ELSE "stopping")
  /\ UNCHANGED <<selected, durable, told>>

(* The timeout of run(), or a signal: the command may still be running.      *)
CommandTimesOut(h, c) ==
  /\ c \in inflight /\ Waits(h, c)
  /\ mishaps > 0
  /\ mishaps' = mishaps - 1
  /\ helper' = [helper EXCEPT ![h].at = IF c.cmd = 0 THEN "notReloaded" ELSE "stopping",
                              ![h].unknown = TRUE]
  /\ UNCHANGED <<selected, dest, live, durable, inflight, told>>

CommandEndsAlone(c) ==
  /\ c \in inflight
  /\ \A h \in Helper : ~Waits(h, c)
  /\ \E reach \in {"nothing", "disk", "all"} : TakesEffect(c, reach)
  /\ inflight' = inflight \ {c}
  /\ UNCHANGED <<selected, durable, helper, told, mishaps>>

(* The administrator adds a rule with the tools of the backend, but not      *)
(* while the helper changes or restores the configuration.                   *)
AdministratorEdits ==
  /\ Edits /\ dest # None
  /\ \A h \in Helper : Locked(h) => helper[h].at \in {"archiving", "copied"}
  /\ dest' = dest \cup {<<Admin, 1>>}
  /\ live' = live \cup {<<Admin, 1>>}
  /\ UNCHANGED <<selected, durable, helper, inflight, told, mishaps>>

-----------------------------------------------------------------------------
(* The call: its lock, its refusals and its answer *)

Start(h, t, op, attested) ==
  /\ helper[h].at = "idle"
  /\ \A g \in Helper : helper[g].txn # t
  /\ attested => op = "rollback" /\ Quiet
  /\ op = "apply" => journal[t] = None
  /\ helper' = [helper EXCEPT ![h] =
                  [Idle EXCEPT !.at = IF TargetFree THEN "entered" ELSE "failed",
                               !.txn = t, !.op = op, !.attested = attested]]
  /\ told' = [told EXCEPT ![t] = "none"]
  /\ UNCHANGED <<selected, dest, live, durable, inflight, mishaps>>

Entered(h, op) == helper[h].at = "entered" /\ helper[h].op = op

(* Mutant: an intent without a recorded outcome keeps nobody away.           *)
UnattestedUnknown(h) == Pending(helper[h].txn, {"apply_unknown"}) /\ ~helper[h].attested

Unattested(h) == Pending(helper[h].txn, {"apply_intent", "apply_unknown"}) /\ ~helper[h].attested

(* What execute_operation, and each operation before its first write, raise. *)
Refused(h, unknown) ==
  LET t == helper[h].txn
      op == helper[h].op
  IN
  \/ PendingElsewhere(t) /\ ~unknown
  \/ /\ ~PendingElsewhere(t)
     /\ \/ /\ op # "rollback" /\ marker # None /\ marker.phase # "backed_up"
           /\ unknown = (marker.phase # "apply_failed")
        \/ /\ ~unknown
           /\ \/ op = "backup" /\ marker = None /\ copy[t] # None
              \/ /\ op = "backup" /\ Pending(t, {"backed_up"})
                 /\ dest # copy[t]
              \/ /\ op = "apply" /\ (marker = None \/ Pending(t, {"backed_up"}))
                 /\ ~VerifiedBackup(t) \/ (Missing(t) # {} /\ dest # copy[t])
              \/ /\ op = "rollback"
                 /\ ~VerifiedBackup(t) \/ (~Unattested(h) /\ journal[t] = None /\ dest = None)
        \/ op = "rollback" /\ VerifiedBackup(t) /\ Unattested(h) /\ unknown

Refuse(h) ==
  /\ helper[h].at = "entered"
  /\ \E unknown \in BOOLEAN : Refused(h, unknown) /\ helper' = Fail(h, unknown)
  /\ UNCHANGED <<selected, dest, live, durable, inflight, told, mishaps>>

Answer(h) ==
  /\ helper[h].at \in {"failed", "succeeded"}
  /\ told' = [told EXCEPT ![helper[h].txn] =
                IF helper[h].at = "succeeded" THEN "ok"
                ELSE IF OutcomeIsUnknown(h) THEN "unknown" ELSE "failed"]
  /\ helper' = [helper EXCEPT ![h] = Idle]
  /\ UNCHANGED <<selected, dest, live, durable, inflight, mishaps>>

(* Killed, or its answer is lost on the way; the lock goes with the process. *)
Die(h) ==
  /\ helper[h].at # "idle" /\ mishaps > 0
  /\ mishaps' = mishaps - 1
  /\ helper' = [helper EXCEPT ![h] = Idle]
  /\ \/ staging' = staging
     \/ /\ TornOwner /\ helper[h].at = "staged"
        /\ staging' = [staging EXCEPT ![helper[h].txn].residue = TRUE]
  /\ UNCHANGED <<selected, dest, live, marker, copy, journal, inflight, told>>

-----------------------------------------------------------------------------
(* backup *)

BeginBackup(h) ==
  LET t == helper[h].txn IN
  /\ Entered(h, "backup") /\ marker = None /\ copy[t] = None
  /\ \E write \in Writes :
        /\ copy' = IF write = "lost" THEN copy ELSE [copy EXCEPT ![t] = Partial]
        /\ Write(h, write, [helper EXCEPT ![h].at = "archiving", ![h].seen = dest])
  /\ UNCHANGED <<selected, dest, live, marker, journal, staging, inflight, told>>

(* The copy counts once its metadata is written, after a second look.        *)
WriteMetadata(h) ==
  /\ helper[h].at = "archiving"
  /\ \E write \in Writes :
        IF dest = helper[h].seen
        THEN /\ copy' = [copy EXCEPT ![helper[h].txn] =
                           IF write = "lost" THEN Partial ELSE helper[h].seen]
             /\ Write(h, write, At(h, "copied"))
        ELSE /\ write = "done"
             /\ helper' = Fail(h, FALSE)
             /\ UNCHANGED <<copy, mishaps>>
  /\ UNCHANGED <<selected, dest, live, marker, journal, staging, inflight, told>>

RecordBackedUp(h) ==
  /\ helper[h].at = "copied"
  /\ RecordActive(h, [txn |-> helper[h].txn, phase |-> "backed_up"], At(h, "succeeded"))
  /\ UNCHANGED <<selected, dest, live, copy, journal, staging, inflight, told>>

BackupIsThere(h) ==
  /\ Entered(h, "backup") /\ Pending(helper[h].txn, {"backed_up"})
  /\ dest = copy[helper[h].txn]
  /\ helper' = At(h, "succeeded")
  /\ UNCHANGED <<selected, dest, live, durable, inflight, told, mishaps>>

-----------------------------------------------------------------------------
(* closePort and blockIp *)

MayApply(h) ==
  /\ Entered(h, "apply")
  /\ marker = None \/ Pending(helper[h].txn, {"backed_up"})
  /\ VerifiedBackup(helper[h].txn)

NothingToChange(h) ==
  /\ MayApply(h) /\ Missing(helper[h].txn) = {}
  /\ helper' = At(h, "finishing")
  /\ UNCHANGED <<selected, dest, live, durable, inflight, told, mishaps>>

(* Mutant: the digest of the directory is not compared with the backup.      *)
MarkUncheckedIntent(h) ==
  /\ MayApply(h) /\ Missing(helper[h].txn) # {}
  /\ RecordActive(h, [txn |-> helper[h].txn, phase |-> "apply_intent"], At(h, "changing"))
  /\ UNCHANGED <<selected, dest, live, copy, journal, staging, inflight, told>>

MarkApplyIntent(h) ==
  /\ MayApply(h) /\ Missing(helper[h].txn) # {}
  /\ dest = copy[helper[h].txn]
  /\ RecordActive(h, [txn |-> helper[h].txn, phase |-> "apply_intent"], At(h, "changing"))
  /\ UNCHANGED <<selected, dest, live, copy, journal, staging, inflight, told>>

RunCommand(h) ==
  /\ helper[h].at = "changing"
  /\ \E k \in Missing(helper[h].txn) :
        /\ \A j \in Missing(helper[h].txn) : k <= j
        /\ Submit(h, k, "running")

Changed(h) ==
  /\ helper[h].at = "changing" /\ Missing(helper[h].txn) = {}
  /\ helper' = At(h, "finishing")
  /\ UNCHANGED <<selected, dest, live, durable, inflight, told, mishaps>>

(* Mutant: an unanswered command is recorded as one that failed.             *)
RecordFailedApply(h) ==
  /\ helper[h].at = "stopping"
  /\ RecordActive(h, [txn |-> helper[h].txn, phase |-> "apply_failed"],
                  Fail(h, helper[h].unknown))
  /\ UNCHANGED <<selected, dest, live, copy, journal, staging, inflight, told>>

RecordApplyError(h) ==
  /\ helper[h].at = "stopping"
  /\ RecordActive(h, [txn |-> helper[h].txn,
                      phase |-> IF helper[h].unknown THEN "apply_unknown" ELSE "apply_failed"],
                  Fail(h, helper[h].unknown))
  /\ UNCHANGED <<selected, dest, live, copy, journal, staging, inflight, told>>

(* The end of a change and of a rollback.                                    *)
ReleaseActive(h) ==
  /\ helper[h].at = "finishing"
  /\ IF marker # None /\ marker.txn = helper[h].txn
     THEN RecordActive(h, None, At(h, "succeeded"))
     ELSE helper' = At(h, "succeeded") /\ UNCHANGED <<marker, mishaps>>
  /\ UNCHANGED <<selected, dest, live, copy, journal, staging, inflight, told>>

-----------------------------------------------------------------------------
(* rollback: the journal decides where it goes on *)

MayRollback(h) ==
  /\ Entered(h, "rollback")
  /\ ~PendingElsewhere(helper[h].txn) /\ VerifiedBackup(helper[h].txn)
  /\ ~Unattested(h)

BeginJournal(h) ==
  /\ MayRollback(h) /\ journal[helper[h].txn] = None /\ dest # None
  /\ Checkpoint(h, [phase |-> "preparing", previous |-> dest, cleanup |-> FALSE],
                At(h, "marking"))
  /\ UNCHANGED <<selected, dest, live, marker, copy, staging, inflight, told>>

ResumeJournal(h) ==
  /\ MayRollback(h) /\ journal[helper[h].txn] # None
  /\ helper' = At(h, "marking")
  /\ UNCHANGED <<selected, dest, live, durable, inflight, told, mishaps>>

MarkRollback(h) ==
  /\ helper[h].at = "marking"
  /\ RecordActive(h, [txn |-> helper[h].txn, phase |-> "rollback"], At(h, "resuming"))
  /\ UNCHANGED <<selected, dest, live, copy, journal, staging, inflight, told>>

Phase(t) == journal[t].phase

StagingIntact(t) == staging[t] # None /\ staging[t].owned

(* Mutant: a half extracted tree is not replaced.                            *)
EmptyStaging(s) == ~s.residue /\ s.previous = None /\ s.etc = None

(* An unfinished extraction may be rebuilt when it is this attempt's own.    *)
Rebuildable(s) ==
  ~s.residue /\ s.previous = None /\ (s.owned \/ s.etc = None)

OldKept(t)    == staging[t].previous = journal[t].previous
NewReady(t)   == staging[t].etc = copy[t]
LiveIsOld(t)  == dest = journal[t].previous
LiveIsNew(t)  == dest = copy[t]

(* What must hold of the trees before the helper acts on each phase.         *)
Agrees(t) ==
  LET p == Phase(t) IN
  /\ p \notin {"preparing", "completed"} => StagingIntact(t)
  /\ p = "preparing" => LiveIsOld(t) /\ (staging[t] # None => Rebuildable(staging[t]))
  /\ p = "prepared" => LiveIsOld(t) /\ NewReady(t) /\ staging[t].previous = None
  /\ p = "move_old_intent" =>
       IF dest # None THEN NewReady(t) /\ LiveIsOld(t) /\ staging[t].previous = None
       ELSE NewReady(t) /\ OldKept(t)
  /\ p = "old_saved" => OldKept(t) /\ NewReady(t) /\ dest = None
  /\ p = "install_intent" =>
       OldKept(t) /\ IF staging[t].etc # None THEN NewReady(t) /\ dest = None ELSE LiveIsNew(t)
  /\ p \in {"installed", "reload_failed"} => LiveIsNew(t) /\ OldKept(t)
  /\ p = "reload_completed" => LiveIsNew(t)
  /\ p = "completed" =>
       LiveIsNew(t) /\ (staging[t] # None /\ ~journal[t].cleanup => staging[t].owned)

Resumes(h, phases) ==
  helper[h].at = "resuming" /\ Phase(helper[h].txn) \in phases /\ Agrees(helper[h].txn)

StopRollback(h) ==
  LET t == helper[h].txn IN
  /\ helper[h].at = "resuming" /\ ~Agrees(t)
  /\ helper' = Fail(h, Phase(t) \notin {"preparing", "completed"} /\ ~StagingIntact(t))
  /\ UNCHANGED <<selected, dest, live, durable, inflight, told, mishaps>>

ChangeStaging(h, entry, next) ==
  \E write \in Writes :
     /\ staging' = IF write = "lost" THEN staging
                   ELSE [staging EXCEPT ![helper[h].txn] = entry]
     /\ Write(h, write, next)

(* The tree of an attempt that was cut short is deleted.                     *)
PrepareStaging(h) ==
  LET t == helper[h].txn IN
  /\ Resumes(h, {"preparing"})
  /\ ChangeStaging(h, IF staging[t] = None THEN NewStaging ELSE [staging[t] EXCEPT !.etc = None],
                   At(h, "staged"))
  /\ UNCHANGED <<selected, dest, live, marker, copy, journal, inflight, told>>

WriteOwner(h) ==
  /\ helper[h].at = "staged"
  /\ ChangeStaging(h, [staging[helper[h].txn] EXCEPT !.owned = TRUE], At(h, "extracting"))
  /\ UNCHANGED <<selected, dest, live, marker, copy, journal, inflight, told>>

Extract(h) ==
  /\ helper[h].at = "extracting"
  /\ ChangeStaging(h, [staging[helper[h].txn] EXCEPT !.etc = Partial], At(h, "extracted"))
  /\ UNCHANGED <<selected, dest, live, marker, copy, journal, inflight, told>>

(* The tree is complete and synced before the journal says so.               *)
Prepared(h) ==
  LET t == helper[h].txn IN
  /\ helper[h].at = "extracted"
  /\ IF LiveIsOld(t)
     THEN /\ staging' = [staging EXCEPT ![t].etc = copy[t]]
          /\ RollbackCheckpoint(h, "prepared", At(h, "resuming"))
     ELSE /\ helper' = Fail(h, FALSE)
          /\ UNCHANGED <<staging, journal, mishaps>>
  /\ UNCHANGED <<selected, dest, live, marker, copy, inflight, told>>

(* Checkpoints between which nothing else happens.                           *)
NextPhase == {<<"prepared", "move_old_intent">>, <<"move_old_intent", "old_saved">>,
              <<"old_saved", "install_intent">>, <<"install_intent", "installed">>,
              <<"reload_completed", "completed">>}

StillToRename(t) ==
  \/ Phase(t) = "move_old_intent" /\ dest # None
  \/ Phase(t) = "install_intent" /\ staging[t].etc # None

Proceed(h) ==
  LET t == helper[h].txn IN
  /\ Resumes(h, ROLLBACK_PHASES) /\ ~StillToRename(t)
  /\ \E following \in ROLLBACK_PHASES :
        /\ <<Phase(t), following>> \in NextPhase
        /\ RollbackCheckpoint(h, following, At(h, "resuming"))
  /\ UNCHANGED <<selected, dest, live, marker, copy, staging, inflight, told>>

Rename(h, tree, entry) ==
  /\ \E write \in Writes :
        /\ IF write = "lost" THEN UNCHANGED <<dest, staging>>
           ELSE dest' = tree /\ staging' = [staging EXCEPT ![helper[h].txn] = entry]
        /\ Write(h, write, helper)
  /\ UNCHANGED <<selected, live, marker, copy, journal, inflight, told>>

MoveOld(h) ==
  LET t == helper[h].txn IN
  /\ Resumes(h, {"move_old_intent"}) /\ StillToRename(t)
  /\ Rename(h, None, [staging[t] EXCEPT !.previous = dest])

Install(h) ==
  LET t == helper[h].txn IN
  /\ Resumes(h, {"install_intent"}) /\ StillToRename(t)
  /\ Rename(h, staging[t].etc, [staging[t] EXCEPT !.etc = None])

(* Mutant: the operator's word is taken for the reload itself.               *)
ReloadAssumed(h) ==
  /\ Resumes(h, {"reload_intent", "reload_unknown"})
  /\ IF helper[h].attested
     THEN RollbackCheckpoint(h, "reload_completed", At(h, "resuming"))
     ELSE /\ helper' = Fail(h, TRUE)
          /\ UNCHANGED <<journal, mishaps>>
  /\ UNCHANGED <<selected, dest, live, marker, copy, staging, inflight, told>>

(* A reload with no known result is repeated only for an operator who looked. *)
ReloadAgain(h) ==
  /\ Resumes(h, {"reload_intent", "reload_unknown"})
  /\ IF helper[h].attested
     THEN RollbackCheckpoint(h, "installed", At(h, "resuming"))
     ELSE /\ helper' = Fail(h, TRUE)
          /\ UNCHANGED <<journal, mishaps>>
  /\ UNCHANGED <<selected, dest, live, marker, copy, staging, inflight, told>>

ReloadIntent(h) ==
  /\ Resumes(h, {"installed", "reload_failed"})
  /\ RollbackCheckpoint(h, "reload_intent", At(h, "reload"))
  /\ UNCHANGED <<selected, dest, live, marker, copy, staging, inflight, told>>

Reload(h) == helper[h].at = "reload" /\ Submit(h, 0, "reloading")

Reloaded(h) ==
  /\ helper[h].at = "reloaded"
  /\ IF LiveIsNew(helper[h].txn)
     THEN RollbackCheckpoint(h, "reload_completed", At(h, "resuming"))
     ELSE helper' = At(h, "notReloaded") /\ UNCHANGED <<journal, mishaps>>
  /\ UNCHANGED <<selected, dest, live, marker, copy, staging, inflight, told>>

NotReloaded(h) ==
  /\ helper[h].at = "notReloaded"
  /\ RollbackCheckpoint(h, IF helper[h].unknown THEN "reload_unknown" ELSE "reload_failed",
                        Fail(h, helper[h].unknown))
  /\ UNCHANGED <<selected, dest, live, marker, copy, staging, inflight, told>>

(* A completed rollback, now or long ago: what is left is cleaned up.        *)
BeginCleanup(h) ==
  LET t == helper[h].txn IN
  /\ Resumes(h, {"completed"}) /\ staging[t] # None /\ ~journal[t].cleanup
  /\ Checkpoint(h, [journal[t] EXCEPT !.cleanup = TRUE], At(h, "resuming"))
  /\ UNCHANGED <<selected, dest, live, marker, copy, staging, inflight, told>>

(* Mutant: staging is removed before the completion is recorded.             *)
RemoveStagingEarly(h) ==
  LET t == helper[h].txn IN
  /\ Resumes(h, {"reload_completed", "completed"}) /\ staging[t] # None
  /\ \E left \in {NewStaging, None} : ChangeStaging(h, left, helper)
  /\ UNCHANGED <<selected, dest, live, marker, copy, journal, inflight, told>>

(* rmtree removes the entries in some order, the directory last.             *)
RemoveStaging(h) ==
  LET t == helper[h].txn IN
  /\ Resumes(h, {"completed"}) /\ staging[t] # None /\ journal[t].cleanup
  /\ \E left \in {NewStaging, None} : ChangeStaging(h, left, helper)
  /\ UNCHANGED <<selected, dest, live, marker, copy, journal, inflight, told>>

CleanedUp(h) ==
  /\ Resumes(h, {"completed"}) /\ staging[helper[h].txn] = None
  /\ helper' = At(h, "finishing")
  /\ UNCHANGED <<selected, dest, live, durable, inflight, told, mishaps>>

-----------------------------------------------------------------------------

Backup(h) == BeginBackup(h) \/ WriteMetadata(h) \/ RecordBackedUp(h) \/ BackupIsThere(h)

CloseOrBlock(h) ==
  \/ NothingToChange(h) \/ MarkApplyIntent(h) \/ RunCommand(h) \/ Changed(h)
  \/ RecordApplyError(h)

Rollback(h) ==
  \/ BeginJournal(h) \/ ResumeJournal(h) \/ MarkRollback(h) \/ StopRollback(h)
  \/ PrepareStaging(h) \/ WriteOwner(h) \/ Extract(h) \/ Prepared(h)
  \/ Proceed(h) \/ MoveOld(h) \/ Install(h)
  \/ ReloadAgain(h) \/ ReloadIntent(h) \/ Reload(h) \/ Reloaded(h) \/ NotReloaded(h)
  \/ BeginCleanup(h) \/ RemoveStaging(h) \/ CleanedUp(h)

CommandEnds(h) ==
  \E c \in inflight : CommandSucceeds(h, c) \/ CommandFails(h, c) \/ CommandTimesOut(h, c)

Step(h) ==
  \/ Refuse(h) \/ Answer(h) \/ ReleaseActive(h) \/ CommandEnds(h)
  \/ Backup(h) \/ CloseOrBlock(h) \/ Rollback(h)

Next ==
  \/ \E h \in Helper : Step(h) \/ Die(h)
  \/ \E h \in Helper, t \in Txn, op \in {"backup", "apply", "rollback"}, attested \in BOOLEAN :
        Start(h, t, op, attested)
  \/ \E c \in inflight : CommandEndsAlone(c)
  \/ AdministratorEdits

Spec == Init /\ [][Next]_vars

AttestedRollback(t) == \E h \in Helper : Start(h, t, "rollback", TRUE)

(* A helper that is not killed runs on; a command ends; and an operator who  *)
(* sees that everything stopped repeats the rollback.                        *)
FairSpec ==
  /\ Spec
  /\ \A h \in Helper : WF_vars(Step(h))
  /\ WF_vars(\E c \in inflight : CommandEndsAlone(c))
  /\ \A t \in Txn : SF_vars(AttestedRollback(t))

-----------------------------------------------------------------------------
(* Properties *)

(* Whenever the configuration directory is missing, a rollback is between its *)
(* two renames, its journal says so, and both trees are whole; and until the  *)
(* reload is known to have succeeded the replaced tree is kept (767-864).     *)
ConfigurationKept ==
  /\ dest = None =>
       \E t \in Txn : /\ journal[t] # None /\ Phase(t) \in Moving
                      /\ staging[t] # None /\ OldKept(t) /\ NewReady(t)
  /\ \A t \in Txn :
       journal[t] # None /\ Phase(t) \in {"old_saved", "install_intent"} \cup Reloading
         => staging[t] # None /\ OldKept(t)

(* The marker names whoever may be changing the machine: the owner of a       *)
(* command that may still be running, and every rollback from the moment it   *)
(* is prepared until it is completed (344-379, 767-788).                      *)
MarkerKept ==
  /\ \A c \in inflight : Pending(c.txn, {"apply_intent", "apply_unknown", "rollback"})
  /\ \A t \in Txn :
       journal[t] # None /\ Phase(t) \notin {"preparing", "completed"}
         => Pending(t, {"rollback"})

(* When no change or rollback is recorded as begun, the directory exists and  *)
(* is what the kernel enforces, however many attempts came before (948, 883). *)
SettledAgree ==
  marker = None \/ marker.phase = "backed_up" => dest # None /\ dest = live

(* While a command may still be running, no other command is started and no   *)
(* tree of a rollback moves, whoever is called with whatever attestation.     *)
ChangesDoNotOverlap ==
  [][inflight # {} => inflight' \subseteq inflight /\ staging' = staging]_vars

(* An answer that says done or failed, and not unknown, leaves no command of  *)
(* the transaction running: the controller lets the machine go on it (889).   *)
DefiniteMeansQuiet ==
  [][\A t \in Txn : told[t] = "none" /\ told'[t] \in {"ok", "failed"}
       => \A c \in inflight : c.txn # t]_vars

(* A rollback that succeeds, at once, resumed or replayed, has put the saved  *)
(* configuration in place and in force, and left nothing behind (867-886).    *)
RollbackRestores ==
  [][\A h \in Helper :
       helper[h].op = "rollback" /\ helper[h].at # "succeeded" /\ helper'[h].at = "succeeded"
         => LET t == helper[h].txn IN
            dest = copy[t] /\ live = copy[t] /\ staging[t] = None /\ inflight = {}]_vars

(* What the helper promises: the configuration is changed by one transaction  *)
(* at a time, from a state that was saved, and is restored to just that.      *)
Owner ==
  IF marker = None \/ marker.phase = "backed_up" THEN None
  ELSE [txn |-> marker.txn, mode |-> IF marker.phase = "rollback" THEN "restore" ELSE "change"]

Effective ==
  IF dest # None THEN dest
  ELSE LET t == CHOOSE u \in Txn : journal[u] # None /\ Phase(u) \in Moving
       IN staging[t].previous

Saved == [t \in Txn |-> IF VerifiedBackup(t) THEN copy[t] ELSE None]

Atomic == INSTANCE SaveRestore WITH config <- Effective, saved <- Saved, owner <- Owner

ImplementsSaveRestore == Atomic!Spec

(* Liveness: a rollback that the target has recorded is completed in the end, *)
(* through kills, failed writes and lost answers, if it is repeated           *)
(* (operations-recovery.md, section on the journal of the target).            *)
RollbackResumes ==
  \A t \in Txn : Pending(t, {"rollback"}) ~> marker = None

(* operations-recovery.md:52: a new transaction does not pass an unfinished   *)
(* change or rollback.  The journal of a rollback is begun before the marker. *)
NewTransactionWaits ==
  [][\A t, u \in Txn :
       t # u /\ journal[t] # None /\ Phase(t) # "completed"
         => \A c \in inflight' \ inflight : c.txn # u]_vars
=============================================================================
