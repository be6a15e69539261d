----------------------- MODULE TargetFirewall_proofs -----------------------
(***************************************************************************)
(* Proofs about TargetFirewall for any number of transactions, helper      *)
(* processes and mishaps: the configuration is never lost, the marker      *)
(* names whoever may be changing the machine, commands never overlap, an   *)
(* answer other than unknown leaves nothing running, and a rollback that   *)
(* succeeds has restored what was saved; so the helper implements           *)
(* SaveRestore.                                                            *)
(***************************************************************************)
EXTENDS TargetFirewall, TLAPS

-----------------------------------------------------------------------------
(* The inductive invariant *)

Rolling(t)  == Pending(t, {"rollback"})
Applying(t) == Pending(t, {"apply_intent", "apply_unknown"})

(* One helper holds the lock, and a transaction has one call at a time.      *)
Alone ==
  /\ \A g, h \in Helper : Locked(g) /\ Locked(h) => g = h
  /\ \A g, h \in Helper : helper[g].txn = helper[h].txn /\ helper[g].txn # None => g = h

(* What holds of a call from its start to its answer.                        *)
CallGood(p) ==
  /\ p.at = "idle" => p.txn = None
  /\ p.at # "idle" => p.txn \in Txn /\ p.op # "none"
  /\ p.at # "idle" /\ p.op = "apply" => journal[p.txn] = None
  /\ p.at = "succeeded" => \A c \in inflight : c.txn # p.txn

(* The files and the kernel differ in what a transaction of firewalld is     *)
(* about to make permanent at most.                                          *)
Synced(t) ==
  IF selected = "ufw" THEN dest = live ELSE dest \ {<<t, 1>>} = live \ {<<t, 1>>}

Preparing == {"staged", "extracting", "extracted"}
AtReload  == {"reload", "reloading", "reloaded", "notReloaded"}

BackupGood(p) ==
  /\ p.at \in {"archiving", "copied"} => p.op = "backup" /\ marker = None
  /\ p.at = "archiving" => copy[p.txn] = Partial /\ p.seen # None
  /\ p.at = "copied" => VerifiedBackup(p.txn)

ChangeGood(p) ==
  /\ p.at \in {"changing", "running", "stopping"} =>
       p.op = "apply" /\ Pending(p.txn, {"apply_intent"})
  /\ p.at = "changing" => inflight = {} /\ Synced(p.txn)
  /\ p.at = "running" => Synced(p.txn) /\ \E k \in {1, 2} : inflight = {[txn |-> p.txn, cmd |-> k]}
  /\ p.at = "stopping" => p.unknown \/ inflight = {}

RollbackGood(p) ==
  LET t == p.txn IN
  /\ p.attested /\ p.at \in {"entered", "marking", "resuming"} \cup Preparing => inflight = {}
  /\ p.at \in {"marking", "resuming"} \cup Preparing \cup AtReload =>
       p.op = "rollback" /\ journal[t] # None
  /\ p.at = "marking" => ~PendingElsewhere(t) /\ (inflight = {} \/ Rolling(t))
  /\ p.at \in {"resuming"} \cup Preparing \cup AtReload => Rolling(t)
  /\ p.at \in Preparing => /\ Phase(t) = "preparing" /\ dest # None
                           /\ staging[t] # None /\ staging[t].previous = None
  /\ p.at \in {"extracting", "extracted"} => staging[t].owned
  /\ p.at \in AtReload => Phase(t) = "reload_intent" /\ dest = copy[t]
  /\ p.at \in {"reload", "reloaded"} => inflight = {}
  /\ p.at = "reloading" => inflight = {[txn |-> t, cmd |-> 0]}
  /\ p.at = "reloaded" => dest = live
  /\ p.at = "notReloaded" => p.unknown \/ inflight = {}

FinishGood(p) ==
  p.at = "finishing" =>
    /\ inflight = {} /\ dest # None /\ dest = live
    /\ \/ p.op = "apply" /\ (marker = None \/ Pending(p.txn, {"backed_up", "apply_intent"}))
       \/ /\ p.op = "rollback" /\ Rolling(p.txn) /\ journal[p.txn] # None
          /\ dest = copy[p.txn] /\ staging[p.txn] = None

PlaceGood(p) == BackupGood(p) /\ ChangeGood(p) /\ RollbackGood(p) /\ FinishGood(p)

Helpers == \A h \in Helper : CallGood(helper[h]) /\ PlaceGood(helper[h])

(* One command at most is running, for what the marker says.                 *)
CommandGood(c) ==
  IF c.cmd = 0
  THEN /\ Rolling(c.txn) /\ journal[c.txn] # None
       /\ Phase(c.txn) \in {"reload_intent", "reload_unknown"}
  ELSE Applying(c.txn)

Commands == /\ \A c \in inflight : CommandGood(c)
            /\ \A c, d \in inflight : c = d

(* What was begun was saved, and from the moment it is prepared until it is  *)
(* completed a rollback owns the marker and both trees.                      *)
InPhase(t, p) ==
  /\ p \notin {"preparing", "completed"} => Rolling(t) /\ StagingIntact(t)
  /\ p = "prepared" => NewReady(t) /\ staging[t].previous = None /\ dest # None
  /\ p = "move_old_intent" => NewReady(t) /\ (dest = None => OldKept(t))
  /\ p = "old_saved" => OldKept(t) /\ NewReady(t) /\ dest = None
  /\ p = "install_intent" =>
       OldKept(t) /\ (dest = None => NewReady(t)) /\ (staging[t].etc = None <=> dest # None)
  /\ p \in Reloading => OldKept(t) /\ dest # None
  /\ p \in {"reload_completed", "completed"} /\ Rolling(t) => dest # None /\ dest = live

TreesGood(t) ==
  journal[t] # None => VerifiedBackup(t) /\ journal[t].previous # None /\ InPhase(t, Phase(t))

Trees == \A t \in Txn : TreesGood(t)

MarkerGood ==
  marker # None =>
    /\ marker.phase = "rollback" => journal[marker.txn] # None
    /\ marker.phase \notin {"rollback", "backed_up"} =>
         journal[marker.txn] = None \/ Phase(marker.txn) = "preparing"

DestGood ==
  dest = None => /\ marker # None /\ marker.phase = "rollback"
                 /\ Phase(marker.txn) \in Moving

FInv == /\ TypeOK /\ Alone /\ Helpers /\ Commands /\ Trees /\ MarkerGood /\ DestGood
        /\ SettledAgree

-----------------------------------------------------------------------------
(* Helpers that move *)

(* A helper process goes to another place, or gives up.                      *)
LEMMA AtIs ==
  ASSUME helper \in [Helper -> Process], NEW h \in Helper, NEW place \in Released \cup Working
  PROVE  \E p \in Process :
            /\ At(h, place) = [helper EXCEPT ![h] = p]
            /\ p.at = place /\ p.txn = helper[h].txn /\ p.op = helper[h].op
            /\ p.attested = helper[h].attested /\ p.unknown = helper[h].unknown
            /\ p.seen = helper[h].seen
<1>1. helper[h] \in Process
  OBVIOUS
<1> DEFINE p == [helper[h] EXCEPT !.at = place]
<1>2. /\ p \in Process
      /\ p.at = place /\ p.txn = helper[h].txn /\ p.op = helper[h].op
      /\ p.attested = helper[h].attested /\ p.unknown = helper[h].unknown
      /\ p.seen = helper[h].seen
  BY <1>1 DEF Process
<1>3. At(h, place) = [helper EXCEPT ![h] = p]
  BY DEF At
<1> QED
  BY <1>2, <1>3

LEMMA FailIs ==
  ASSUME helper \in [Helper -> Process], NEW h \in Helper, NEW unknown \in BOOLEAN
  PROVE  \E p \in Process :
            /\ Fail(h, unknown) = [helper EXCEPT ![h] = p]
            /\ p.at = "failed" /\ p.txn = helper[h].txn /\ p.op = helper[h].op
            /\ p.unknown = unknown
<1>1. helper[h] \in Process
  OBVIOUS
<1> DEFINE p == [[helper[h] EXCEPT !.at = "failed"] EXCEPT !.unknown = unknown]
<1>2. /\ p \in Process
      /\ p.at = "failed" /\ p.txn = helper[h].txn /\ p.op = helper[h].op
      /\ p.unknown = unknown
  BY <1>1 DEF Process, Released
<1>3. Fail(h, unknown) = [helper EXCEPT ![h] = p]
  BY DEF Fail
<1> QED
  BY <1>2, <1>3

(* A durable write takes the helper on, or makes it give up.                 *)
LEMMA WriteGoesOn ==
  ASSUME TypeOK, NEW h \in Helper, NEW write \in Writes, NEW next, Write(h, write, next)
  PROVE  /\ mishaps' \in 0 .. MaxMishaps
         /\ (write = "done" /\ helper' = next) \/ helper' = Fail(h, FALSE)
<1>1. mishaps \in 0 .. MaxMishaps /\ MaxMishaps \in Nat
  BY TargetFirewallAssumption DEF TypeOK
<1>2. CASE write = "done"
  BY <1>1, <1>2 DEF Write
<1>3. CASE write # "done"
  <2>1. mishaps > 0
    BY <1>3 DEF Writes
  <2>2. mishaps' = mishaps - 1 /\ helper' = Fail(h, FALSE)
    BY <1>3 DEF Write
  <2> QED
    BY <1>1, <2>1, <2>2
<1> QED
  BY <1>2, <1>3

GoesTo(h, p, place) ==
  /\ helper' = [helper EXCEPT ![h] = p]
  /\ p.txn = helper[h].txn /\ p.op = helper[h].op
  /\ \/ p.at = "failed"
     \/ /\ p.at = place /\ helper' # Fail(h, FALSE)
        /\ p.attested = helper[h].attested /\ p.unknown = helper[h].unknown
        /\ p.seen = helper[h].seen

LEMMA GoesOn ==
  ASSUME helper \in [Helper -> Process], NEW h \in Helper, NEW place \in Released \cup Working,
         helper' = At(h, place) \/ helper' = Fail(h, FALSE)
  PROVE  \E p \in Process : GoesTo(h, p, place)
<1>1. CASE helper' = Fail(h, FALSE)
  <2>1. PICK p \in Process :
           /\ Fail(h, FALSE) = [helper EXCEPT ![h] = p]
           /\ p.at = "failed" /\ p.txn = helper[h].txn /\ p.op = helper[h].op
    BY FailIs
  <2> QED
    BY <1>1, <2>1 DEF GoesTo
<1>2. CASE helper' # Fail(h, FALSE)
  <2>1. PICK p \in Process :
           /\ At(h, place) = [helper EXCEPT ![h] = p]
           /\ p.at = place /\ p.txn = helper[h].txn /\ p.op = helper[h].op
           /\ p.attested = helper[h].attested /\ p.unknown = helper[h].unknown
           /\ p.seen = helper[h].seen
    BY AtIs
  <2> QED
    BY <1>2, <2>1 DEF GoesTo
<1> QED
  BY <1>1, <1>2

(* Helpers that do not move keep what holds of them, and the one that moves  *)
(* keeps its transaction to itself.                                          *)
LEMMA HelperStep ==
  ASSUME TypeOK, Alone, Helpers, NEW h \in Helper, NEW p \in Process,
         Locked(h) \/ p.at \in Released,
         \/ (p.at # "idle" /\ p.txn = helper[h].txn /\ helper[h].txn # None /\ p.op = helper[h].op)
         \/ p = Idle,
         helper' = [helper EXCEPT ![h] = p],
         \A u \in Txn : u # helper[h].txn \/ p.op = "apply" => journal'[u] = journal[u],
         \A c \in inflight' : c \in inflight \/ c.txn = helper[h].txn,
         p.at = "succeeded" => \A c \in inflight' : c.txn # p.txn,
         p.at \in Released \/ PlaceGood(p)',
         \A g \in Helper : g # h /\ Locked(g) => PlaceGood(helper[g])'
  PROVE  helper' \in [Helper -> Process] /\ Alone' /\ Helpers'
<1>1. helper' \in [Helper -> Process]
  BY DEF TypeOK
<1>2. helper'[h] = p /\ \A g \in Helper : g # h => helper'[g] = helper[g]
  BY DEF TypeOK
<1>3. Alone'
  <2>1. \A g \in Helper : helper'[g].txn # None => helper'[g].txn = helper[g].txn
    BY <1>2 DEF Idle
  <2>2. \A g \in Helper : Locked(g)' => Locked(g)
    BY <1>2 DEF Locked, Released, Working, Waiting, Idle
  <2> QED
    BY <2>1, <2>2, <1>1, <1>2 DEF Alone
<1>4. ASSUME NEW g \in Helper PROVE CallGood(helper[g])' /\ PlaceGood(helper[g])'
  <2>1. CASE g = h
    <3>1. CallGood(helper[h])
      BY DEF Helpers
    <3>2. p.at # "idle" => helper[h].at # "idle"
      BY <3>1 DEF CallGood, Idle
    <3>3. CallGood(helper[g])'
      BY <1>2, <2>1, <3>1, <3>2 DEF CallGood, Idle
    <3>4. PlaceGood(helper[g])'
      BY <1>2, <2>1 DEF PlaceGood, BackupGood, ChangeGood, RollbackGood, FinishGood, Released,
                        Preparing, AtReload
    <3> QED
      BY <3>3, <3>4
  <2>2. CASE g # h
    <3>1. CallGood(helper[g])
      BY DEF Helpers
    <3>2. helper[g].txn = helper[h].txn => helper[g].txn = None
      BY <2>2 DEF Alone
    <3>3. CallGood(helper[g])'
      BY <1>2, <2>2, <3>1, <3>2, TargetFirewallAssumption DEF CallGood
    <3>4. helper[g] \in Process
      BY DEF TypeOK
    <3>5. PlaceGood(helper[g])'
      BY <1>2, <2>2, <3>4 DEF PlaceGood, BackupGood, ChangeGood, RollbackGood, FinishGood,
                        Released, Preparing, AtReload, Locked, Process, Working, Waiting
    <3> QED
      BY <3>3, <3>5
  <2> QED
    BY <2>1, <2>2
<1> QED
  BY <1>1, <1>3, <1>4 DEF Helpers

(* What a working helper's place says stays true as long as nothing moves    *)
(* but the helpers themselves.                                               *)
LEMMA StillPlaced ==
  ASSUME NEW p, PlaceGood(p), UNCHANGED <<selected, dest, live, durable, inflight>>
  PROVE  PlaceGood(p)'
<1>1. /\ selected' = selected /\ dest' = dest /\ live' = live /\ inflight' = inflight
      /\ marker' = marker /\ copy' = copy /\ journal' = journal /\ staging' = staging
  BY DEF durable
<1>2. BackupGood(p)'
  BY <1>1 DEF PlaceGood, BackupGood, VerifiedBackup
<1>3. ChangeGood(p)'
  BY <1>1 DEF PlaceGood, ChangeGood, Synced, Pending
<1>4. RollbackGood(p)'
  BY <1>1 DEF PlaceGood, RollbackGood, PendingElsewhere, Rolling, Pending, Phase
<1>5. FinishGood(p)'
  BY <1>1 DEF PlaceGood, FinishGood, Rolling, Pending
<1> QED
  BY <1>2, <1>3, <1>4, <1>5 DEF PlaceGood

LEMMA PlacedBy ==
  ASSUME NEW h \in Helper, NEW p, helper'[h] = p, PlaceGood(p)'
  PROVE  PlaceGood(helper[h])'
BY DEF PlaceGood, BackupGood, ChangeGood, RollbackGood, FinishGood

LEMMA StoreStays ==
  ASSUME FInv, UNCHANGED <<selected, dest, live, durable>>, inflight' \subseteq inflight
  PROVE  Commands' /\ Trees' /\ MarkerGood' /\ DestGood' /\ SettledAgree'
<1>1. /\ selected' = selected /\ dest' = dest /\ live' = live
      /\ marker' = marker /\ copy' = copy /\ journal' = journal /\ staging' = staging
  BY DEF durable
<1>2. Commands'
  BY <1>1 DEF FInv, Commands, CommandGood, Rolling, Applying, Pending, Phase
<1>3. Trees'
  BY <1>1 DEF FInv, Trees, TreesGood, InPhase, VerifiedBackup, Phase, Rolling, Pending,
              StagingIntact, NewReady, OldKept
<1>4. MarkerGood' /\ DestGood' /\ SettledAgree'
  BY <1>1 DEF FInv, MarkerGood, DestGood, SettledAgree, Phase
<1> QED
  BY <1>2, <1>3, <1>4

(* A helper that moves and changes nothing else.                             *)
LEMMA HelperMoves ==
  ASSUME FInv, NEW h \in Helper, NEW p \in Process,
         Locked(h) \/ p.at \in Released,
         \/ (p.at # "idle" /\ p.txn = helper[h].txn /\ helper[h].txn # None /\ p.op = helper[h].op)
         \/ p = Idle,
         helper' = [helper EXCEPT ![h] = p],
         p.at \in Released \/ PlaceGood(p),
         p.at = "succeeded" => inflight = {},
         UNCHANGED <<selected, dest, live, durable, inflight>>,
         told' \in [Txn -> {"none", "ok", "failed", "unknown"}],
         mishaps' \in 0 .. MaxMishaps
  PROVE  FInv'
<1>1. /\ selected' = selected /\ dest' = dest /\ live' = live /\ inflight' = inflight
      /\ marker' = marker /\ copy' = copy /\ journal' = journal /\ staging' = staging
  BY DEF durable
<1>2. Commands' /\ Trees' /\ MarkerGood' /\ DestGood' /\ SettledAgree'
  BY <1>1, StoreStays DEF durable
<1>3. p.at \in Released \/ PlaceGood(p)'
  BY <1>1, StillPlaced DEF durable
<1>4. \A g \in Helper : PlaceGood(helper[g])
  BY DEF FInv, Helpers
<1>5. ASSUME NEW g \in Helper, g # h PROVE PlaceGood(helper[g])'
  <2> DEFINE q == helper[g]
  <2>1. helper'[g] = q
    BY <1>5 DEF FInv, TypeOK
  <2>2. PICK r : r = q
    OBVIOUS
  <2>3. PlaceGood(r)
    BY <2>2, <1>4
  <2>4. PlaceGood(r)'
    BY <2>3, <1>1, StillPlaced DEF durable
  <2> QED
    BY <2>1, <2>2, <2>4, PlacedBy
<1>6. /\ \A u \in Txn : u # helper[h].txn \/ p.op = "apply" => journal'[u] = journal[u]
      /\ \A c \in inflight' : c \in inflight \/ c.txn = helper[h].txn
      /\ p.at = "succeeded" => \A c \in inflight' : c.txn # p.txn
  BY <1>1
<1>7. helper' \in [Helper -> Process] /\ Alone' /\ Helpers'
  BY <1>3, <1>5, <1>6, HelperStep DEF FInv
<1> QED
  BY <1>1, <1>2, <1>7 DEF FInv, TypeOK

(* A call from its start to its answer.                                      *)
LEMMA Calling ==
  ASSUME FInv, NEW h \in Helper, helper[h].at # "idle"
  PROVE  /\ helper[h] \in Process /\ helper[h].txn \in Txn /\ helper[h].txn # None
         /\ CallGood(helper[h]) /\ BackupGood(helper[h]) /\ ChangeGood(helper[h])
         /\ RollbackGood(helper[h]) /\ FinishGood(helper[h])
         /\ helper \in [Helper -> Process]
<1>1. CallGood(helper[h]) /\ PlaceGood(helper[h])
  BY DEF FInv, Helpers
<1>2. helper \in [Helper -> Process] /\ helper[h] \in Process
  BY DEF FInv, TypeOK
<1> QED
  BY <1>1, <1>2, TargetFirewallAssumption DEF CallGood, PlaceGood

(* While no change or rollback is recorded as begun, nothing runs.           *)
LEMMA NothingBegun ==
  ASSUME FInv, marker = None \/ marker.phase \in {"backed_up", "apply_failed"}
  PROVE  inflight = {}
BY DEF FInv, Commands, CommandGood, Rolling, Applying, Pending

-----------------------------------------------------------------------------
(* The call *)

LEMMA Start_Inv ==
  ASSUME FInv, NEW h \in Helper, NEW t \in Txn, NEW op \in {"backup", "apply", "rollback"},
         NEW attested \in BOOLEAN, Start(h, t, op, attested)
  PROVE  FInv'
<1> DEFINE p == [Idle EXCEPT !.at = IF TargetFree THEN "entered" ELSE "failed",
                             !.txn = t, !.op = op, !.attested = attested]
<1>1. /\ helper[h].at = "idle" /\ helper' = [helper EXCEPT ![h] = p]
      /\ \A g \in Helper : helper[g].txn # t
      /\ attested => Quiet
      /\ op = "apply" => journal[t] = None
      /\ told' = [told EXCEPT ![t] = "none"] /\ mishaps' = mishaps
      /\ UNCHANGED <<selected, dest, live, durable, inflight>>
  BY DEF Start
<1>2. /\ p \in Process /\ p.txn = t /\ p.op = op /\ p.attested = attested
      /\ p.at = IF TargetFree THEN "entered" ELSE "failed"
  BY TargetFirewallAssumption DEF Process, Idle, Working, Released
<1> HIDE DEF p
<1>3. Commands' /\ Trees' /\ MarkerGood' /\ DestGood' /\ SettledAgree'
  BY <1>1, StoreStays DEF durable
<1>4. helper \in [Helper -> Process] /\ helper' \in [Helper -> Process]
  BY <1>1, <1>2 DEF FInv, TypeOK
<1>5. helper'[h] = p /\ \A g \in Helper : g # h => helper'[g] = helper[g]
  BY <1>1, <1>4
<1>6. TypeOK'
  BY <1>1, <1>4 DEF FInv, TypeOK, durable
<1>7. Alone'
  <2>1. \A g \in Helper : Locked(g)' => Locked(g) \/ (g = h /\ TargetFree)
    BY <1>2, <1>5 DEF Locked, Working, Waiting
  <2>2. \A g, k \in Helper : Locked(g)' /\ Locked(k)' => g = k
    BY <2>1 DEF FInv, Alone, TargetFree
  <2>3. \A g, k \in Helper : helper'[g].txn = helper'[k].txn /\ helper'[g].txn # None => g = k
    BY <1>1, <1>2, <1>5 DEF FInv, Alone
  <2> QED
    BY <2>2, <2>3 DEF Alone
<1>8. \A c \in inflight : attested => FALSE
  BY <1>1 DEF Quiet
<1>9. ASSUME NEW g \in Helper PROVE CallGood(helper[g])' /\ PlaceGood(helper[g])'
  <2>1. CASE g = h
    BY <1>1, <1>2, <1>5, <1>8, <2>1, TargetFirewallAssumption
       DEF CallGood, PlaceGood, BackupGood, ChangeGood, RollbackGood, FinishGood, Preparing,
           AtReload, durable
  <2>2. CASE g # h
    <3>1. PICK r : r = helper[g]
      OBVIOUS
    <3>2. CallGood(r) /\ PlaceGood(r)
      BY <3>1 DEF FInv, Helpers
    <3>3. PlaceGood(r)' /\ helper'[g] = r
      BY <3>1, <3>2, <1>1, <1>5, <2>2, StillPlaced
    <3>4. CallGood(helper[g])'
      BY <3>2, <3>3, <1>1 DEF CallGood, durable
    <3> QED
      BY <3>3, <3>4, PlacedBy
  <2> QED
    BY <2>1, <2>2
<1> QED
  BY <1>3, <1>6, <1>7, <1>9 DEF FInv, Helpers

LEMMA Refuse_Inv ==
  ASSUME FInv, NEW h \in Helper, Refuse(h)
  PROVE  FInv'
<1>1. PICK unknown \in BOOLEAN : helper' = Fail(h, unknown)
  BY DEF Refuse
<1>2. helper[h].at # "idle"
  BY DEF Refuse
<1>3. PICK p \in Process : /\ helper' = [helper EXCEPT ![h] = p]
                           /\ p.at = "failed" /\ p.txn = helper[h].txn /\ p.op = helper[h].op
  BY <1>1, <1>2, Calling, FailIs
<1> QED
  BY <1>2, <1>3, Calling, HelperMoves DEF Refuse, Released, FInv, TypeOK

LEMMA Answer_Inv ==
  ASSUME FInv, NEW h \in Helper, Answer(h)
  PROVE  FInv'
<1>1. /\ Idle \in Process /\ Idle.at \in Released /\ Idle.at # "succeeded"
  BY DEF Process, Idle, Released
<1>2. told' \in [Txn -> {"none", "ok", "failed", "unknown"}] /\ mishaps' \in 0 .. MaxMishaps
  BY DEF FInv, TypeOK, Answer
<1> QED
  BY <1>1, <1>2, HelperMoves DEF Answer

(* What was found out before the first write of a rollback.                  *)
LEMMA MayRollbackQuiet ==
  ASSUME FInv, NEW h \in Helper, MayRollback(h)
  PROVE  inflight = {} \/ Rolling(helper[h].txn)
<1> DEFINE t == helper[h].txn
<1>1. ~PendingElsewhere(t) /\ ~Unattested(h) /\ helper[h].at = "entered"
  BY DEF MayRollback, Entered
<1>2. CASE helper[h].attested
  BY <1>1, <1>2, Calling DEF RollbackGood
<1>3. CASE ~helper[h].attested
  <2>1. ~Pending(t, {"apply_intent", "apply_unknown"})
    BY <1>1, <1>3 DEF Unattested
  <2>2. marker = None \/ (marker.txn = t /\ marker \in Marker)
    BY <1>1 DEF PendingElsewhere, FInv, TypeOK
  <2>3. marker = None \/ marker.phase \in {"backed_up", "apply_failed"} \/ Rolling(t)
    BY <2>1, <2>2 DEF Pending, Rolling, Marker
  <2> QED
    BY <2>3, NothingBegun
<1> QED
  BY <1>2, <1>3

LEMMA ResumeJournal_Inv ==
  ASSUME FInv, NEW h \in Helper, ResumeJournal(h)
  PROVE  FInv'
<1>1. /\ helper[h].at = "entered" /\ helper[h].op = "rollback" /\ Locked(h)
      /\ ~PendingElsewhere(helper[h].txn) /\ journal[helper[h].txn] # None
  BY DEF ResumeJournal, MayRollback, Entered, Locked, Working
<1>2. inflight = {} \/ Rolling(helper[h].txn)
  BY MayRollbackQuiet DEF ResumeJournal
<1>3. PICK p \in Process :
         /\ helper' = [helper EXCEPT ![h] = p]
         /\ p.at = "marking" /\ p.txn = helper[h].txn /\ p.op = helper[h].op
         /\ p.attested = helper[h].attested
  BY <1>1, Calling, AtIs DEF ResumeJournal, Working
<1>4. PlaceGood(p)
  BY <1>1, <1>2, <1>3, Calling
     DEF PlaceGood, BackupGood, ChangeGood, RollbackGood, FinishGood, Preparing, AtReload
<1> QED
  BY <1>1, <1>3, <1>4, Calling, HelperMoves DEF ResumeJournal, FInv, TypeOK

LEMMA BackupIsThere_Inv ==
  ASSUME FInv, NEW h \in Helper, BackupIsThere(h)
  PROVE  FInv'
<1>1. helper[h].at = "entered" /\ Locked(h) /\ inflight = {}
  BY NothingBegun DEF BackupIsThere, Entered, Locked, Working, Pending
<1>2. PICK p \in Process :
         /\ helper' = [helper EXCEPT ![h] = p]
         /\ p.at = "succeeded" /\ p.txn = helper[h].txn /\ p.op = helper[h].op
  BY <1>1, Calling, AtIs DEF BackupIsThere, Released
<1> QED
  BY <1>1, <1>2, Calling, HelperMoves DEF BackupIsThere, FInv, TypeOK, Released

(* A change that finds nothing missing.                                      *)
LEMMA FinishChange ==
  ASSUME FInv, NEW h \in Helper, Locked(h), helper[h].at # "idle", helper[h].op = "apply",
         inflight = {}, dest # None, dest = live,
         marker = None \/ Pending(helper[h].txn, {"backed_up", "apply_intent"}),
         helper' = At(h, "finishing"),
         UNCHANGED <<selected, dest, live, durable, inflight, told, mishaps>>
  PROVE  FInv'
<1>1. PICK p \in Process :
         /\ helper' = [helper EXCEPT ![h] = p]
         /\ p.at = "finishing" /\ p.txn = helper[h].txn /\ p.op = helper[h].op
  BY Calling, AtIs DEF Working
<1>2. PlaceGood(p)
  BY <1>1 DEF PlaceGood, BackupGood, ChangeGood, RollbackGood, FinishGood, Preparing, AtReload
<1> QED
  BY <1>1, <1>2, Calling, HelperMoves DEF FInv, TypeOK

LEMMA NothingToChange_Inv ==
  ASSUME FInv, NEW h \in Helper, NothingToChange(h)
  PROVE  FInv'
<1>1. /\ helper[h].at = "entered" /\ helper[h].op = "apply" /\ Locked(h)
      /\ marker = None \/ Pending(helper[h].txn, {"backed_up"})
  BY DEF NothingToChange, MayApply, Entered, Locked, Working
<1>2. inflight = {} /\ dest # None /\ dest = live
  BY <1>1, NothingBegun DEF FInv, SettledAgree, Pending
<1>3. marker = None \/ Pending(helper[h].txn, {"backed_up", "apply_intent"})
  BY <1>1 DEF Pending
<1> QED
  BY <1>1, <1>2, <1>3, FinishChange DEF NothingToChange

LEMMA Changed_Inv ==
  ASSUME FInv, NEW h \in Helper, Changed(h)
  PROVE  FInv'
<1> DEFINE t == helper[h].txn
<1>1. helper[h].at = "changing" /\ Locked(h)
  BY DEF Changed, Locked, Working
<1>2. helper[h].op = "apply" /\ Pending(t, {"apply_intent"}) /\ inflight = {} /\ Synced(t)
  BY <1>1, Calling DEF ChangeGood
<1>3. \A k \in {1, 2} : dest # None /\ OnDisk(t, k) \subseteq dest /\ InKernel(t, k) \subseteq live
  BY DEF Changed, Missing
<1>4. dest # None /\ dest = live
  <2>1. CASE selected = "ufw"
    BY <1>2, <1>3, <2>1 DEF Synced
  <2>2. CASE selected # "ufw"
    <3>1. dest \ {<<t, 1>>} = live \ {<<t, 1>>}
      BY <1>2, <2>2 DEF Synced
    <3>2. <<t, 1>> \in dest
      BY <1>3, <2>2 DEF OnDisk
    <3>3. <<t, 1>> \in live
      BY <1>3, <2>2 DEF InKernel
    <3>4. dest \in Tree /\ live \in Tree
      BY <1>3 DEF FInv, TypeOK
    <3>5. dest = live
      BY <3>1, <3>2, <3>3
    <3> QED
      BY <1>3, <3>5
  <2> QED
    BY <2>1, <2>2
<1>5. marker = None \/ Pending(t, {"backed_up", "apply_intent"})
  BY <1>2 DEF Pending
<1> QED
  BY <1>1, <1>2, <1>4, <1>5, FinishChange DEF Changed

-----------------------------------------------------------------------------
(* Rollback *)

InRollback == {"resuming"} \cup Preparing \cup AtReload

(* From the record of its journal on, the marker names the rollback.         *)
LEMMA RollingFacts ==
  ASSUME FInv, NEW h \in Helper, helper[h].at \in InRollback,
         NEW t, t = helper[h].txn
  PROVE  /\ Locked(h) /\ helper[h] \in Process /\ helper \in [Helper -> Process]
         /\ helper[h].op = "rollback"
         /\ t \in Txn /\ t # None /\ Rolling(t) /\ TreesGood(t)
         /\ journal[t] # None /\ journal[t] \in Journal
         /\ copy[t] \in Tree /\ copy[t] # None /\ copy[t] # Partial
         /\ staging[t] \in Staging \cup {None}
         /\ journal[t].previous # None
         /\ Phase(t) \notin {"reload_intent", "reload_unknown"} => inflight = {}
<1>1. Locked(h) /\ helper[h].at # "idle"
  BY DEF InRollback, Preparing, AtReload, Locked, Working, Waiting
<1>2. /\ t \in Txn /\ t # None /\ Rolling(t) /\ journal[t] # None /\ helper[h].op = "rollback"
      /\ helper[h] \in Process /\ helper \in [Helper -> Process]
  BY <1>1, Calling DEF RollbackGood, InRollback
<1>3. /\ journal[t] \in Journal /\ staging[t] \in Staging \cup {None}
      /\ copy[t] \in Tree \cup {None, Partial}
  BY <1>2 DEF FInv, TypeOK
<1>4. TreesGood(t) /\ VerifiedBackup(t) /\ journal[t].previous # None
  BY <1>2 DEF FInv, Trees, TreesGood, InPhase
<1>5. Phase(t) \notin {"reload_intent", "reload_unknown"} => inflight = {}
  BY <1>2 DEF FInv, Commands, CommandGood, Rolling, Applying, Pending
<1> QED
  BY <1>1, <1>2, <1>3, <1>4, <1>5 DEF VerifiedBackup

(* A rollback that others wait for cannot disturb what is known of theirs.   *)
LEMMA Bystander ==
  ASSUME FInv, NEW t \in Txn, marker = None \/ marker.txn = t, marker' = None \/ marker'.txn = t,
         NEW u \in Txn, u # t,
         journal'[u] = journal[u], copy'[u] = copy[u]
  PROVE  TreesGood(u)'
<1>1. ~Rolling(u) /\ ~Rolling(u)'
  BY DEF Rolling, Pending
<1>2. TreesGood(u)
  BY DEF FInv, Trees
<1> QED
  BY <1>1, <1>2 DEF TreesGood, InPhase, VerifiedBackup, Phase, Moving, Reloading

(* A step of a rollback: it writes its journal, its staging directory or the *)
(* configuration, or waits for the reload.                                   *)
LEMMA RollbackStep ==
  ASSUME FInv, NEW h \in Helper, helper[h].at \in InRollback, NEW t, t = helper[h].txn,
         NEW p \in Process,
         \/ (p.at \notin {"idle", "succeeded"} /\ p.txn = t /\ p.op = "rollback")
         \/ p = Idle,
         helper' = [helper EXCEPT ![h] = p],
         p.at \in Released \/ PlaceGood(p)',
         NEW j \in Journal, journal' = [journal EXCEPT ![t] = j],
         NEW s \in Staging \cup {None}, staging' = [staging EXCEPT ![t] = s],
         dest' \in Tree \cup {None},
         dest' = None => j.phase \in Moving,
         \A c \in inflight' : c = [txn |-> t, cmd |-> 0] \/ c \in inflight,
         \A c, d \in inflight' : c = d,
         inflight' # {} => j.phase \in {"reload_intent", "reload_unknown"},
         TreesGood(t)',
         live' \in Tree, UNCHANGED <<selected, marker, copy, told>>, mishaps' \in 0 .. MaxMishaps
  PROVE  FInv'
<1>1. /\ Locked(h) /\ helper[h] \in Process /\ helper[h].op = "rollback"
      /\ t \in Txn /\ t # None /\ Rolling(t) /\ journal[t] # None
  BY RollingFacts
<1>2. /\ journal'[t] = j /\ j # None /\ staging'[t] = s
      /\ \A u \in Txn : u # t => journal'[u] = journal[u] /\ staging'[u] = staging[u]
  BY <1>1, AbsenceAssumption DEF FInv, TypeOK
<1>3. Rolling(t)' /\ marker.txn = t /\ marker.phase = "rollback" /\ marker # None
  BY <1>1 DEF Rolling, Pending
<1>4. \A c \in inflight : c.txn = t /\ c.cmd = 0
  BY <1>3 DEF FInv, Commands, CommandGood, Rolling, Applying, Pending
<1>5. \A c \in inflight' : c \in Command /\ c.txn = t /\ c.cmd = 0
  BY <1>1, <1>4 DEF Command, FInv, TypeOK
<1>6. Commands'
  BY <1>2, <1>3, <1>5 DEF Commands, CommandGood, Phase
<1>7. Trees'
  <2>1. ASSUME NEW u \in Txn, u # t PROVE TreesGood(u)'
    BY <1>1, <1>2, <1>3, <2>1, Bystander
  <2> QED
    BY <2>1 DEF Trees
<1>8. MarkerGood' /\ DestGood' /\ SettledAgree'
  BY <1>2, <1>3 DEF MarkerGood, DestGood, SettledAgree, Phase
<1>9. helper' \in [Helper -> Process] /\ Alone' /\ Helpers'
  <2>1. \A g \in Helper : g # h => ~Locked(g)
    BY <1>1 DEF FInv, Alone
  <2>2. \A u \in Txn : u # helper[h].txn \/ p.op = "apply" => journal'[u] = journal[u]
    BY <1>2 DEF Idle
  <2>3. p.at # "succeeded"
    BY DEF Idle
  <2> QED
    BY <1>1, <1>5, <2>1, <2>2, <2>3, HelperStep DEF FInv
<1>10. TypeOK'
  BY <1>1, <1>5, <1>9 DEF FInv, TypeOK
<1> QED
  BY <1>6, <1>7, <1>8, <1>9, <1>10 DEF FInv

(* The same of a step that leaves the kernel alone.                          *)
LEMMA RollingStep ==
  ASSUME FInv, NEW h \in Helper, helper[h].at \in InRollback, NEW t, t = helper[h].txn,
         NEW p \in Process,
         \/ (p.at \notin {"idle", "succeeded"} /\ p.txn = t /\ p.op = "rollback")
         \/ p = Idle,
         helper' = [helper EXCEPT ![h] = p],
         p.at \in Released \/ PlaceGood(p)',
         NEW j \in Journal, journal' = [journal EXCEPT ![t] = j],
         NEW s \in Staging \cup {None}, staging' = [staging EXCEPT ![t] = s],
         dest' \in Tree \cup {None},
         dest' = None => j.phase \in Moving,
         \A c \in inflight' : c = [txn |-> t, cmd |-> 0] \/ c \in inflight,
         \A c, d \in inflight' : c = d,
         inflight' # {} => j.phase \in {"reload_intent", "reload_unknown"},
         TreesGood(t)',
         UNCHANGED <<selected, live, marker, copy, told>>, mishaps' \in 0 .. MaxMishaps
  PROVE  FInv'
<1>1. live' \in Tree
  BY DEF FInv, TypeOK
<1> QED
  BY <1>1, RollbackStep

(* The three kinds of durable writes: what is written or not, and where the  *)
(* helper goes.                                                              *)
LEMMA Checkpointed ==
  ASSUME TypeOK, NEW h \in Helper, NEW t \in Txn, t = helper[h].txn, NEW entry, NEW next,
         Checkpoint(h, entry, next)
  PROVE  /\ \/ journal' = [journal EXCEPT ![t] = entry]
            \/ journal' = [journal EXCEPT ![t] = journal[t]]
         /\ (journal' = [journal EXCEPT ![t] = entry] /\ helper' = next) \/ helper' = Fail(h, FALSE)
         /\ mishaps' \in 0 .. MaxMishaps
<1>1. PICK write \in Writes :
         /\ journal' = IF write = "lost" THEN journal ELSE [journal EXCEPT ![t] = entry]
         /\ Write(h, write, next)
  BY DEF Checkpoint
<1>2. /\ mishaps' \in 0 .. MaxMishaps
      /\ (write = "done" /\ helper' = next) \/ helper' = Fail(h, FALSE)
  BY <1>1, WriteGoesOn
<1>3. journal = [journal EXCEPT ![t] = journal[t]]
  BY DEF TypeOK
<1>4. CASE write = "lost"
  BY <1>1, <1>2, <1>3, <1>4
<1>5. CASE write # "lost"
  BY <1>1, <1>2, <1>5
<1> QED
  BY <1>4, <1>5

LEMMA StagingChanged ==
  ASSUME TypeOK, NEW h \in Helper, NEW t \in Txn, t = helper[h].txn, NEW entry, NEW next,
         ChangeStaging(h, entry, next)
  PROVE  /\ \/ staging' = [staging EXCEPT ![t] = entry]
            \/ staging' = [staging EXCEPT ![t] = staging[t]]
         /\ (staging' = [staging EXCEPT ![t] = entry] /\ helper' = next) \/ helper' = Fail(h, FALSE)
         /\ mishaps' \in 0 .. MaxMishaps
<1>1. PICK write \in Writes :
         /\ staging' = IF write = "lost" THEN staging ELSE [staging EXCEPT ![t] = entry]
         /\ Write(h, write, next)
  BY DEF ChangeStaging
<1>2. /\ mishaps' \in 0 .. MaxMishaps
      /\ (write = "done" /\ helper' = next) \/ helper' = Fail(h, FALSE)
  BY <1>1, WriteGoesOn
<1>3. staging = [staging EXCEPT ![t] = staging[t]]
  BY DEF TypeOK
<1>4. CASE write = "lost"
  BY <1>1, <1>2, <1>3, <1>4
<1>5. CASE write # "lost"
  BY <1>1, <1>2, <1>5
<1> QED
  BY <1>4, <1>5

LEMMA Recorded ==
  ASSUME TypeOK, NEW h \in Helper, NEW value, NEW next, RecordActive(h, value, next)
  PROVE  /\ marker' \in {value, marker}
         /\ (marker' = value /\ helper' = next) \/ helper' = Fail(h, FALSE)
         /\ mishaps' \in 0 .. MaxMishaps
<1>1. PICK write \in Writes :
         /\ marker' = IF write = "lost" THEN marker ELSE value
         /\ Write(h, write, next)
  BY DEF RecordActive
<1> QED
  BY <1>1, WriteGoesOn

(* A step of a rollback that only writes its journal.                        *)
LEMMA RollingCheckpoint ==
  ASSUME FInv, NEW h \in Helper, helper[h].at \in InRollback, NEW t, t = helper[h].txn,
         NEW entry \in Journal, NEW next,
         Checkpoint(h, entry, next),
         UNCHANGED <<selected, dest, live, marker, copy, staging, inflight, told>>,
         dest = None => entry.phase \in Moving,
         inflight # {} => entry.phase \in {"reload_intent", "reload_unknown"},
         journal' = [journal EXCEPT ![t] = entry] => TreesGood(t)',
         \/ \E unknown \in BOOLEAN : next = Fail(h, unknown)
         \/ \E p \in Process :
               /\ next = [helper EXCEPT ![h] = p]
               /\ p.at \notin {"idle", "succeeded"} /\ p.txn = t /\ p.op = "rollback"
               /\ journal' = [journal EXCEPT ![t] = entry] => PlaceGood(p)'
  PROVE  FInv'
<1>1. /\ t \in Txn /\ journal[t] \in Journal /\ helper[h] \in Process /\ TreesGood(t)
      /\ staging[t] \in Staging \cup {None} /\ helper \in [Helper -> Process]
      /\ helper[h].op = "rollback" /\ Rolling(t) /\ journal[t] # None
  BY RollingFacts
<1>2. TypeOK /\ dest \in Tree \cup {None} /\ staging = [staging EXCEPT ![t] = staging[t]]
  BY <1>1 DEF FInv, TypeOK
<1>0. TypeOK /\ h \in Helper /\ t \in Txn /\ t = helper[h].txn /\ Checkpoint(h, entry, next)
  BY <1>1, <1>2
<1>3. PICK j \in {entry, journal[t]} :
         /\ journal' = [journal EXCEPT ![t] = j]
         /\ (j = entry /\ helper' = next) \/ helper' = Fail(h, FALSE)
         /\ mishaps' \in 0 .. MaxMishaps
  <2>1. /\ journal' = [journal EXCEPT ![t] = entry] \/ journal' = [journal EXCEPT ![t] = journal[t]]
        /\ (journal' = [journal EXCEPT ![t] = entry] /\ helper' = next) \/ helper' = Fail(h, FALSE)
        /\ mishaps' \in 0 .. MaxMishaps
    BY ONLY <1>0, Checkpointed
  <2> QED
    BY <2>1
<1>4. dest' = None => j.phase \in Moving
  BY <1>1, <1>3 DEF FInv, DestGood, Rolling, Pending, Phase
<1>5. \A c \in inflight' : c = [txn |-> t, cmd |-> 0] \/ c \in inflight
  OBVIOUS
<1>6. \A c, d \in inflight' : c = d
  BY DEF FInv, Commands
<1>7. inflight' # {} => j.phase \in {"reload_intent", "reload_unknown"}
  BY <1>3, RollingFacts DEF Phase
<1>8. TreesGood(t)'
  <2>1. CASE j = entry
    BY <1>3, <2>1
  <2>2. CASE j # entry
    <3>1. journal' = journal
      BY <1>3, <2>2 DEF FInv, TypeOK
    <3> QED
      BY <3>1, <1>1 DEF TreesGood, InPhase, VerifiedBackup, Phase, Rolling, Pending, StagingIntact,
                        NewReady, OldKept
  <2> QED
    BY <2>1, <2>2
<1>9. \E p \in Process :
         /\ \/ (p.at \notin {"idle", "succeeded"} /\ p.txn = t /\ p.op = "rollback")
            \/ p = Idle
         /\ helper' = [helper EXCEPT ![h] = p]
         /\ p.at \in Released \/ PlaceGood(p)'
  <2>1. ASSUME NEW unknown \in BOOLEAN, helper' = Fail(h, unknown)
        PROVE  \E p \in Process :
                  /\ p.at \notin {"idle", "succeeded"} /\ p.txn = t /\ p.op = "rollback"
                  /\ helper' = [helper EXCEPT ![h] = p]
                  /\ p.at \in Released
    BY <1>1, <2>1, FailIs DEF Released
  <2>2. CASE \E unknown \in BOOLEAN : helper' = Fail(h, unknown)
    BY <2>1, <2>2
  <2>3. CASE ~\E unknown \in BOOLEAN : helper' = Fail(h, unknown)
    <3>1. j = entry /\ helper' = next
      BY <1>3, <2>3
    <3> QED
      BY <1>3, <2>3, <3>1
  <2> QED
    BY <2>2, <2>3
<1>10. staging[t] \in Staging \cup {None} /\ dest' \in Tree \cup {None}
       /\ staging' = [staging EXCEPT ![t] = staging[t]] /\ mishaps' \in 0 .. MaxMishaps
       /\ journal' = [journal EXCEPT ![t] = j] /\ j \in Journal
  BY <1>1, <1>2, <1>3
<1>11. PICK p \in Process :
         /\ \/ (p.at \notin {"idle", "succeeded"} /\ p.txn = t /\ p.op = "rollback")
            \/ p = Idle
         /\ helper' = [helper EXCEPT ![h] = p]
         /\ p.at \in Released \/ PlaceGood(p)'
  BY <1>9
<1>12. UNCHANGED <<selected, live, marker, copy, told>>
  OBVIOUS
<1> QED
  BY <1>4, <1>5, <1>6, <1>7, <1>8, <1>10, <1>11, <1>12, RollingStep

LEMMA BeginJournal_Inv ==
  ASSUME FInv, NEW h \in Helper, BeginJournal(h)
  PROVE  FInv'
<1>1. PICK t : t = helper[h].txn
  OBVIOUS
<1> DEFINE entry == [phase |-> "preparing", previous |-> dest, cleanup |-> FALSE]
<1>2. /\ helper[h].at = "entered" /\ helper[h].op = "rollback" /\ Locked(h)
      /\ ~PendingElsewhere(t) /\ VerifiedBackup(t)
      /\ journal[t] = None /\ dest # None
      /\ UNCHANGED <<selected, dest, live, marker, copy, staging, inflight, told>>
      /\ Checkpoint(h, entry, At(h, "marking"))
  BY <1>1 DEF BeginJournal, MayRollback, Entered, Locked, Working
<1>3. /\ t \in Txn /\ helper[h] \in Process /\ RollbackGood(helper[h])
      /\ helper \in [Helper -> Process]
      /\ t # None
  BY <1>1, <1>2, Calling
<1>4. TypeOK /\ h \in Helper /\ t \in Txn /\ t = helper[h].txn
      /\ Checkpoint(h, entry, At(h, "marking"))
  BY <1>1, <1>2, <1>3 DEF FInv
<1> HIDE DEF entry
<1>5. /\ journal' = [journal EXCEPT ![t] = entry] \/ journal' = [journal EXCEPT ![t] = journal[t]]
      /\ \/ journal' = [journal EXCEPT ![t] = entry] /\ helper' = At(h, "marking")
         \/ helper' = Fail(h, FALSE)
      /\ mishaps' \in 0 .. MaxMishaps
  BY ONLY <1>4, Checkpointed
<1>6. entry \in Journal /\ entry # None /\ entry.phase = "preparing" /\ entry.previous = dest
  <2>1. dest \in Tree
    BY <1>2 DEF FInv, TypeOK
  <2>2. entry \in Journal /\ entry.phase = "preparing" /\ entry.previous = dest
    BY <2>1 DEF entry, Journal, ROLLBACK_PHASES
  <2> QED
    BY <2>2, AbsenceAssumption
<1>7. /\ journal' \in [Txn -> Journal \cup {None}]
      /\ journal'[t] = entry \/ journal'[t] = None
      /\ \A u \in Txn : u # t => journal'[u] = journal[u]
  BY <1>2, <1>3, <1>5, <1>6 DEF FInv, TypeOK
<1>8. inflight = {} \/ Rolling(t)
  BY <1>1, MayRollbackQuiet DEF BeginJournal
<1>9. ASSUME NEW c \in inflight PROVE c.txn # t \/ c.cmd # 0
  BY <1>2 DEF FInv, Commands, CommandGood
<1>10. Commands'
  BY <1>2, <1>7, <1>9
     DEF FInv, Commands, CommandGood, Rolling, Applying, Pending, Phase, TypeOK, Command
<1>11. Trees'
  <2>1. TreesGood(t)'
    BY <1>2, <1>6, <1>7 DEF TreesGood, InPhase, VerifiedBackup, Phase, Moving, Reloading
  <2>2. ASSUME NEW u \in Txn, u # t PROVE TreesGood(u)'
    <3>1. TreesGood(u)
      BY DEF FInv, Trees
    <3> QED
      BY <1>2, <1>7, <2>2, <3>1
         DEF TreesGood, InPhase, VerifiedBackup, Phase, Rolling, Pending, StagingIntact,
             NewReady, OldKept
  <2> QED
    BY <2>1, <2>2 DEF Trees
<1>12. MarkerGood'
  <2>1. marker # None => marker.txn \in Txn
    BY DEF FInv, TypeOK, Marker
  <2> QED
    BY <1>2, <1>6, <1>7, <2>1 DEF FInv, MarkerGood, Phase
<1>13. DestGood' /\ SettledAgree'
  BY <1>2 DEF FInv, DestGood, SettledAgree
<1>14. \E p \in Process :
          /\ helper' = [helper EXCEPT ![h] = p]
          /\ p.at # "idle" /\ p.txn = t /\ p.op = "rollback"
          /\ p.at = "failed" \/ (p.at = "marking" /\ p.attested = helper[h].attested
                                 /\ journal'[t] = entry)
  <2>1. CASE helper' = Fail(h, FALSE)
    BY <2>1, <1>1, <1>2, <1>3, FailIs
  <2>2. CASE helper' # Fail(h, FALSE)
    <3>1. helper' = At(h, "marking") /\ journal'[t] = entry
      BY <2>2, <1>3, <1>5 DEF FInv, TypeOK
    <3> QED
      BY <3>1, <1>1, <1>2, <1>3, AtIs DEF Working
  <2> QED
    BY <2>1, <2>2
<1>15. PICK p \in Process :
          /\ helper' = [helper EXCEPT ![h] = p]
          /\ p.at # "idle" /\ p.txn = t /\ p.op = "rollback"
          /\ p.at = "failed" \/ (p.at = "marking" /\ p.attested = helper[h].attested
                                 /\ journal'[t] = entry)
  BY <1>14
<1>16. p.at \in Released \/ PlaceGood(p)'
  <2>1. CASE p.at = "failed"
    BY <2>1 DEF Released
  <2>2. CASE p.at = "marking"
    BY <2>2, <1>2, <1>3, <1>6, <1>8, <1>15
       DEF PlaceGood, BackupGood, ChangeGood, RollbackGood, FinishGood, Preparing, AtReload,
           PendingElsewhere, Rolling, Pending
  <2> QED
    BY <2>1, <2>2, <1>15
<1>17. helper' \in [Helper -> Process] /\ Alone' /\ Helpers'
  <2>1. \A g \in Helper : g # h => ~Locked(g)
    BY <1>2 DEF FInv, Alone
  <2>2. TypeOK /\ Alone /\ Helpers /\ p.at # "succeeded" /\ p.op # "apply" /\ inflight' = inflight
    BY <1>2, <1>15 DEF FInv
  <2>3. helper[h].txn # None /\ p.at # "idle" /\ p.txn = helper[h].txn /\ p.op = helper[h].op
    BY <1>1, <1>2, <1>3, <1>15
  <2> QED
    BY <1>1, <1>2, <1>7, <1>15, <1>16, <2>1, <2>2, <2>3, HelperStep
<1>18. TypeOK'
  BY <1>2, <1>5, <1>7, <1>17 DEF FInv, TypeOK
<1> QED
  BY <1>10, <1>11, <1>12, <1>13, <1>17, <1>18 DEF FInv

(* The helper that holds the lock moves, and no journal is written.          *)
LEMMA SoleStep ==
  ASSUME FInv, NEW h \in Helper, Locked(h), helper[h].txn # None, NEW p \in Process,
         p.at # "idle", p.txn = helper[h].txn, p.op = helper[h].op,
         helper' = [helper EXCEPT ![h] = p],
         journal' = journal,
         \A c \in inflight' : c \in inflight \/ c.txn = helper[h].txn,
         p.at = "succeeded" => inflight' = {},
         p.at \in Released \/ PlaceGood(p)'
  PROVE  helper' \in [Helper -> Process] /\ Alone' /\ Helpers'
<1>1. \A g \in Helper : g # h => ~Locked(g)
  BY DEF FInv, Alone
<1>2. TypeOK /\ Alone /\ Helpers
  BY DEF FInv
<1>3. /\ \A u \in Txn : u # helper[h].txn \/ p.op = "apply" => journal'[u] = journal[u]
      /\ p.at = "succeeded" => \A c \in inflight' : c.txn # p.txn
  OBVIOUS
<1> QED
  BY <1>1, <1>2, <1>3, HelperStep

LEMMA MarkRollback_Inv ==
  ASSUME FInv, NEW h \in Helper, MarkRollback(h)
  PROVE  FInv'
<1>1. PICK t : t = helper[h].txn
  OBVIOUS
<1> DEFINE value == [txn |-> t, phase |-> "rollback"]
<1>2. /\ helper[h].at = "marking" /\ Locked(h)
      /\ UNCHANGED <<selected, dest, live, copy, journal, staging, inflight, told>>
      /\ RecordActive(h, value, At(h, "resuming"))
  BY <1>1 DEF MarkRollback, Locked, Working
<1>3. /\ t \in Txn /\ t # None /\ helper[h] \in Process /\ helper \in [Helper -> Process]
      /\ helper[h].op = "rollback" /\ journal[t] # None /\ ~PendingElsewhere(t)
      /\ inflight = {} \/ Rolling(t)
      /\ helper[h].attested => inflight = {}
  BY <1>1, <1>2, Calling DEF RollbackGood
<1>4. /\ marker' \in {value, marker}
      /\ (marker' = value /\ helper' = At(h, "resuming")) \/ helper' = Fail(h, FALSE)
      /\ mishaps' \in 0 .. MaxMishaps
  BY <1>2, Recorded DEF FInv
<1>5. value \in Marker /\ value # None /\ value.txn = t /\ value.phase = "rollback"
  <2>1. value \in Marker
    BY <1>3 DEF Marker
  <2> QED
    BY <2>1, AbsenceAssumption
<1> HIDE DEF value
<1>6. marker' # marker => ~Rolling(t) /\ marker' = value /\ inflight = {}
  <2>1. CASE Rolling(t)
    <3>1. marker \in Marker /\ marker.txn = t /\ marker.phase = "rollback"
      BY <2>1 DEF Rolling, Pending, FInv, TypeOK
    <3>2. marker = value
      BY <3>1, <1>5 DEF Marker
    <3> QED
      BY <3>2, <1>4
  <2>2. CASE ~Rolling(t)
    BY <2>2, <1>3, <1>4
  <2> QED
    BY <2>1, <2>2
<1>7. Commands' /\ Trees' /\ MarkerGood' /\ DestGood' /\ SettledAgree'
  <2>1. CASE marker' = marker
    BY <1>2, <2>1, StoreStays DEF durable
  <2>2. CASE marker' # marker
    <3>1. marker' = value /\ inflight' = {} /\ ~Rolling(t) /\ (marker = None \/ marker.txn = t)
      BY <1>2, <1>3, <1>6, <2>2 DEF PendingElsewhere
    <3>2. ~(marker # None /\ marker.phase = "rollback")
      BY <3>1 DEF Rolling, Pending
    <3>3. dest # None
      BY <3>2 DEF FInv, DestGood
    <3>4. Phase(t) \in {"preparing", "completed"}
      BY <1>3, <3>1 DEF FInv, Trees, TreesGood, InPhase
    <3>5. Phase(t) = "completed" => dest = live
      <4>1. CASE marker = None \/ marker.phase = "backed_up"
        BY <4>1 DEF FInv, SettledAgree
      <4>2. CASE marker # None /\ marker.phase # "backed_up"
        BY <4>2, <3>1, <3>2, <1>3 DEF FInv, MarkerGood
      <4> QED
        BY <4>1, <4>2
    <3>6. TreesGood(t)'
      BY <1>2, <1>3, <3>3, <3>4, <3>5
         DEF FInv, Trees, TreesGood, InPhase, VerifiedBackup, Phase, Moving, Reloading
    <3>7. ASSUME NEW u \in Txn, u # t PROVE TreesGood(u)'
      BY <1>2, <1>3, <1>5, <3>1, <3>7, Bystander
    <3>8. Commands'
      BY <3>1 DEF Commands
    <3>9. MarkerGood' /\ DestGood' /\ SettledAgree'
      BY <1>2, <1>3, <1>5, <3>1, <3>3 DEF MarkerGood, DestGood, SettledAgree
    <3> QED
      BY <3>6, <3>7, <3>8, <3>9 DEF Trees
  <2> QED
    BY <2>1, <2>2
<1>8. PICK p \in Process :
         /\ helper' = [helper EXCEPT ![h] = p]
         /\ p.txn = t /\ p.op = "rollback"
         /\ p.at = "failed" \/ (p.at = "resuming" /\ p.attested = helper[h].attested
                                /\ marker' = value)
  <2>1. helper' = At(h, "resuming") \/ helper' = Fail(h, FALSE)
    BY <1>4
  <2>2. helper \in [Helper -> Process] /\ h \in Helper
    BY <1>3
  <2>3. PICK p \in Process : GoesTo(h, p, "resuming")
    BY ONLY <2>1, <2>2, GoesOn DEF Working, Released
  <2> QED
    BY <2>3, <1>1, <1>3, <1>4 DEF GoesTo
<1>9. p.at \in Released \/ PlaceGood(p)'
  <2>1. CASE p.at = "failed"
    BY <2>1 DEF Released
  <2>2. CASE p.at = "resuming"
    BY <2>2, <1>2, <1>3, <1>5, <1>8
       DEF PlaceGood, BackupGood, ChangeGood, RollbackGood, FinishGood, Preparing, AtReload,
           Rolling, Pending
  <2> QED
    BY <2>1, <2>2, <1>8
<1>10. helper' \in [Helper -> Process] /\ Alone' /\ Helpers'
  BY <1>1, <1>2, <1>3, <1>8, <1>9, SoleStep
<1>11. TypeOK'
  BY <1>2, <1>4, <1>5, <1>10 DEF FInv, TypeOK
<1> QED
  BY <1>7, <1>10, <1>11 DEF FInv

LEMMA StopRollback_Inv ==
  ASSUME FInv, NEW h \in Helper, StopRollback(h)
  PROVE  FInv'
<1>1. PICK unknown \in BOOLEAN : helper' = Fail(h, unknown)
  BY DEF StopRollback
<1>2. helper[h].at = "resuming" /\ Locked(h)
  BY DEF StopRollback, Locked, Working
<1>3. PICK p \in Process : /\ helper' = [helper EXCEPT ![h] = p]
                           /\ p.at = "failed" /\ p.txn = helper[h].txn /\ p.op = helper[h].op
  BY <1>1, <1>2, Calling, FailIs
<1> QED
  BY <1>2, <1>3, Calling, HelperMoves DEF StopRollback, Released, FInv, TypeOK

LEMMA CleanedUp_Inv ==
  ASSUME FInv, NEW h \in Helper, CleanedUp(h)
  PROVE  FInv'
<1>1. PICK t : t = helper[h].txn
  OBVIOUS
<1>2. /\ helper[h].at = "resuming" /\ helper[h].at \in InRollback
      /\ Phase(t) = "completed" /\ Agrees(t) /\ staging[t] = None
  BY <1>1 DEF CleanedUp, Resumes, InRollback
<1>3. /\ Locked(h) /\ helper[h] \in Process /\ helper \in [Helper -> Process]
      /\ helper[h].op = "rollback" /\ t # None /\ Rolling(t) /\ TreesGood(t) /\ journal[t] # None
      /\ inflight = {}
  BY <1>1, <1>2, RollingFacts
<1>4. dest # None /\ dest = live /\ dest = copy[t]
  BY <1>2, <1>3 DEF TreesGood, InPhase, Agrees, LiveIsNew
<1>5. PICK p \in Process :
         /\ helper' = [helper EXCEPT ![h] = p]
         /\ p.at = "finishing" /\ p.txn = helper[h].txn /\ p.op = helper[h].op
  BY <1>3, AtIs DEF CleanedUp, Working
<1>6. PlaceGood(p)
  BY <1>1, <1>2, <1>3, <1>4, <1>5
     DEF PlaceGood, BackupGood, ChangeGood, RollbackGood, FinishGood, Preparing, AtReload
<1> QED
  BY <1>1, <1>3, <1>5, <1>6, HelperMoves DEF CleanedUp, FInv, TypeOK

(* A step of a rollback that only writes its staging directory.              *)
LEMMA RollingStaging ==
  ASSUME FInv, NEW h \in Helper, helper[h].at \in InRollback, NEW t, t = helper[h].txn,
         Phase(t) \in {"preparing", "completed"},
         NEW entry \in Staging \cup {None}, NEW next,
         ChangeStaging(h, entry, next),
         UNCHANGED <<selected, dest, live, marker, copy, journal, inflight, told>>,
         \E p \in Process :
            /\ next = [helper EXCEPT ![h] = p]
            /\ p.at \notin {"idle", "succeeded"} /\ p.txn = t /\ p.op = "rollback"
            /\ staging' = [staging EXCEPT ![t] = entry] => PlaceGood(p)'
  PROVE  FInv'
<1>1. /\ t \in Txn /\ journal[t] \in Journal /\ helper[h] \in Process /\ TreesGood(t)
      /\ staging[t] \in Staging \cup {None} /\ helper \in [Helper -> Process]
      /\ helper[h].op = "rollback" /\ Rolling(t) /\ journal[t] # None /\ inflight = {}
  BY RollingFacts
<1>2. TypeOK /\ dest \in Tree \cup {None} /\ journal = [journal EXCEPT ![t] = journal[t]]
  BY <1>1 DEF FInv, TypeOK
<1>3. TypeOK /\ h \in Helper /\ t \in Txn /\ t = helper[h].txn /\ ChangeStaging(h, entry, next)
  BY <1>1, <1>2
<1>4. /\ staging' = [staging EXCEPT ![t] = entry] \/ staging' = [staging EXCEPT ![t] = staging[t]]
      /\ (staging' = [staging EXCEPT ![t] = entry] /\ helper' = next) \/ helper' = Fail(h, FALSE)
      /\ mishaps' \in 0 .. MaxMishaps
  BY ONLY <1>3, StagingChanged
<1>5. PICK s \in Staging \cup {None} : staging' = [staging EXCEPT ![t] = s]
  BY <1>1, <1>4
<1>6. dest' # None
  BY <1>1 DEF FInv, DestGood, Rolling, Pending, Phase, Moving
<1>7. TreesGood(t)'
  BY <1>1 DEF TreesGood, InPhase, VerifiedBackup, Phase, Rolling, Pending, Moving, Reloading
<1>8. \E p \in Process :
         /\ p.at \notin {"idle", "succeeded"} /\ p.txn = t /\ p.op = "rollback"
         /\ helper' = [helper EXCEPT ![h] = p]
         /\ p.at \in Released \/ PlaceGood(p)'
  <2>1. CASE helper' = Fail(h, FALSE)
    <3>1. PICK p \in Process :
             /\ Fail(h, FALSE) = [helper EXCEPT ![h] = p]
             /\ p.at = "failed" /\ p.txn = helper[h].txn /\ p.op = helper[h].op
      BY <1>1, FailIs
    <3>2. p.at \in Released /\ p.at \notin {"idle", "succeeded"} /\ p.txn = t /\ p.op = "rollback"
      BY <1>1, <3>1 DEF Released
    <3> QED
      BY <2>1, <3>1, <3>2
  <2>2. CASE helper' # Fail(h, FALSE)
    BY <1>4, <2>2
  <2> QED
    BY <2>1, <2>2
<1>9. PICK p \in Process :
         /\ p.at \notin {"idle", "succeeded"} /\ p.txn = t /\ p.op = "rollback"
         /\ helper' = [helper EXCEPT ![h] = p]
         /\ p.at \in Released \/ PlaceGood(p)'
  BY <1>8
<1>10. /\ dest' \in Tree \cup {None} /\ journal' = [journal EXCEPT ![t] = journal[t]]
       /\ \A c, d \in inflight' : c = d
       /\ \A c \in inflight' : c = [txn |-> t, cmd |-> 0] \/ c \in inflight
       /\ inflight' = {}
  BY <1>1, <1>2
<1>11. mishaps' \in 0 .. MaxMishaps /\ UNCHANGED <<selected, live, marker, copy, told>>
  BY <1>4
<1> QED
  BY <1>1, <1>5, <1>6, <1>7, <1>9, <1>10, <1>11, RollingStep

LEMMA PrepareStaging_Inv ==
  ASSUME FInv, NEW h \in Helper, PrepareStaging(h)
  PROVE  FInv'
<1>1. PICK t : t = helper[h].txn
  OBVIOUS
<1> DEFINE entry == IF staging[t] = None THEN NewStaging ELSE [staging[t] EXCEPT !.etc = None]
<1>2. /\ helper[h].at = "resuming" /\ helper[h].at \in InRollback
      /\ Phase(t) = "preparing" /\ Agrees(t)
      /\ ChangeStaging(h, entry, At(h, "staged"))
      /\ UNCHANGED <<selected, dest, live, marker, copy, journal, inflight, told>>
  BY <1>1 DEF PrepareStaging, Resumes, InRollback
<1>3. /\ helper[h] \in Process /\ helper \in [Helper -> Process]
      /\ helper[h].op = "rollback" /\ t \in Txn /\ Rolling(t) /\ journal[t] # None
      /\ staging[t] \in Staging \cup {None} /\ journal[t].previous # None
  BY <1>1, <1>2, RollingFacts
<1>4. /\ dest = journal[t].previous
      /\ staging[t] # None => staging[t].previous = None
  BY <1>2 DEF Agrees, LiveIsOld, Rebuildable
<1>5. entry \in Staging /\ entry # None /\ entry.previous = None
  <2>1. CASE staging[t] = None
    <3>1. NewStaging \in Staging /\ NewStaging.previous = None
      BY DEF NewStaging, Staging
    <3> QED
      BY <2>1, <3>1, AbsenceAssumption
  <2>2. CASE staging[t] # None
    <3>1. staging[t] \in Staging /\ staging[t].previous = None
      BY <1>3, <1>4, <2>2
    <3>2. [staging[t] EXCEPT !.etc = None] \in Staging
      BY <3>1 DEF Staging
    <3>3. [staging[t] EXCEPT !.etc = None].previous = None
      BY <3>1 DEF Staging
    <3> QED
      BY <2>2, <3>2, <3>3, AbsenceAssumption
  <2> QED
    BY <2>1, <2>2
<1> HIDE DEF entry
<1>6. PICK p \in Process :
         /\ At(h, "staged") = [helper EXCEPT ![h] = p]
         /\ p.at = "staged" /\ p.txn = helper[h].txn /\ p.op = helper[h].op
         /\ p.attested = helper[h].attested
  BY <1>3, AtIs DEF Working
<1>7. ASSUME staging' = [staging EXCEPT ![t] = entry] PROVE PlaceGood(p)'
  <2>1. staging'[t] = entry
    BY <1>3, <1>7 DEF FInv, TypeOK
  <2>2. inflight = {}
    BY <1>1, <1>2, RollingFacts
  <2> QED
    BY <1>1, <1>2, <1>3, <1>4, <1>5, <1>6, <2>1, <2>2
       DEF PlaceGood, BackupGood, ChangeGood, RollbackGood, FinishGood, Preparing, AtReload,
           Rolling, Pending, Phase
<1>8. \E q \in Process :
         /\ At(h, "staged") = [helper EXCEPT ![h] = q]
         /\ q.at \notin {"idle", "succeeded"} /\ q.txn = t /\ q.op = "rollback"
         /\ staging' = [staging EXCEPT ![t] = entry] => PlaceGood(q)'
  BY <1>1, <1>3, <1>6, <1>7
<1>9. entry \in Staging \cup {None} /\ Phase(t) \in {"preparing", "completed"}
  BY <1>2, <1>5
<1> QED
  BY <1>1, <1>2, <1>8, <1>9, RollingStaging

LEMMA WriteOwner_Inv ==
  ASSUME FInv, NEW h \in Helper, WriteOwner(h)
  PROVE  FInv'
<1>1. PICK t : t = helper[h].txn
  OBVIOUS
<1> DEFINE entry == [staging[t] EXCEPT !.owned = TRUE]
<1>2. /\ helper[h].at = "staged" /\ helper[h].at \in InRollback
      /\ ChangeStaging(h, entry, At(h, "extracting"))
      /\ UNCHANGED <<selected, dest, live, marker, copy, journal, inflight, told>>
  BY <1>1 DEF WriteOwner, InRollback, Preparing
<1>3. /\ helper[h] \in Process /\ helper \in [Helper -> Process]
      /\ helper[h].op = "rollback" /\ t \in Txn /\ Rolling(t) /\ journal[t] # None
      /\ staging[t] \in Staging \cup {None}
      /\ Phase(t) \notin {"reload_intent", "reload_unknown"} => inflight = {}
  BY <1>1, <1>2, RollingFacts
<1>4. Phase(t) = "preparing" /\ dest # None /\ staging[t] # None /\ staging[t].previous = None
  BY <1>1, <1>2, Calling DEF RollbackGood, Preparing
<1>5. entry \in Staging /\ entry # None /\ entry.previous = None /\ entry.owned
  <2>1. staging[t] \in Staging
    BY <1>3, <1>4
  <2>2. entry \in Staging /\ entry.previous = None /\ entry.owned
    BY <1>4, <2>1 DEF Staging
  <2> QED
    BY <2>2, AbsenceAssumption
<1> HIDE DEF entry
<1>6. PICK p \in Process :
         /\ At(h, "extracting") = [helper EXCEPT ![h] = p]
         /\ p.at = "extracting" /\ p.txn = helper[h].txn /\ p.op = helper[h].op
         /\ p.attested = helper[h].attested
  BY <1>3, AtIs DEF Working
<1>7. ASSUME staging' = [staging EXCEPT ![t] = entry] PROVE PlaceGood(p)'
  <2>1. staging'[t] = entry
    BY <1>3, <1>7 DEF FInv, TypeOK
  <2> QED
    BY <1>1, <1>2, <1>3, <1>4, <1>5, <1>6, <2>1
       DEF PlaceGood, BackupGood, ChangeGood, RollbackGood, FinishGood, Preparing, AtReload,
           Rolling, Pending, Phase
<1>8. \E q \in Process :
         /\ At(h, "extracting") = [helper EXCEPT ![h] = q]
         /\ q.at \notin {"idle", "succeeded"} /\ q.txn = t /\ q.op = "rollback"
         /\ staging' = [staging EXCEPT ![t] = entry] => PlaceGood(q)'
  BY <1>1, <1>3, <1>6, <1>7
<1>9. entry \in Staging \cup {None} /\ Phase(t) \in {"preparing", "completed"}
  BY <1>4, <1>5
<1> QED
  BY <1>1, <1>2, <1>8, <1>9, RollingStaging

LEMMA Extract_Inv ==
  ASSUME FInv, NEW h \in Helper, Extract(h)
  PROVE  FInv'
<1>1. PICK t : t = helper[h].txn
  OBVIOUS
<1> DEFINE entry == [staging[t] EXCEPT !.etc = Partial]
<1>2. /\ helper[h].at = "extracting" /\ helper[h].at \in InRollback
      /\ ChangeStaging(h, entry, At(h, "extracted"))
      /\ UNCHANGED <<selected, dest, live, marker, copy, journal, inflight, told>>
  BY <1>1 DEF Extract, InRollback, Preparing
<1>3. /\ helper[h] \in Process /\ helper \in [Helper -> Process]
      /\ helper[h].op = "rollback" /\ t \in Txn /\ Rolling(t) /\ journal[t] # None
      /\ staging[t] \in Staging \cup {None}
      /\ Phase(t) \notin {"reload_intent", "reload_unknown"} => inflight = {}
  BY <1>1, <1>2, RollingFacts
<1>4. /\ Phase(t) = "preparing" /\ dest # None
      /\ staging[t] # None /\ staging[t].previous = None /\ staging[t].owned
  BY <1>1, <1>2, Calling DEF RollbackGood, Preparing
<1>5. entry \in Staging /\ entry # None /\ entry.previous = None /\ entry.owned
  <2>1. staging[t] \in Staging
    BY <1>3, <1>4
  <2>2. entry \in Staging /\ entry.previous = None /\ entry.owned
    BY <1>4, <2>1 DEF Staging
  <2> QED
    BY <2>2, AbsenceAssumption
<1> HIDE DEF entry
<1>6. PICK p \in Process :
         /\ At(h, "extracted") = [helper EXCEPT ![h] = p]
         /\ p.at = "extracted" /\ p.txn = helper[h].txn /\ p.op = helper[h].op
         /\ p.attested = helper[h].attested
  BY <1>3, AtIs DEF Working
<1>7. ASSUME staging' = [staging EXCEPT ![t] = entry] PROVE PlaceGood(p)'
  <2>1. staging'[t] = entry
    BY <1>3, <1>7 DEF FInv, TypeOK
  <2> QED
    BY <1>1, <1>2, <1>3, <1>4, <1>5, <1>6, <2>1
       DEF PlaceGood, BackupGood, ChangeGood, RollbackGood, FinishGood, Preparing, AtReload,
           Rolling, Pending, Phase
<1>8. \E q \in Process :
         /\ At(h, "extracted") = [helper EXCEPT ![h] = q]
         /\ q.at \notin {"idle", "succeeded"} /\ q.txn = t /\ q.op = "rollback"
         /\ staging' = [staging EXCEPT ![t] = entry] => PlaceGood(q)'
  BY <1>1, <1>3, <1>6, <1>7
<1>9. entry \in Staging \cup {None} /\ Phase(t) \in {"preparing", "completed"}
  BY <1>4, <1>5
<1> QED
  BY <1>1, <1>2, <1>8, <1>9, RollingStaging

LEMMA RemoveStaging_Inv ==
  ASSUME FInv, NEW h \in Helper, RemoveStaging(h)
  PROVE  FInv'
<1>1. PICK t : t = helper[h].txn
  OBVIOUS
<1>2. PICK left \in {NewStaging, None} : ChangeStaging(h, left, helper)
  BY DEF RemoveStaging
<1>3. /\ helper[h].at = "resuming" /\ helper[h].at \in InRollback /\ Phase(t) = "completed"
      /\ UNCHANGED <<selected, dest, live, marker, copy, journal, inflight, told>>
  BY <1>1 DEF RemoveStaging, Resumes, InRollback
<1>4. /\ helper[h] \in Process /\ helper \in [Helper -> Process]
      /\ helper[h].op = "rollback" /\ t \in Txn /\ Rolling(t) /\ journal[t] # None
      /\ inflight = {}
  BY <1>1, <1>3, RollingFacts
<1>5. left \in Staging \cup {None}
  <2>1. NewStaging \in Staging
    BY DEF NewStaging, Staging
  <2> QED
    BY <2>1
<1>6. PICK p \in Process : p = helper[h]
  BY <1>4
<1>7. PlaceGood(p)'
  BY <1>1, <1>3, <1>4, <1>6
     DEF PlaceGood, BackupGood, ChangeGood, RollbackGood, FinishGood, Preparing, AtReload,
         Rolling, Pending
<1>8. \E q \in Process :
         /\ helper = [helper EXCEPT ![h] = q]
         /\ q.at \notin {"idle", "succeeded"} /\ q.txn = t /\ q.op = "rollback"
         /\ staging' = [staging EXCEPT ![t] = left] => PlaceGood(q)'
  BY <1>1, <1>3, <1>4, <1>6, <1>7
<1>9. Phase(t) \in {"preparing", "completed"}
  BY <1>3
<1> QED
  BY <1>1, <1>2, <1>3, <1>5, <1>8, <1>9, RollingStaging

(* A step of a rollback that only moves its journal to another phase.        *)
LEMMA RollingPhase ==
  ASSUME FInv, NEW h \in Helper, helper[h].at \in InRollback, NEW t, t = helper[h].txn,
         NEW phase \in ROLLBACK_PHASES, NEW next,
         RollbackCheckpoint(h, phase, next),
         UNCHANGED <<selected, dest, live, marker, copy, staging, inflight, told>>,
         dest = None => phase \in Moving,
         inflight # {} => phase \in {"reload_intent", "reload_unknown"},
         InPhase(t, phase),
         \/ \E unknown \in BOOLEAN : next = Fail(h, unknown)
         \/ \E p \in Process :
               /\ next = [helper EXCEPT ![h] = p]
               /\ p.at \notin {"idle", "succeeded"} /\ p.txn = t /\ p.op = "rollback"
               /\ journal'[t].phase = phase /\ journal'[t] # None => PlaceGood(p)'
  PROVE  FInv'
<1> DEFINE entry == [journal[t] EXCEPT !.phase = phase]
<1>1. /\ t \in Txn /\ journal[t] \in Journal /\ Rolling(t) /\ TreesGood(t) /\ journal[t] # None
  BY RollingFacts
<1>2. /\ entry \in Journal /\ entry.phase = phase /\ entry.previous = journal[t].previous
  BY <1>1 DEF Journal
<1>3. Checkpoint(h, entry, next)
  BY DEF RollbackCheckpoint
<1> HIDE DEF entry
<1>4. entry # None
  BY <1>2, AbsenceAssumption
<1>5. ASSUME journal' = [journal EXCEPT ![t] = entry]
      PROVE  journal'[t] = entry /\ TreesGood(t)'
  <2>1. journal'[t] = entry
    BY <1>1, <1>5 DEF FInv, TypeOK
  <2> QED
    BY <1>1, <1>2, <2>1
       DEF TreesGood, InPhase, VerifiedBackup, Phase, Rolling, Pending, StagingIntact, NewReady,
           OldKept
<1>6. /\ dest = None => entry.phase \in Moving
      /\ inflight # {} => entry.phase \in {"reload_intent", "reload_unknown"}
      /\ journal' = [journal EXCEPT ![t] = entry] => TreesGood(t)'
      /\ \/ \E unknown \in BOOLEAN : next = Fail(h, unknown)
         \/ \E p \in Process :
               /\ next = [helper EXCEPT ![h] = p]
               /\ p.at \notin {"idle", "succeeded"} /\ p.txn = t /\ p.op = "rollback"
               /\ journal' = [journal EXCEPT ![t] = entry] => PlaceGood(p)'
  BY <1>2, <1>4, <1>5
<1> QED
  BY <1>2, <1>3, <1>6, RollingCheckpoint

LEMMA ToResuming ==
  ASSUME FInv, NEW h \in Helper, helper[h].at \in InRollback, NEW t, t = helper[h].txn,
         inflight = {}, UNCHANGED <<marker, inflight>>
  PROVE  \E p \in Process :
            /\ At(h, "resuming") = [helper EXCEPT ![h] = p]
            /\ p.at \notin {"idle", "succeeded"} /\ p.txn = t /\ p.op = "rollback"
            /\ journal'[t] # None => PlaceGood(p)'
<1>1. /\ helper \in [Helper -> Process] /\ helper[h].op = "rollback" /\ Rolling(t)
  BY RollingFacts
<1>2. PICK p \in Process :
         /\ At(h, "resuming") = [helper EXCEPT ![h] = p]
         /\ p.at = "resuming" /\ p.txn = helper[h].txn /\ p.op = helper[h].op
  BY <1>1, AtIs DEF Working
<1>3. journal'[t] # None => PlaceGood(p)'
  BY <1>1, <1>2
     DEF PlaceGood, BackupGood, ChangeGood, RollbackGood, FinishGood, Preparing, AtReload,
         Rolling, Pending
<1> QED
  BY <1>1, <1>2, <1>3

LEMMA Proceed_Inv ==
  ASSUME FInv, NEW h \in Helper, Proceed(h)
  PROVE  FInv'
<1>1. PICK t : t = helper[h].txn
  OBVIOUS
<1>2. /\ helper[h].at = "resuming" /\ helper[h].at \in InRollback
      /\ Agrees(t) /\ ~StillToRename(t)
      /\ UNCHANGED <<selected, dest, live, marker, copy, staging, inflight, told>>
  BY <1>1 DEF Proceed, Resumes, InRollback
<1>3. PICK following \in ROLLBACK_PHASES :
         /\ <<Phase(t), following>> \in NextPhase
         /\ RollbackCheckpoint(h, following, At(h, "resuming"))
  BY <1>1 DEF Proceed
<1>4. /\ t \in Txn /\ Rolling(t) /\ TreesGood(t) /\ journal[t] # None
      /\ copy[t] # None /\ journal[t].previous # None
      /\ Phase(t) \notin {"reload_intent", "reload_unknown"} => inflight = {}
  BY <1>1, <1>2, RollingFacts
<1>5. inflight = {}
  BY <1>3, <1>4 DEF NextPhase
<1>6. InPhase(t, Phase(t))
  BY <1>4 DEF TreesGood
<1>7. InPhase(t, following) /\ (dest = None => following \in Moving)
  <2>1. CASE Phase(t) = "prepared"
    <3>1. following = "move_old_intent"
      BY <1>3, <2>1 DEF NextPhase
    <3> QED
      BY <1>2, <1>4, <1>6, <2>1, <3>1 DEF InPhase, Agrees, LiveIsOld, Reloading, Moving
  <2>2. CASE Phase(t) = "move_old_intent"
    <3>1. following = "old_saved"
      BY <1>3, <2>2 DEF NextPhase
    <3> QED
      BY <1>2, <1>4, <1>6, <2>2, <3>1 DEF InPhase, Agrees, StillToRename, Reloading, Moving
  <2>3. CASE Phase(t) = "old_saved"
    <3>1. following = "install_intent"
      BY <1>3, <2>3 DEF NextPhase
    <3> QED
      BY <1>2, <1>4, <1>6, <2>3, <3>1 DEF InPhase, Agrees, NewReady, Reloading, Moving
  <2>4. CASE Phase(t) = "install_intent"
    <3>1. following = "installed"
      BY <1>3, <2>4 DEF NextPhase
    <3> QED
      BY <1>2, <1>4, <1>6, <2>4, <3>1
         DEF InPhase, Agrees, StillToRename, LiveIsNew, Reloading, Moving
  <2>5. CASE Phase(t) = "reload_completed"
    <3>1. following = "completed"
      BY <1>3, <2>5 DEF NextPhase
    <3> QED
      BY <1>4, <1>6, <2>5, <3>1 DEF InPhase, Reloading, Moving
  <2> QED
    BY <1>3, <2>1, <2>2, <2>3, <2>4, <2>5 DEF NextPhase
<1>8. \E p \in Process :
         /\ At(h, "resuming") = [helper EXCEPT ![h] = p]
         /\ p.at \notin {"idle", "succeeded"} /\ p.txn = t /\ p.op = "rollback"
         /\ journal'[t].phase = following /\ journal'[t] # None => PlaceGood(p)'
  BY <1>1, <1>2, <1>5, ToResuming
<1> QED
  BY <1>1, <1>2, <1>3, <1>5, <1>7, <1>8, RollingPhase

LEMMA ReloadAgain_Inv ==
  ASSUME FInv, NEW h \in Helper, ReloadAgain(h)
  PROVE  FInv'
<1>1. PICK t : t = helper[h].txn
  OBVIOUS
<1>2. /\ helper[h].at = "resuming" /\ helper[h].at \in InRollback /\ Locked(h)
      /\ Phase(t) \in {"reload_intent", "reload_unknown"}
      /\ UNCHANGED <<selected, dest, live, marker, copy, staging, inflight, told>>
  BY <1>1 DEF ReloadAgain, Resumes, InRollback, Locked, Working
<1>3. CASE helper[h].attested
  <2>1. RollbackCheckpoint(h, "installed", At(h, "resuming"))
    BY <1>3 DEF ReloadAgain
  <2>2. inflight = {}
    BY <1>2, <1>3, Calling DEF RollbackGood
  <2>3. TreesGood(t) /\ journal[t] # None
    BY <1>1, <1>2, RollingFacts
  <2>4. InPhase(t, "installed") /\ dest # None
    BY <1>2, <2>3 DEF TreesGood, InPhase, Reloading
  <2>5. \E p \in Process :
           /\ At(h, "resuming") = [helper EXCEPT ![h] = p]
           /\ p.at \notin {"idle", "succeeded"} /\ p.txn = t /\ p.op = "rollback"
           /\ journal'[t].phase = "installed" /\ journal'[t] # None => PlaceGood(p)'
    BY <1>1, <1>2, <2>2, ToResuming
  <2>6. "installed" \in ROLLBACK_PHASES
    BY DEF ROLLBACK_PHASES, Reloading
  <2> QED
    BY <1>1, <1>2, <2>1, <2>2, <2>4, <2>5, <2>6, RollingPhase
<1>4. CASE ~helper[h].attested
  <2>1. helper' = Fail(h, TRUE) /\ UNCHANGED <<journal, mishaps>>
    BY <1>4 DEF ReloadAgain
  <2>2. PICK p \in Process : /\ helper' = [helper EXCEPT ![h] = p]
                             /\ p.at = "failed" /\ p.txn = helper[h].txn /\ p.op = helper[h].op
    BY <1>2, <2>1, Calling, FailIs
  <2> QED
    BY <1>2, <2>1, <2>2, Calling, HelperMoves DEF Released, FInv, TypeOK, durable
<1> QED
  BY <1>3, <1>4

LEMMA ReloadIntent_Inv ==
  ASSUME FInv, NEW h \in Helper, ReloadIntent(h)
  PROVE  FInv'
<1>1. PICK t : t = helper[h].txn
  OBVIOUS
<1>2. /\ helper[h].at = "resuming" /\ helper[h].at \in InRollback
      /\ Phase(t) \in {"installed", "reload_failed"} /\ Agrees(t)
      /\ RollbackCheckpoint(h, "reload_intent", At(h, "reload"))
      /\ UNCHANGED <<selected, dest, live, marker, copy, staging, inflight, told>>
  BY <1>1 DEF ReloadIntent, Resumes, InRollback
<1>3. /\ TreesGood(t) /\ journal[t] # None /\ inflight = {} /\ Rolling(t)
      /\ helper \in [Helper -> Process] /\ helper[h].op = "rollback"
  BY <1>1, <1>2, RollingFacts
<1>4. InPhase(t, "reload_intent") /\ dest # None /\ dest = copy[t]
  BY <1>2, <1>3 DEF TreesGood, InPhase, Reloading, Agrees, LiveIsNew
<1>5. PICK p \in Process :
         /\ At(h, "reload") = [helper EXCEPT ![h] = p]
         /\ p.at = "reload" /\ p.txn = helper[h].txn /\ p.op = helper[h].op
  BY <1>3, AtIs DEF Working
<1>6. journal'[t].phase = "reload_intent" /\ journal'[t] # None => PlaceGood(p)'
  BY <1>1, <1>2, <1>3, <1>4, <1>5
     DEF PlaceGood, BackupGood, ChangeGood, RollbackGood, FinishGood, Preparing, AtReload,
         Rolling, Pending, Phase
<1>7. \E q \in Process :
         /\ At(h, "reload") = [helper EXCEPT ![h] = q]
         /\ q.at \notin {"idle", "succeeded"} /\ q.txn = t /\ q.op = "rollback"
         /\ journal'[t].phase = "reload_intent" /\ journal'[t] # None => PlaceGood(q)'
  BY <1>1, <1>3, <1>5, <1>6
<1>8. "reload_intent" \in ROLLBACK_PHASES
  BY DEF ROLLBACK_PHASES, Reloading
<1> QED
  BY <1>1, <1>2, <1>3, <1>4, <1>7, <1>8, RollingPhase

LEMMA Reloaded_Inv ==
  ASSUME FInv, NEW h \in Helper, Reloaded(h)
  PROVE  FInv'
<1>1. PICK t : t = helper[h].txn
  OBVIOUS
<1>2. /\ helper[h].at = "reloaded" /\ helper[h].at \in InRollback
      /\ UNCHANGED <<selected, dest, live, marker, copy, staging, inflight, told>>
  BY <1>1 DEF Reloaded, InRollback, AtReload
<1>3. /\ TreesGood(t) /\ journal[t] # None /\ Rolling(t) /\ copy[t] # None
      /\ Locked(h) /\ helper \in [Helper -> Process] /\ helper[h].op = "rollback"
  BY <1>1, <1>2, RollingFacts
<1>4. /\ inflight = {} /\ dest = live /\ dest = copy[t] /\ Phase(t) = "reload_intent"
  BY <1>1, <1>2, Calling DEF RollbackGood, AtReload
<1>5. RollbackCheckpoint(h, "reload_completed", At(h, "resuming"))
  BY <1>1, <1>4 DEF Reloaded, LiveIsNew
<1>6. InPhase(t, "reload_completed") /\ dest # None
  BY <1>3, <1>4 DEF TreesGood, InPhase, Reloading
<1>7. \E p \in Process :
         /\ At(h, "resuming") = [helper EXCEPT ![h] = p]
         /\ p.at \notin {"idle", "succeeded"} /\ p.txn = t /\ p.op = "rollback"
         /\ journal'[t].phase = "reload_completed" /\ journal'[t] # None => PlaceGood(p)'
  BY <1>1, <1>2, <1>4, ToResuming
<1>8. "reload_completed" \in ROLLBACK_PHASES
  BY DEF ROLLBACK_PHASES, Reloading
<1> QED
  BY <1>1, <1>2, <1>4, <1>5, <1>6, <1>7, <1>8, RollingPhase

LEMMA NotReloaded_Inv ==
  ASSUME FInv, NEW h \in Helper, NotReloaded(h)
  PROVE  FInv'
<1>1. PICK t : t = helper[h].txn
  OBVIOUS
<1> DEFINE phase == IF helper[h].unknown THEN "reload_unknown" ELSE "reload_failed"
<1>2. /\ helper[h].at = "notReloaded" /\ helper[h].at \in InRollback
      /\ RollbackCheckpoint(h, phase, Fail(h, helper[h].unknown))
      /\ UNCHANGED <<selected, dest, live, marker, copy, staging, inflight, told>>
  BY <1>1 DEF NotReloaded, InRollback, AtReload
<1>3. /\ TreesGood(t) /\ journal[t] # None /\ copy[t] # None /\ helper[h] \in Process
  BY <1>1, <1>2, RollingFacts
<1>4. /\ helper[h].unknown \/ inflight = {}
      /\ dest = copy[t] /\ Phase(t) = "reload_intent"
  BY <1>1, <1>2, Calling DEF RollbackGood, AtReload
<1>5. /\ phase \in {"reload_unknown", "reload_failed"}
      /\ inflight # {} => phase \in {"reload_intent", "reload_unknown"}
  BY <1>4
<1> HIDE DEF phase
<1>6. InPhase(t, phase) /\ dest # None
  BY <1>3, <1>4, <1>5 DEF TreesGood, InPhase, Reloading
<1>7. phase \in ROLLBACK_PHASES
  BY <1>5 DEF ROLLBACK_PHASES, Reloading
<1>8. \E unknown \in BOOLEAN : Fail(h, helper[h].unknown) = Fail(h, unknown)
  BY <1>3 DEF Process
<1> QED
  BY <1>1, <1>2, <1>5, <1>6, <1>7, <1>8, RollingPhase

LEMMA BeginCleanup_Inv ==
  ASSUME FInv, NEW h \in Helper, BeginCleanup(h)
  PROVE  FInv'
<1>1. PICK t : t = helper[h].txn
  OBVIOUS
<1> DEFINE entry == [journal[t] EXCEPT !.cleanup = TRUE]
<1>2. /\ helper[h].at = "resuming" /\ helper[h].at \in InRollback /\ Phase(t) = "completed"
      /\ Checkpoint(h, entry, At(h, "resuming"))
      /\ UNCHANGED <<selected, dest, live, marker, copy, staging, inflight, told>>
  BY <1>1 DEF BeginCleanup, Resumes, InRollback
<1>3. /\ t \in Txn /\ TreesGood(t) /\ journal[t] # None /\ journal[t] \in Journal /\ inflight = {}
      /\ Rolling(t)
  BY <1>1, <1>2, RollingFacts
<1>4. /\ entry \in Journal /\ entry.phase = journal[t].phase
      /\ entry.previous = journal[t].previous
  BY <1>3 DEF Journal
<1> HIDE DEF entry
<1>5. entry # None
  BY <1>4, AbsenceAssumption
<1>6. ASSUME journal' = [journal EXCEPT ![t] = entry]
      PROVE  journal'[t] # None /\ TreesGood(t)'
  <2>1. journal'[t] = entry
    BY <1>3, <1>6 DEF FInv, TypeOK
  <2> QED
    BY <1>2, <1>3, <1>4, <1>5, <2>1
       DEF TreesGood, InPhase, VerifiedBackup, Phase, Rolling, Pending, Moving, Reloading
<1>7. dest # None
  BY <1>2, <1>3 DEF TreesGood, InPhase
<1>8. \E p \in Process :
         /\ At(h, "resuming") = [helper EXCEPT ![h] = p]
         /\ p.at \notin {"idle", "succeeded"} /\ p.txn = t /\ p.op = "rollback"
         /\ journal'[t] # None => PlaceGood(p)'
  BY <1>1, <1>2, <1>3, ToResuming
<1>9. \E p \in Process :
         /\ At(h, "resuming") = [helper EXCEPT ![h] = p]
         /\ p.at \notin {"idle", "succeeded"} /\ p.txn = t /\ p.op = "rollback"
         /\ journal' = [journal EXCEPT ![t] = entry] => PlaceGood(p)'
  BY <1>6, <1>8
<1> QED
  BY <1>1, <1>2, <1>3, <1>4, <1>6, <1>7, <1>9, RollingCheckpoint

LEMMA Reload_Inv ==
  ASSUME FInv, NEW h \in Helper, Reload(h)
  PROVE  FInv'
<1>1. PICK t : t = helper[h].txn
  OBVIOUS
<1> DEFINE c == [txn |-> t, cmd |-> 0]
<1>2. /\ helper[h].at = "reload" /\ helper[h].at \in InRollback
      /\ inflight' = inflight \cup {c} /\ helper' = At(h, "reloading")
      /\ UNCHANGED <<selected, dest, live, durable, told, mishaps>>
  BY <1>1 DEF Reload, Submit, InRollback, AtReload
<1>3. /\ TreesGood(t) /\ journal[t] # None /\ Rolling(t) /\ copy[t] # None /\ t \in Txn
      /\ Locked(h) /\ helper \in [Helper -> Process] /\ helper[h].op = "rollback"
      /\ journal[t] \in Journal /\ staging[t] \in Staging \cup {None}
  BY <1>1, <1>2, RollingFacts
<1>4. inflight = {} /\ dest = copy[t] /\ Phase(t) = "reload_intent"
  BY <1>1, <1>2, Calling DEF RollbackGood, AtReload
<1>5. /\ selected' = selected /\ dest' = dest /\ live' = live /\ told' = told
      /\ marker' = marker /\ copy' = copy /\ journal' = journal /\ staging' = staging
      /\ mishaps' \in 0 .. MaxMishaps
  BY <1>2 DEF durable, FInv, TypeOK
<1>6. PICK p \in Process :
         /\ helper' = [helper EXCEPT ![h] = p]
         /\ p.at = "reloading" /\ p.txn = helper[h].txn /\ p.op = helper[h].op
  BY <1>2, <1>3, AtIs DEF Working, Waiting
<1>7. PlaceGood(p)'
  BY <1>1, <1>2, <1>3, <1>4, <1>5, <1>6
     DEF PlaceGood, BackupGood, ChangeGood, RollbackGood, FinishGood, Preparing, AtReload,
         Rolling, Pending, Phase
<1>8. TreesGood(t)'
  BY <1>3, <1>5
     DEF TreesGood, InPhase, VerifiedBackup, Phase, Rolling, Pending, StagingIntact, NewReady,
         OldKept
<1>9. /\ journal' = [journal EXCEPT ![t] = journal[t]]
      /\ staging' = [staging EXCEPT ![t] = staging[t]]
      /\ dest' \in Tree \cup {None} /\ dest' # None
  BY <1>3, <1>4, <1>5 DEF FInv, TypeOK
<1>10. /\ \A d \in inflight' : d = [txn |-> t, cmd |-> 0] \/ d \in inflight
       /\ \A d, e \in inflight' : d = e
       /\ journal[t].phase \in {"reload_intent", "reload_unknown"}
  BY <1>2, <1>4 DEF Phase
<1>11. p.at \notin {"idle", "succeeded"} /\ p.txn = t /\ p.op = "rollback"
  BY <1>1, <1>3, <1>6
<1> QED
  BY <1>1, <1>2, <1>3, <1>5, <1>6, <1>7, <1>8, <1>9, <1>10, <1>11, RollingStep

LEMMA Prepared_Inv ==
  ASSUME FInv, NEW h \in Helper, Prepared(h)
  PROVE  FInv'
<1>1. PICK t : t = helper[h].txn
  OBVIOUS
<1>2. /\ helper[h].at = "extracted" /\ helper[h].at \in InRollback
      /\ UNCHANGED <<selected, dest, live, marker, copy, inflight, told>>
  BY <1>1 DEF Prepared, InRollback, Preparing
<1>3. /\ TreesGood(t) /\ journal[t] # None /\ Rolling(t) /\ copy[t] # None /\ t \in Txn
      /\ copy[t] \in Tree
      /\ Locked(h) /\ helper \in [Helper -> Process] /\ helper[h].op = "rollback"
      /\ journal[t] \in Journal /\ staging[t] \in Staging \cup {None}
      /\ Phase(t) \notin {"reload_intent", "reload_unknown"} => inflight = {}
  BY <1>1, <1>2, RollingFacts
<1>4. /\ Phase(t) = "preparing" /\ dest # None /\ inflight = {}
      /\ staging[t] # None /\ staging[t].previous = None /\ staging[t].owned
  BY <1>1, <1>2, <1>3, Calling DEF RollbackGood, Preparing
<1>5. CASE LiveIsOld(t)
  <2> DEFINE s     == [staging[t] EXCEPT !.etc = copy[t]]
             entry == [journal[t] EXCEPT !.phase = "prepared"]
  <2>1. /\ staging' = [staging EXCEPT ![t] = s]
        /\ Checkpoint(h, entry, At(h, "resuming"))
    <3>1. /\ staging' = [staging EXCEPT ![t].etc = copy[t]]
          /\ RollbackCheckpoint(h, "prepared", At(h, "resuming"))
      BY <1>1, <1>2, <1>5 DEF Prepared
    <3> QED
      BY <1>1, <3>1 DEF RollbackCheckpoint
  <2>2. s \in Staging /\ s.etc = copy[t] /\ s.previous = None /\ s.owned
    <3>1. staging[t] \in Staging
      BY <1>3, <1>4
    <3> QED
      BY <1>3, <1>4, <3>1 DEF Staging
  <2>3. entry \in Journal /\ entry.phase = "prepared" /\ entry.previous = journal[t].previous
    BY <1>3 DEF Journal, ROLLBACK_PHASES
  <2> HIDE DEF s, entry
  <2>4. s # None /\ entry # None
    BY <2>2, <2>3, AbsenceAssumption
  <2>5. TypeOK /\ h \in Helper /\ t \in Txn /\ t = helper[h].txn
        /\ Checkpoint(h, entry, At(h, "resuming"))
    BY <1>1, <1>3, <2>1 DEF FInv
  <2>6. /\ journal' = [journal EXCEPT ![t] = entry] \/ journal' = [journal EXCEPT ![t] = journal[t]]
        /\ \/ journal' = [journal EXCEPT ![t] = entry] /\ helper' = At(h, "resuming")
           \/ helper' = Fail(h, FALSE)
        /\ mishaps' \in 0 .. MaxMishaps
    BY ONLY <2>5, Checkpointed
  <2>7. PICK j \in Journal : /\ journal' = [journal EXCEPT ![t] = j]
                             /\ j.phase \in {"preparing", "prepared"}
                             /\ j.previous = journal[t].previous
    BY <1>3, <1>4, <2>3, <2>6 DEF Phase
  <2>8. journal'[t] = j /\ staging'[t] = s
    BY <1>3, <2>1, <2>7 DEF FInv, TypeOK
  <2>9. TreesGood(t)'
    BY <1>2, <1>3, <1>4, <2>2, <2>4, <2>7, <2>8
       DEF TreesGood, InPhase, VerifiedBackup, Phase, Rolling, Pending, StagingIntact, NewReady,
           OldKept, Moving, Reloading
  <2>10. j # None
    BY AbsenceAssumption
  <2>11. \E p \in Process :
            /\ helper' = [helper EXCEPT ![h] = p]
            /\ p.at \notin {"idle", "succeeded"} /\ p.txn = t /\ p.op = "rollback"
            /\ p.at \in Released \/ PlaceGood(p)'
    <3>1. CASE helper' = Fail(h, FALSE)
      <4>1. PICK p \in Process :
               /\ Fail(h, FALSE) = [helper EXCEPT ![h] = p]
               /\ p.at = "failed" /\ p.txn = helper[h].txn /\ p.op = helper[h].op
        BY <1>3, FailIs
      <4>2. p.at \in Released /\ p.at \notin {"idle", "succeeded"}
        BY <4>1 DEF Released
      <4> QED
        BY <1>1, <1>3, <3>1, <4>1, <4>2
    <3>2. CASE helper' # Fail(h, FALSE)
      <4>1. helper' = At(h, "resuming") /\ journal'[t] # None
        BY <2>6, <2>8, <2>10, <3>2
      <4>2. PICK p \in Process :
               /\ At(h, "resuming") = [helper EXCEPT ![h] = p]
               /\ p.at \notin {"idle", "succeeded"} /\ p.txn = t /\ p.op = "rollback"
               /\ journal'[t] # None => PlaceGood(p)'
        BY <1>1, <1>2, <1>4, ToResuming
      <4> QED
        BY <4>1, <4>2
    <3> QED
      BY <3>1, <3>2
  <2>12. PICK p \in Process :
            /\ helper' = [helper EXCEPT ![h] = p]
            /\ p.at \notin {"idle", "succeeded"} /\ p.txn = t /\ p.op = "rollback"
            /\ p.at \in Released \/ PlaceGood(p)'
    BY <2>11
  <2>13. /\ dest' \in Tree \cup {None} /\ dest' # None /\ inflight' = {}
         /\ \A c \in inflight' : c = [txn |-> t, cmd |-> 0] \/ c \in inflight
         /\ \A c, d \in inflight' : c = d
         /\ s \in Staging \cup {None}
    BY <1>2, <1>4, <2>2 DEF FInv, TypeOK
  <2> QED
    BY <1>1, <1>2, <2>1, <2>6, <2>7, <2>9, <2>12, <2>13, RollingStep
<1>6. CASE ~LiveIsOld(t)
  <2>1. helper' = Fail(h, FALSE) /\ UNCHANGED <<staging, journal, mishaps>>
    BY <1>1, <1>6 DEF Prepared
  <2>2. PICK p \in Process : /\ helper' = [helper EXCEPT ![h] = p]
                             /\ p.at = "failed" /\ p.txn = helper[h].txn /\ p.op = helper[h].op
    BY <1>3, <2>1, FailIs
  <2> QED
    BY <1>2, <1>3, <2>1, <2>2, Calling, HelperMoves DEF Released, FInv, TypeOK, durable
<1> QED
  BY <1>5, <1>6

(* A rename is done or not; the helper looks at the directories again.       *)
LEMMA Renamed ==
  ASSUME FInv, NEW h \in Helper, helper[h].at = "resuming", NEW t, t = helper[h].txn,
         Phase(t) \in Moving,
         NEW tree \in Tree \cup {None}, NEW entry \in Staging,
         Rename(h, tree, entry),
         dest' = tree /\ staging' = [staging EXCEPT ![t] = entry] => InPhase(t, Phase(t))'
  PROVE  FInv'
<1>1. /\ helper[h].at \in InRollback /\ Phase(t) \notin {"reload_intent", "reload_unknown"}
  BY DEF InRollback, Moving
<1>2. /\ TreesGood(t) /\ journal[t] # None /\ Rolling(t) /\ copy[t] # None /\ copy[t] # Partial
      /\ t \in Txn /\ helper \in [Helper -> Process] /\ helper[h].op = "rollback"
      /\ journal[t] \in Journal /\ staging[t] \in Staging \cup {None}
      /\ inflight = {} /\ helper[h] \in Process /\ journal[t].previous # None
  BY <1>1, RollingFacts
<1>3. PICK write \in Writes :
         /\ IF write = "lost" THEN UNCHANGED <<dest, staging>>
            ELSE dest' = tree /\ staging' = [staging EXCEPT ![t] = entry]
         /\ Write(h, write, helper)
  BY DEF Rename
<1>4. /\ UNCHANGED <<selected, live, marker, copy, journal, inflight, told>>
  BY DEF Rename
<1>5. mishaps' \in 0 .. MaxMishaps /\ (helper' = helper \/ helper' = Fail(h, FALSE))
  BY <1>3, WriteGoesOn DEF FInv
<1>6. /\ dest' \in Tree \cup {None}
      /\ \E s \in Staging \cup {None} : staging' = [staging EXCEPT ![t] = s]
      /\ (dest' = dest /\ staging' = staging)
         \/ (dest' = tree /\ staging' = [staging EXCEPT ![t] = entry])
  BY <1>2, <1>3 DEF FInv, TypeOK
<1>7. PICK s \in Staging \cup {None} : staging' = [staging EXCEPT ![t] = s]
  BY <1>6
<1>8. TreesGood(t)'
  <2>1. InPhase(t, Phase(t))'
    <3>1. CASE dest' = dest /\ staging' = staging
      BY <1>2, <1>4, <3>1
         DEF TreesGood, InPhase, Phase, Rolling, Pending, StagingIntact, NewReady, OldKept
    <3> QED
      BY <1>6, <3>1
  <2> QED
    BY <1>2, <1>4, <2>1 DEF TreesGood, VerifiedBackup
<1>9. \E p \in Process :
         /\ helper' = [helper EXCEPT ![h] = p]
         /\ p.at \notin {"idle", "succeeded"} /\ p.txn = t /\ p.op = "rollback"
         /\ p.at \in Released \/ PlaceGood(p)'
  <2>1. CASE helper' = Fail(h, FALSE)
    <3>1. PICK p \in Process :
             /\ Fail(h, FALSE) = [helper EXCEPT ![h] = p]
             /\ p.at = "failed" /\ p.txn = helper[h].txn /\ p.op = helper[h].op
      BY <1>2, FailIs
    <3>2. p.at \in Released /\ p.at \notin {"idle", "succeeded"}
      BY <3>1 DEF Released
    <3> QED
      BY <1>2, <2>1, <3>1, <3>2
  <2>2. CASE helper' = helper
    <3>1. PICK p \in Process : p = helper[h]
      BY <1>2
    <3>2. PlaceGood(p)'
      BY <1>2, <1>4, <3>1
         DEF PlaceGood, BackupGood, ChangeGood, RollbackGood, FinishGood, Preparing, AtReload,
             Rolling, Pending
    <3> QED
      BY <1>2, <2>2, <3>1, <3>2
  <2> QED
    BY <1>5, <2>1, <2>2
<1>10. PICK p \in Process :
         /\ helper' = [helper EXCEPT ![h] = p]
         /\ p.at \notin {"idle", "succeeded"} /\ p.txn = t /\ p.op = "rollback"
         /\ p.at \in Released \/ PlaceGood(p)'
  BY <1>9
<1>11. /\ journal' = [journal EXCEPT ![t] = journal[t]] /\ journal[t].phase \in Moving
       /\ inflight' = {} /\ \A c, d \in inflight' : c = d
       /\ \A c \in inflight' : c = [txn |-> t, cmd |-> 0] \/ c \in inflight
  BY <1>2, <1>4 DEF FInv, TypeOK, Phase
<1> QED
  BY <1>1, <1>2, <1>4, <1>5, <1>6, <1>7, <1>8, <1>10, <1>11, RollingStep

LEMMA MoveOld_Inv ==
  ASSUME FInv, NEW h \in Helper, MoveOld(h)
  PROVE  FInv'
<1>1. PICK t : t = helper[h].txn
  OBVIOUS
<1> DEFINE entry == [staging[t] EXCEPT !.previous = dest]
<1>2. /\ helper[h].at = "resuming" /\ Phase(t) = "move_old_intent" /\ Agrees(t) /\ dest # None
      /\ Rename(h, None, entry)
  BY <1>1 DEF MoveOld, Resumes, StillToRename
<1>3. /\ TreesGood(t) /\ journal[t] # None /\ Rolling(t) /\ t \in Txn
      /\ staging[t] \in Staging \cup {None} /\ journal[t] \in Journal /\ copy[t] # None
  BY <1>1, <1>2, RollingFacts DEF InRollback
<1>4. staging[t] # None /\ staging[t].owned /\ NewReady(t) /\ dest = journal[t].previous
  BY <1>2, <1>3 DEF TreesGood, InPhase, StagingIntact, Agrees, LiveIsOld
<1>5. entry \in Staging /\ entry.previous = dest /\ entry.etc = staging[t].etc /\ entry.owned
  <2>1. staging[t] \in Staging /\ dest \in Tree
    BY <1>2, <1>3, <1>4 DEF FInv, TypeOK
  <2> QED
    BY <1>4, <2>1 DEF Staging
<1> HIDE DEF entry
<1>6. entry # None
  BY <1>5, AbsenceAssumption
<1>7. ASSUME dest' = None, staging' = [staging EXCEPT ![t] = entry]
      PROVE  InPhase(t, Phase(t))'
  <2>1. staging'[t] = entry
    BY <1>3, <1>7 DEF FInv, TypeOK
  <2>2. journal' = journal /\ marker' = marker /\ copy' = copy
    BY <1>2 DEF Rename
  <2> QED
    BY <1>2, <1>3, <1>4, <1>5, <1>6, <1>7, <2>1, <2>2
       DEF InPhase, Phase, Rolling, Pending, StagingIntact, NewReady, OldKept, Reloading
<1> QED
  BY <1>1, <1>2, <1>5, <1>7, Renamed DEF Moving

LEMMA Install_Inv ==
  ASSUME FInv, NEW h \in Helper, Install(h)
  PROVE  FInv'
<1>1. PICK t : t = helper[h].txn
  OBVIOUS
<1>2. PICK tree : tree = staging[t].etc
  OBVIOUS
<1> DEFINE entry == [staging[t] EXCEPT !.etc = None]
<1>3. /\ helper[h].at = "resuming" /\ Phase(t) = "install_intent" /\ Agrees(t) /\ tree # None
      /\ Rename(h, tree, entry)
  BY <1>1, <1>2 DEF Install, Resumes, StillToRename
<1>4. /\ TreesGood(t) /\ journal[t] # None /\ Rolling(t) /\ t \in Txn /\ copy[t] \in Tree
      /\ staging[t] \in Staging \cup {None} /\ journal[t] \in Journal /\ copy[t] # None
  BY <1>1, <1>3, RollingFacts DEF InRollback
<1>5. staging[t] # None /\ staging[t].owned /\ OldKept(t) /\ tree = copy[t]
  BY <1>2, <1>3, <1>4 DEF TreesGood, InPhase, StagingIntact, Agrees, NewReady
<1>6. entry \in Staging /\ entry.previous = staging[t].previous /\ entry.etc = None /\ entry.owned
  <2>1. staging[t] \in Staging
    BY <1>4, <1>5
  <2> QED
    BY <1>5, <2>1 DEF Staging
<1> HIDE DEF entry
<1>7. entry # None
  BY <1>6, AbsenceAssumption
<1>8. ASSUME dest' = tree, staging' = [staging EXCEPT ![t] = entry]
      PROVE  InPhase(t, Phase(t))'
  <2>1. staging'[t] = entry
    BY <1>4, <1>8 DEF FInv, TypeOK
  <2>2. journal' = journal /\ marker' = marker /\ copy' = copy
    BY <1>3 DEF Rename
  <2> QED
    BY <1>3, <1>4, <1>5, <1>6, <1>7, <1>8, <2>1, <2>2
       DEF InPhase, Phase, Rolling, Pending, StagingIntact, NewReady, OldKept, Reloading
<1>9. tree \in Tree \cup {None} /\ Phase(t) \in Moving
  BY <1>3, <1>4, <1>5 DEF Moving
<1> QED
  BY <1>1, <1>3, <1>6, <1>8, <1>9, Renamed

LEMMA Die_Inv ==
  ASSUME FInv, NEW h \in Helper, Die(h)
  PROVE  FInv'
<1>1. Idle \in Process /\ Idle.at \in Released /\ Idle.at # "succeeded"
  BY DEF Process, Idle, Released
<1>2. mishaps' \in 0 .. MaxMishaps /\ helper' = [helper EXCEPT ![h] = Idle]
  BY TargetFirewallAssumption DEF Die, FInv, TypeOK
<1>3. UNCHANGED <<selected, dest, live, marker, copy, journal, inflight, told>>
  BY DEF Die
<1>4. CASE staging' = staging
  BY <1>1, <1>2, <1>3, <1>4, HelperMoves DEF FInv, TypeOK, durable
<1>5. CASE staging' # staging
  <2>1. PICK t : t = helper[h].txn
    OBVIOUS
  <2> DEFINE s == [staging[t] EXCEPT !.residue = TRUE]
  <2>2. /\ helper[h].at = "staged" /\ helper[h].at \in InRollback
        /\ staging' = [staging EXCEPT ![t] = s]
    BY <1>5, <2>1 DEF Die, InRollback, Preparing
  <2>3. /\ TreesGood(t) /\ journal[t] # None /\ Rolling(t) /\ t \in Txn
        /\ staging[t] \in Staging \cup {None} /\ journal[t] \in Journal
        /\ Phase(t) \notin {"reload_intent", "reload_unknown"} => inflight = {}
    BY <2>1, <2>2, RollingFacts
  <2>4. Phase(t) = "preparing" /\ dest # None /\ staging[t] # None /\ inflight = {}
    BY <2>1, <2>2, <2>3, Calling DEF RollbackGood, Preparing
  <2>5. s \in Staging \cup {None}
    BY <2>3, <2>4 DEF Staging
  <2> HIDE DEF s
  <2>6. TreesGood(t)'
    BY <1>3, <2>3, <2>4 DEF TreesGood, InPhase, VerifiedBackup, Phase, Moving, Reloading
  <2>7. /\ journal' = [journal EXCEPT ![t] = journal[t]]
        /\ dest' \in Tree \cup {None} /\ dest' # None /\ inflight' = {}
        /\ \A c \in inflight' : c = [txn |-> t, cmd |-> 0] \/ c \in inflight
        /\ \A c, d \in inflight' : c = d
    BY <1>3, <2>3, <2>4 DEF FInv, TypeOK
  <2> QED
    BY <1>1, <1>2, <1>3, <2>1, <2>2, <2>3, <2>5, <2>6, <2>7, RollingStep
<1> QED
  BY <1>4, <1>5

-----------------------------------------------------------------------------
(* Backup *)

(* Nobody has begun anything while a backup is made.                         *)
LEMMA BackupFacts ==
  ASSUME FInv, NEW h \in Helper, marker = None,
         Entered(h, "backup") \/ helper[h].at \in {"archiving", "copied"}
  PROVE  /\ Locked(h) /\ helper[h] \in Process /\ helper \in [Helper -> Process]
         /\ helper[h].txn \in Txn /\ helper[h].txn # None /\ helper[h].op = "backup"
         /\ inflight = {} /\ dest \in Tree /\ dest = live
<1>1. helper[h].at # "idle" /\ Locked(h)
  BY DEF Entered, Locked, Working
<1>2. helper[h].op = "backup"
  BY <1>1, Calling DEF BackupGood, Entered
<1>3. dest \in Tree /\ dest = live
  BY DEF FInv, SettledAgree, TypeOK
<1> QED
  BY <1>1, <1>2, <1>3, Calling, NothingBegun

(* A step of a backup: it writes the copy of its own transaction, which has  *)
(* no journal, and nothing else.                                             *)
LEMMA BackupStep ==
  ASSUME FInv, NEW h \in Helper, Locked(h), helper[h].txn # None, marker = None, inflight = {},
         NEW t \in Txn, t = helper[h].txn,
         NEW p \in Process, p.at # "idle", p.txn = t, p.op = helper[h].op, p.at # "succeeded",
         helper' = [helper EXCEPT ![h] = p],
         p.at \in Released \/ PlaceGood(p)',
         copy' \in [Txn -> Tree \cup {None, Partial}],
         \A u \in Txn : u # t => copy'[u] = copy[u],
         ~VerifiedBackup(t),
         UNCHANGED <<selected, dest, live, marker, journal, staging, inflight, told>>,
         mishaps' \in 0 .. MaxMishaps
  PROVE  FInv'
<1>1. journal[t] = None
  BY DEF FInv, Trees, TreesGood
<1>2. Trees'
  <2>1. ASSUME NEW u \in Txn, u # t PROVE TreesGood(u)'
    BY <2>1, Bystander
  <2>2. TreesGood(t)'
    BY <1>1 DEF TreesGood
  <2> QED
    BY <2>1, <2>2 DEF Trees
<1>3. Commands' /\ MarkerGood' /\ DestGood' /\ SettledAgree'
  BY DEF FInv, Commands, MarkerGood, DestGood, SettledAgree
<1>4. helper' \in [Helper -> Process] /\ Alone' /\ Helpers'
  BY SoleStep
<1>5. TypeOK'
  BY <1>4 DEF FInv, TypeOK
<1> QED
  BY <1>2, <1>3, <1>4, <1>5 DEF FInv

LEMMA BeginBackup_Inv ==
  ASSUME FInv, NEW h \in Helper, BeginBackup(h)
  PROVE  FInv'
<1>1. PICK t : t = helper[h].txn
  OBVIOUS
<1> DEFINE next == [helper EXCEPT ![h].at = "archiving", ![h].seen = dest]
<1>2. /\ Entered(h, "backup") /\ marker = None /\ copy[t] = None
      /\ UNCHANGED <<selected, dest, live, marker, journal, staging, inflight, told>>
  BY <1>1 DEF BeginBackup
<1>3. PICK write \in Writes :
         /\ copy' = IF write = "lost" THEN copy ELSE [copy EXCEPT ![t] = Partial]
         /\ Write(h, write, next)
  BY <1>1 DEF BeginBackup
<1>4. /\ Locked(h) /\ helper[h] \in Process /\ helper \in [Helper -> Process]
      /\ t \in Txn /\ t # None /\ helper[h].op = "backup"
      /\ inflight = {} /\ dest \in Tree /\ dest # None
  BY <1>1, <1>2, BackupFacts, AbsenceAssumption
<1>5. /\ mishaps' \in 0 .. MaxMishaps
      /\ (write = "done" /\ helper' = next) \/ helper' = Fail(h, FALSE)
  BY <1>3, WriteGoesOn DEF FInv
<1>6. /\ copy' \in [Txn -> Tree \cup {None, Partial}] /\ \A u \in Txn : u # t => copy'[u] = copy[u]
      /\ write = "done" => copy'[t] = Partial
  BY <1>3, <1>4 DEF FInv, TypeOK
<1>7. \E p \in Process :
         /\ helper' = [helper EXCEPT ![h] = p]
         /\ p.at \notin {"idle", "succeeded"} /\ p.txn = t /\ p.op = helper[h].op
         /\ p.at \in Released \/ PlaceGood(p)'
  <2>1. CASE helper' = Fail(h, FALSE)
    <3>1. PICK p \in Process :
             /\ Fail(h, FALSE) = [helper EXCEPT ![h] = p]
             /\ p.at = "failed" /\ p.txn = helper[h].txn /\ p.op = helper[h].op
      BY <1>4, FailIs
    <3>2. p.at \in Released /\ p.at \notin {"idle", "succeeded"}
      BY <3>1 DEF Released
    <3> QED
      BY <1>1, <2>1, <3>1, <3>2
  <2>2. CASE helper' # Fail(h, FALSE)
    <3>1. PICK p : p = [[helper[h] EXCEPT !.at = "archiving"] EXCEPT !.seen = dest]
      OBVIOUS
    <3>2. /\ p \in Process /\ p.at = "archiving" /\ p.seen = dest
          /\ p.txn = helper[h].txn /\ p.op = helper[h].op
          /\ next = [helper EXCEPT ![h] = p]
      BY <1>4, <3>1 DEF Process, Working
    <3>3. helper' = next /\ copy'[t] = Partial
      BY <1>5, <1>6, <2>2
    <3>4. PlaceGood(p)'
      BY <1>1, <1>2, <1>4, <3>2, <3>3
         DEF PlaceGood, BackupGood, ChangeGood, RollbackGood, FinishGood, Preparing, AtReload
    <3> QED
      BY <1>1, <3>2, <3>3, <3>4
  <2> QED
    BY <2>1, <2>2
<1>8. ~VerifiedBackup(t)
  BY <1>2 DEF VerifiedBackup
<1>9. PICK p \in Process :
         /\ helper' = [helper EXCEPT ![h] = p]
         /\ p.at \notin {"idle", "succeeded"} /\ p.txn = t /\ p.op = helper[h].op
         /\ p.at \in Released \/ PlaceGood(p)'
  BY <1>7
<1> QED
  BY <1>1, <1>2, <1>4, <1>5, <1>6, <1>8, <1>9, BackupStep

LEMMA WriteMetadata_Inv ==
  ASSUME FInv, NEW h \in Helper, WriteMetadata(h)
  PROVE  FInv'
<1>1. PICK t : t = helper[h].txn
  OBVIOUS
<1>2. /\ helper[h].at = "archiving"
      /\ UNCHANGED <<selected, dest, live, marker, journal, staging, inflight, told>>
  BY <1>1 DEF WriteMetadata
<1>3. marker = None /\ copy[t] = Partial /\ helper[h].seen # None
  BY <1>1, <1>2, Calling DEF BackupGood
<1>4. /\ Locked(h) /\ helper[h] \in Process /\ helper \in [Helper -> Process]
      /\ t \in Txn /\ t # None /\ helper[h].op = "backup" /\ inflight = {} /\ dest \in Tree
  BY <1>1, <1>2, <1>3, BackupFacts
<1>5. PICK write \in Writes :
         IF dest = helper[h].seen
         THEN /\ copy' = [copy EXCEPT ![t] = IF write = "lost" THEN Partial ELSE helper[h].seen]
              /\ Write(h, write, At(h, "copied"))
         ELSE helper' = Fail(h, FALSE) /\ UNCHANGED <<copy, mishaps>>
  BY <1>1 DEF WriteMetadata
<1>6. /\ copy' \in [Txn -> Tree \cup {None, Partial}] /\ \A u \in Txn : u # t => copy'[u] = copy[u]
      /\ mishaps' \in 0 .. MaxMishaps
      /\ \/ helper' = At(h, "copied") /\ copy'[t] \in Tree
         \/ helper' = Fail(h, FALSE)
  <2>1. CASE dest = helper[h].seen
    <3>1. /\ mishaps' \in 0 .. MaxMishaps
          /\ (write = "done" /\ helper' = At(h, "copied")) \/ helper' = Fail(h, FALSE)
      BY <1>5, <2>1, WriteGoesOn DEF FInv
    <3> QED
      BY <1>4, <1>5, <2>1, <3>1 DEF FInv, TypeOK
  <2>2. CASE dest # helper[h].seen
    BY <1>5, <2>2 DEF FInv, TypeOK
  <2> QED
    BY <2>1, <2>2
<1>7. ~VerifiedBackup(t)
  BY <1>3 DEF VerifiedBackup
<1>8. \E p \in Process :
         /\ helper' = [helper EXCEPT ![h] = p]
         /\ p.at \notin {"idle", "succeeded"} /\ p.txn = t /\ p.op = helper[h].op
         /\ p.at \in Released \/ PlaceGood(p)'
  <2>1. CASE helper' = Fail(h, FALSE)
    <3>1. PICK p \in Process :
             /\ Fail(h, FALSE) = [helper EXCEPT ![h] = p]
             /\ p.at = "failed" /\ p.txn = helper[h].txn /\ p.op = helper[h].op
      BY <1>4, FailIs
    <3>2. p.at \in Released /\ p.at \notin {"idle", "succeeded"}
      BY <3>1 DEF Released
    <3> QED
      BY <1>1, <2>1, <3>1, <3>2
  <2>2. CASE helper' # Fail(h, FALSE)
    <3>1. helper' = At(h, "copied") /\ copy'[t] # None /\ copy'[t] # Partial
      BY <1>6, <2>2, AbsenceAssumption
    <3>2. PICK p \in Process :
             /\ At(h, "copied") = [helper EXCEPT ![h] = p]
             /\ p.at = "copied" /\ p.txn = helper[h].txn /\ p.op = helper[h].op
      BY <1>4, AtIs DEF Working
    <3>3. PlaceGood(p)'
      BY <1>1, <1>2, <1>3, <1>4, <3>1, <3>2
         DEF PlaceGood, BackupGood, ChangeGood, RollbackGood, FinishGood, Preparing, AtReload,
             VerifiedBackup
    <3> QED
      BY <1>1, <3>1, <3>2, <3>3
  <2> QED
    BY <2>1, <2>2
<1>9. PICK p \in Process :
         /\ helper' = [helper EXCEPT ![h] = p]
         /\ p.at \notin {"idle", "succeeded"} /\ p.txn = t /\ p.op = helper[h].op
         /\ p.at \in Released \/ PlaceGood(p)'
  BY <1>8
<1> QED
  BY <1>1, <1>2, <1>3, <1>4, <1>6, <1>7, <1>9, BackupStep

-----------------------------------------------------------------------------
(* The marker *)

(* A step that only writes the marker, for the transaction it names or when  *)
(* it names nobody.                                                          *)
LEMMA MarkerStep ==
  ASSUME FInv, NEW h \in Helper, Locked(h), NEW t \in Txn, t = helper[h].txn, t # None,
         dest # None, marker = None \/ marker.txn = t, marker' = None \/ marker'.txn = t,
         marker' \in Marker \cup {None},
         NEW p \in Process, p.at # "idle", p.txn = t, p.op = helper[h].op,
         p.at = "succeeded" => inflight = {},
         helper' = [helper EXCEPT ![h] = p],
         p.at \in Released \/ PlaceGood(p)',
         UNCHANGED <<selected, dest, live, copy, journal, staging, inflight, told>>,
         mishaps' \in 0 .. MaxMishaps,
         Commands', TreesGood(t)', MarkerGood', SettledAgree'
  PROVE  FInv'
<1>1. ASSUME NEW u \in Txn, u # t PROVE TreesGood(u)'
  BY <1>1, Bystander
<1>2. Trees'
  BY <1>1 DEF Trees
<1>3. helper' \in [Helper -> Process] /\ Alone' /\ Helpers'
  BY SoleStep
<1>4. TypeOK' /\ DestGood'
  BY <1>3 DEF FInv, TypeOK, DestGood
<1> QED
  BY <1>2, <1>3, <1>4 DEF FInv

(* While the marker names no rollback of its own, a transaction's trees are  *)
(* none of its business.                                                     *)
LEMMA NotRolling ==
  ASSUME FInv, NEW t \in Txn, ~Rolling(t), ~Rolling(t)', journal' = journal, copy' = copy
  PROVE  TreesGood(t)'
<1>1. TreesGood(t)
  BY DEF FInv, Trees
<1> QED
  BY <1>1 DEF TreesGood, InPhase, VerifiedBackup, Phase, Moving, Reloading

LEMMA RecordBackedUp_Inv ==
  ASSUME FInv, NEW h \in Helper, RecordBackedUp(h)
  PROVE  FInv'
<1>1. PICK t : t = helper[h].txn
  OBVIOUS
<1> DEFINE value == [txn |-> t, phase |-> "backed_up"]
<1>2. /\ helper[h].at = "copied" /\ RecordActive(h, value, At(h, "succeeded"))
      /\ UNCHANGED <<selected, dest, live, copy, journal, staging, inflight, told>>
  BY <1>1 DEF RecordBackedUp
<1>3. marker = None
  BY <1>2, Calling DEF BackupGood
<1>4. /\ Locked(h) /\ helper \in [Helper -> Process]
      /\ t \in Txn /\ t # None /\ inflight = {} /\ dest # None /\ dest = live
  BY <1>1, <1>2, <1>3, BackupFacts, AbsenceAssumption
<1>5. /\ marker' \in {value, marker}
      /\ (marker' = value /\ helper' = At(h, "succeeded")) \/ helper' = Fail(h, FALSE)
      /\ mishaps' \in 0 .. MaxMishaps
  BY <1>2, Recorded DEF FInv
<1>6. value \in Marker /\ value.txn = t /\ value.phase = "backed_up"
  BY <1>4 DEF Marker
<1> HIDE DEF value
<1>7. /\ helper \in [Helper -> Process] /\ h \in Helper
      /\ helper' = At(h, "succeeded") \/ helper' = Fail(h, FALSE)
  BY <1>4, <1>5
<1>8. PICK p \in Process :
         /\ helper' = [helper EXCEPT ![h] = p]
         /\ p.txn = helper[h].txn /\ p.op = helper[h].op
         /\ p.at \in {"failed", "succeeded"}
  <2>1. PICK p \in Process : GoesTo(h, p, "succeeded")
    BY ONLY <1>7, GoesOn DEF Released, Working
  <2> QED
    BY <2>1 DEF GoesTo
<1>9. marker' \in Marker \cup {None} /\ (marker' = None \/ marker'.txn = t)
  BY <1>3, <1>5, <1>6
<1>10. ~Rolling(t) /\ ~Rolling(t)'
  BY <1>3, <1>5, <1>6 DEF Rolling, Pending
<1>11. Commands' /\ TreesGood(t)'
  BY <1>2, <1>4, <1>10, NotRolling DEF Commands
<1>12. MarkerGood' /\ SettledAgree'
  BY <1>2, <1>3, <1>4, <1>5, <1>6 DEF MarkerGood, SettledAgree
<1>13. p.at \in Released /\ p.at # "idle"
  BY <1>8 DEF Released
<1> QED
  BY <1>1, <1>2, <1>3, <1>4, <1>5, <1>8, <1>9, <1>11, <1>12, <1>13, MarkerStep

-----------------------------------------------------------------------------
(* closePort and blockIp *)

LEMMA MarkApplyIntent_Inv ==
  ASSUME FInv, NEW h \in Helper, MarkApplyIntent(h)
  PROVE  FInv'
<1>1. PICK t : t = helper[h].txn
  OBVIOUS
<1> DEFINE value == [txn |-> t, phase |-> "apply_intent"]
<1>2. /\ helper[h].at = "entered" /\ helper[h].op = "apply" /\ Locked(h)
      /\ marker = None \/ Pending(t, {"backed_up"})
      /\ RecordActive(h, value, At(h, "changing"))
      /\ UNCHANGED <<selected, dest, live, copy, journal, staging, inflight, told>>
  BY <1>1 DEF MarkApplyIntent, MayApply, Entered, Locked, Working
<1>3. /\ t \in Txn /\ t # None /\ journal[t] = None /\ helper \in [Helper -> Process]
  BY <1>1, <1>2, Calling DEF CallGood
<1>4. /\ inflight = {} /\ dest # None /\ dest = live
      /\ marker = None \/ marker.txn = t
      /\ ~Rolling(t)
  BY <1>2, NothingBegun DEF FInv, SettledAgree, Pending, Rolling
<1>5. /\ marker' \in {value, marker}
      /\ (marker' = value /\ helper' = At(h, "changing")) \/ helper' = Fail(h, FALSE)
      /\ mishaps' \in 0 .. MaxMishaps
  BY <1>2, Recorded DEF FInv
<1>6. value \in Marker /\ value.txn = t /\ value.phase = "apply_intent" /\ value # None
  <2>1. value \in Marker
    BY <1>3 DEF Marker
  <2> QED
    BY <2>1, AbsenceAssumption
<1> HIDE DEF value
<1>7. /\ helper \in [Helper -> Process] /\ h \in Helper
      /\ helper' = At(h, "changing") \/ helper' = Fail(h, FALSE)
  BY <1>3, <1>5
<1>8. PICK p \in Process :
         /\ helper' = [helper EXCEPT ![h] = p]
         /\ p.txn = helper[h].txn /\ p.op = helper[h].op
         /\ p.at = "failed" \/ (p.at = "changing" /\ helper' # Fail(h, FALSE))
  <2>1. PICK p \in Process : GoesTo(h, p, "changing")
    BY ONLY <1>7, GoesOn DEF Released, Working
  <2> QED
    BY <2>1 DEF GoesTo
<1>9. /\ marker' \in Marker \cup {None} /\ (marker' = None \/ marker'.txn = t)
      /\ marker = None \/ marker.txn = t
  BY <1>4, <1>5, <1>6 DEF FInv, TypeOK
<1>10. Commands' /\ TreesGood(t)'
  BY <1>2, <1>3, <1>4 DEF Commands, TreesGood
<1>11. MarkerGood' /\ SettledAgree'
  BY <1>2, <1>3, <1>4, <1>5, <1>6 DEF FInv, MarkerGood, SettledAgree, Phase
<1>12. p.at \in Released \/ PlaceGood(p)'
  <2>1. CASE p.at = "failed"
    BY <2>1 DEF Released
  <2>2. CASE p.at # "failed"
    <3>1. p.at = "changing" /\ marker' = value
      BY <1>5, <1>8, <2>2
    <3> QED
      BY <1>1, <1>2, <1>4, <1>6, <1>8, <3>1
         DEF PlaceGood, BackupGood, ChangeGood, RollbackGood, FinishGood, Preparing, AtReload,
             Synced, Pending
  <2> QED
    BY <2>1, <2>2
<1>13. p.at \notin {"idle", "succeeded"} /\ p.txn = t
  BY <1>1, <1>8
<1> QED
  BY <1>1, <1>2, <1>3, <1>4, <1>5, <1>8, <1>9, <1>10, <1>11, <1>12, <1>13, MarkerStep

LEMMA RecordApplyError_Inv ==
  ASSUME FInv, NEW h \in Helper, RecordApplyError(h)
  PROVE  FInv'
<1>1. PICK t : t = helper[h].txn
  OBVIOUS
<1> DEFINE value == [txn |-> t,
                     phase |-> IF helper[h].unknown THEN "apply_unknown" ELSE "apply_failed"]
<1>2. /\ helper[h].at = "stopping" /\ Locked(h)
      /\ RecordActive(h, value, Fail(h, helper[h].unknown))
      /\ UNCHANGED <<selected, dest, live, copy, journal, staging, inflight, told>>
  BY <1>1 DEF RecordApplyError, Locked, Working
<1>3. /\ t \in Txn /\ t # None /\ helper \in [Helper -> Process] /\ helper[h] \in Process
      /\ helper[h].op = "apply" /\ Pending(t, {"apply_intent"})
      /\ helper[h].unknown \/ inflight = {}
  BY <1>1, <1>2, Calling DEF ChangeGood
<1>4. /\ marker # None /\ marker.txn = t /\ marker.phase = "apply_intent" /\ dest # None
      /\ ~Rolling(t)
  BY <1>3 DEF Pending, Rolling, FInv, DestGood
<1>5. /\ marker' \in {value, marker}
      /\ helper' = Fail(h, helper[h].unknown) \/ helper' = Fail(h, FALSE)
      /\ mishaps' \in 0 .. MaxMishaps
  BY <1>2, Recorded DEF FInv
<1>6. /\ value \in Marker /\ value.txn = t
      /\ value.phase = IF helper[h].unknown THEN "apply_unknown" ELSE "apply_failed"
  BY <1>3 DEF Marker
<1> HIDE DEF value
<1>7. PICK p \in Process :
         /\ helper' = [helper EXCEPT ![h] = p]
         /\ p.txn = helper[h].txn /\ p.op = helper[h].op /\ p.at = "failed"
  <2>1. helper[h].unknown \in BOOLEAN
    BY <1>3 DEF Process
  <2>2. PICK unknown \in BOOLEAN : helper' = Fail(h, unknown)
    BY <1>5, <2>1
  <2>3. PICK p \in Process :
           /\ Fail(h, unknown) = [helper EXCEPT ![h] = p]
           /\ p.at = "failed" /\ p.txn = helper[h].txn /\ p.op = helper[h].op
    BY <1>3, FailIs
  <2> QED
    BY <2>2, <2>3
<1>8. marker' \in Marker \cup {None} /\ marker'.txn = t /\ value # None
  BY <1>4, <1>5, <1>6, AbsenceAssumption DEF FInv, TypeOK
<1>9. Commands'
  <2>1. \A c \in inflight : c.cmd # 0 /\ c.txn = t
    BY <1>4 DEF FInv, Commands, CommandGood, Rolling, Applying, Pending
  <2>2. inflight # {} => Applying(t)'
    BY <1>3, <1>4, <1>5, <1>6, <1>8 DEF Applying, Pending
  <2> QED
    BY <1>2, <2>1, <2>2 DEF FInv, Commands, CommandGood, Applying, Pending
<1>10. ~Rolling(t)' /\ SettledAgree'
  BY <1>3, <1>4, <1>5, <1>6, <1>8 DEF Rolling, Pending, SettledAgree
<1>11. TreesGood(t)'
  BY <1>2, <1>3, <1>4, <1>10, NotRolling
<1>12. MarkerGood'
  BY <1>2, <1>4, <1>5, <1>6, <1>8 DEF FInv, MarkerGood, Phase
<1>13. p.at \in Released /\ p.at \notin {"idle", "succeeded"} /\ p.txn = t
  BY <1>1, <1>7 DEF Released
<1> QED
  BY <1>1, <1>2, <1>3, <1>4, <1>5, <1>7, <1>8, <1>9, <1>10, <1>11, <1>12, <1>13, MarkerStep

LEMMA ReleaseActive_Inv ==
  ASSUME FInv, NEW h \in Helper, ReleaseActive(h)
  PROVE  FInv'
<1>1. PICK t : t = helper[h].txn
  OBVIOUS
<1>2. /\ helper[h].at = "finishing" /\ Locked(h)
      /\ UNCHANGED <<selected, dest, live, copy, journal, staging, inflight, told>>
  BY DEF ReleaseActive, Locked, Working
<1>3. /\ t \in Txn /\ t # None /\ helper \in [Helper -> Process] /\ helper[h] \in Process
      /\ inflight = {} /\ dest # None /\ dest = live
      /\ \/ /\ helper[h].op = "apply" /\ journal[t] = None
            /\ marker = None \/ Pending(t, {"backed_up", "apply_intent"})
         \/ /\ helper[h].op = "rollback" /\ Rolling(t) /\ journal[t] # None /\ staging[t] = None
  BY <1>1, <1>2, Calling DEF FinishGood, CallGood
<1>4. /\ marker = None \/ marker.txn = t
      /\ marker' \in {None, marker} /\ mishaps' \in 0 .. MaxMishaps
      /\ helper' = At(h, "succeeded") \/ helper' = Fail(h, FALSE)
  <2>1. CASE marker # None /\ marker.txn = t
    <3>1. RecordActive(h, None, At(h, "succeeded"))
      BY <1>1, <2>1 DEF ReleaseActive
    <3> QED
      BY <2>1, <3>1, Recorded DEF FInv
  <2>2. CASE ~(marker # None /\ marker.txn = t)
    BY <1>1, <1>3, <2>2 DEF ReleaseActive, Pending, Rolling, FInv, TypeOK
  <2> QED
    BY <2>1, <2>2
<1>5. PICK p \in Process :
         /\ helper' = [helper EXCEPT ![h] = p]
         /\ p.txn = helper[h].txn /\ p.op = helper[h].op
         /\ p.at \in {"failed", "succeeded"}
  <2>1. /\ helper \in [Helper -> Process] /\ h \in Helper
        /\ helper' = At(h, "succeeded") \/ helper' = Fail(h, FALSE)
    BY <1>3, <1>4
  <2>2. PICK p \in Process : GoesTo(h, p, "succeeded")
    BY ONLY <2>1, GoesOn DEF Released, Working
  <2> QED
    BY <2>2 DEF GoesTo
<1>6. marker' \in Marker \cup {None} /\ (marker' = None \/ marker'.txn = t)
  BY <1>4 DEF FInv, TypeOK
<1>7. Commands' /\ SettledAgree'
  BY <1>2, <1>3 DEF Commands, SettledAgree
<1>8. MarkerGood'
  BY <1>2, <1>4 DEF FInv, MarkerGood, Phase
<1>9. TreesGood(t)'
  <2>1. TreesGood(t)
    BY <1>3 DEF FInv, Trees
  <2>2. CASE journal[t] = None
    BY <1>2, <2>2 DEF TreesGood
  <2>3. CASE journal[t] # None
    <3>1. Phase(t) \in {"preparing", "completed"}
      BY <1>3, <2>1, <2>3 DEF TreesGood, InPhase, StagingIntact
    <3> QED
      BY <1>2, <1>3, <2>1, <2>3, <3>1
         DEF TreesGood, InPhase, VerifiedBackup, Phase, Moving, Reloading
  <2> QED
    BY <2>2, <2>3
<1>10. p.at \in Released /\ p.at # "idle" /\ p.txn = t
  BY <1>1, <1>5 DEF Released
<1> QED
  BY <1>1, <1>2, <1>3, <1>4, <1>5, <1>6, <1>7, <1>8, <1>9, <1>10, MarkerStep

(* A step of a change: a command starts, ends or is given up.                *)
LEMMA ChangeStep ==
  ASSUME FInv, NEW h \in Helper, Locked(h), NEW t \in Txn, t = helper[h].txn, t # None,
         Pending(t, {"apply_intent"}),
         NEW p \in Process, p.at \notin {"idle", "succeeded"}, p.txn = t, p.op = helper[h].op,
         helper' = [helper EXCEPT ![h] = p], p.at \in Released \/ PlaceGood(p)',
         UNCHANGED <<selected, durable, told>>, mishaps' \in 0 .. MaxMishaps,
         dest' \in Tree, live' \in Tree,
         inflight' \subseteq Command,
         \A c \in inflight' : c.txn = t /\ c.cmd # 0,
         \A c, d \in inflight' : c = d
  PROVE  FInv'
<1>1. marker' = marker /\ copy' = copy /\ journal' = journal /\ staging' = staging
  BY DEF durable
<1>2. \A u \in Txn : ~Rolling(u) /\ ~Rolling(u)'
  BY <1>1 DEF Rolling, Pending
<1>3. Trees'
  BY <1>1, <1>2, NotRolling DEF Trees
<1>4. dest' # None
  BY AbsenceAssumption
<1>5. Commands'
  BY <1>1 DEF Commands, CommandGood, Applying, Pending
<1>6. MarkerGood' /\ DestGood' /\ SettledAgree'
  BY <1>1, <1>4 DEF FInv, MarkerGood, DestGood, SettledAgree, Phase, Pending
<1>7. helper' \in [Helper -> Process] /\ Alone' /\ Helpers'
  BY <1>1, SoleStep
<1>8. TypeOK'
  BY <1>1, <1>7 DEF FInv, TypeOK
<1> QED
  BY <1>3, <1>5, <1>6, <1>7, <1>8 DEF FInv

LEMMA RunCommand_Inv ==
  ASSUME FInv, NEW h \in Helper, RunCommand(h)
  PROVE  FInv'
<1>1. PICK t : t = helper[h].txn
  OBVIOUS
<1>2. PICK k \in {1, 2} : Submit(h, k, "running")
  BY DEF RunCommand, Missing
<1> DEFINE c == [txn |-> t, cmd |-> k]
<1>3. /\ helper[h].at = "changing" /\ Locked(h)
      /\ inflight' = inflight \cup {c} /\ helper' = At(h, "running")
      /\ UNCHANGED <<selected, dest, live, durable, told, mishaps>>
  BY <1>1, <1>2 DEF RunCommand, Submit, Locked, Working
<1>4. /\ t \in Txn /\ t # None /\ helper \in [Helper -> Process]
      /\ helper[h].op = "apply" /\ Pending(t, {"apply_intent"}) /\ inflight = {} /\ Synced(t)
  BY <1>1, <1>3, Calling DEF ChangeGood
<1>5. dest \in Tree /\ live \in Tree /\ mishaps \in 0 .. MaxMishaps
  BY <1>4 DEF FInv, TypeOK, DestGood, Pending
<1>6. PICK p \in Process :
         /\ At(h, "running") = [helper EXCEPT ![h] = p]
         /\ p.at = "running" /\ p.txn = helper[h].txn /\ p.op = helper[h].op
  BY <1>4, AtIs DEF Working, Waiting
<1>7. c \in Command /\ c.txn = t /\ c.cmd = k /\ c.cmd # 0
  BY <1>4 DEF Command
<1>8. inflight' = {[txn |-> p.txn, cmd |-> k]}
  BY <1>1, <1>3, <1>4, <1>6
<1>9. PlaceGood(p)'
  BY <1>1, <1>3, <1>4, <1>6, <1>8
     DEF PlaceGood, BackupGood, ChangeGood, RollbackGood, FinishGood, Preparing, AtReload,
         Synced, Pending, durable
<1>10. /\ inflight' \subseteq Command /\ \A d \in inflight' : d.txn = t /\ d.cmd # 0
       /\ \A d, e \in inflight' : d = e
  BY <1>3, <1>4, <1>7
<1>11. /\ p.at \notin {"idle", "succeeded"} /\ p.txn = t /\ p.op = helper[h].op
       /\ helper' = [helper EXCEPT ![h] = p] /\ dest' \in Tree /\ live' \in Tree
       /\ mishaps' \in 0 .. MaxMishaps
  BY <1>1, <1>3, <1>5, <1>6
<1> QED
  BY <1>1, <1>3, <1>4, <1>9, <1>10, <1>11, ChangeStep

(* A helper that waits for a command is the one that changes or restores.    *)
LEMMA WaitingFacts ==
  ASSUME FInv, NEW h \in Helper, NEW c \in inflight, Waits(h, c), NEW t, t = helper[h].txn
  PROVE  /\ Locked(h) /\ helper[h] \in Process /\ helper \in [Helper -> Process]
         /\ t \in Txn /\ t # None /\ c.txn = t /\ inflight \ {c} = {} /\ dest \in Tree
         /\ live \in Tree /\ c \in Command
         /\ \/ /\ helper[h].at = "running" /\ helper[h].op = "apply" /\ c.cmd \in {1, 2}
               /\ Pending(t, {"apply_intent"}) /\ Synced(t)
            \/ /\ helper[h].at = "reloading" /\ helper[h].at \in InRollback
               /\ helper[h].op = "rollback" /\ c.cmd = 0
               /\ Phase(t) = "reload_intent" /\ dest = copy[t]
<1>1. /\ Locked(h) /\ helper[h].at \in Waiting /\ c.txn = t /\ c \in Command /\ live \in Tree
  BY DEF Waits, Locked, Working, FInv, TypeOK
<1>2. /\ helper[h] \in Process /\ helper \in [Helper -> Process] /\ t \in Txn /\ t # None
      /\ ChangeGood(helper[h]) /\ RollbackGood(helper[h])
  BY <1>1, Calling DEF Waiting
<1>3. inflight \ {c} = {}
  BY DEF FInv, Commands
<1>4. CASE helper[h].at = "running"
  <2>1. /\ helper[h].op = "apply" /\ Pending(t, {"apply_intent"}) /\ Synced(t)
        /\ \E k \in {1, 2} : inflight = {[txn |-> t, cmd |-> k]}
    BY <1>2, <1>4 DEF ChangeGood
  <2>2. c.cmd \in {1, 2}
    BY <2>1
  <2>3. dest \in Tree
    BY <2>1 DEF FInv, TypeOK, DestGood, Pending
  <2> QED
    BY <1>1, <1>2, <1>3, <1>4, <2>1, <2>2, <2>3
<1>5. CASE helper[h].at = "reloading"
  <2>1. /\ helper[h].op = "rollback" /\ Phase(t) = "reload_intent" /\ dest = copy[t]
        /\ inflight = {[txn |-> t, cmd |-> 0]}
    BY <1>2, <1>5 DEF RollbackGood, AtReload
  <2>2. c.cmd = 0
    BY <2>1
  <2>3. helper[h].at \in InRollback
    BY <1>5 DEF InRollback, AtReload
  <2>4. dest \in Tree
    BY <2>1, <2>3, RollingFacts
  <2> QED
    BY <1>1, <1>2, <1>3, <1>5, <2>1, <2>2, <2>3, <2>4
<1> QED
  BY <1>1, <1>4, <1>5 DEF Waiting

(* What a command leaves behind are rules of its own transaction.            *)
LEMMA EffectIs ==
  ASSUME FInv, NEW c \in Command, dest \in Tree,
         NEW reach \in {"nothing", "disk", "all"}, TakesEffect(c, reach)
  PROVE  /\ dest' \in Tree /\ live' \in Tree /\ dest' # None
         /\ c.cmd = 0 => dest' = dest
         /\ c.cmd # 0 => \E rules \in SUBSET {<<c.txn, 1>>, <<c.txn, 2>>} : dest' = dest \cup rules
<1>1. c.txn \in Txn /\ c.cmd \in {0, 1, 2} /\ live \in Tree /\ dest # None
  BY AbsenceAssumption DEF Command, FInv, TypeOK
<1>2. CASE c.cmd = 0
  BY <1>1, <1>2, AbsenceAssumption DEF TakesEffect
<1>3. CASE c.cmd # 0
  <2>1. c.cmd \in {1, 2}
    BY <1>1, <1>3
  <2>2. /\ OnDisk(c.txn, c.cmd) \subseteq {<<c.txn, 1>>, <<c.txn, 2>>}
        /\ InKernel(c.txn, c.cmd) \subseteq {<<c.txn, 1>>, <<c.txn, 2>>}
    BY <2>1 DEF OnDisk, InKernel
  <2>3. <<c.txn, 1>> \in Rule /\ <<c.txn, 2>> \in Rule
    BY <1>1 DEF Rule
  <2>4. /\ dest' = IF reach = "nothing" THEN dest ELSE dest \cup OnDisk(c.txn, c.cmd)
        /\ live' = IF reach = "all" THEN live \cup InKernel(c.txn, c.cmd) ELSE live
    BY <1>1, <1>3 DEF TakesEffect, With
  <2>5. \E rules \in SUBSET {<<c.txn, 1>>, <<c.txn, 2>>} : dest' = dest \cup rules
    <3>1. CASE reach = "nothing"
      <4>1. {} \in SUBSET {<<c.txn, 1>>, <<c.txn, 2>>} /\ dest' = dest \cup {}
        BY <2>4, <3>1
      <4> QED
        BY <4>1
    <3>2. CASE reach # "nothing"
      BY <2>2, <2>4, <3>2
    <3> QED
      BY <3>1, <3>2
  <2>6. dest' \in Tree /\ live' \in Tree
    BY <1>1, <2>2, <2>3, <2>4 DEF Tree
  <2> QED
    BY <1>3, <2>5, <2>6, AbsenceAssumption
<1> QED
  BY <1>2, <1>3

LEMMA EffectIsSynced ==
  ASSUME FInv, NEW t \in Txn, NEW k \in {1, 2}, NEW c, c.txn = t, c.cmd = k,
         dest \in Tree, Synced(t), TakesEffect(c, "all"), selected' = selected
  PROVE  Synced(t)'
<1>1. dest # None /\ selected \in {"ufw", "firewalld"}
  BY AbsenceAssumption DEF FInv, TypeOK
<1>2. dest' = dest \cup OnDisk(t, k) /\ live' = live \cup InKernel(t, k)
  BY <1>1 DEF TakesEffect, With
<1>3. CASE selected = "ufw"
  BY <1>2, <1>3 DEF Synced, OnDisk, InKernel
<1>4. CASE selected = "firewalld"
  <2>1. OnDisk(t, k) \subseteq {<<t, 1>>} /\ InKernel(t, k) \subseteq {<<t, 1>>}
    BY <1>4 DEF OnDisk, InKernel
  <2>2. dest \ {<<t, 1>>} = live \ {<<t, 1>>}
    BY <1>4 DEF Synced
  <2>3. dest' \ {<<t, 1>>} = live' \ {<<t, 1>>}
    BY <1>2, <2>1, <2>2
  <2> QED
    BY <1>4, <2>3 DEF Synced
<1> QED
  BY <1>1, <1>3, <1>4

(* A helper of a change is told how its command ended.                       *)
LEMMA ChangeAnswered ==
  ASSUME FInv, NEW h \in Helper, NEW c \in inflight, Waits(h, c), c.cmd # 0,
         NEW p \in Process, p.at \in {"changing", "stopping"},
         p.txn = helper[h].txn, p.op = helper[h].op,
         helper' = [helper EXCEPT ![h] = p],
         UNCHANGED <<selected, durable, told>>, mishaps' \in 0 .. MaxMishaps,
         dest' \in Tree, live' \in Tree,
         inflight' = {} \/ (inflight' = inflight /\ p.unknown /\ p.at = "stopping"),
         p.at = "changing" => Synced(p.txn)'
  PROVE  FInv'
<1>1. PICK t : t = helper[h].txn
  OBVIOUS
<1>2. /\ Locked(h) /\ t \in Txn /\ t # None /\ c.txn = t /\ inflight \ {c} = {}
      /\ c \in Command /\ Pending(t, {"apply_intent"}) /\ helper[h].op = "apply"
  BY <1>1, WaitingFacts
<1>3. PlaceGood(p)'
  BY <1>1, <1>2
     DEF PlaceGood, BackupGood, ChangeGood, RollbackGood, FinishGood, Preparing, AtReload,
         Pending, durable
<1>4. /\ inflight' \subseteq Command /\ \A d \in inflight' : d.txn = t /\ d.cmd # 0
      /\ \A d, e \in inflight' : d = e
  BY <1>2
<1>5. p.at \notin {"idle", "succeeded"} /\ p.txn = t
  BY <1>1
<1> QED
  BY <1>1, <1>2, <1>3, <1>4, <1>5, ChangeStep

(* A helper of a rollback is told how its reload ended.                      *)
LEMMA ReloadAnswered ==
  ASSUME FInv, NEW h \in Helper, NEW c \in inflight, Waits(h, c), c.cmd = 0,
         NEW p \in Process, p.at \in {"reloaded", "notReloaded"},
         p.txn = helper[h].txn, p.op = helper[h].op,
         helper' = [helper EXCEPT ![h] = p],
         UNCHANGED <<selected, durable, told>>, mishaps' \in 0 .. MaxMishaps,
         dest' = dest, live' \in Tree,
         inflight' = {} \/ (inflight' = inflight /\ p.unknown /\ p.at = "notReloaded"),
         p.at = "reloaded" => live' = dest
  PROVE  FInv'
<1>1. PICK t : t = helper[h].txn
  OBVIOUS
<1>2. /\ helper[h].at \in InRollback /\ helper[h].op = "rollback" /\ c.txn = t
      /\ inflight \ {c} = {} /\ c \in Command
      /\ Phase(t) = "reload_intent" /\ dest = copy[t] /\ dest \in Tree
  BY <1>1, WaitingFacts
<1>3. /\ TreesGood(t) /\ journal[t] # None /\ Rolling(t) /\ copy[t] # None /\ t \in Txn
      /\ journal[t] \in Journal /\ staging[t] \in Staging \cup {None}
  BY <1>1, <1>2, RollingFacts
<1>4. marker' = marker /\ copy' = copy /\ journal' = journal /\ staging' = staging
  BY DEF durable
<1>5. PlaceGood(p)'
  BY <1>1, <1>2, <1>3, <1>4
     DEF PlaceGood, BackupGood, ChangeGood, RollbackGood, FinishGood, Preparing, AtReload,
         Rolling, Pending, Phase
<1>6. TreesGood(t)'
  BY <1>2, <1>3, <1>4
     DEF TreesGood, InPhase, VerifiedBackup, Phase, Rolling, Pending, StagingIntact, NewReady,
         OldKept, Moving, Reloading
<1>7. /\ journal' = [journal EXCEPT ![t] = journal[t]]
      /\ staging' = [staging EXCEPT ![t] = staging[t]]
      /\ dest' \in Tree \cup {None} /\ dest' # None
  BY <1>2, <1>3, <1>4 DEF FInv, TypeOK
<1>8. /\ \A d \in inflight' : d = [txn |-> t, cmd |-> 0] \/ d \in inflight
      /\ \A d, e \in inflight' : d = e
      /\ journal[t].phase \in {"reload_intent", "reload_unknown"}
  BY <1>2 DEF Phase
<1>9. p.at \notin {"idle", "succeeded"} /\ p.txn = t /\ p.op = "rollback"
  BY <1>1, <1>2
<1> QED
  BY <1>1, <1>2, <1>3, <1>4, <1>5, <1>6, <1>7, <1>8, <1>9, RollbackStep

LEMMA CommandSucceeds_Inv ==
  ASSUME FInv, NEW h \in Helper, NEW c \in inflight, CommandSucceeds(h, c)
  PROVE  FInv'
<1>1. PICK t : t = helper[h].txn
  OBVIOUS
<1>2. /\ Waits(h, c) /\ TakesEffect(c, "all") /\ inflight' = inflight \ {c}
      /\ helper' = At(h, IF c.cmd = 0 THEN "reloaded" ELSE "changing")
      /\ UNCHANGED <<selected, durable, told, mishaps>>
  BY DEF CommandSucceeds
<1>3. /\ helper \in [Helper -> Process] /\ t \in Txn /\ c.txn = t /\ inflight \ {c} = {}
      /\ dest \in Tree /\ c \in Command
      /\ (c.cmd \in {1, 2} /\ Synced(t)) \/ c.cmd = 0
  BY <1>1, <1>2, WaitingFacts
<1>4. /\ dest' \in Tree /\ live' \in Tree
      /\ c.cmd = 0 => dest' = dest
  BY <1>2, <1>3, EffectIs
<1>5. inflight' = {} /\ mishaps' \in 0 .. MaxMishaps /\ selected' = selected
  BY <1>2, <1>3 DEF FInv, TypeOK
<1>6. CASE c.cmd = 0
  <2>1. PICK p \in Process :
           /\ At(h, "reloaded") = [helper EXCEPT ![h] = p]
           /\ p.at = "reloaded" /\ p.txn = helper[h].txn /\ p.op = helper[h].op
    BY <1>3, AtIs DEF Working
  <2>2. live' = dest
    BY <1>2, <1>3, <1>6, AbsenceAssumption DEF TakesEffect
  <2>3. /\ Waits(h, c) /\ p.at \in {"reloaded", "notReloaded"} /\ helper' = [helper EXCEPT ![h] = p]
        /\ p.txn = helper[h].txn /\ p.op = helper[h].op
        /\ UNCHANGED <<selected, durable, told>> /\ dest' = dest
        /\ p.at = "reloaded" => live' = dest
    BY <1>2, <1>4, <1>6, <2>1, <2>2
  <2> QED
    BY <1>4, <1>5, <1>6, <2>3, ReloadAnswered
<1>7. CASE c.cmd # 0
  <2>1. PICK p \in Process :
           /\ At(h, "changing") = [helper EXCEPT ![h] = p]
           /\ p.at = "changing" /\ p.txn = helper[h].txn /\ p.op = helper[h].op
    BY <1>3, AtIs DEF Working
  <2>2. PICK k \in {1, 2} : k = c.cmd
    BY <1>3, <1>7
  <2>3. Synced(t)'
    BY <1>2, <1>3, <1>5, <1>7, <2>2, EffectIsSynced
  <2>4. Synced(p.txn)'
    BY <1>1, <2>1, <2>3
  <2>5. /\ Waits(h, c) /\ p.at \in {"changing", "stopping"} /\ helper' = [helper EXCEPT ![h] = p]
        /\ p.txn = helper[h].txn /\ p.op = helper[h].op
        /\ UNCHANGED <<selected, durable, told>>
    BY <1>2, <1>7, <2>1
  <2> QED
    BY <1>4, <1>5, <1>7, <2>4, <2>5, ChangeAnswered
<1> QED
  BY <1>6, <1>7

LEMMA CommandFails_Inv ==
  ASSUME FInv, NEW h \in Helper, NEW c \in inflight, CommandFails(h, c)
  PROVE  FInv'
<1>1. PICK reach \in {"nothing", "disk", "all"} : TakesEffect(c, reach)
  BY DEF CommandFails
<1>2. /\ Waits(h, c) /\ inflight' = inflight \ {c} /\ mishaps > 0 /\ mishaps' = mishaps - 1
      /\ helper' = At(h, IF c.cmd = 0 THEN "notReloaded" ELSE "stopping")
      /\ UNCHANGED <<selected, durable, told>>
  BY DEF CommandFails
<1>3. /\ helper \in [Helper -> Process] /\ inflight \ {c} = {} /\ dest \in Tree /\ c \in Command
  BY <1>2, WaitingFacts
<1>4. /\ dest' \in Tree /\ live' \in Tree
      /\ c.cmd = 0 => dest' = dest
  BY <1>1, <1>3, EffectIs
<1>5. inflight' = {} /\ mishaps' \in 0 .. MaxMishaps
  BY <1>2, <1>3, TargetFirewallAssumption DEF FInv, TypeOK
<1>6. CASE c.cmd = 0
  <2>1. PICK p \in Process :
           /\ At(h, "notReloaded") = [helper EXCEPT ![h] = p]
           /\ p.at = "notReloaded" /\ p.txn = helper[h].txn /\ p.op = helper[h].op
    BY <1>3, AtIs DEF Working
  <2>2. /\ Waits(h, c) /\ p.at \in {"reloaded", "notReloaded"} /\ helper' = [helper EXCEPT ![h] = p]
        /\ p.txn = helper[h].txn /\ p.op = helper[h].op /\ p.at # "reloaded"
        /\ UNCHANGED <<selected, durable, told>> /\ dest' = dest
    BY <1>2, <1>4, <1>6, <2>1
  <2> QED
    BY <1>4, <1>5, <1>6, <2>2, ReloadAnswered
<1>7. CASE c.cmd # 0
  <2>1. PICK p \in Process :
           /\ At(h, "stopping") = [helper EXCEPT ![h] = p]
           /\ p.at = "stopping" /\ p.txn = helper[h].txn /\ p.op = helper[h].op
    BY <1>3, AtIs DEF Working
  <2>2. /\ Waits(h, c) /\ p.at \in {"changing", "stopping"} /\ helper' = [helper EXCEPT ![h] = p]
        /\ p.txn = helper[h].txn /\ p.op = helper[h].op /\ p.at # "changing"
        /\ UNCHANGED <<selected, durable, told>>
    BY <1>2, <1>7, <2>1
  <2> QED
    BY <1>4, <1>5, <1>7, <2>2, ChangeAnswered
<1> QED
  BY <1>6, <1>7

LEMMA CommandTimesOut_Inv ==
  ASSUME FInv, NEW h \in Helper, NEW c \in inflight, CommandTimesOut(h, c)
  PROVE  FInv'
<1>1. PICK place \in {"notReloaded", "stopping"} :
        place = IF c.cmd = 0 THEN "notReloaded" ELSE "stopping"
  OBVIOUS
<1>2. /\ Waits(h, c) /\ mishaps > 0 /\ mishaps' = mishaps - 1
      /\ helper' = [helper EXCEPT ![h].at = place, ![h].unknown = TRUE]
      /\ UNCHANGED <<selected, dest, live, durable, inflight, told>>
  BY <1>1 DEF CommandTimesOut
<1>3. /\ helper \in [Helper -> Process] /\ helper[h] \in Process /\ dest \in Tree /\ live \in Tree
  BY <1>2, WaitingFacts
<1>4. mishaps' \in 0 .. MaxMishaps
  BY <1>2, TargetFirewallAssumption DEF FInv, TypeOK
<1>5. PICK p \in Process :
         /\ helper' = [helper EXCEPT ![h] = p]
         /\ p.at = place /\ p.txn = helper[h].txn /\ p.op = helper[h].op /\ p.unknown
  <2> DEFINE p == [[helper[h] EXCEPT !.at = place] EXCEPT !.unknown = TRUE]
  <2>1. /\ p \in Process /\ p.at = place /\ p.txn = helper[h].txn /\ p.op = helper[h].op
        /\ p.unknown = TRUE
    BY <1>3 DEF Process, Working
  <2>2. helper' = [helper EXCEPT ![h] = p]
    BY <1>2
  <2> QED
    BY <2>1, <2>2
<1>6. dest' \in Tree /\ live' \in Tree /\ dest' = dest /\ inflight' = inflight
  BY <1>2, <1>3
<1>7. CASE c.cmd = 0
  <2>1. p.at = "notReloaded" /\ UNCHANGED <<selected, durable, told>>
    BY <1>1, <1>2, <1>5, <1>7
  <2>2. p.at \in {"reloaded", "notReloaded"} /\ p.at # "reloaded"
    BY <2>1
  <2> QED
    BY <1>2, <1>4, <1>5, <1>6, <1>7, <2>1, <2>2, ReloadAnswered
<1>8. CASE c.cmd # 0
  <2>1. p.at = "stopping" /\ UNCHANGED <<selected, durable, told>>
    BY <1>1, <1>2, <1>5, <1>8
  <2>2. p.at \in {"changing", "stopping"} /\ p.at # "changing"
    BY <2>1
  <2> QED
    BY <1>2, <1>4, <1>5, <1>6, <1>8, <2>1, <2>2, ChangeAnswered
<1> QED
  BY <1>7, <1>8

(* A command that nobody waits for ends, and somebody's change or rollback   *)
(* is still on record.                                                       *)
LEMMA CommandEndsAlone_Inv ==
  ASSUME FInv, NEW c \in inflight, CommandEndsAlone(c)
  PROVE  FInv'
<1>1. PICK reach \in {"nothing", "disk", "all"} : TakesEffect(c, reach)
  BY DEF CommandEndsAlone
<1>2. /\ \A h \in Helper : ~Waits(h, c)
      /\ selected' = selected /\ helper' = helper /\ told' = told /\ mishaps' = mishaps
      /\ marker' = marker /\ copy' = copy /\ journal' = journal /\ staging' = staging
  BY DEF CommandEndsAlone, durable
<1>3. inflight' = {} /\ c \in Command /\ CommandGood(c) /\ \A d \in inflight : d = c
  BY DEF CommandEndsAlone, FInv, TypeOK, Commands
<1>4. PICK t \in Txn : t = c.txn
  BY <1>3 DEF Command
<1>5. /\ dest \in Tree
      /\ c.cmd = 0 => Rolling(t) /\ Phase(t) \in {"reload_intent", "reload_unknown"}
      /\ c.cmd # 0 => Applying(t)
  <2>1. CASE c.cmd = 0
    <3>1. Rolling(t) /\ journal[t] # None /\ Phase(t) \in {"reload_intent", "reload_unknown"}
      BY <1>3, <1>4, <2>1 DEF CommandGood
    <3>2. TreesGood(t)
      BY DEF FInv, Trees
    <3>3. dest # None
      BY <3>1, <3>2 DEF TreesGood, InPhase, Reloading
    <3> QED
      BY <2>1, <3>1, <3>3 DEF FInv, TypeOK
  <2>2. CASE c.cmd # 0
    <3>1. Applying(t)
      BY <1>3, <1>4, <2>2 DEF CommandGood
    <3>2. dest # None
      BY <3>1 DEF FInv, DestGood, Applying, Pending
    <3> QED
      BY <2>2, <3>1, <3>2 DEF FInv, TypeOK
  <2> QED
    BY <2>1, <2>2
<1>6. /\ dest' \in Tree /\ live' \in Tree /\ dest' # None
      /\ c.cmd = 0 => dest' = dest
  BY <1>1, <1>3, <1>5, EffectIs
<1>7. /\ marker # None /\ marker.txn = t
      /\ c.cmd = 0 => marker.phase = "rollback"
      /\ c.cmd # 0 => marker.phase \in {"apply_intent", "apply_unknown"}
  BY <1>5 DEF Rolling, Applying, Pending
<1>8. Trees'
  <2>1. ASSUME NEW u \in Txn, ~Rolling(u) PROVE TreesGood(u)'
    <3>1. ~Rolling(u)'
      BY <1>2, <2>1 DEF Rolling, Pending
    <3> QED
      BY <1>2, <2>1, <3>1, NotRolling
  <2>2. ASSUME NEW u \in Txn, Rolling(u) PROVE TreesGood(u)'
    <3>1. u = t /\ c.cmd = 0 /\ TreesGood(u)
      BY <1>7, <2>2 DEF Rolling, Pending, FInv, Trees
    <3> QED
      BY <1>2, <1>5, <1>6, <3>1
         DEF TreesGood, InPhase, VerifiedBackup, Phase, Rolling, Pending, StagingIntact, NewReady,
             OldKept, Moving, Reloading
  <2> QED
    BY <2>1, <2>2 DEF Trees
<1>9. Commands' /\ MarkerGood' /\ DestGood' /\ SettledAgree'
  BY <1>2, <1>3, <1>6, <1>7 DEF FInv, Commands, MarkerGood, DestGood, SettledAgree, Phase
<1>10. ASSUME NEW h \in Helper PROVE CallGood(helper[h])' /\ PlaceGood(helper[h])'
  <2>1. PICK p : p = helper[h]
    OBVIOUS
  <2>2. /\ CallGood(p) /\ BackupGood(p) /\ ChangeGood(p) /\ RollbackGood(p) /\ FinishGood(p)
        /\ helper'[h] = p
    BY <1>2, <2>1 DEF FInv, Helpers, PlaceGood
  <2>3. p.at \in Waiting => p.txn # t
    BY <1>2, <1>4, <2>1 DEF Waits
  <2>4. inflight # {} /\ \A d \in inflight : d.txn = t
    BY <1>3, <1>4
  <2>5. CallGood(helper[h])'
    BY <1>2, <1>3, <2>1, <2>2 DEF CallGood
  <2>6. BackupGood(p)'
    BY <1>2, <2>2 DEF BackupGood, VerifiedBackup
  <2>7. p.at \notin {"changing", "running", "finishing", "reload", "reloading", "reloaded"}
    BY <2>2, <2>3, <2>4 DEF ChangeGood, RollbackGood, FinishGood, Waiting, AtReload
  <2>8. ChangeGood(p)' /\ FinishGood(p)'
    BY <1>2, <1>3, <2>2, <2>7 DEF ChangeGood, FinishGood, Pending
  <2>9. RollbackGood(p)'
    <3>1. CASE p.at \in Preparing \cup AtReload
      <4>1. Rolling(p.txn) /\ c.cmd = 0 /\ dest' = dest
        BY <1>6, <1>7, <2>2, <3>1 DEF RollbackGood, Rolling, Pending
      <4> QED
        BY <1>2, <1>3, <2>2, <2>7, <4>1
           DEF RollbackGood, PendingElsewhere, Rolling, Pending, Phase
    <3>2. CASE p.at \notin Preparing \cup AtReload
      BY <1>2, <1>3, <2>2, <2>7, <3>2
         DEF RollbackGood, PendingElsewhere, Rolling, Pending, Phase, Preparing, AtReload
    <3> QED
      BY <3>1, <3>2
  <2>10. PlaceGood(p)'
    BY <2>6, <2>8, <2>9 DEF PlaceGood
  <2>11. PlaceGood(helper[h])'
    BY <2>2, <2>10, PlacedBy
  <2> QED
    BY <2>5, <2>11
<1>11. Alone' /\ Helpers'
  BY <1>2, <1>10 DEF FInv, Alone, Helpers, Locked
<1>12. TypeOK'
  BY <1>2, <1>3, <1>6 DEF FInv, TypeOK
<1> QED
  BY <1>8, <1>9, <1>11, <1>12 DEF FInv

(* The administrator's rule goes into the files and into the kernel.         *)
LEMMA AdministratorEdits_Inv ==
  ASSUME FInv, AdministratorEdits
  PROVE  FInv'
<1>1. /\ dest # None /\ dest' = dest \cup {<<Admin, 1>>} /\ live' = live \cup {<<Admin, 1>>}
      /\ selected' = selected /\ helper' = helper /\ told' = told /\ mishaps' = mishaps
      /\ inflight' = inflight
      /\ marker' = marker /\ copy' = copy /\ journal' = journal /\ staging' = staging
  BY DEF AdministratorEdits, durable
<1>2. dest' \in Tree /\ live' \in Tree /\ dest' # None
  <2>1. dest \in Tree /\ live \in Tree /\ <<Admin, 1>> \in Rule
    BY <1>1 DEF FInv, TypeOK, Rule
  <2>2. dest' \in Tree /\ live' \in Tree
    BY <1>1, <2>1 DEF Tree
  <2> QED
    BY <2>2, AbsenceAssumption
<1>3. dest = live => dest' = live'
  BY <1>1
<1>4. Trees'
  <2>1. ASSUME NEW t \in Txn PROVE TreesGood(t)'
    <3>1. TreesGood(t)
      BY DEF FInv, Trees
    <3> QED
      BY <1>1, <1>2, <1>3, <3>1
         DEF TreesGood, InPhase, VerifiedBackup, Phase, Rolling, Pending, StagingIntact, NewReady,
             OldKept, Moving, Reloading
  <2> QED
    BY <2>1 DEF Trees
<1>5. Commands' /\ MarkerGood' /\ DestGood' /\ SettledAgree'
  BY <1>1, <1>2, <1>3
     DEF FInv, Commands, CommandGood, Rolling, Applying, Pending, MarkerGood, DestGood,
         SettledAgree, Phase
<1>6. ASSUME NEW h \in Helper PROVE CallGood(helper[h])' /\ PlaceGood(helper[h])'
  <2>1. PICK p : p = helper[h]
    OBVIOUS
  <2>2. /\ CallGood(p) /\ BackupGood(p) /\ ChangeGood(p) /\ RollbackGood(p) /\ FinishGood(p)
        /\ helper'[h] = p
    BY <1>1, <2>1 DEF FInv, Helpers, PlaceGood
  <2>3. p.at \in Released \cup {"archiving", "copied"}
    <3>1. Locked(h) => p.at \in {"archiving", "copied"}
      BY <2>1 DEF AdministratorEdits
    <3>2. p.at \in Released \cup Working
      BY <2>1 DEF FInv, TypeOK, Process
    <3> QED
      BY <2>1, <3>1, <3>2 DEF Locked
  <2>4. CallGood(helper[h])'
    BY <1>1, <2>1, <2>2 DEF CallGood
  <2>5. PlaceGood(p)'
    BY <1>1, <2>2, <2>3
       DEF PlaceGood, BackupGood, ChangeGood, RollbackGood, FinishGood, VerifiedBackup, Released,
           Preparing, AtReload
  <2>6. PlaceGood(helper[h])'
    BY <2>2, <2>5, PlacedBy
  <2> QED
    BY <2>4, <2>6
<1>7. Alone' /\ Helpers'
  BY <1>1, <1>6 DEF FInv, Alone, Helpers, Locked
<1>8. TypeOK'
  BY <1>1, <1>2 DEF FInv, TypeOK
<1> QED
  BY <1>4, <1>5, <1>7, <1>8 DEF FInv

-----------------------------------------------------------------------------

LEMMA Init_Inv == Init => FInv
<1> SUFFICES ASSUME Init PROVE FInv
  OBVIOUS
<1>1. {} \in Tree /\ {} # None
  BY AbsenceAssumption DEF Tree
<1>2. Idle \in Process /\ \A h \in Helper : helper[h] = Idle
  BY DEF Idle, Process, Released, Init
<1>3. TypeOK
  BY <1>1, <1>2, TargetFirewallAssumption DEF Init, TypeOK
<1>4. Alone
  BY <1>2 DEF Alone, Locked, Idle, Working, Waiting
<1>5. Helpers
  BY <1>2 DEF Helpers, CallGood, PlaceGood, BackupGood, ChangeGood, RollbackGood, FinishGood,
              Idle, Preparing, AtReload
<1>6. Commands /\ Trees /\ MarkerGood /\ DestGood /\ SettledAgree
  BY <1>1 DEF Init, Commands, Trees, TreesGood, MarkerGood, DestGood, SettledAgree
<1> QED
  BY <1>3, <1>4, <1>5, <1>6 DEF FInv

LEMMA Step_Inv ==
  ASSUME FInv, NEW h \in Helper, Step(h)
  PROVE  FInv'
<1>1. CASE Refuse(h) \/ Answer(h) \/ ReleaseActive(h)
  BY <1>1, Refuse_Inv, Answer_Inv, ReleaseActive_Inv
<1>2. CASE CommandEnds(h)
  BY <1>2, CommandSucceeds_Inv, CommandFails_Inv, CommandTimesOut_Inv DEF CommandEnds
<1>3. CASE Backup(h)
  BY <1>3, BeginBackup_Inv, WriteMetadata_Inv, RecordBackedUp_Inv, BackupIsThere_Inv DEF Backup
<1>4. CASE CloseOrBlock(h)
  BY <1>4, NothingToChange_Inv, MarkApplyIntent_Inv, RunCommand_Inv, Changed_Inv,
     RecordApplyError_Inv DEF CloseOrBlock
<1>5. CASE Rollback(h)
  <2>1. CASE BeginJournal(h) \/ ResumeJournal(h) \/ MarkRollback(h) \/ StopRollback(h)
    BY <2>1, BeginJournal_Inv, ResumeJournal_Inv, MarkRollback_Inv, StopRollback_Inv
  <2>2. CASE PrepareStaging(h) \/ WriteOwner(h) \/ Extract(h) \/ Prepared(h)
    BY <2>2, PrepareStaging_Inv, WriteOwner_Inv, Extract_Inv, Prepared_Inv
  <2>3. CASE Proceed(h) \/ MoveOld(h) \/ Install(h)
    BY <2>3, Proceed_Inv, MoveOld_Inv, Install_Inv
  <2>4. CASE ReloadAgain(h) \/ ReloadIntent(h) \/ Reload(h) \/ Reloaded(h) \/ NotReloaded(h)
    BY <2>4, ReloadAgain_Inv, ReloadIntent_Inv, Reload_Inv, Reloaded_Inv, NotReloaded_Inv
  <2>5. CASE BeginCleanup(h) \/ RemoveStaging(h) \/ CleanedUp(h)
    BY <2>5, BeginCleanup_Inv, RemoveStaging_Inv, CleanedUp_Inv
  <2> QED
    BY <1>5, <2>1, <2>2, <2>3, <2>4, <2>5 DEF Rollback
<1> QED
  BY <1>1, <1>2, <1>3, <1>4, <1>5 DEF Step

LEMMA Stutter_Inv ==
  ASSUME FInv, UNCHANGED vars
  PROVE  FInv'
<1>1. UNCHANGED <<selected, dest, live, durable, inflight>> /\ helper' = helper
  BY DEF vars, durable
<1>2. Commands' /\ Trees' /\ MarkerGood' /\ DestGood' /\ SettledAgree'
  BY <1>1, StoreStays DEF durable
<1>3. TypeOK'
  BY DEF vars, durable, FInv, TypeOK
<1>4. ASSUME NEW h \in Helper PROVE CallGood(helper[h])' /\ PlaceGood(helper[h])'
  <2>1. PICK p : p = helper[h]
    OBVIOUS
  <2>2. PlaceGood(p) /\ CallGood(helper[h]) /\ helper'[h] = p
    BY <1>1, <2>1 DEF FInv, Helpers
  <2>3. PlaceGood(p)'
    BY <1>1, <2>2, StillPlaced
  <2> QED
    BY <1>1, <2>2, <2>3, PlacedBy DEF CallGood, durable
<1>5. Alone' /\ Helpers'
  BY <1>1, <1>4 DEF FInv, Alone, Helpers, Locked
<1> QED
  BY <1>2, <1>3, <1>5 DEF FInv

LEMMA Next_Inv == FInv /\ [Next]_vars => FInv'
<1> SUFFICES ASSUME FInv, [Next]_vars PROVE FInv'
  OBVIOUS
<1>1. CASE \E h \in Helper : Step(h) \/ Die(h)
  BY <1>1, Step_Inv, Die_Inv
<1>2. CASE \E h \in Helper, t \in Txn, op \in {"backup", "apply", "rollback"},
              attested \in BOOLEAN : Start(h, t, op, attested)
  BY <1>2, Start_Inv
<1>3. CASE \E c \in inflight : CommandEndsAlone(c)
  BY <1>3, CommandEndsAlone_Inv
<1>4. CASE AdministratorEdits
  BY <1>4, AdministratorEdits_Inv
<1>5. CASE UNCHANGED vars
  BY <1>5, Stutter_Inv
<1> QED
  BY <1>1, <1>2, <1>3, <1>4, <1>5 DEF Next

(* The inductive invariant holds in every reachable state.                   *)
LEMMA Invariance == Spec => []FInv
BY Init_Inv, Next_Inv, PTL DEF Spec

-----------------------------------------------------------------------------
(* Invariants *)

(* Every record the helper writes stays within its format (344-358,          *)
(* 691-747).                                                                 *)
THEOREM TypeCorrect == Spec => []TypeOK
<1>1. FInv => TypeOK
  BY DEF FInv
<1> QED
  BY <1>1, Invariance, PTL

(* A missing configuration directory is the work of a rollback between its   *)
(* two renames, which has both trees and whose journal says so; and the      *)
(* replaced tree is kept until the reload is known to have succeeded         *)
(* (767-864), through kills, lost writes and commands nobody waited for.     *)
THEOREM ConfigurationNeverLost == Spec => []ConfigurationKept
<1>1. FInv => ConfigurationKept
  <2> SUFFICES ASSUME FInv PROVE ConfigurationKept
    OBVIOUS
  <2>1. \A t \in Txn : TreesGood(t)
    BY DEF FInv, Trees
  <2>2. ASSUME dest = None
        PROVE  \E t \in Txn : /\ journal[t] # None /\ Phase(t) \in Moving
                              /\ staging[t] # None /\ OldKept(t) /\ NewReady(t)
    <3>1. marker # None /\ marker.phase = "rollback" /\ Phase(marker.txn) \in Moving
      BY <2>2 DEF FInv, DestGood
    <3>2. marker.txn \in Txn /\ journal[marker.txn] # None
      BY <3>1 DEF FInv, TypeOK, Marker, MarkerGood
    <3>3. /\ staging[marker.txn] # None /\ OldKept(marker.txn) /\ NewReady(marker.txn)
      BY <2>1, <2>2, <3>1, <3>2 DEF TreesGood, InPhase, Moving, StagingIntact
    <3> QED
      BY <3>1, <3>2, <3>3
  <2>3. ASSUME NEW t \in Txn, journal[t] # None,
               Phase(t) \in {"old_saved", "install_intent"} \cup Reloading
        PROVE  staging[t] # None /\ OldKept(t)
    BY <2>1, <2>3 DEF TreesGood, InPhase, Reloading, StagingIntact
  <2> QED
    BY <2>2, <2>3 DEF ConfigurationKept
<1> QED
  BY <1>1, Invariance, PTL

(* Whoever may be changing the machine is named in the marker: the owner of  *)
(* a command that may still be running, and every rollback from prepared     *)
(* until it is completed (344-379, 767-788).                                 *)
THEOREM MarkerNamesTheOwner == Spec => []MarkerKept
<1>1. FInv => MarkerKept
  BY DEF FInv, Commands, CommandGood, Rolling, Applying, Pending, Trees, TreesGood, InPhase,
         MarkerKept
<1> QED
  BY <1>1, Invariance, PTL

(* When nothing is recorded as begun, the configuration directory exists and *)
(* is what the kernel enforces, however many attempts came before (883, 948). *)
THEOREM SettledStateIsConsistent == Spec => []SettledAgree
<1>1. FInv => SettledAgree
  BY DEF FInv
<1> QED
  BY <1>1, Invariance, PTL

-----------------------------------------------------------------------------
(* Commands do not overlap *)

LEMMA QuietPhase ==
  ASSUME FInv, NEW h \in Helper, helper[h].at \in InRollback,
         Phase(helper[h].txn) \notin {"reload_intent", "reload_unknown"}
  PROVE  inflight = {}
BY RollingFacts

(* The trees of a rollback move only in phases in which nothing runs.        *)
LEMMA StagingMovesAlone ==
  ASSUME FInv, NEW h \in Helper, inflight # {},
         Rollback(h) \/ Die(h)
  PROVE  inflight' \subseteq inflight /\ staging' = staging
<1>1. CASE PrepareStaging(h) \/ MoveOld(h) \/ Install(h) \/ RemoveStaging(h)
  <2>1. helper[h].at = "resuming"
        /\ Phase(helper[h].txn) \in {"preparing", "move_old_intent", "install_intent", "completed"}
    BY <1>1 DEF PrepareStaging, MoveOld, Install, RemoveStaging, Resumes
  <2> QED
    BY <2>1, QuietPhase DEF InRollback
<1>2. CASE helper[h].at \in Preparing
  <2>1. Phase(helper[h].txn) = "preparing"
    BY <1>2, Calling DEF RollbackGood, Preparing
  <2> QED
    BY <1>2, <2>1, QuietPhase DEF InRollback
<1>3. CASE WriteOwner(h) \/ Extract(h) \/ Prepared(h)
  BY <1>2, <1>3 DEF WriteOwner, Extract, Prepared, Preparing
<1>4. CASE Reload(h)
  <2>1. helper[h].at = "reload"
    BY <1>4 DEF Reload
  <2>2. inflight = {}
    BY <2>1, Calling DEF RollbackGood
  <2> QED
    BY <2>2
<1>5. CASE BeginJournal(h) \/ ResumeJournal(h) \/ MarkRollback(h) \/ StopRollback(h)
           \/ CleanedUp(h)
  BY <1>5 DEF BeginJournal, ResumeJournal, MarkRollback, StopRollback, CleanedUp, durable
<1>6. CASE Proceed(h) \/ ReloadAgain(h) \/ ReloadIntent(h) \/ Reloaded(h) \/ NotReloaded(h)
           \/ BeginCleanup(h)
  BY <1>6 DEF Proceed, ReloadAgain, ReloadIntent, Reloaded, NotReloaded, BeginCleanup
<1>7. CASE Die(h)
  BY <1>2, <1>7 DEF Die, Preparing
<1> QED
  BY <1>1, <1>3, <1>4, <1>5, <1>6, <1>7 DEF Rollback

(* While a command may still be running, no other command is started and no  *)
(* tree of a rollback moves, whoever is called with whatever attestation     *)
(* (344-379, 767-864).                                                       *)
THEOREM CommandsNeverOverlap == Spec => ChangesDoNotOverlap
<1>1. ASSUME FInv, [Next]_vars
      PROVE  [inflight # {} => inflight' \subseteq inflight /\ staging' = staging]_vars
  <2> SUFFICES ASSUME inflight # {}, Next
               PROVE  inflight' \subseteq inflight /\ staging' = staging
    BY <1>1
  <2>1. ASSUME NEW h \in Helper, Step(h)
        PROVE  inflight' \subseteq inflight /\ staging' = staging
    <3>1. CASE Refuse(h) \/ Answer(h) \/ ReleaseActive(h)
      BY <3>1 DEF Refuse, Answer, ReleaseActive, durable
    <3>2. CASE CommandEnds(h)
      BY <3>2 DEF CommandEnds, CommandSucceeds, CommandFails, CommandTimesOut, durable
    <3>3. CASE Backup(h)
      BY <3>3 DEF Backup, BeginBackup, WriteMetadata, RecordBackedUp, BackupIsThere, durable
    <3>4. CASE NothingToChange(h) \/ MarkApplyIntent(h) \/ Changed(h) \/ RecordApplyError(h)
      BY <3>4 DEF NothingToChange, MarkApplyIntent, Changed, RecordApplyError, durable
    <3>5. CASE RunCommand(h)
      <4>1. helper[h].at = "changing"
        BY <3>5 DEF RunCommand
      <4>2. inflight = {}
        BY <1>1, <4>1, Calling DEF ChangeGood
      <4> QED
        BY <4>2
    <3>6. CASE Rollback(h)
      BY <1>1, <3>6, StagingMovesAlone
    <3> QED
      BY <2>1, <3>1, <3>2, <3>3, <3>4, <3>5, <3>6 DEF Step, CloseOrBlock
  <2>2. ASSUME NEW h \in Helper, Die(h)
        PROVE  inflight' \subseteq inflight /\ staging' = staging
    BY <1>1, <2>2, StagingMovesAlone
  <2>3. CASE \/ \E h \in Helper, t \in Txn, op \in {"backup", "apply", "rollback"},
                   attested \in BOOLEAN : Start(h, t, op, attested)
             \/ \E c \in inflight : CommandEndsAlone(c)
             \/ AdministratorEdits
    BY <2>3 DEF Start, CommandEndsAlone, AdministratorEdits, durable
  <2> QED
    BY <2>1, <2>2, <2>3 DEF Next
<1> QED
  BY <1>1, Invariance, PTL DEF Spec, ChangesDoNotOverlap

-----------------------------------------------------------------------------
(* Answers *)

(* A command that may be running makes its transaction's outcome unknown,    *)
(* unless the call succeeded.                                                *)
LEMMA RunningIsUnknown ==
  ASSUME FInv, NEW h \in Helper, NEW c \in inflight, c.txn = helper[h].txn
  PROVE  OutcomeIsUnknown(h)
<1>1. CommandGood(c)
  BY DEF FInv, Commands
<1> QED
  BY <1>1 DEF CommandGood, Rolling, Applying, Pending, OutcomeIsUnknown, Phase

(* An answer that says done or failed, and not unknown, leaves no command of *)
(* its transaction running (889-911, 966-971): the controller moves on.      *)
THEOREM DefiniteAnswersAreFinal == Spec => DefiniteMeansQuiet
<1>1. ASSUME FInv, [Next]_vars
      PROVE  [\A t \in Txn : told[t] = "none" /\ told'[t] \in {"ok", "failed"}
                => \A c \in inflight : c.txn # t]_vars
  <2> SUFFICES ASSUME Next, NEW t \in Txn, told[t] = "none", told'[t] \in {"ok", "failed"},
                      NEW c \in inflight, c.txn = t
               PROVE  FALSE
    BY <1>1
  <2>1. ASSUME NEW h \in Helper, Answer(h) PROVE FALSE
    <3>1. /\ helper[h].at \in {"failed", "succeeded"}
          /\ told \in [Txn -> {"none", "ok", "failed", "unknown"}]
          /\ helper[h].txn = t
          /\ \/ helper[h].at = "succeeded"
             \/ ~OutcomeIsUnknown(h)
      BY <1>1, <2>1 DEF Answer, FInv, TypeOK
    <3>2. CallGood(helper[h])
      BY <1>1 DEF FInv, Helpers
    <3>3. helper[h].at # "succeeded"
      BY <3>1, <3>2 DEF CallGood
    <3> QED
      BY <1>1, <3>1, <3>3, RunningIsUnknown
  <2>2. told \in [Txn -> {"none", "ok", "failed", "unknown"}]
    BY <1>1 DEF FInv, TypeOK
  <2>3. ASSUME NEW h \in Helper, Step(h) \/ Die(h) PROVE FALSE
    <3>1. CASE Refuse(h) \/ ReleaseActive(h) \/ Die(h)
      BY <3>1 DEF Refuse, ReleaseActive, Die
    <3>2. CASE CommandEnds(h)
      BY <3>2 DEF CommandEnds, CommandSucceeds, CommandFails, CommandTimesOut
    <3>3. CASE Backup(h)
      BY <3>3 DEF Backup, BeginBackup, WriteMetadata, RecordBackedUp, BackupIsThere
    <3>4. CASE CloseOrBlock(h)
      BY <3>4 DEF CloseOrBlock, NothingToChange, MarkApplyIntent, RunCommand, Submit, Changed,
                  RecordApplyError
    <3>5. CASE Rollback(h)
      BY <3>5 DEF Rollback, BeginJournal, ResumeJournal, MarkRollback, StopRollback,
                  PrepareStaging, WriteOwner, Extract, Prepared, Proceed, MoveOld, Install, Rename,
                  ReloadAgain, ReloadIntent, Reload, Submit, Reloaded, NotReloaded, BeginCleanup,
                  RemoveStaging, CleanedUp
    <3> QED
      BY <2>1, <2>3, <3>1, <3>2, <3>3, <3>4, <3>5 DEF Step
  <2>4. CASE \E h \in Helper, u \in Txn, op \in {"backup", "apply", "rollback"},
                attested \in BOOLEAN : Start(h, u, op, attested)
    BY <2>2, <2>4 DEF Start
  <2>5. CASE (\E d \in inflight : CommandEndsAlone(d)) \/ AdministratorEdits
    BY <2>5 DEF CommandEndsAlone, AdministratorEdits
  <2> QED
    BY <2>3, <2>4, <2>5 DEF Next
<1> QED
  BY <1>1, Invariance, PTL DEF Spec, DefiniteMeansQuiet

(* Only two steps of a call are its success.                                 *)
LEMMA NotYetSucceeded ==
  ASSUME TypeOK, NEW h \in Helper, NEW g \in Helper, helper'[g].at = "succeeded",
         \/ \E place \in (Released \cup Working) \ {"succeeded"} : helper' = At(h, place)
         \/ \E unknown \in BOOLEAN : helper' = Fail(h, unknown)
         \/ helper' = helper
  PROVE  helper[g].at = "succeeded"
<1>1. helper \in [Helper -> Process] /\ helper[h] \in Process /\ helper[g] \in Process
  BY DEF TypeOK
<1>2. CASE \E place \in (Released \cup Working) \ {"succeeded"} : helper' = At(h, place)
  BY <1>1, <1>2 DEF At, Process
<1>3. CASE \E unknown \in BOOLEAN : helper' = Fail(h, unknown)
  BY <1>1, <1>3 DEF Fail, Process
<1> QED
  BY <1>2, <1>3

LEMMA WriteNotYetSucceeded ==
  ASSUME TypeOK, NEW h \in Helper, NEW g \in Helper, helper'[g].at = "succeeded",
         NEW next, NEW write, Write(h, write, next),
         \/ \E place \in (Released \cup Working) \ {"succeeded"} : next = At(h, place)
         \/ \E unknown \in BOOLEAN : next = Fail(h, unknown)
         \/ next = helper
  PROVE  helper[g].at = "succeeded"
<1>1. helper' = next \/ helper' = Fail(h, FALSE)
  BY DEF Write
<1> QED
  BY <1>1, NotYetSucceeded

LEMMA SucceedingSteps ==
  ASSUME FInv, NEW h \in Helper, NEW g \in Helper, Step(h) \/ Die(h),
         helper[g].at # "succeeded", helper'[g].at = "succeeded"
  PROVE  ReleaseActive(h) \/ RecordBackedUp(h) \/ BackupIsThere(h)
<1>1. TypeOK /\ helper \in [Helper -> Process] /\ helper[h] \in Process
  BY DEF FInv, TypeOK
<1> DEFINE Elsewhere == (Released \cup Working) \ {"succeeded"}
<1>2. ASSUME \/ \E place \in Elsewhere : helper' = At(h, place)
             \/ \E unknown \in BOOLEAN : helper' = Fail(h, unknown)
             \/ helper' = helper
      PROVE  FALSE
  BY ONLY <1>1, <1>2, NotYetSucceeded, helper[g].at # "succeeded", helper'[g].at = "succeeded"
<1>3. ASSUME NEW next, NEW write, Write(h, write, next),
             \/ \E place \in Elsewhere : next = At(h, place)
             \/ \E unknown \in BOOLEAN : next = Fail(h, unknown)
             \/ next = helper
      PROVE  FALSE
  BY <1>1, <1>3, WriteNotYetSucceeded
<1>4. {"archiving", "copied", "changing", "finishing", "marking", "resuming", "staged",
       "extracting", "extracted", "reload", "running", "reloading", "reloaded", "notReloaded",
       "stopping"} \subseteq Elsewhere
  BY DEF Released, Working, Waiting
<1> HIDE DEF Elsewhere
<1>5. CASE Refuse(h)
  BY <1>2, <1>5 DEF Refuse
<1>6. CASE Answer(h) \/ Die(h)
  BY <1>1, <1>6 DEF Answer, Die, Idle
<1>7. CASE CommandEnds(h)
  <2>1. PICK c \in inflight : CommandSucceeds(h, c) \/ CommandFails(h, c) \/ CommandTimesOut(h, c)
    BY <1>7 DEF CommandEnds
  <2>2. CASE CommandSucceeds(h, c)
    BY <1>2, <1>4, <2>2 DEF CommandSucceeds
  <2>3. CASE CommandFails(h, c)
    BY <1>2, <1>4, <2>3 DEF CommandFails
  <2>4. CASE CommandTimesOut(h, c)
    BY <1>1, <2>4 DEF CommandTimesOut, Process
  <2> QED
    BY <2>1, <2>2, <2>3, <2>4
<1>8. CASE BeginBackup(h)
  <2>1. PICK write \in Writes :
          Write(h, write, [helper EXCEPT ![h].at = "archiving", ![h].seen = dest])
    BY <1>8 DEF BeginBackup
  <2>2. CASE write = "done"
    BY <1>1, <2>1, <2>2 DEF Write, Process
  <2>3. CASE write # "done"
    BY <1>2, <2>1, <2>3 DEF Write
  <2> QED
    BY <2>2, <2>3
<1>9. CASE WriteMetadata(h)
  BY <1>2, <1>3, <1>4, <1>9 DEF WriteMetadata
<1>10. CASE NothingToChange(h) \/ Changed(h) \/ RunCommand(h)
  BY <1>2, <1>4, <1>10 DEF NothingToChange, Changed, RunCommand, Submit
<1>11. CASE MarkApplyIntent(h) \/ MarkRollback(h)
  BY <1>3, <1>4, <1>11 DEF MarkApplyIntent, MarkRollback, RecordActive
<1>12. CASE RecordApplyError(h)
  BY <1>1, <1>3, <1>12 DEF RecordApplyError, RecordActive, Process
<1>13. CASE ResumeJournal(h) \/ StopRollback(h) \/ CleanedUp(h) \/ Reload(h)
  BY <1>2, <1>4, <1>13 DEF ResumeJournal, StopRollback, CleanedUp, Reload, Submit
<1>14. CASE BeginJournal(h) \/ ReloadIntent(h) \/ BeginCleanup(h) \/ Proceed(h)
  BY <1>3, <1>4, <1>14 DEF BeginJournal, ReloadIntent, BeginCleanup, Proceed, RollbackCheckpoint,
                           Checkpoint
<1>15. CASE PrepareStaging(h) \/ WriteOwner(h) \/ Extract(h) \/ RemoveStaging(h)
  BY <1>3, <1>4, <1>15 DEF PrepareStaging, WriteOwner, Extract, RemoveStaging, ChangeStaging
<1>16. CASE Prepared(h) \/ ReloadAgain(h) \/ Reloaded(h)
  BY <1>2, <1>3, <1>4, <1>16 DEF Prepared, ReloadAgain, Reloaded, RollbackCheckpoint, Checkpoint
<1>17. CASE NotReloaded(h)
  BY <1>1, <1>3, <1>17 DEF NotReloaded, RollbackCheckpoint, Checkpoint, Process
<1>18. CASE MoveOld(h) \/ Install(h)
  BY <1>3, <1>18 DEF MoveOld, Install, Rename
<1> QED
  BY <1>5, <1>6, <1>7, <1>8, <1>9, <1>10, <1>11, <1>12, <1>13, <1>14, <1>15, <1>16, <1>17, <1>18
     DEF Step, Backup, CloseOrBlock, Rollback

(* A rollback that succeeds, at once, resumed or replayed, has put the saved *)
(* configuration in place and in force, has left nothing behind, and no      *)
(* command is running that could change it again (867-886).                  *)
THEOREM RollbackRestoresWhatWasSaved == Spec => RollbackRestores
<1>1. ASSUME FInv, [Next]_vars
      PROVE  [\A h \in Helper :
                helper[h].op = "rollback" /\ helper[h].at # "succeeded" /\
                helper'[h].at = "succeeded"
                  => LET t == helper[h].txn IN
                     dest = copy[t] /\ live = copy[t] /\ staging[t] = None /\ inflight = {}]_vars
  <2> SUFFICES ASSUME Next, NEW g \in Helper, helper[g].op = "rollback",
                      helper[g].at # "succeeded", helper'[g].at = "succeeded",
                      NEW t, t = helper[g].txn
               PROVE  dest = copy[t] /\ live = copy[t] /\ staging[t] = None /\ inflight = {}
    BY <1>1
  <2>1. helper \in [Helper -> Process] /\ helper[g] \in Process
    BY <1>1 DEF FInv, TypeOK
  <2>2. ASSUME NEW h \in Helper, Step(h) \/ Die(h)
        PROVE  dest = copy[t] /\ live = copy[t] /\ staging[t] = None /\ inflight = {}
    <3>1. ReleaseActive(h) \/ RecordBackedUp(h) \/ BackupIsThere(h)
      BY <1>1, <2>2, SucceedingSteps
    <3>2. helper' = At(h, "succeeded") \/ helper' = Fail(h, FALSE)
      BY <3>1 DEF ReleaseActive, RecordBackedUp, BackupIsThere, RecordActive, Write
    <3>3. g = h
      BY <2>1, <3>2 DEF At, Fail
    <3>4. ~RecordBackedUp(h) /\ ~BackupIsThere(h)
      <4>1. ASSUME RecordBackedUp(h) PROVE FALSE
        <5>1. helper[h].at = "copied"
          BY <4>1 DEF RecordBackedUp
        <5>2. BackupGood(helper[h])
          BY <1>1, <5>1, Calling
        <5> QED
          BY <3>3, <5>1, <5>2 DEF BackupGood
      <4>2. ASSUME BackupIsThere(h) PROVE FALSE
        BY <3>3, <4>2 DEF BackupIsThere, Entered
      <4> QED
        BY <4>1, <4>2
    <3>5. helper[h].at = "finishing"
      BY <3>1, <3>4 DEF ReleaseActive
    <3>6. FinishGood(helper[h])
      BY <1>1, <3>5, Calling
    <3> QED
      BY <3>3, <3>5, <3>6 DEF FinishGood
  <2>3. CASE \E h \in Helper, u \in Txn, op \in {"backup", "apply", "rollback"},
                attested \in BOOLEAN : Start(h, u, op, attested)
    BY <2>1, <2>3 DEF Start, Idle
  <2>4. CASE (\E c \in inflight : CommandEndsAlone(c)) \/ AdministratorEdits
    BY <2>4 DEF CommandEndsAlone, AdministratorEdits
  <2> QED
    BY <2>2, <2>3, <2>4 DEF Next
<1> QED
  BY <1>1, Invariance, PTL DEF Spec, RollbackRestores

-----------------------------------------------------------------------------
(* The helper saves and restores in one step *)

Stutters == Effective' = Effective /\ Saved' = Saved /\ Owner' = Owner

(* While the directory is missing, its content is what the rollback that     *)
(* owns the marker has put aside.                                            *)
LEMMA EffectiveIs ==
  ASSUME FInv
  PROVE  /\ dest # None => Effective = dest
         /\ dest = None => /\ marker # None /\ marker.txn \in Txn
                           /\ Effective = staging[marker.txn].previous
<1>1. CASE dest # None
  BY <1>1 DEF Effective
<1>2. CASE dest = None
  <2>1. /\ marker # None /\ marker.txn \in Txn
        /\ journal[marker.txn] # None /\ Phase(marker.txn) \in Moving
    BY <1>2 DEF FInv, DestGood, MarkerGood, TypeOK, Marker
  <2>2. ASSUME NEW u \in Txn, journal[u] # None, Phase(u) \in Moving PROVE u = marker.txn
    <3>1. TreesGood(u)
      BY DEF FInv, Trees
    <3> QED
      BY <2>2, <3>1 DEF TreesGood, InPhase, Moving, Rolling, Pending
  <2>3. (CHOOSE u \in Txn : journal[u] # None /\ Phase(u) \in Moving) = marker.txn
    BY <2>1, <2>2
  <2> QED
    BY <1>2, <2>1, <2>3 DEF Effective
<1> QED
  BY <1>1, <1>2

LEMMA EffectiveBecomes ==
  ASSUME FInv'
  PROVE  /\ dest' # None => Effective' = dest'
         /\ dest' = None => /\ marker' # None /\ marker'.txn \in Txn
                            /\ Effective' = staging'[marker'.txn].previous
<1>1. CASE dest' # None
  BY <1>1 DEF Effective
<1>2. CASE dest' = None
  <2>1. /\ marker' # None /\ marker'.txn \in Txn /\ journal'[marker'.txn] # None
        /\ journal'[marker'.txn].phase \in Moving
    BY <1>2 DEF FInv, DestGood, MarkerGood, TypeOK, Marker, Phase
  <2>2. ASSUME NEW u \in Txn, journal'[u] # None, journal'[u].phase \in Moving
        PROVE  u = marker'.txn
    <3>1. TreesGood(u)'
      BY DEF FInv, Trees
    <3> QED
      BY <2>2, <3>1 DEF TreesGood, InPhase, Moving, Rolling, Pending, Phase
  <2>3. (CHOOSE u \in Txn : journal'[u] # None /\ journal'[u].phase \in Moving) = marker'.txn
    BY <2>1, <2>2
  <2> QED
    BY <1>2, <2>1, <2>3 DEF Effective, Phase
<1> QED
  BY <1>1, <1>2

(* What leaves the directory and the trees put aside alone leaves the        *)
(* configuration alone.                                                      *)
LEMMA SameConfiguration ==
  ASSUME FInv, FInv', dest' = dest,
         dest = None => staging' = staging /\ marker'.txn = marker.txn
  PROVE  Effective' = Effective
BY EffectiveIs, EffectiveBecomes

LEMMA SameSaved ==
  ASSUME copy' = copy
  PROVE  Saved' = Saved
BY DEF Saved, VerifiedBackup

LEMMA SameOwner ==
  ASSUME marker' = marker
  PROVE  Owner' = Owner
BY DEF Owner

(* A step that touches no copy, no marker and no directory.                  *)
LEMMA Unseen ==
  ASSUME FInv, FInv', UNCHANGED <<dest, marker, copy>>, dest = None => staging' = staging
  PROVE  Stutters
BY SameConfiguration, SameSaved, SameOwner DEF Stutters

LEMMA SavingStep ==
  ASSUME FInv, FInv', NEW h \in Helper, WriteMetadata(h)
  PROVE  Atomic!Next \/ Stutters
<1>1. PICK t : t = helper[h].txn
  OBVIOUS
<1>2. helper[h].at = "archiving" /\ UNCHANGED <<dest, marker, staging>>
  BY DEF WriteMetadata
<1>3. /\ t \in Txn /\ copy[t] = Partial /\ helper[h].seen # None /\ helper[h] \in Process
  BY <1>1, <1>2, Calling DEF BackupGood
<1>4. /\ copy' = copy \/ (copy' = [copy EXCEPT ![t] = Partial])
         \/ (copy' = [copy EXCEPT ![t] = helper[h].seen] /\ dest = helper[h].seen)
  BY <1>1 DEF WriteMetadata
<1>5. copy \in [Txn -> Tree \cup {None, Partial}] /\ helper[h].seen \in Tree \cup {None}
  BY <1>3 DEF FInv, TypeOK, Process
<1>6. Effective' = Effective /\ Owner' = Owner
  BY <1>2, SameConfiguration, SameOwner
<1>7. CASE copy' = copy \/ copy' = [copy EXCEPT ![t] = Partial]
  <2>1. copy' = copy
    BY <1>3, <1>5, <1>7
  <2> QED
    BY <1>6, <2>1, SameSaved DEF Stutters
<1>8. CASE copy' = [copy EXCEPT ![t] = helper[h].seen] /\ dest = helper[h].seen
  <2>1. dest \in Tree /\ dest # None /\ dest # Partial
    <3>1. dest \in Tree
      BY <1>3, <1>5, <1>8
    <3> QED
      BY <3>1, AbsenceAssumption
  <2>2. Effective = dest
    BY <2>1, EffectiveIs
  <2>3. Saved[t] = None
    BY <1>3 DEF Saved, VerifiedBackup
  <2>4. Saved' = [Saved EXCEPT ![t] = dest]
    BY <1>3, <1>5, <1>8, <2>1 DEF Saved, VerifiedBackup
  <2>5. Atomic!Save(t)
    BY <1>6, <2>2, <2>3, <2>4 DEF Atomic!Save
  <2> QED
    BY <1>3, <2>5 DEF Atomic!Next
<1> QED
  BY <1>4, <1>7, <1>8

LEMMA BeginBackupStep ==
  ASSUME FInv, FInv', NEW h \in Helper, BeginBackup(h)
  PROVE  Stutters
<1>1. PICK t : t = helper[h].txn
  OBVIOUS
<1>2. /\ helper[h].at = "entered" /\ copy[t] = None /\ UNCHANGED <<dest, marker, staging>>
      /\ copy' = copy \/ copy' = [copy EXCEPT ![t] = Partial]
  BY <1>1 DEF BeginBackup, Entered
<1>3. t \in Txn /\ copy \in [Txn -> Tree \cup {None, Partial}]
  BY <1>1, <1>2, Calling DEF FInv, TypeOK
<1>4. Saved' = Saved
  BY <1>2, <1>3 DEF Saved, VerifiedBackup
<1> QED
  BY <1>2, <1>4, SameConfiguration, SameOwner DEF Stutters

LEMMA ChangingStep ==
  ASSUME FInv, FInv', NEW h \in Helper, MarkApplyIntent(h)
  PROVE  Atomic!Next \/ Stutters
<1>1. PICK t : t = helper[h].txn
  OBVIOUS
<1>2. /\ helper[h].at = "entered" /\ (marker = None \/ Pending(t, {"backed_up"}))
      /\ VerifiedBackup(t) /\ dest = copy[t] /\ UNCHANGED <<dest, copy, staging>>
      /\ marker' = marker \/ marker' = [txn |-> t, phase |-> "apply_intent"]
  BY <1>1 DEF MarkApplyIntent, MayApply, Entered, RecordActive
<1>3. t \in Txn
  BY <1>1, <1>2, Calling
<1>4. dest # None /\ Owner = None
  BY <1>2 DEF VerifiedBackup, Owner, Pending
<1>5. Effective' = Effective /\ Effective = dest /\ Saved' = Saved
  BY <1>2, <1>4, SameConfiguration, SameSaved, EffectiveIs
<1>6. CASE marker' = marker
  BY <1>5, <1>6, SameOwner DEF Stutters
<1>7. CASE marker' = [txn |-> t, phase |-> "apply_intent"]
  <2>1. marker' \in Marker
    BY <1>3, <1>7 DEF Marker
  <2>2. marker' # None
    BY <2>1, AbsenceAssumption
  <2>3. Owner' = [txn |-> t, mode |-> "change"]
    BY <1>7, <2>2 DEF Owner
  <2>4. Saved[t] = copy[t] /\ Saved[t] # None
    BY <1>2, <1>3, <1>4 DEF Saved
  <2>5. Atomic!BeginChange(t)
    BY <1>2, <1>4, <1>5, <2>3, <2>4 DEF Atomic!BeginChange
  <2> QED
    BY <1>3, <2>5 DEF Atomic!Next
<1> QED
  BY <1>2, <1>6, <1>7

LEMMA RestoringStep ==
  ASSUME FInv, FInv', NEW h \in Helper, MarkRollback(h)
  PROVE  Atomic!Next \/ Stutters
<1>1. PICK t : t = helper[h].txn
  OBVIOUS
<1>2. /\ helper[h].at = "marking" /\ UNCHANGED <<dest, copy, staging>>
      /\ marker' = marker \/ marker' = [txn |-> t, phase |-> "rollback"]
  BY <1>1 DEF MarkRollback, RecordActive
<1>3. t \in Txn /\ journal[t] # None /\ ~PendingElsewhere(t)
  BY <1>1, <1>2, Calling DEF RollbackGood
<1>4. VerifiedBackup(t)
  BY <1>3 DEF FInv, Trees, TreesGood
<1>5. marker = None \/ marker.txn = t
  BY <1>3 DEF PendingElsewhere
<1>6. CASE marker' = marker
  BY <1>2, <1>6, Unseen
<1>7. CASE marker' = [txn |-> t, phase |-> "rollback"]
  <2>1. marker' \in Marker
    BY <1>3, <1>7 DEF Marker
  <2>2. marker' # None
    BY <2>1, AbsenceAssumption
  <2>3. Owner' = [txn |-> t, mode |-> "restore"]
    BY <1>7, <2>2 DEF Owner
  <2>4. dest = None => marker # None
    BY DEF FInv, DestGood
  <2>5. Effective' = Effective /\ Saved' = Saved
    BY <1>2, <1>5, <1>7, <2>4, SameConfiguration, SameSaved
  <2>6. Saved[t] # None
    BY <1>3, <1>4 DEF Saved, VerifiedBackup
  <2>7. Owner = None \/ Owner.txn = t
    BY <1>5 DEF Owner
  <2>8. Atomic!BeginRestore(t)
    BY <2>3, <2>5, <2>6, <2>7 DEF Atomic!BeginRestore
  <2> QED
    BY <1>3, <2>8 DEF Atomic!Next
<1> QED
  BY <1>2, <1>6, <1>7

LEMMA RecordingStep ==
  ASSUME FInv, FInv', NEW h \in Helper, RecordBackedUp(h) \/ RecordApplyError(h)
  PROVE  Stutters
<1>1. PICK t : t = helper[h].txn
  OBVIOUS
<1>2. UNCHANGED <<dest, copy, staging>>
  BY DEF RecordBackedUp, RecordApplyError
<1>3. CASE RecordBackedUp(h)
  <2>1. /\ helper[h].at = "copied"
        /\ marker' = marker \/ marker' = [txn |-> t, phase |-> "backed_up"]
    BY <1>1, <1>3 DEF RecordBackedUp, RecordActive
  <2>2. marker = None
    BY <2>1, Calling DEF BackupGood
  <2>3. dest # None
    BY <2>2 DEF FInv, DestGood
  <2>4. Owner' = Owner
    BY <2>1, <2>2 DEF Owner
  <2> QED
    BY <1>2, <2>3, <2>4, SameConfiguration, SameSaved DEF Stutters
<1>4. CASE RecordApplyError(h)
  <2>1. PICK phase \in {"apply_unknown", "apply_failed"} :
          /\ helper[h].at = "stopping"
          /\ marker' = marker \/ marker' = [txn |-> t, phase |-> phase]
    BY <1>1, <1>4 DEF RecordApplyError, RecordActive
  <2>2. marker # None /\ marker.txn = t /\ marker.phase = "apply_intent" /\ t \in Txn
    BY <1>1, <2>1, Calling DEF ChangeGood, Pending
  <2>3. dest # None
    BY <2>2 DEF FInv, DestGood
  <2>4. Owner' = Owner
    <3>1. CASE marker' = marker
      BY <3>1, SameOwner
    <3>2. CASE marker' = [txn |-> t, phase |-> phase]
      <4>1. marker' \in Marker
        BY <2>2, <3>2 DEF Marker
      <4>2. marker' # None
        BY <4>1, AbsenceAssumption
      <4> QED
        BY <2>2, <3>2, <4>2 DEF Owner
    <3> QED
      BY <2>1, <3>1, <3>2
  <2> QED
    BY <1>2, <2>3, <2>4, SameConfiguration, SameSaved DEF Stutters
<1> QED
  BY <1>3, <1>4

LEMMA ReleasingStep ==
  ASSUME FInv, FInv', NEW h \in Helper, ReleaseActive(h)
  PROVE  Atomic!Next \/ Stutters
<1>1. /\ helper[h].at = "finishing" /\ UNCHANGED <<dest, copy, staging>>
      /\ marker' = marker \/ marker' = None
  BY DEF ReleaseActive, RecordActive
<1>2. dest # None
  BY <1>1, Calling DEF FinishGood
<1>3. Effective' = Effective /\ Saved' = Saved
  BY <1>1, <1>2, SameConfiguration, SameSaved
<1>4. Owner' = Owner \/ Owner' = None
  BY <1>1 DEF Owner
<1>5. CASE Owner' = Owner
  BY <1>3, <1>5 DEF Stutters
<1>6. CASE Owner' = None /\ Owner # None
  BY <1>3, <1>6 DEF Atomic!Next, Atomic!Release
<1> QED
  BY <1>4, <1>5, <1>6

(* The directory goes away, and what it was stays the configuration.         *)
LEMMA MovingStep ==
  ASSUME FInv, FInv', NEW h \in Helper, MoveOld(h)
  PROVE  Stutters
<1>1. PICK t : t = helper[h].txn
  OBVIOUS
<1>2. /\ helper[h].at = "resuming" /\ dest # None /\ UNCHANGED <<marker, copy>>
      /\ \/ dest' = dest
         \/ dest' = None /\ staging' = [staging EXCEPT ![t] = [staging[t] EXCEPT !.previous = dest]]
  BY <1>1 DEF MoveOld, Resumes, StillToRename, Rename
<1>3. CASE dest' = dest
  BY <1>2, <1>3, Unseen
<1>4. CASE dest' = None /\ staging' = [staging EXCEPT ![t] = [staging[t] EXCEPT !.previous = dest]]
  <2>1. /\ t \in Txn /\ Rolling(t) /\ staging[t] \in Staging \cup {None}
        /\ staging \in [Txn -> Staging \cup {None}]
    BY <1>1, <1>2, RollingFacts DEF InRollback, FInv, TypeOK
  <2>2. staging[t] # None
    BY <1>1, <1>2 DEF MoveOld, Resumes, Agrees, StagingIntact
  <2>3. staging'[t].previous = dest
    BY <1>4, <2>1, <2>2 DEF Staging
  <2>4. marker'.txn = t
    BY <1>2, <2>1 DEF Rolling, Pending
  <2>5. Effective' = dest /\ Effective = dest
    BY <1>2, <1>4, <2>3, <2>4, EffectiveIs, EffectiveBecomes
  <2> QED
    BY <1>2, <2>5, SameSaved, SameOwner DEF Stutters
<1> QED
  BY <1>2, <1>3, <1>4

LEMMA InstallingStep ==
  ASSUME FInv, FInv', NEW h \in Helper, Install(h)
  PROVE  Atomic!Next \/ Stutters
<1>1. PICK t : t = helper[h].txn
  OBVIOUS
<1>2. /\ helper[h].at = "resuming" /\ Phase(t) = "install_intent" /\ Agrees(t)
      /\ staging[t].etc # None /\ UNCHANGED <<marker, copy>>
      /\ \/ dest' = dest /\ staging' = staging
         \/ dest' = staging[t].etc
  BY <1>1 DEF Install, Resumes, StillToRename, Rename
<1>3. /\ t \in Txn /\ Rolling(t) /\ copy[t] # None /\ copy[t] # Partial
  BY <1>1, <1>2, RollingFacts DEF InRollback
<1>4. CASE dest' = dest /\ staging' = staging
  BY <1>2, <1>4, Unseen
<1>5. CASE dest' = staging[t].etc
  <2>1. dest' = copy[t]
    BY <1>2, <1>5 DEF Agrees, NewReady
  <2>2. Effective' = copy[t] /\ Saved' = Saved /\ Owner' = Owner
    BY <1>2, <1>3, <2>1, EffectiveBecomes, SameSaved, SameOwner
  <2>3. Saved[t] = copy[t]
    BY <1>3 DEF Saved, VerifiedBackup
  <2>4. Owner = [txn |-> t, mode |-> "restore"]
    BY <1>3 DEF Rolling, Pending, Owner
  <2>5. Atomic!Restore(t)
    BY <2>2, <2>3, <2>4 DEF Atomic!Restore
  <2> QED
    BY <1>3, <2>5 DEF Atomic!Next
<1> QED
  BY <1>2, <1>4, <1>5

(* A command adds rules of the transaction that owns the configuration.      *)
LEMMA EffectStep ==
  ASSUME FInv, FInv', NEW c \in inflight, NEW reach \in {"nothing", "disk", "all"},
         TakesEffect(c, reach), UNCHANGED <<marker, copy, staging>>
  PROVE  Atomic!Next \/ Stutters
<1>1. c \in Command /\ CommandGood(c)
  BY DEF FInv, TypeOK, Commands
<1>2. CASE c.cmd = 0
  <2>1. dest' = dest
    BY <1>2 DEF TakesEffect
  <2> QED
    BY <2>1, Unseen
<1>3. CASE c.cmd # 0
  <2>1. PICK t \in Txn : t = c.txn
    BY <1>1 DEF Command
  <2>2. Applying(t)
    BY <1>1, <1>3, <2>1 DEF CommandGood
  <2>3. dest # None /\ dest \in Tree
    BY <2>2 DEF FInv, DestGood, TypeOK, Applying, Pending
  <2>4. /\ dest' # None
        /\ \E rules \in SUBSET {<<t, 1>>, <<t, 2>>} : dest' = dest \cup rules
    BY <1>1, <1>3, <2>1, <2>3, EffectIs
  <2>5. {<<t, 1>>, <<t, 2>>} = Atomic!RulesOf(t)
    BY DEF Atomic!RulesOf
  <2>6. Effective = dest /\ Effective' = dest'
    BY <2>3, <2>4, EffectiveIs, EffectiveBecomes
  <2>7. Owner = [txn |-> t, mode |-> "change"]
    BY <2>2 DEF Applying, Pending, Owner
  <2>8. Saved' = Saved /\ Owner' = Owner
    BY SameSaved, SameOwner
  <2>9. Atomic!Change(t)
    BY <2>4, <2>5, <2>6, <2>7, <2>8 DEF Atomic!Change
  <2> QED
    BY <2>9 DEF Atomic!Next
<1> QED
  BY <1>2, <1>3

LEMMA CommandStep ==
  ASSUME FInv, FInv', NEW h \in Helper, CommandEnds(h)
  PROVE  Atomic!Next \/ Stutters
<1>1. PICK c \in inflight : CommandSucceeds(h, c) \/ CommandFails(h, c) \/ CommandTimesOut(h, c)
  BY DEF CommandEnds
<1>2. CASE CommandSucceeds(h, c)
  BY <1>2, EffectStep DEF CommandSucceeds, durable
<1>3. CASE CommandFails(h, c)
  BY <1>3, EffectStep DEF CommandFails, durable
<1>4. CASE CommandTimesOut(h, c)
  BY <1>4, Unseen DEF CommandTimesOut, durable
<1> QED
  BY <1>1, <1>2, <1>3, <1>4

(* Staging directories are prepared and removed while the configuration is   *)
(* in its place.                                                             *)
LEMMA StagingStep ==
  ASSUME FInv, FInv', NEW h \in Helper,
         \/ PrepareStaging(h) \/ WriteOwner(h) \/ Extract(h) \/ Prepared(h)
         \/ RemoveStaging(h) \/ Die(h)
  PROVE  Stutters
<1>1. UNCHANGED <<dest, marker, copy>>
  BY DEF PrepareStaging, WriteOwner, Extract, Prepared, RemoveStaging, Die
<1>2. CASE staging' = staging
  BY <1>1, <1>2, Unseen
<1>3. CASE staging' # staging
  <2>1. CASE PrepareStaging(h)
    <3>1. /\ helper[h].at = "resuming" /\ dest = journal[helper[h].txn].previous
      BY <2>1 DEF PrepareStaging, Resumes, Agrees, LiveIsOld
    <3>2. dest # None
      BY <3>1, RollingFacts DEF InRollback
    <3> QED
      BY <1>1, <3>2, Unseen
  <2>2. CASE RemoveStaging(h)
    <3>1. /\ helper[h].at = "resuming" /\ dest = copy[helper[h].txn]
      BY <2>2 DEF RemoveStaging, Resumes, Agrees, LiveIsNew
    <3>2. dest # None
      BY <3>1, RollingFacts DEF InRollback
    <3> QED
      BY <1>1, <3>2, Unseen
  <2>3. CASE WriteOwner(h) \/ Extract(h) \/ Prepared(h) \/ Die(h)
    <3>1. helper[h].at \in Preparing
      BY <1>3, <2>3 DEF WriteOwner, Extract, Prepared, Die, Preparing
    <3>2. dest # None
      BY <3>1, Calling DEF RollbackGood, Preparing
    <3> QED
      BY <1>1, <3>2, Unseen
  <2> QED
    BY <2>1, <2>2, <2>3
<1> QED
  BY <1>2, <1>3

LEMMA EditStep ==
  ASSUME FInv, FInv', AdministratorEdits
  PROVE  Atomic!Next \/ Stutters
<1>1. /\ Edits /\ dest # None /\ dest' = dest \cup {<<Admin, 1>>} /\ UNCHANGED <<marker, copy>>
  BY DEF AdministratorEdits, durable
<1>2. dest' \in Tree \cup {None} /\ dest \in Tree
  BY <1>1 DEF FInv, TypeOK
<1>3. dest' \in Tree
  BY <1>1, <1>2 DEF Tree, Rule
<1>4. dest' # None
  BY <1>3, AbsenceAssumption
<1>5. /\ Effective = dest /\ Effective' = dest' /\ Saved' = Saved /\ Owner' = Owner
  BY <1>1, <1>4, EffectiveIs, EffectiveBecomes, SameSaved, SameOwner
<1>6. Atomic!AdministratorEdits
  BY <1>1, <1>5 DEF Atomic!AdministratorEdits
<1> QED
  BY <1>6 DEF Atomic!Next

LEMMA StepRefines ==
  ASSUME FInv, FInv', NEW h \in Helper, Step(h) \/ Die(h)
  PROVE  Atomic!Next \/ Stutters
<1>1. CASE Refuse(h) \/ Answer(h)
  BY <1>1, Unseen DEF Refuse, Answer, durable
<1>2. CASE ReleaseActive(h) \/ CommandEnds(h)
  BY <1>2, ReleasingStep, CommandStep
<1>3. CASE BeginBackup(h) \/ WriteMetadata(h) \/ RecordBackedUp(h) \/ RecordApplyError(h)
  BY <1>3, BeginBackupStep, SavingStep, RecordingStep
<1>4. CASE MarkApplyIntent(h) \/ MarkRollback(h)
  BY <1>4, ChangingStep, RestoringStep
<1>5. CASE BackupIsThere(h) \/ NothingToChange(h) \/ RunCommand(h) \/ Changed(h)
  BY <1>5, Unseen DEF BackupIsThere, NothingToChange, RunCommand, Submit, Changed, durable
<1>6. CASE BeginJournal(h) \/ ResumeJournal(h) \/ StopRollback(h) \/ Proceed(h) \/ CleanedUp(h)
           \/ BeginCleanup(h)
  BY <1>6, Unseen DEF BeginJournal, ResumeJournal, StopRollback, Proceed, CleanedUp, BeginCleanup,
                      durable
<1>7. CASE ReloadAgain(h) \/ ReloadIntent(h) \/ Reload(h) \/ Reloaded(h) \/ NotReloaded(h)
  BY <1>7, Unseen DEF ReloadAgain, ReloadIntent, Reload, Submit, Reloaded, NotReloaded, durable
<1>8. CASE MoveOld(h) \/ Install(h)
  BY <1>8, MovingStep, InstallingStep
<1>9. CASE \/ PrepareStaging(h) \/ WriteOwner(h) \/ Extract(h) \/ Prepared(h)
           \/ RemoveStaging(h) \/ Die(h)
  BY <1>9, StagingStep
<1> QED
  BY <1>1, <1>2, <1>3, <1>4, <1>5, <1>6, <1>7, <1>8, <1>9
     DEF Step, Backup, CloseOrBlock, Rollback

LEMMA NextRefines ==
  ASSUME FInv, FInv', [Next]_vars
  PROVE  Atomic!Next \/ Stutters
<1>1. CASE \E h \in Helper : Step(h) \/ Die(h)
  BY <1>1, StepRefines
<1>2. CASE \E h \in Helper, t \in Txn, op \in {"backup", "apply", "rollback"},
              attested \in BOOLEAN : Start(h, t, op, attested)
  BY <1>2, Unseen DEF Start, durable
<1>3. CASE \E c \in inflight : CommandEndsAlone(c)
  BY <1>3, EffectStep DEF CommandEndsAlone, durable
<1>4. CASE AdministratorEdits
  BY <1>4, EditStep
<1>5. CASE UNCHANGED vars
  BY <1>5, Unseen DEF vars, durable
<1> QED
  BY <1>1, <1>2, <1>3, <1>4, <1>5 DEF Next

LEMMA InitRefines == Init => Atomic!Init
<1> SUFFICES ASSUME Init PROVE Atomic!Init
  OBVIOUS
<1>1. {} \in Tree /\ dest = {} /\ marker = None /\ \A t \in Txn : copy[t] = None
  BY DEF Init, Tree
<1>2. dest # None
  BY <1>1, AbsenceAssumption
<1>3. Effective = {} /\ Owner = None
  BY <1>1, <1>2 DEF Effective, Owner
<1>4. Saved = [t \in Txn |-> None]
  BY <1>1 DEF Saved, VerifiedBackup
<1> QED
  BY <1>3, <1>4 DEF Atomic!Init

(* Killed helpers, lost writes, commands that end alone and answers that are *)
(* lost: what happens to the configuration is that it is saved, changed by   *)
(* one transaction at a time from a saved state, and restored in one step to *)
(* just that state (whole file).                                             *)
THEOREM HelperSavesAndRestores == Spec => ImplementsSaveRestore
<1>1. FInv /\ FInv' /\ [Next]_vars => [Atomic!Next]_<<Effective, Saved, Owner>>
  <2> SUFFICES ASSUME FInv, FInv', [Next]_vars
               PROVE  [Atomic!Next]_<<Effective, Saved, Owner>>
    OBVIOUS
  <2> QED
    BY NextRefines DEF Stutters
<1> QED
  BY Invariance, InitRefines, <1>1, PTL DEF Spec, ImplementsSaveRestore, Atomic!Spec
=============================================================================
