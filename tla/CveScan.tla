------------------------------ MODULE CveScan -------------------------------
(* The shared CVE database of the controller: download from one registry    *)
(* after another, publication into the cache, registration of an import,    *)
(* scans of package inventories and the verdicts of their reports. The      *)
(* helpers of the platform share a lock that their native children inherit; *)
(* outsiders write the files without it.                                    *)
EXTENDS Naturals, FiniteSets

CONSTANTS
  Request,       \* concurrent CVE scans
  Publication,   \* publications of the database, by date: 1 .. n
  Package,       \* records of package inventories
  KeyRecord,     \* those that are RPM public keys, no software
  Foreign,       \* those not maintained by the distribution
  Vulnerable,    \* the packages each publication knows a CVE of
  Registries,    \* how many registries are tried in turn
  Nil

(* What .hcp-source.json says of the files.                                  *)
Manifest == [db : Publication, meta : Publication, method : {"first-use", "download", "import"}]

CveAssumption ==
  Publication \subseteq Nat /\ Registries \in Nat /\ Nil \notin Publication /\ Nil \notin Manifest

VARIABLES
  file,      \* the database and the metadata in the cache, and who put them
  manifest,  \* .hcp-source.json
  pending,   \* .hcp-refresh-pending.json exists
  lock,      \* who has .hcp-source.lock open with the flock
  work,      \* the helper that holds it
  refresh,   \* the download that all requests of the process share
  task,      \* the scans
  report,    \* the CVE report written last
  mode,      \* the operator's choice
  oldest     \* date of the oldest publication that is not stale yet

vars == <<file, manifest, pending, lock, work, refresh, task, report, mode, oldest>>
cache == <<file, manifest, pending>>

Idle      == [step |-> "idle"]
NoRefresh == [step |-> "none", tries |-> 0]
Software(inventory) == inventory \ KeyRecord

Content  == [pub : Publication, by : {"hcp", "outsider"}]
Evidence == [db : Publication, dbBy : {"hcp", "outsider"}, meta : Publication,
             registration : {"legacy", "first-use", "download", "import"}]
Report   == [complete : BOOLEAN, clean : BOOLEAN, inventory : SUBSET Package,
             source : Evidence \cup {Nil}, oldest : Nat]

TypeOK ==
  /\ file \in [{"db", "meta"} -> Content \cup {Nil}]
  /\ manifest \in Manifest \cup {Nil}
  /\ pending \in BOOLEAN /\ lock \in {"free", "helper", "orphan"}
  /\ (lock = "helper") <=> (work # Idle)
  /\ work = Idle
     \/ work \in [step : {"fetching"}]
     \/ work \in [step : {"staged", "marked", "half", "published", "registered"}, pub : Publication]
     \/ work \in [step : {"observed"}, pub : Publication, same : BOOLEAN]
     \/ work \in [step : {"opened"}, who : Request]
     \/ work \in [step : {"scanning"}, who : Request, before : Evidence, same : BOOLEAN, used : Publication \cup {Nil}]
  /\ refresh \in [step : {"none", "queued", "running", "stored"}, tries : 0 .. Registries]
  /\ \A r \in Request :
       task[r] = Idle
       \/ task[r] \in [step : {"awaiting", "queued", "running"}, inventory : SUBSET Package]
       \/ task[r] \in [step : {"answered"}, inventory : SUBSET Package, covered : BOOLEAN,
                       clean : BOOLEAN, source : Evidence]
  /\ report \in Report
  /\ mode \in {"online", "offline"} /\ oldest \in Nat

-----------------------------------------------------------------------------
(* The lock and the helpers                                                 *)

Acquire(w) == lock = "free" /\ lock' = "helper" /\ work' = w
Release    == lock' = "free" /\ work' = Idle

(* A partial report claims nothing.                                         *)
Partial == [complete |-> FALSE, clean |-> FALSE, inventory |-> {}, source |-> Nil, oldest |-> 0]
Give(r, rep) == report' = rep /\ task' = [task EXCEPT ![r] = Idle]

Fresh(pub) == pub >= oldest
CacheFresh == ~ pending /\ file["db"] # Nil /\ file["meta"] # Nil /\ Fresh(file["meta"].pub)

-----------------------------------------------------------------------------
(* Download                                                                 *)

(* Requests that need the database wait for the same download.              *)
BeginRefresh ==
  /\ mode = "online" /\ refresh = NoRefresh
  /\ refresh' = [step |-> "queued", tries |-> 0]
  /\ UNCHANGED <<cache, lock, work, task, report, mode, oldest>>

OpenDownload ==
  /\ refresh.step = "queued" /\ Acquire([step |-> "fetching"])
  /\ refresh' = [refresh EXCEPT !.step = "running"]
  /\ UNCHANGED <<cache, task, report, mode, oldest>>

(* All who wait get the failure of the last registry; each one's report     *)
(* claims nothing.                                                          *)
TryNext ==
  IF refresh.tries + 1 < Registries
  THEN refresh' = [step |-> "queued", tries |-> refresh.tries + 1] /\ UNCHANGED <<task, report>>
  ELSE /\ refresh' = NoRefresh
       /\ task' = [r \in Request |-> IF task[r].step = "awaiting" THEN Idle ELSE task[r]]
       /\ IF \E r \in Request : task[r].step = "awaiting"
          THEN report' = Partial
          ELSE UNCHANGED report

(* The wait for the lock is bounded.                                        *)
DownloadWaitsTooLong ==
  /\ refresh.step = "queued" /\ lock # "free"
  /\ TryNext
  /\ UNCHANGED <<cache, lock, work, mode, oldest>>

Fetch(pub) ==
  /\ work.step = "fetching"
  /\ work' = [step |-> "staged", pub |-> pub]
  /\ UNCHANGED <<cache, lock, refresh, task, report, mode, oldest>>

FetchFails ==
  /\ work.step = "fetching"
  /\ Release /\ TryNext
  /\ UNCHANGED <<cache, mode, oldest>>

MarkPending ==
  /\ work.step = "staged"
  /\ pending' = TRUE
  /\ work' = [work EXCEPT !.step = "marked"]
  /\ UNCHANGED <<file, manifest, lock, refresh, task, report, mode, oldest>>

PutDatabase ==
  /\ work.step = "marked"
  /\ file' = [file EXCEPT !["db"] = [pub |-> work.pub, by |-> "hcp"]]
  /\ work' = [work EXCEPT !.step = "half"]
  /\ UNCHANGED <<manifest, pending, lock, refresh, task, report, mode, oldest>>

PutMetadata ==
  /\ work.step = "half"
  /\ file' = [file EXCEPT !["meta"] = [pub |-> work.pub, by |-> "hcp"]]
  /\ work' = [work EXCEPT !.step = "published"]
  /\ UNCHANGED <<manifest, pending, lock, refresh, task, report, mode, oldest>>

Register ==
  /\ work.step = "published"
  /\ manifest' = [db |-> work.pub, meta |-> work.pub, method |-> "download"]
  /\ work' = [work EXCEPT !.step = "registered"]
  /\ UNCHANGED <<file, pending, lock, refresh, task, report, mode, oldest>>

(* Shared by download and import; the import has no download to answer.     *)
Unmark ==
  /\ work.step = "registered"
  /\ pending' = FALSE
  /\ refresh' = IF refresh.step = "running" THEN [refresh EXCEPT !.step = "stored"] ELSE refresh
  /\ Release
  /\ UNCHANGED <<file, manifest, task, report, mode, oldest>>

(* The database of a registry may be stale when it arrives.                 *)
EndRefresh ==
  /\ refresh.step = "stored"
  /\ refresh' = NoRefresh
  /\ IF CacheFresh
     THEN /\ task' = [r \in Request |-> IF task[r].step = "awaiting" THEN [task[r] EXCEPT !.step = "queued"] ELSE task[r]]
          /\ UNCHANGED report
     ELSE /\ task' = [r \in Request |-> IF task[r].step = "awaiting" THEN Idle ELSE task[r]]
          /\ IF \E r \in Request : task[r].step = "awaiting"
             THEN report' = Partial
             ELSE UNCHANGED report
  /\ UNCHANGED <<cache, lock, work, mode, oldest>>

-----------------------------------------------------------------------------
(* Registration of an import, with the digests of one publication           *)

OpenImport(pub) ==
  /\ file["db"] # Nil /\ file["meta"] # Nil
  /\ file["db"].pub = pub /\ file["meta"].pub = pub
  /\ Acquire([step |-> "observed", pub |-> pub, same |-> TRUE])
  /\ UNCHANGED <<cache, refresh, task, report, mode, oldest>>

(* Mutant: the bytes are compared, not the files.                           *)
SameBytes(w) ==
  /\ file["db"] # Nil /\ file["meta"] # Nil
  /\ file["db"].pub = (IF w.step = "scanning" THEN w.before.db ELSE w.pub)
  /\ file["meta"].pub = (IF w.step = "scanning" THEN w.before.meta ELSE w.pub)

(* Digest, inode, size and times are as they were.                          *)
Unchanged(w) == w.same

RegisterImport ==
  /\ work.step = "observed"
  /\ IF Unchanged(work)
     THEN /\ manifest' = [db |-> work.pub, meta |-> work.pub, method |-> "import"]
          /\ work' = [step |-> "registered", pub |-> work.pub]
          /\ UNCHANGED lock
     ELSE Release /\ UNCHANGED manifest
  /\ UNCHANGED <<file, pending, refresh, task, report, mode, oldest>>

-----------------------------------------------------------------------------
(* A scan                                                                   *)

StartScan(r, inventory) ==
  /\ task[r] = Idle
  /\ LET wait(step) == [task EXCEPT ![r] = [step |-> step, inventory |-> inventory]] IN
       \/ CacheFresh /\ task' = wait("queued") /\ UNCHANGED <<refresh, report>>
       \/ /\ ~ CacheFresh /\ mode = "online"
          /\ task' = wait("awaiting")
          /\ refresh' = IF refresh = NoRefresh THEN [step |-> "queued", tries |-> 0] ELSE refresh
          /\ UNCHANGED report
       \/ /\ ~ CacheFresh /\ mode = "offline"
          /\ report' = Partial
          /\ UNCHANGED <<task, refresh>>
  /\ UNCHANGED <<cache, lock, work, mode, oldest>>

OpenScan(r) ==
  /\ task[r].step = "queued" /\ Acquire([step |-> "opened", who |-> r])
  /\ task' = [task EXCEPT ![r].step = "running"]
  /\ UNCHANGED <<cache, refresh, report, mode, oldest>>

ScanWaitsTooLong(r) ==
  /\ task[r].step = "queued" /\ lock # "free"
  /\ Give(r, Partial)
  /\ UNCHANGED <<cache, lock, work, refresh, mode, oldest>>

(* Mutant: the marker of an interrupted refresh is not looked for.          *)
NeverInterrupted == FALSE

Interrupted == pending

(* A cache that no manifest describes is used as it is.                     *)
Usable ==
  /\ ~ Interrupted
  /\ file["db"] # Nil /\ file["meta"] # Nil
  /\ manifest # Nil => manifest.db = file["db"].pub /\ manifest.meta = file["meta"].pub

Observed == [db |-> file["db"].pub, dbBy |-> file["db"].by, meta |-> file["meta"].pub,
             registration |-> IF manifest = Nil THEN "legacy" ELSE manifest.method]

CheckSource ==
  /\ work.step = "opened"
  /\ IF Usable
     THEN /\ work' = [step |-> "scanning", who |-> work.who, before |-> Observed, same |-> TRUE, used |-> Nil]
          /\ UNCHANGED <<lock, task, report>>
     ELSE Release /\ Give(work.who, Partial)
  /\ UNCHANGED <<cache, refresh, mode, oldest>>

(* Trivy opens the database when it gets to it.                             *)
OpenDatabase ==
  /\ work.step = "scanning" /\ work.used = Nil /\ file["db"] # Nil
  /\ work' = [work EXCEPT !.used = file["db"].pub]
  /\ UNCHANGED <<cache, lock, refresh, task, report, mode, oldest>>

(* Mutant: as many records as expected, whichever they are.                 *)
ManyScanned(inventory, scanned, doubt) ==
  /\ ~ doubt /\ scanned # {} /\ inventory \cap Foreign = {}
  /\ Cardinality(scanned) >= Cardinality(Software(inventory))

(* scanCoverage: every package of software, and nothing else, is counted.   *)
Covered(inventory, scanned, doubt) ==
  /\ ~ doubt /\ Software(inventory) # {}
  /\ Software(inventory) \cap Foreign = {}
  /\ Software(inventory) \subseteq scanned

(* Trivy processes some of the records it was given. `doubt` stands for     *)
(* everything else that makes coverage incomplete: a partial inventory, an  *)
(* unconfirmed system, its end of support.                                  *)
FinishScan(scanned, doubt) ==
  /\ work.step = "scanning" /\ work.used # Nil
  /\ LET r == work.who IN
       /\ scanned \subseteq task[r].inventory
       /\ IF Unchanged(work)
          THEN /\ task' = [task EXCEPT ![r] = [step |-> "answered", inventory |-> task[r].inventory,
                                               covered |-> Covered(task[r].inventory, scanned, doubt),
                                               clean |-> Vulnerable[work.used] \cap scanned = {},
                                               source |-> work.before]]
               /\ manifest' = IF manifest = Nil
                              THEN [db |-> work.before.db, meta |-> work.before.meta, method |-> "first-use"]
                              ELSE manifest
               /\ UNCHANGED report
          ELSE Give(r, Partial) /\ UNCHANGED manifest
  /\ Release
  /\ UNCHANGED <<file, pending, refresh, mode, oldest>>

ScanFails ==
  /\ work.step = "scanning"
  /\ Release /\ Give(work.who, Partial)
  /\ UNCHANGED <<cache, refresh, mode, oldest>>

(* The date is that of the source that was scanned, not of the cache now.   *)
WriteReport(r) ==
  /\ task[r].step = "answered"
  /\ LET t == task[r]
         complete == t.covered /\ Fresh(t.source.meta) IN
       Give(r, IF complete
               THEN [complete |-> TRUE, clean |-> t.clean, inventory |-> t.inventory,
                     source |-> t.source, oldest |-> oldest]
               ELSE Partial)
  /\ UNCHANGED <<cache, lock, work, refresh, mode, oldest>>

-----------------------------------------------------------------------------
(* Everything else                                                          *)

(* The controller kills a helper that takes too long. A native child that   *)
(* it leaves behind keeps the lock.                                         *)
KillHelper ==
  /\ lock = "helper"
  /\ lock' = IF work.step \in {"fetching", "scanning"} THEN "orphan" ELSE "free"
  /\ work' = Idle
  /\ IF work.step \in {"opened", "scanning"}
     THEN Give(work.who, Partial) /\ UNCHANGED refresh
     ELSE IF refresh.step = "running" THEN TryNext ELSE UNCHANGED <<refresh, task, report>>
  /\ UNCHANGED <<cache, mode, oldest>>

OrphanEnds ==
  /\ lock = "orphan" /\ lock' = "free"
  /\ UNCHANGED <<cache, work, refresh, task, report, mode, oldest>>

(* The container stops with every process in it.                            *)
Restart ==
  /\ lock' = "free" /\ work' = Idle /\ refresh' = NoRefresh
  /\ task' = [r \in Request |-> Idle]
  /\ UNCHANGED <<cache, report, mode, oldest>>

(* An outsider puts or removes a file, whoever holds the lock.              *)
Outsider(f, content) ==
  /\ file' = [file EXCEPT ![f] = content]
  /\ work' = IF work.step \in {"observed", "scanning"} THEN [work EXCEPT !.same = FALSE] ELSE work
  /\ UNCHANGED <<manifest, pending, lock, refresh, task, report, mode, oldest>>

SetMode(m) ==
  /\ mode' = m
  /\ UNCHANGED <<cache, lock, work, refresh, task, report, oldest>>

Expire ==
  /\ oldest \in Publication /\ oldest' = oldest + 1
  /\ UNCHANGED <<cache, lock, work, refresh, task, report, mode>>

-----------------------------------------------------------------------------
(* Specification                                                            *)

Init ==
  /\ file = [f \in {"db", "meta"} |-> Nil] /\ manifest = Nil /\ pending = FALSE
  /\ lock = "free" /\ work = Idle /\ refresh = NoRefresh
  /\ task = [r \in Request |-> Idle] /\ report = Partial
  /\ mode = "online" /\ oldest = 1

Download ==
  \/ BeginRefresh \/ OpenDownload \/ DownloadWaitsTooLong
  \/ (\E pub \in Publication : Fetch(pub)) \/ FetchFails
  \/ MarkPending \/ PutDatabase \/ PutMetadata \/ Register \/ Unmark \/ EndRefresh

Import == RegisterImport \/ \E pub \in Publication : OpenImport(pub)

Scan ==
  \/ \E r \in Request :
       \/ \E inventory \in SUBSET Package : StartScan(r, inventory)
       \/ OpenScan(r) \/ ScanWaitsTooLong(r) \/ WriteReport(r)
  \/ CheckSource \/ OpenDatabase \/ ScanFails
  \/ \E scanned \in SUBSET Package, doubt \in BOOLEAN : FinishScan(scanned, doubt)

World ==
  \/ KillHelper \/ OrphanEnds \/ Restart \/ Expire
  \/ \E f \in {"db", "meta"}, content \in {Nil} \cup [pub : Publication, by : {"outsider"}] : Outsider(f, content)
  \/ \E m \in {"online", "offline"} : SetMode(m)

Next == Download \/ Import \/ Scan \/ World

Spec == Init /\ [][Next]_vars

-----------------------------------------------------------------------------
(* Properties                                                               *)

(* A report that says "no known CVE" is right about what it names: the      *)
(* database whose digest it gives knows no CVE of any software package of   *)
(* the inventory, and was not stale when the report was written, whatever   *)
(* was written to the cache while Trivy ran (vulnerability-scan.ts:1366).   *)
CleanMeansClean ==
  report.clean =>
    /\ Software(report.inventory) \cap Vulnerable[report.source.db] = {}
    /\ report.source.meta >= report.oldest

(* No interruption of a download makes a database of one publication and    *)
(* the metadata of another look like a source: a complete report names such *)
(* a pair only if an outsider put the database there and nobody registered  *)
(* it with digests (hcp-trivy-source.py:257-269, 320).                      *)
NoMixedSource ==
  report.complete /\ report.source.db # report.source.meta =>
    report.source.dbBy = "outsider" /\ report.source.registration \in {"legacy", "first-use"}
=============================================================================
