------------------------------ MODULE Reports -------------------------------
(* The saved reports of one host and everything that points at them: CVE    *)
(* reports derived from package inventories, deliveries to and analyses     *)
(* from Dependency-Track, SBOM files, remediation rows, plan items and      *)
(* exported PDFs, with the deletion of a report and the archive of the      *)
(* active lists. Code between two awaits of the one controller process is   *)
(* one action; what spans an await (a scan, an upload, a download, a PDF    *)
(* rendering) holds a slot of `task` and ends in an action of its own.      *)
(*                                                                          *)
(* A report is the record of what its file says, so "the file still has the *)
(* recorded SHA-256" is membership in `saved`.                              *)
EXTENDS Naturals, FiniteSets

CONSTANTS
  Audit, Packages, Cve,   \* ids of baseline audits, inventories, CVE reports
  Item,                   \* plan items
  Export,                 \* exported PDFs
  Request,                \* concurrent requests that wait for something
  Shared,                 \* CVE reports of older versions that share one SBOM
  Nil,
  MaxTime,                \* bound: audits, scans and plan updates ever made
  MaxUploads              \* bound: SBOM uploads ever accepted

ASSUME ReportsAssumption ==
  /\ Shared \subseteq Cve
  /\ MaxTime \in Nat /\ MaxUploads \in Nat
  /\ Nil \notin Audit \cup Packages \cup Cve \cup Item \cup Export

Time == 0 .. MaxTime

AuditReport    == [kind : {"audit"}, id : Audit, time : Time, complete : BOOLEAN, found : BOOLEAN]
PackageReport  == [kind : {"packages"}, id : Packages, time : Time, complete : BOOLEAN, found : BOOLEAN]
CveReport      == [kind : {"cve"}, id : Cve, time : Time, complete : BOOLEAN, found : BOOLEAN,
                   src : PackageReport, sbom : Cve \cup {Nil}]
Delivery       == [kind : {"delivery"}, src : CveReport, token : 1 .. MaxUploads]
Analysis       == [kind : {"analysis"}, src : Delivery]
Report         == AuditReport \cup PackageReport \cup CveReport \cup Delivery \cup Analysis

Derived == {"cve", "delivery", "analysis"}

VARIABLES
  saved,     \* the reports whose files exist
  sboms,     \* the CycloneDX files, by the CVE report that wrote them first
  used,      \* ids that were ever given to an audit, inventory, scan or PDF
  rows,      \* audits a remediation row that is not cancelled points at
  cancelled, \* audits a cancelled row points at
  item,      \* the remediation plan
  exports,   \* the exported PDFs with the manifests of their snapshots
  archived,  \* names of reports put out of the active list
  preview,   \* the list of reports the operator was shown last
  task,      \* what each request is waiting for
  uploads,   \* SBOMs that Dependency-Track accepted so far
  now        \* the clock

vars == <<saved, sboms, used, rows, cancelled, item, exports, archived, preview, task, uploads, now>>

(* The file name of a report. A delivery is named after its CVE report, an  *)
(* analysis after the delivery's own bytes.                                 *)
NameOf(r) ==
  CASE r.kind \in {"audit", "packages", "cve"} -> <<r.kind, r.id>>
    [] r.kind = "delivery" -> <<"delivery", r.src.id>>
    [] r.kind = "analysis" -> <<"analysis", r.src.src.id, r.src.token>>

Names(S) == {NameOf(r) : r \in S}

Idle == [op |-> "idle"]

Draft    == {"discovered", "proposed"}
Statuses == Draft \cup {"agreed", "completed", "confirmed", "accepted_risk"}
NoItem   == [status |-> "none", finding |-> Nil, evidence |-> Nil, verification |-> Nil,
             updated |-> 0, done |-> 0, reached |-> {}]

TaskOK(t) ==
  \/ t = Idle
  \/ t \in [op : {"scan"}, id : Cve, src : PackageReport, time : Time]
  \/ t \in [op : {"upload"}, src : CveReport] \cup [op : {"download"}, src : Delivery]
  \/ t.op = "render" /\ t.id \in Export /\ t.manifest \subseteq Report

TypeOK ==
  /\ saved \subseteq Report
  /\ sboms \subseteq Cve
  /\ used \subseteq Audit \cup Packages \cup Cve \cup Export
  /\ rows \subseteq Audit /\ cancelled \subseteq Audit
  /\ \A i \in Item :
       /\ item[i].status \in Statuses \cup {"none"}
       /\ item[i].finding \in {Nil, "audit", "cve"}
       /\ item[i].evidence \in AuditReport \cup CveReport \cup {Nil}
       /\ item[i].verification \in AuditReport \cup CveReport \cup {Nil}
       /\ item[i].updated \in Time /\ item[i].done \in Time
       /\ item[i].reached \subseteq Statuses
  /\ \A x \in exports : x.id \in Export /\ x.manifest \subseteq Report /\ x.readable \in BOOLEAN
  /\ \A q \in Request : TaskOK(task[q])
  /\ uploads \in 0 .. MaxUploads /\ now \in Time

-----------------------------------------------------------------------------
(* Publication                                                              *)

Tick == now < MaxTime /\ now' = now + 1

(* A run's report appears under a fresh name; a saga stores the id of its    *)
(* audit in the row before anything else can run.                           *)
PublishAudit(a, complete, found, forRow) ==
  /\ a \notin used /\ Tick
  /\ saved' = saved \cup {[kind |-> "audit", id |-> a, time |-> now', complete |-> complete, found |-> found]}
  /\ used' = used \cup {a}
  /\ rows' = IF forRow THEN rows \cup {a} ELSE rows
  /\ UNCHANGED <<sboms, cancelled, item, exports, archived, preview, task, uploads>>

PublishPackages(p, complete, found) ==
  /\ p \notin used /\ Tick
  /\ saved' = saved \cup {[kind |-> "packages", id |-> p, time |-> now', complete |-> complete, found |-> found]}
  /\ used' = used \cup {p}
  /\ UNCHANGED <<sboms, rows, cancelled, item, exports, archived, preview, task, uploads>>

(* Mutant: the id is looked up in all reports.                              *)
AnyReport(p) == p \in saved

Inventory(p) == p \in saved /\ p.kind = "packages"

(* The inventory is read now, the report dated now; the database refresh    *)
(* and the scanner are awaited.                                             *)
StartScan(q, v, p) ==
  /\ task[q] = Idle /\ v \notin used /\ Tick
  /\ Inventory(p)
  /\ task' = [task EXCEPT ![q] = [op |-> "scan", id |-> v, src |-> p, time |-> now']]
  /\ used' = used \cup {v}
  /\ UNCHANGED <<saved, sboms, rows, cancelled, item, exports, archived, preview, uploads>>

ScanReport(t, matched, covered, sbom) ==
  [kind |-> "cve", id |-> t.id, time |-> t.time, complete |-> matched /\ covered /\ t.src.complete,
   found |-> matched /\ t.src.found, src |-> t.src, sbom |-> sbom]

(* Whatever happened, a report is written: a scan that matched nothing is a *)
(* partial one, without an SBOM when the database could not be prepared; so *)
(* is one of an incomplete inventory or with a database that is not fresh.  *)
FinishScan(q) ==
  /\ task[q].op = "scan"
  /\ \E matched, covered \in BOOLEAN, sbom \in {task[q].id, Nil} :
       /\ matched => sbom # Nil
       /\ saved' = saved \cup {ScanReport(task[q], matched, covered, sbom)}
       /\ sboms' = sboms \cup ({sbom} \ {Nil})
  /\ task' = [task EXCEPT ![q] = Idle]
  /\ UNCHANGED <<used, rows, cancelled, item, exports, archived, preview, uploads, now>>

(* verifySource: the CVE report and its SBOM are as they were.              *)
SourceIntact(v) == v \in saved /\ v.sbom \in sboms

(* Nothing is sent when the delivery of these bytes is already saved.       *)
StartUpload(q, v) ==
  /\ task[q] = Idle
  /\ v.kind = "cve" /\ SourceIntact(v)
  /\ <<"delivery", v.id>> \notin Names(saved)
  /\ task' = [task EXCEPT ![q] = [op |-> "upload", src |-> v]]
  /\ UNCHANGED <<saved, sboms, used, rows, cancelled, item, exports, archived, preview, uploads, now>>

(* Mutant: the accepted upload is saved although its source is gone.        *)
SaveDeliveryUnchecked(d) ==
  saved' = IF NameOf(d) \in Names(saved) THEN saved ELSE saved \cup {d}

(* publish: under the evidence lock the source is checked again; a name     *)
(* that is taken keeps its report.                                          *)
SaveDelivery(d) ==
  saved' = IF SourceIntact(d.src) /\ NameOf(d) \notin Names(saved) THEN saved \cup {d} ELSE saved

(* Dependency-Track accepts the SBOM under a new processing token.          *)
FinishUpload(q) ==
  /\ task[q].op = "upload" /\ uploads < MaxUploads
  /\ uploads' = uploads + 1
  /\ SaveDelivery([kind |-> "delivery", src |-> task[q].src, token |-> uploads'])
  /\ task' = [task EXCEPT ![q] = Idle]
  /\ UNCHANGED <<sboms, used, rows, cancelled, item, exports, archived, preview, now>>

StartDownload(q, d) ==
  /\ task[q] = Idle
  /\ d \in saved /\ d.kind = "delivery" /\ SourceIntact(d.src)
  /\ task' = [task EXCEPT ![q] = [op |-> "download", src |-> d]]
  /\ UNCHANGED <<saved, sboms, used, rows, cancelled, item, exports, archived, preview, uploads, now>>

(* Mutant: the delivery is not read again before the result is saved.       *)
SaveAnalysisOfSource(d) ==
  saved' = IF SourceIntact(d.src) THEN saved \cup {[kind |-> "analysis", src |-> d]} ELSE saved

(* publish of the result: the source and the delivery still have the bytes  *)
(* the download started from.                                               *)
SaveAnalysis(d) ==
  saved' = IF SourceIntact(d.src) /\ d \in saved THEN saved \cup {[kind |-> "analysis", src |-> d]} ELSE saved

FinishDownload(q) ==
  /\ task[q].op = "download"
  /\ SaveAnalysis(task[q].src)
  /\ task' = [task EXCEPT ![q] = Idle]
  /\ UNCHANGED <<sboms, used, rows, cancelled, item, exports, archived, preview, uploads, now>>

(* A rendering fails, an upload is refused, an analysis is not finished yet: *)
(* the request ends and nothing is saved.                                   *)
GiveUp(q) ==
  /\ task[q].op \in {"upload", "download", "render"}
  /\ task' = [task EXCEPT ![q] = Idle]
  /\ UNCHANGED <<saved, sboms, used, rows, cancelled, item, exports, archived, preview, uploads, now>>

-----------------------------------------------------------------------------
(* Who points at a report                                                   *)

PlanNames(i) == Names({item[i].evidence, item[i].verification} \ {Nil})

(* listAnsibleReportDependents: derived reports name their source, analyses *)
(* the CVE report too.                                                      *)
Dependents(r) ==
  {s \in saved : /\ s.kind \in Derived
                 /\ \/ NameOf(s.src) = NameOf(r)
                    \/ s.kind = "analysis" /\ NameOf(s.src.src) = NameOf(r)}

(* Mutant: a confirmed item no longer holds its evidence.                   *)
OpenReference(r) ==
  \/ r.kind = "audit" /\ r.id \in rows
  \/ \E i \in Item : item[i].status # "confirmed" /\ NameOf(r) \in PlanNames(i)

StoredReference(r) ==
  \/ r.kind = "audit" /\ r.id \in rows
  \/ \E i \in Item : NameOf(r) \in PlanNames(i)

(* A snapshot that cannot be read may name any report.                      *)
ExportReference(r) ==
  \E x \in exports : x.readable => NameOf(r) \in Names(x.manifest)

Deletable(r) == Dependents(r) = {} /\ ~ StoredReference(r) /\ ~ ExportReference(r)

-----------------------------------------------------------------------------
(* Deletion                                                                 *)

(* Mutant: the SBOM goes with the first of the reports that share it.       *)
SbomsAfterFirst(r) == IF r.kind = "cve" THEN sboms \ {r.sbom} ELSE sboms

SbomsWithout(r) ==
  IF r.kind = "cve" /\ \A s \in saved \ {r} : s.kind = "cve" => s.sbom # r.sbom
  THEN sboms \ {r.sbom} ELSE sboms

DeleteReport(r) ==
  /\ r \in saved /\ Deletable(r)
  /\ saved' = saved \ {r} /\ sboms' = SbomsWithout(r)
  /\ UNCHANGED <<used, rows, cancelled, item, exports, archived, preview, task, uploads, now>>

(* The controller dies after the report's file is gone and before that of   *)
(* its SBOM is.                                                             *)
DeleteCutShort(r) ==
  /\ r \in saved /\ Deletable(r)
  /\ saved' = saved \ {r}
  /\ task' = [q \in Request |-> Idle]
  /\ UNCHANGED <<sboms, used, rows, cancelled, item, exports, archived, preview, uploads, now>>

Crash ==
  /\ task' = [q \in Request |-> Idle]
  /\ UNCHANGED <<saved, sboms, used, rows, cancelled, item, exports, archived, preview, uploads, now>>

-----------------------------------------------------------------------------
(* The exported PDF                                                         *)

(* What the PDF cites: the plan's reports and the audits of all rows, also  *)
(* of cancelled ones.                                                       *)
Required == (UNION {PlanNames(i) : i \in Item}) \cup {<<"audit", a>> : a \in rows \cup cancelled}

(* Mutant: what was put out of the active list stays out of the manifest.   *)
ActiveManifest == {r \in saved : NameOf(r) \notin archived}

Manifest == {r \in saved : NameOf(r) \notin archived \/ NameOf(r) \in Required}

(* The snapshot and its manifest are taken at once, then the renderer runs. *)
StartRender(q, g) ==
  /\ task[q] = Idle /\ g \notin used /\ Manifest # {}
  /\ task' = [task EXCEPT ![q] = [op |-> "render", id |-> g, manifest |-> Manifest, cited |-> Required]]
  /\ used' = used \cup {g}
  /\ UNCHANGED <<saved, sboms, rows, cancelled, item, exports, archived, preview, uploads, now>>

(* Mutant: the sources are not hashed again before the export is recorded.  *)
RecordExport(t) ==
  exports' = exports \cup {[id |-> t.id, manifest |-> t.manifest, cited |-> t.cited, readable |-> TRUE]}

RecordExportChecked(t) == IF t.manifest \subseteq saved THEN RecordExport(t) ELSE exports' = exports

FinishRender(q) ==
  /\ task[q].op = "render"
  /\ RecordExportChecked(task[q])
  /\ task' = [task EXCEPT ![q] = Idle]
  /\ UNCHANGED <<saved, sboms, used, rows, cancelled, item, archived, preview, uploads, now>>

(* Somebody damages or removes the snapshot of an exported PDF.             *)
BreakSnapshot(x) ==
  /\ x \in exports /\ x.readable
  /\ exports' = (exports \ {x}) \cup {[x EXCEPT !.readable = FALSE]}
  /\ UNCHANGED <<saved, sboms, used, rows, cancelled, item, archived, preview, task, uploads, now>>

-----------------------------------------------------------------------------
(* The remediation plan. The texts, owners and dates an update must carry   *)
(* are the operator's; here they are always given.                          *)

Transitions ==
  [discovered |-> {"proposed"},              proposed  |-> {"agreed", "accepted_risk"},
   agreed     |-> {"proposed", "completed", "accepted_risk"},
   completed  |-> {"agreed", "confirmed"},   confirmed |-> {},
   accepted_risk |-> {"proposed"},           none      |-> {}]

(* The report that speaks for a kind of check in the correlated view.       *)
Current(r) ==
  /\ NameOf(r) \notin archived
  /\ \A s \in saved : s.kind = r.kind /\ NameOf(s) \notin archived => s.time <= r.time

(* A finding that already has an open item is not added again.              *)
AddToPlan(i, r) ==
  /\ item[i] = NoItem
  /\ r \in saved /\ r.kind \in {"audit", "cve"} /\ r.found /\ Current(r)
  /\ \A j \in Item : item[j].finding = r.kind => item[j].status \in {"confirmed", "accepted_risk"}
  /\ Tick
  /\ item' = [item EXCEPT ![i] = [NoItem EXCEPT !.status = "discovered", !.finding = r.kind, !.evidence = r,
                                               !.updated = now', !.reached = {"discovered"}]]
  /\ UNCHANGED <<saved, sboms, used, rows, cancelled, exports, archived, preview, task, uploads>>

Advanced(i, status) ==
  [item[i] EXCEPT !.status = status, !.updated = now', !.reached = @ \cup {status},
                  !.done = IF status = "completed" THEN now' ELSE @]

Advance(i, status) ==
  /\ status \in Transitions[item[i].status] \ {"confirmed"}
  /\ Tick
  /\ item' = [item EXCEPT ![i] = Advanced(i, status)]
  /\ UNCHANGED <<saved, sboms, used, rows, cancelled, exports, archived, preview, task, uploads>>

(* Mutant: only the report itself must be newer than the measure.           *)
ProvesByReport(i, r) == r.complete /\ ~ r.found /\ r.time > item[i].updated

(* That a CVE is gone is proved by a complete scan of a complete inventory, *)
(* both taken after the measure.                                            *)
Proves(i, r) ==
  /\ r.complete /\ ~ r.found /\ r.time > item[i].updated
  /\ r.kind = "cve" => /\ r.src \in saved /\ r.src.complete
                       /\ item[i].updated < r.src.time /\ r.src.time <= r.time

(* assertPlanVerification: the same kind of check, the newest one, with the *)
(* original evidence unchanged.                                             *)
Confirm(i, r) ==
  /\ "confirmed" \in Transitions[item[i].status]
  /\ r \in saved /\ r.kind = item[i].finding /\ item[i].evidence \in saved
  /\ \A s \in saved : s.kind = r.kind => s.time <= r.time
  /\ Proves(i, r)
  /\ Tick
  /\ item' = [item EXCEPT ![i] = [Advanced(i, "confirmed") EXCEPT !.verification = r]]
  /\ UNCHANGED <<saved, sboms, used, rows, cancelled, exports, archived, preview, task, uploads>>

(* Mutant: what the item was before does not matter.                        *)
IsDraft(i) == item[i].status \in Draft

NeverSettled(i) == item[i].status \in Draft /\ item[i].reached \subseteq Draft

DeleteDraft(i) ==
  /\ NeverSettled(i)
  /\ item' = [item EXCEPT ![i] = NoItem]
  /\ UNCHANGED <<saved, sboms, used, rows, cancelled, exports, archived, preview, task, uploads, now>>

(* Cancelling a transaction releases the audit its row points at; the row   *)
(* itself stays and keeps pointing at it.                                   *)
CancelRow(a) ==
  /\ a \in rows /\ rows' = rows \ {a} /\ cancelled' = cancelled \cup {a}
  /\ UNCHANGED <<saved, sboms, used, item, exports, archived, preview, task, uploads, now>>

-----------------------------------------------------------------------------
(* Archive of the active lists. That no job runs and no row is unresolved   *)
(* at that time is a guard on state of AssetLocks.                          *)

Listed == Names(saved) \cup {<<"pdf", x.id>> : x \in exports}

ListFor(action) == IF action = "archive" THEN Listed \ archived ELSE Listed \cap archived

ShowArchive(action) ==
  /\ preview' = [action |-> action, records |-> ListFor(action)]
  /\ UNCHANGED <<saved, sboms, used, rows, cancelled, item, exports, archived, task, uploads, now>>

Archived(action, records) ==
  IF action = "archive" THEN archived \cup records ELSE archived \ records

(* Mutant: the list of now is archived under the confirmation of another.   *)
ApplyArchiveOfNow ==
  /\ preview # Nil
  /\ archived' = Archived(preview.action, ListFor(preview.action))
  /\ preview' = Nil
  /\ UNCHANGED <<saved, sboms, used, rows, cancelled, item, exports, task, uploads, now>>

ApplyArchive ==
  /\ preview # Nil /\ ListFor(preview.action) = preview.records
  /\ archived' = Archived(preview.action, preview.records)
  /\ preview' = Nil
  /\ UNCHANGED <<saved, sboms, used, rows, cancelled, item, exports, task, uploads, now>>

-----------------------------------------------------------------------------
Old(p) == [kind |-> "packages", id |-> p, time |-> 0, complete |-> TRUE, found |-> TRUE]

(* An installation starts empty, or with reports of a version that named    *)
(* the SBOM after the inventory.                                            *)
Init ==
  /\ \/ saved = {} /\ sboms = {} /\ used = {}
     \/ \E p \in Packages, s \in Shared :
          /\ saved = {Old(p)} \cup {[kind |-> "cve", id |-> v, time |-> 0, complete |-> TRUE, found |-> TRUE,
                                     src |-> Old(p), sbom |-> s] : v \in Shared}
          /\ sboms = {s} /\ used = {p} \cup Shared
  /\ rows = {} /\ cancelled = {} /\ exports = {} /\ archived = {} /\ preview = Nil
  /\ item = [i \in Item |-> NoItem]
  /\ task = [q \in Request |-> Idle]
  /\ uploads = 0 /\ now = 0

Publish ==
  \/ \E a \in Audit : \E complete, found, forRow \in BOOLEAN : PublishAudit(a, complete, found, forRow)
  \/ \E p \in Packages : \E complete, found \in BOOLEAN : PublishPackages(p, complete, found)

Begin(q) ==
  \/ \E v \in Cve, p \in saved : StartScan(q, v, p)
  \/ \E r \in saved : StartUpload(q, r) \/ StartDownload(q, r)
  \/ \E g \in Export : StartRender(q, g)

End(q) == FinishScan(q) \/ FinishUpload(q) \/ FinishDownload(q) \/ FinishRender(q) \/ GiveUp(q)

Operator ==
  \/ \E r \in saved : DeleteReport(r)
  \/ \E i \in Item :
       \/ DeleteDraft(i)
       \/ \E r \in saved : AddToPlan(i, r) \/ Confirm(i, r)
       \/ \E status \in Statuses : Advance(i, status)
  \/ \E a \in rows : CancelRow(a)
  \/ \E action \in {"archive", "restore"} : ShowArchive(action)
  \/ ApplyArchive

Mishap ==
  \/ Crash
  \/ \E r \in saved : DeleteCutShort(r)
  \/ \E x \in exports : BreakSnapshot(x)

Next ==
  \/ Publish
  \/ \E q \in Request : Begin(q) \/ End(q)
  \/ Operator
  \/ Mishap

Spec == Init /\ [][Next]_vars

-----------------------------------------------------------------------------
(* Every derived report's source is saved, as the comment of                *)
(* listAnsibleReportDependents promises.                                    *)
SourcesKept == \A r \in saved : r.kind \in Derived => r.src \in saved

TransfersKeepTheirSource ==
  \A r \in saved : /\ r.kind = "delivery" => SourceIntact(r.src)
                   /\ r.kind = "analysis" => r.src \in saved

SbomsKept == \A r \in saved : r.kind = "cve" => r.sbom \in sboms \cup {Nil}

ReferencesKept ==
  /\ \A i \in Item : {item[i].evidence, item[i].verification} \subseteq saved \cup {Nil}
  /\ \A a \in rows : <<"audit", a>> \in Names(saved)

(* Audits of cancelled changes that were deleted.                           *)
Released == {<<"audit", a>> : a \in cancelled} \ Names(saved)

(* Every report of an exported PDF's manifest is saved unchanged, and the   *)
(* manifest names every report the PDF cites, archived or not, but for      *)
(* those that were released by a cancellation and deleted since.            *)
ExportsBacked ==
  \A x \in exports : x.manifest \subseteq saved /\ x.cited \subseteq Names(x.manifest) \cup Released

(* What other records rest on is never lost, whatever was deleted while a   *)
(* service was asked or a PDF rendered: the CVE report and SBOM of a        *)
(* delivery and the very delivery of an analysis (dependency-track.ts:187,  *)
(* 328), the SBOM of a CVE report (ansible-reports.ts:528), the evidence of *)
(* a plan item, the report that confirmed it and the audits of a            *)
(* remediation row (state-store.ts:1249), the sources of an exported PDF    *)
(* (project-report.ts:281).                                                 *)
EvidenceKept == TransfersKeepTheirSource /\ SbomsKept /\ ReferencesKept /\ ExportsBacked

(* What a report looked at, and when.                                       *)
ObservedAt(r) == IF r.kind = "cve" THEN r.src.time ELSE r.time

(* A measure is confirmed by an observation of the machine made after the   *)
(* measure was completed, through however many updates, scans and returns.  *)
ConfirmedByLaterObservation ==
  \A i \in Item : item[i].status = "confirmed" =>
    /\ item[i].done < ObservedAt(item[i].verification)
    /\ item[i].verification.complete /\ ~ item[i].verification.found

(* What was decided once stays in the plan with its history, also after it  *)
(* was taken back to a proposal (state-store.ts:1431).                      *)
DecisionsStay ==
  [][\A i \in Item : ~ item[i].reached \subseteq Draft => item[i].reached \subseteq item'[i].reached]_vars

(* Only records the operator was shown leave or enter the active lists.     *)
ArchivedAsShown ==
  archived' # archived => (archived' \ archived) \cup (archived \ archived') \subseteq preview.records
=============================================================================
