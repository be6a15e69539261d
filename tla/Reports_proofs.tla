---------------------------- MODULE Reports_proofs ----------------------------
(***************************************************************************)
(* Proofs about reports, for any sets of ids, plan items, exports and      *)
(* requests: what other records rest on is never lost, a confirmed measure *)
(* was observed after it was completed, and decisions keep their history.  *)
(* And about what the pages conclude from reports (Posture, an instance in *)
(* Control), for any checks, machines, scopes and dates.                   *)
(***************************************************************************)
EXTENDS Control, Functions, FiniteSetTheorems, TLAPS

-----------------------------------------------------------------------------
(* The inductive invariant *)

Evidence == AuditReport \cup CveReport \cup {Nil}

PlanItem == [status : Statuses \cup {"none"}, finding : {Nil, "audit", "cve"},
             evidence : Evidence, verification : Evidence,
             updated : Time, done : Time, reached : SUBSET Statuses]

ExportOK(x) ==
  /\ x = [id |-> x.id, manifest |-> x.manifest, cited |-> x.cited, readable |-> x.readable]
  /\ x.id \in Export /\ x.manifest \subseteq Report /\ x.readable \in BOOLEAN

(* The type invariant with the shapes of the records that are changed.      *)
Shapes ==
  /\ TypeOK
  /\ item \in [Item -> PlanItem]
  /\ task = [q \in Request |-> task[q]]
  /\ \A x \in exports : ExportOK(x)

(* An item was last updated when it was completed or later.                 *)
Dated ==
  \A i \in Item : /\ item[i].done <= item[i].updated /\ item[i].updated <= now
                  /\ item[i].status # "none" => item[i].finding \in {"audit", "cve"}

(* What a PDF that is being rendered will cite is in its manifest, but for  *)
(* what was released.                                                       *)
RendersCite ==
  \A q \in Request : task[q].op = "render" => task[q].cited \subseteq (Names(task[q].manifest) \cup Released)

(* Rows point at audits that were made: no later report is taken for one.   *)
RowsMade == (rows \cup cancelled) \subseteq used

IInv == Shapes /\ Dated /\ RendersCite /\ RowsMade /\ EvidenceKept /\ ConfirmedByLaterObservation

-----------------------------------------------------------------------------
(* Reports and their names *)

LEMMA Kinds ==
  ASSUME NEW r \in Report
  PROVE  /\ r.kind \in {"audit", "packages", "cve", "delivery", "analysis"}
         /\ r.kind = "audit" <=> r \in AuditReport
         /\ r.kind = "packages" <=> r \in PackageReport
         /\ r.kind = "cve" <=> r \in CveReport
         /\ r.kind = "delivery" <=> r \in Delivery
         /\ r.kind = "analysis" <=> r \in Analysis
<1>1. CASE r \in AuditReport
  BY <1>1 DEF AuditReport, PackageReport, CveReport, Delivery, Analysis
<1>2. CASE r \in PackageReport
  BY <1>2 DEF AuditReport, PackageReport, CveReport, Delivery, Analysis
<1>3. CASE r \in CveReport
  BY <1>3 DEF AuditReport, PackageReport, CveReport, Delivery, Analysis
<1>4. CASE r \in Delivery
  BY <1>4 DEF AuditReport, PackageReport, CveReport, Delivery, Analysis
<1>5. CASE r \in Analysis
  BY <1>5 DEF AuditReport, PackageReport, CveReport, Delivery, Analysis
<1> QED BY <1>1, <1>2, <1>3, <1>4, <1>5 DEF Report

LEMMA Parts ==
  ASSUME TypeOK, NEW r \in saved
  PROVE  /\ r \in Report
         /\ r.kind = "cve" => /\ r.src \in PackageReport /\ r.sbom \in Cve \cup {Nil}
         /\ r.kind = "delivery" => r.src \in CveReport /\ r.src.kind = "cve"
         /\ r.kind = "analysis" => r.src \in Delivery
<1>1. r \in Report
  BY DEF TypeOK
<1> QED BY <1>1, Kinds DEF CveReport, Delivery, Analysis

(* A name that starts as an audit's is one.                                 *)
LEMMA AuditNames ==
  ASSUME NEW r \in Report, NEW a, NameOf(r) = <<"audit", a>>
  PROVE  r.kind = "audit" /\ r.id = a
<1>1. r.kind \in {"audit", "packages", "cve", "delivery", "analysis"}
  BY Kinds
<1>2. r.kind # "analysis"
  <2> SUFFICES ASSUME r.kind = "analysis" PROVE FALSE
    OBVIOUS
  <2>1. NameOf(r)[1] = "analysis"
    BY DEF NameOf
  <2> QED BY <2>1
<1>3. r.kind # "delivery"
  <2> SUFFICES ASSUME r.kind = "delivery" PROVE FALSE
    OBVIOUS
  <2>1. NameOf(r)[1] = "delivery"
    BY DEF NameOf
  <2> QED BY <2>1
<1>4. NameOf(r) = <<r.kind, r.id>>
  BY <1>1, <1>2, <1>3 DEF NameOf
<1> QED BY <1>4

(* What was released stays so while no new report has the name of a         *)
(* cancelled row's audit; a report of another kind never has.               *)
LEMMA ReleasedStays ==
  ASSUME cancelled \subseteq cancelled', \A r \in saved' \ saved : \A a \in cancelled : NameOf(r) # <<"audit", a>>
  PROVE  Released \subseteq Released'
<1> SUFFICES ASSUME NEW n \in Released, n \in Names(saved') PROVE FALSE
  BY DEF Released
<1>1. PICK a \in cancelled : n = <<"audit", a>>
  BY DEF Released
<1>2. PICK r \in saved' : n = NameOf(r)
  BY DEF Names
<1>3. r \notin saved
  BY <1>2 DEF Released, Names
<1> QED BY <1>1, <1>2, <1>3

LEMMA OthersRelease ==
  ASSUME cancelled' = cancelled, saved' \subseteq Report, \A r \in saved' \ saved : r.kind # "audit"
  PROVE  Released \subseteq Released'
<1>1. \A r \in saved' \ saved : \A a \in cancelled : NameOf(r) # <<"audit", a>>
  BY AuditNames
<1> QED BY <1>1, ReleasedStays

(* New reports whose sources are there, and what is written with them, take *)
(* nothing away.                                                            *)
LEMMA Grown ==
  ASSUME TypeOK, EvidenceKept,
         saved \subseteq saved', sboms \subseteq sboms', item' = item, exports' = exports,
         \A r \in saved' \ saved :
           /\ r.kind = "delivery" => SourceIntact(r.src)
           /\ r.kind = "analysis" => r.src \in saved
           /\ r.kind = "cve" => r.sbom \in sboms' \cup {Nil},
         \A a \in rows' : a \in rows \/ <<"audit", a>> \in Names(saved'),
         Released \subseteq Released'
  PROVE  EvidenceKept'
<1>1. TransfersKeepTheirSource'
  BY DEF EvidenceKept, TransfersKeepTheirSource, SourceIntact
<1>2. SbomsKept'
  BY DEF EvidenceKept, SbomsKept
<1>3. Names(saved) \subseteq Names(saved')
  BY DEF Names
<1>4. ReferencesKept'
  BY <1>3 DEF EvidenceKept, ReferencesKept
<1>5. ExportsBacked'
  BY DEF EvidenceKept, ExportsBacked
<1> QED BY <1>1, <1>2, <1>4, <1>5 DEF EvidenceKept

(* The rest of the invariant when neither plan nor exports change.          *)
LEMMA PlanStays ==
  ASSUME IInv, item' = item, exports' = exports, now' \in Time, now <= now',
         saved' \subseteq Report, sboms' \subseteq Cve, rows' \subseteq Audit,
         used' \subseteq Audit \cup Packages \cup Cve \cup Export, uploads' \in 0 .. MaxUploads,
         task' = [q \in Request |-> task'[q]],
         \A q \in Request : TaskOK(task'[q]),
         \A q \in Request : task'[q].op = "render" => task'[q].cited \subseteq (Names(task'[q].manifest) \cup Released),
         cancelled' \subseteq Audit, RowsMade', Released \subseteq Released'
  PROVE  Shapes' /\ Dated' /\ RendersCite' /\ RowsMade' /\ ConfirmedByLaterObservation'
<1>1. Shapes'
  BY DEF IInv, Shapes, TypeOK
<1>2. Dated'
  <2> SUFFICES ASSUME NEW i \in Item PROVE /\ item[i].done <= item[i].updated /\ item[i].updated <= now'
                                           /\ item[i].status # "none" => item[i].finding \in {"audit", "cve"}
    BY DEF Dated
  <2>1. item[i].updated \in Nat /\ now \in Nat /\ now' \in Nat
    BY DEF IInv, Shapes, TypeOK, Time
  <2> QED BY <2>1 DEF IInv, Dated
<1>3. RendersCite'
  BY DEF RendersCite
<1>4. ConfirmedByLaterObservation'
  BY DEF IInv, ConfirmedByLaterObservation
<1> QED BY <1>1, <1>2, <1>3, <1>4

(***************************************************************************)
(* Requests: what a slot of task holds                                     *)
(***************************************************************************)

LEMMA TaskKinds ==
  ASSUME NEW t, TaskOK(t)
  PROVE  /\ t.op = "scan" => /\ t.id \in Cve /\ t.src \in PackageReport /\ t.time \in Time
         /\ t.op = "upload" => t.src \in CveReport
         /\ t.op = "download" => t.src \in Delivery
         /\ t.op = "render" => t.id \in Export /\ t.manifest \subseteq Report
BY DEF TaskOK, Idle

(* One slot is given a proper task; the others keep theirs.                 *)
LEMMA OneTask ==
  ASSUME IInv, NEW q \in Request, NEW t, TaskOK(t), task' = [task EXCEPT ![q] = t],
         t.op = "render" => t.cited \subseteq (Names(t.manifest) \cup Released)
  PROVE  /\ task' = [p \in Request |-> task'[p]]
         /\ \A p \in Request : TaskOK(task'[p])
         /\ \A p \in Request : task'[p].op = "render" => task'[p].cited \subseteq (Names(task'[p].manifest) \cup Released)
<1>1. task = [p \in Request |-> task[p]] /\ (\A p \in Request : TaskOK(task[p]))
  BY DEF IInv, Shapes, TypeOK
<1>2. \A p \in Request : task'[p] = IF p = q THEN t ELSE task[p]
  BY <1>1
<1>3. task' = [p \in Request |-> task'[p]]
  BY <1>1
<1>4. ASSUME NEW p \in Request
      PROVE  /\ TaskOK(task'[p])
             /\ task'[p].op = "render" => task'[p].cited \subseteq (Names(task'[p].manifest) \cup Released)
  <2>1. CASE p = q
    BY <1>2, <2>1
  <2>2. CASE p # q
    <3>1. task'[p] = task[p]
      BY <1>2, <2>2
    <3> QED BY <1>1, <3>1 DEF IInv, RendersCite
  <2> QED BY <2>1, <2>2
<1> QED BY <1>3, <1>4

LEMMA NoTask ==
  ASSUME task' = [q \in Request |-> Idle]
  PROVE  /\ task' = [p \in Request |-> task'[p]]
         /\ \A p \in Request : TaskOK(task'[p])
         /\ \A p \in Request : task'[p].op = "render" => task'[p].cited \subseteq (Names(task'[p].manifest) \cup Released)
<1>1. \A p \in Request : task'[p] = Idle
  OBVIOUS
<1> QED BY <1>1 DEF TaskOK, Idle

(* A slot becomes idle.                                                     *)
LEMMA EndsTask ==
  ASSUME IInv, NEW q \in Request, task' = [task EXCEPT ![q] = Idle]
  PROVE  /\ task' = [p \in Request |-> task'[p]]
         /\ \A p \in Request : TaskOK(task'[p])
         /\ \A p \in Request : task'[p].op = "render" => task'[p].cited \subseteq (Names(task'[p].manifest) \cup Released)
<1>1. TaskOK(Idle) /\ Idle.op # "render"
  BY DEF TaskOK, Idle
<1>2. PICK t : t = Idle
  OBVIOUS
<1>3. TaskOK(t) /\ t.op # "render" /\ task' = [task EXCEPT ![q] = t]
  BY <1>1, <1>2
<1> QED BY <1>3, OneTask

(* Only tasks, the clock and the ids that are taken change.                 *)
LEMMA TasksOnly ==
  ASSUME IInv, UNCHANGED <<saved, sboms, rows, cancelled, item, exports, uploads>>,
         now' \in Time, now <= now', used' \subseteq Audit \cup Packages \cup Cve \cup Export, used \subseteq used',
         task' = [q \in Request |-> task'[q]],
         \A q \in Request : TaskOK(task'[q]),
         \A q \in Request : task'[q].op = "render" => task'[q].cited \subseteq (Names(task'[q].manifest) \cup Released)
  PROVE  IInv'
<1>1. /\ saved' \subseteq Report /\ sboms' \subseteq Cve /\ rows' \subseteq Audit /\ uploads' \in 0 .. MaxUploads
      /\ cancelled' \subseteq Audit /\ RowsMade' /\ Released' = Released
  BY DEF IInv, Shapes, TypeOK, RowsMade, Released
<1>2. Shapes' /\ Dated' /\ RendersCite' /\ RowsMade' /\ ConfirmedByLaterObservation'
  BY <1>1, PlanStays
<1>3. EvidenceKept'
  BY <1>1 DEF IInv, EvidenceKept, TransfersKeepTheirSource, SourceIntact, SbomsKept, ReferencesKept, ExportsBacked
<1> QED BY <1>2, <1>3 DEF IInv

LEMMA Ticks ==
  ASSUME IInv, Tick
  PROVE  now' \in Time /\ now <= now' /\ now < now'
BY ReportsAssumption DEF Tick, IInv, Shapes, TypeOK, Time

LEMMA Stays ==
  ASSUME IInv
  PROVE  now \in Time /\ now <= now
BY DEF IInv, Shapes, TypeOK, Time

(***************************************************************************)
(* Requests that begin, and those that end with nothing                    *)
(***************************************************************************)

LEMMA ScanStarts ==
  ASSUME IInv, NEW q \in Request, NEW v \in Cve, NEW p \in saved, StartScan(q, v, p)
  PROVE  IInv'
<1>1. now' \in Time /\ now <= now'
  BY Ticks DEF StartScan
<1>2. p \in PackageReport
  BY Kinds DEF IInv, Shapes, TypeOK, StartScan, Inventory
<1>3. PICK t : t = [op |-> "scan", id |-> v, src |-> p, time |-> now']
  OBVIOUS
<1>4. TaskOK(t) /\ t.op # "render"
  BY <1>1, <1>2, <1>3 DEF TaskOK
<1>5. task' = [task EXCEPT ![q] = t]
  BY <1>3 DEF StartScan
<1>6. used' \subseteq Audit \cup Packages \cup Cve \cup Export /\ used \subseteq used'
  BY DEF IInv, Shapes, TypeOK, StartScan
<1>7. UNCHANGED <<saved, sboms, rows, cancelled, item, exports, uploads>>
  BY DEF StartScan
<1> QED BY <1>1, <1>4, <1>5, <1>6, <1>7, OneTask, TasksOnly

LEMMA UploadStarts ==
  ASSUME IInv, NEW q \in Request, NEW r \in saved, StartUpload(q, r)
  PROVE  IInv'
<1>1. r \in CveReport
  BY Kinds DEF IInv, Shapes, TypeOK, StartUpload
<1>2. PICK t : t = [op |-> "upload", src |-> r]
  OBVIOUS
<1>3. TaskOK(t) /\ t.op # "render"
  BY <1>1, <1>2 DEF TaskOK
<1>4. task' = [task EXCEPT ![q] = t]
  BY <1>2 DEF StartUpload
<1>5. UNCHANGED <<saved, sboms, rows, cancelled, item, exports, uploads, now, used>>
  BY DEF StartUpload
<1>6. used' \subseteq Audit \cup Packages \cup Cve \cup Export /\ used \subseteq used'
  BY <1>5 DEF IInv, Shapes, TypeOK
<1>7. now' \in Time /\ now <= now'
  BY <1>5, Stays
<1> QED BY <1>3, <1>4, <1>5, <1>6, <1>7, OneTask, TasksOnly

LEMMA DownloadStarts ==
  ASSUME IInv, NEW q \in Request, NEW r \in saved, StartDownload(q, r)
  PROVE  IInv'
<1>1. r \in Delivery
  BY Kinds DEF IInv, Shapes, TypeOK, StartDownload
<1>2. PICK t : t = [op |-> "download", src |-> r]
  OBVIOUS
<1>3. TaskOK(t) /\ t.op # "render"
  BY <1>1, <1>2 DEF TaskOK
<1>4. task' = [task EXCEPT ![q] = t]
  BY <1>2 DEF StartDownload
<1>5. UNCHANGED <<saved, sboms, rows, cancelled, item, exports, uploads, now, used>>
  BY DEF StartDownload
<1>6. used' \subseteq Audit \cup Packages \cup Cve \cup Export /\ used \subseteq used'
  BY <1>5 DEF IInv, Shapes, TypeOK
<1>7. now' \in Time /\ now <= now'
  BY <1>5, Stays
<1> QED BY <1>3, <1>4, <1>5, <1>6, <1>7, OneTask, TasksOnly

(* The manifest of a rendering names whatever the plan and the rows cite,   *)
(* the audits of cancelled ones as long as they are saved.                  *)
LEMMA ManifestCites ==
  ASSUME IInv
  PROVE  Manifest \subseteq Report /\ Required \subseteq (Names(Manifest) \cup Released)
<1>1. Manifest \subseteq Report
  BY DEF IInv, Shapes, TypeOK, Manifest
<1>2. ASSUME NEW n \in Required, n \notin Released PROVE n \in Names(saved)
  <2>1. CASE n \in UNION {PlanNames(i) : i \in Item}
    <3>1. PICK i \in Item : n \in PlanNames(i)
      BY <2>1
    <3>2. PICK e \in {item[i].evidence, item[i].verification} \ {Nil} : n = NameOf(e)
      BY <3>1 DEF PlanNames, Names
    <3>3. e \in saved
      BY <3>2 DEF IInv, EvidenceKept, ReferencesKept
    <3> QED BY <3>2, <3>3 DEF Names
  <2>2. CASE n \in {<<"audit", a>> : a \in rows}
    BY <2>2 DEF IInv, EvidenceKept, ReferencesKept
  <2>3. CASE n \in {<<"audit", a>> : a \in cancelled}
    BY <1>2, <2>3 DEF Released
  <2>4. n \in {<<"audit", a>> : a \in rows \cup cancelled} => \/ n \in {<<"audit", a>> : a \in rows}
                                                            \/ n \in {<<"audit", a>> : a \in cancelled}
    OBVIOUS
  <2> QED BY <1>2, <2>1, <2>2, <2>3, <2>4 DEF Required
<1>3. ASSUME NEW n \in Required, n \notin Released PROVE n \in Names(Manifest)
  <2>1. PICK r \in saved : n = NameOf(r)
    BY <1>2, <1>3 DEF Names
  <2>2. r \in Manifest
    BY <1>3, <2>1 DEF Manifest
  <2> QED BY <2>1, <2>2 DEF Names
<1> QED BY <1>1, <1>3

LEMMA RenderStarts ==
  ASSUME IInv, NEW q \in Request, NEW g \in Export, StartRender(q, g)
  PROVE  IInv'
<1>1. PICK t : t = [op |-> "render", id |-> g, manifest |-> Manifest, cited |-> Required]
  OBVIOUS
<1>2. TaskOK(t)
  BY <1>1, ManifestCites DEF TaskOK
<1>3. t.op = "render" => t.cited \subseteq (Names(t.manifest) \cup Released)
  BY <1>1, ManifestCites
<1>4. task' = [task EXCEPT ![q] = t]
  BY <1>1 DEF StartRender
<1>5. UNCHANGED <<saved, sboms, rows, cancelled, item, exports, uploads, now>>
  BY DEF StartRender
<1>6. used' \subseteq Audit \cup Packages \cup Cve \cup Export /\ used \subseteq used'
  BY DEF IInv, Shapes, TypeOK, StartRender
<1>7. now' \in Time /\ now <= now'
  BY <1>5, Stays
<1> QED BY <1>2, <1>3, <1>4, <1>5, <1>6, <1>7, OneTask, TasksOnly

LEMMA GivingUp ==
  ASSUME IInv, NEW q \in Request, GiveUp(q)
  PROVE  IInv'
<1>1. UNCHANGED <<saved, sboms, rows, cancelled, item, exports, uploads, now, used>>
  BY DEF GiveUp
<1>2. used' \subseteq Audit \cup Packages \cup Cve \cup Export /\ used \subseteq used'
  BY <1>1 DEF IInv, Shapes, TypeOK
<1>3. now' \in Time /\ now <= now'
  BY <1>1, Stays
<1>4. task' = [task EXCEPT ![q] = Idle]
  BY DEF GiveUp
<1> QED BY <1>1, <1>2, <1>3, <1>4, EndsTask, TasksOnly

LEMMA Crashing ==
  ASSUME IInv, Crash
  PROVE  IInv'
<1>1. UNCHANGED <<saved, sboms, rows, cancelled, item, exports, uploads, now, used>>
  BY DEF Crash
<1>2. used' \subseteq Audit \cup Packages \cup Cve \cup Export /\ used \subseteq used'
  BY <1>1 DEF IInv, Shapes, TypeOK
<1>3. now' \in Time /\ now <= now'
  BY <1>1, Stays
<1>4. task' = [q \in Request |-> Idle]
  BY DEF Crash
<1> QED BY <1>1, <1>2, <1>3, <1>4, NoTask, TasksOnly

(***************************************************************************)
(* Reports that appear                                                     *)
(***************************************************************************)

LEMMA AuditAppears ==
  ASSUME IInv, NEW a \in Audit, NEW complete \in BOOLEAN, NEW found \in BOOLEAN, NEW forRow \in BOOLEAN,
         PublishAudit(a, complete, found, forRow)
  PROVE  IInv'
<1>1. now' \in Time /\ now <= now'
  BY Ticks DEF PublishAudit
<1>2. PICK x : x = [kind |-> "audit", id |-> a, time |-> now', complete |-> complete, found |-> found]
  OBVIOUS
<1>3. x \in AuditReport
  BY <1>1, <1>2 DEF AuditReport
<1>4. /\ saved' = saved \cup {x} /\ used' = used \cup {a}
      /\ rows' = (IF forRow THEN rows \cup {a} ELSE rows)
      /\ UNCHANGED <<sboms, cancelled, item, exports, task, uploads>> /\ a \notin used
  BY <1>2 DEF PublishAudit
<1>5. x \in Report /\ x.kind = "audit" /\ NameOf(x) = <<"audit", a>>
  BY <1>2, <1>3 DEF Report, NameOf
<1>8. Released \subseteq Released'
  <2>1. \A b \in cancelled : b # a
    BY <1>4 DEF IInv, RowsMade
  <2>2. \A b \in cancelled : NameOf(x) # <<"audit", b>>
    BY <1>5, <2>1
  <2> QED BY <1>4, <2>2, ReleasedStays
<1>9. RowsMade'
  BY <1>4 DEF IInv, RowsMade
<1>6. EvidenceKept'
  <2>1. \A r \in saved' \ saved : r.kind = "audit"
    BY <1>4, <1>5
  <2>2. \A b \in rows' : b \in rows \/ <<"audit", b>> \in Names(saved')
    BY <1>4, <1>5 DEF Names
  <2> QED BY <1>4, <1>8, <2>1, <2>2, Grown DEF IInv, Shapes
<1>7. Shapes' /\ Dated' /\ RendersCite' /\ RowsMade' /\ ConfirmedByLaterObservation'
  <2>1. /\ saved' \subseteq Report /\ sboms' \subseteq Cve /\ rows' \subseteq Audit /\ cancelled' \subseteq Audit
        /\ used' \subseteq Audit \cup Packages \cup Cve \cup Export /\ uploads' \in 0 .. MaxUploads
    BY <1>4, <1>5 DEF IInv, Shapes, TypeOK
  <2>2. /\ task' = [q \in Request |-> task'[q]]
        /\ \A q \in Request : TaskOK(task'[q])
        /\ \A q \in Request : task'[q].op = "render" => task'[q].cited \subseteq (Names(task'[q].manifest) \cup Released)
    BY <1>4 DEF IInv, Shapes, TypeOK, RendersCite
  <2> QED BY <1>1, <1>4, <1>8, <1>9, <2>1, <2>2, PlanStays
<1> QED BY <1>6, <1>7 DEF IInv

LEMMA InventoryAppears ==
  ASSUME IInv, NEW p \in Packages, NEW complete \in BOOLEAN, NEW found \in BOOLEAN,
         PublishPackages(p, complete, found)
  PROVE  IInv'
<1>1. now' \in Time /\ now <= now'
  BY Ticks DEF PublishPackages
<1>2. PICK x : x = [kind |-> "packages", id |-> p, time |-> now', complete |-> complete, found |-> found]
  OBVIOUS
<1>3. x \in PackageReport
  BY <1>1, <1>2 DEF PackageReport
<1>4. /\ saved' = saved \cup {x} /\ used' = used \cup {p}
      /\ UNCHANGED <<sboms, rows, cancelled, item, exports, task, uploads>>
  BY <1>2 DEF PublishPackages
<1>5. x \in Report /\ x.kind = "packages"
  BY <1>2, <1>3 DEF Report
<1>8. saved' \subseteq Report /\ \A r \in saved' \ saved : r.kind = "packages"
  BY <1>4, <1>5 DEF IInv, Shapes, TypeOK
<1>9. Released \subseteq Released' /\ RowsMade'
  BY <1>4, <1>8, OthersRelease DEF IInv, RowsMade
<1>6. EvidenceKept'
  <2>1. \A a \in rows' : a \in rows
    BY <1>4
  <2> QED BY <1>4, <1>8, <1>9, <2>1, Grown DEF IInv, Shapes
<1>7. Shapes' /\ Dated' /\ RendersCite' /\ RowsMade' /\ ConfirmedByLaterObservation'
  <2>1. /\ saved' \subseteq Report /\ sboms' \subseteq Cve /\ rows' \subseteq Audit /\ cancelled' \subseteq Audit
        /\ used' \subseteq Audit \cup Packages \cup Cve \cup Export /\ uploads' \in 0 .. MaxUploads
    BY <1>4, <1>5 DEF IInv, Shapes, TypeOK
  <2>2. /\ task' = [q \in Request |-> task'[q]]
        /\ \A q \in Request : TaskOK(task'[q])
        /\ \A q \in Request : task'[q].op = "render" => task'[q].cited \subseteq (Names(task'[q].manifest) \cup Released)
    BY <1>4 DEF IInv, Shapes, TypeOK, RendersCite
  <2> QED BY <1>1, <1>4, <1>9, <2>1, <2>2, PlanStays
<1> QED BY <1>6, <1>7 DEF IInv

(* Whatever the scanner did, the report it leaves is a CVE report of the    *)
(* inventory the scan began with.                                           *)
LEMMA ScanReports ==
  ASSUME NEW t, TaskOK(t), t.op = "scan", NEW matched \in BOOLEAN, NEW covered \in BOOLEAN,
         NEW sbom \in {t.id, Nil}
  PROVE  ScanReport(t, matched, covered, sbom) \in CveReport
<1>1. t.id \in Cve /\ t.src \in PackageReport /\ t.time \in Time
  BY TaskKinds
<1>2. t.src.complete \in BOOLEAN /\ t.src.found \in BOOLEAN
  BY <1>1 DEF PackageReport
<1>3. PICK c \in BOOLEAN : c = (matched /\ covered /\ t.src.complete)
  BY <1>2
<1>4. PICK f \in BOOLEAN : f = (matched /\ t.src.found)
  BY <1>2
<1>5. ScanReport(t, matched, covered, sbom)
      = [kind |-> "cve", id |-> t.id, time |-> t.time, complete |-> c, found |-> f, src |-> t.src, sbom |-> sbom]
  BY <1>3, <1>4 DEF ScanReport
<1> QED BY <1>1, <1>5 DEF CveReport

LEMMA ScanEnds ==
  ASSUME IInv, NEW q \in Request, FinishScan(q)
  PROVE  IInv'
<1>1. TaskOK(task[q]) /\ task[q].op = "scan"
  BY DEF IInv, Shapes, TypeOK, FinishScan
<1>2. PICK matched \in BOOLEAN, covered \in BOOLEAN, sbom \in {task[q].id, Nil} :
        /\ saved' = saved \cup {ScanReport(task[q], matched, covered, sbom)}
        /\ sboms' = sboms \cup ({sbom} \ {Nil})
  BY DEF FinishScan
<1>3. PICK x : x = ScanReport(task[q], matched, covered, sbom)
  OBVIOUS
<1>4. x \in CveReport
  BY <1>1, <1>3, ScanReports
<1>5. x \in Report /\ x.kind = "cve" /\ x.sbom = sbom /\ sbom \in Cve \cup {Nil}
  BY <1>1, <1>3, <1>4, TaskKinds DEF Report, CveReport, ScanReport
<1>6. UNCHANGED <<rows, cancelled, item, exports, uploads, now, used>> /\ task' = [task EXCEPT ![q] = Idle]
  BY DEF FinishScan
<1>9. Released \subseteq Released' /\ RowsMade'
  <2>1. saved' \subseteq Report /\ \A r \in saved' \ saved : r.kind = "cve"
    BY <1>2, <1>3, <1>5 DEF IInv, Shapes, TypeOK
  <2> QED BY <1>6, <2>1, OthersRelease DEF IInv, RowsMade
<1>7. EvidenceKept'
  <2>1. \A r \in saved' \ saved : r = x
    BY <1>2, <1>3
  <2>2. x.sbom \in sboms' \cup {Nil} /\ x.kind # "delivery" /\ x.kind # "analysis"
    BY <1>2, <1>5
  <2>3. saved \subseteq saved' /\ sboms \subseteq sboms'
    BY <1>2
  <2>4. \A a \in rows' : a \in rows
    BY <1>6
  <2> QED BY <1>6, <1>9, <2>1, <2>2, <2>3, <2>4, Grown DEF IInv, Shapes
<1>8. Shapes' /\ Dated' /\ RendersCite' /\ RowsMade' /\ ConfirmedByLaterObservation'
  <2>1. /\ saved' \subseteq Report /\ sboms' \subseteq Cve /\ rows' \subseteq Audit /\ cancelled' \subseteq Audit
        /\ used' \subseteq Audit \cup Packages \cup Cve \cup Export /\ uploads' \in 0 .. MaxUploads
    BY <1>2, <1>3, <1>5, <1>6 DEF IInv, Shapes, TypeOK
  <2>2. now' \in Time /\ now <= now'
    BY <1>6, Stays
  <2> QED BY <1>6, <1>9, <2>1, <2>2, EndsTask, PlanStays
<1> QED BY <1>7, <1>8 DEF IInv

LEMMA UploadEnds ==
  ASSUME IInv, NEW q \in Request, FinishUpload(q)
  PROVE  IInv'
<1>1. TaskOK(task[q]) /\ task[q].op = "upload"
  BY DEF IInv, Shapes, TypeOK, FinishUpload
<1>2. uploads' \in 1 .. MaxUploads
  BY ReportsAssumption DEF IInv, Shapes, TypeOK, FinishUpload
<1>3. PICK d : d = [kind |-> "delivery", src |-> task[q].src, token |-> uploads']
  OBVIOUS
<1>4. d \in Delivery
  BY <1>1, <1>2, <1>3, TaskKinds DEF Delivery
<1>5. SaveDelivery(d) /\ task' = [task EXCEPT ![q] = Idle]
      /\ UNCHANGED <<sboms, used, rows, cancelled, item, exports, now>>
  BY <1>3 DEF FinishUpload
<1>6. saved' = saved \/ (saved' = saved \cup {d} /\ SourceIntact(d.src))
  BY <1>5 DEF SaveDelivery
<1>7. d \in Report /\ d.kind = "delivery"
  BY <1>3, <1>4 DEF Report
<1>10. Released \subseteq Released' /\ RowsMade'
  <2>1. saved' \subseteq Report /\ \A r \in saved' \ saved : r.kind = "delivery"
    BY <1>6, <1>7 DEF IInv, Shapes, TypeOK
  <2> QED BY <1>5, <2>1, OthersRelease DEF IInv, RowsMade
<1>8. EvidenceKept'
  <2>1. \A r \in saved' \ saved : r = d /\ SourceIntact(d.src)
    BY <1>6
  <2>2. saved \subseteq saved' /\ sboms \subseteq sboms' /\ (\A a \in rows' : a \in rows)
    BY <1>5, <1>6
  <2> QED BY <1>5, <1>7, <1>10, <2>1, <2>2, Grown DEF IInv, Shapes
<1>9. Shapes' /\ Dated' /\ RendersCite' /\ RowsMade' /\ ConfirmedByLaterObservation'
  <2>1. /\ saved' \subseteq Report /\ sboms' \subseteq Cve /\ rows' \subseteq Audit /\ cancelled' \subseteq Audit
        /\ used' \subseteq Audit \cup Packages \cup Cve \cup Export
    BY <1>5, <1>6, <1>7 DEF IInv, Shapes, TypeOK
  <2>2. now' \in Time /\ now <= now'
    BY <1>5, Stays
  <2>3. uploads' \in 0 .. MaxUploads
    BY <1>2
  <2> QED BY <1>5, <1>10, <2>1, <2>2, <2>3, EndsTask, PlanStays
<1> QED BY <1>8, <1>9 DEF IInv

LEMMA DownloadEnds ==
  ASSUME IInv, NEW q \in Request, FinishDownload(q)
  PROVE  IInv'
<1>1. TaskOK(task[q]) /\ task[q].op = "download"
  BY DEF IInv, Shapes, TypeOK, FinishDownload
<1>2. PICK n : n = [kind |-> "analysis", src |-> task[q].src]
  OBVIOUS
<1>3. n \in Analysis
  BY <1>1, <1>2, TaskKinds DEF Analysis
<1>4. SaveAnalysis(task[q].src) /\ task' = [task EXCEPT ![q] = Idle]
      /\ UNCHANGED <<sboms, used, rows, cancelled, item, exports, now, uploads>>
  BY DEF FinishDownload
<1>5. saved' = saved \/ (saved' = saved \cup {n} /\ n.src \in saved)
  BY <1>2, <1>4 DEF SaveAnalysis
<1>6. n \in Report /\ n.kind = "analysis"
  BY <1>2, <1>3 DEF Report
<1>9. Released \subseteq Released' /\ RowsMade'
  <2>1. saved' \subseteq Report /\ \A r \in saved' \ saved : r.kind = "analysis"
    BY <1>5, <1>6 DEF IInv, Shapes, TypeOK
  <2> QED BY <1>4, <2>1, OthersRelease DEF IInv, RowsMade
<1>7. EvidenceKept'
  <2>1. \A r \in saved' \ saved : r = n /\ n.src \in saved
    BY <1>5
  <2>2. saved \subseteq saved' /\ sboms \subseteq sboms' /\ (\A a \in rows' : a \in rows)
    BY <1>4, <1>5
  <2> QED BY <1>4, <1>6, <1>9, <2>1, <2>2, Grown DEF IInv, Shapes
<1>8. Shapes' /\ Dated' /\ RendersCite' /\ RowsMade' /\ ConfirmedByLaterObservation'
  <2>1. /\ saved' \subseteq Report /\ sboms' \subseteq Cve /\ rows' \subseteq Audit /\ cancelled' \subseteq Audit
        /\ used' \subseteq Audit \cup Packages \cup Cve \cup Export /\ uploads' \in 0 .. MaxUploads
    BY <1>4, <1>5, <1>6 DEF IInv, Shapes, TypeOK
  <2>2. now' \in Time /\ now <= now'
    BY <1>4, Stays
  <2> QED BY <1>4, <1>9, <2>1, <2>2, EndsTask, PlanStays
<1> QED BY <1>7, <1>8 DEF IInv

(***************************************************************************)
(* Exported PDFs                                                           *)
(***************************************************************************)

LEMMA ExportsChange ==
  ASSUME IInv, UNCHANGED <<saved, sboms, used, rows, cancelled, item, uploads, now>>,
         \A x \in exports' : /\ ExportOK(x) /\ x.manifest \subseteq saved
                            /\ x.cited \subseteq (Names(x.manifest) \cup Released),
         task' = [q \in Request |-> task'[q]],
         \A q \in Request : TaskOK(task'[q]),
         \A q \in Request : task'[q].op = "render" => task'[q].cited \subseteq (Names(task'[q].manifest) \cup Released)
  PROVE  IInv'
<1>1. TypeOK'
  BY DEF IInv, Shapes, TypeOK, ExportOK
<1>2. Shapes'
  BY <1>1 DEF IInv, Shapes
<1>6. Released' = Released
  BY DEF Released
<1>3. Dated' /\ RendersCite' /\ RowsMade' /\ ConfirmedByLaterObservation'
  BY <1>6 DEF IInv, Dated, RendersCite, RowsMade, ConfirmedByLaterObservation
<1>4. TransfersKeepTheirSource' /\ SbomsKept' /\ ReferencesKept'
  BY DEF IInv, EvidenceKept, TransfersKeepTheirSource, SourceIntact, SbomsKept, ReferencesKept
<1>5. ExportsBacked'
  BY <1>6 DEF ExportsBacked
<1> QED BY <1>2, <1>3, <1>4, <1>5 DEF IInv, EvidenceKept

LEMMA RenderEnds ==
  ASSUME IInv, NEW q \in Request, FinishRender(q)
  PROVE  IInv'
<1>1. TaskOK(task[q]) /\ task[q].op = "render"
  BY DEF IInv, Shapes, TypeOK, FinishRender
<1>2. PICK x : x = [id |-> task[q].id, manifest |-> task[q].manifest, cited |-> task[q].cited, readable |-> TRUE]
  OBVIOUS
<1>3. ExportOK(x) /\ x.cited \subseteq (Names(x.manifest) \cup Released)
  BY <1>1, <1>2, TaskKinds DEF ExportOK, IInv, RendersCite
<1>4. exports' = exports \/ (exports' = exports \cup {x} /\ x.manifest \subseteq saved)
  BY <1>2 DEF FinishRender, RecordExportChecked, RecordExport
<1>5. \A y \in exports : ExportOK(y) /\ y.manifest \subseteq saved /\ y.cited \subseteq (Names(y.manifest) \cup Released)
  BY DEF IInv, Shapes, EvidenceKept, ExportsBacked
<1>6. \A y \in exports' : ExportOK(y) /\ y.manifest \subseteq saved /\ y.cited \subseteq (Names(y.manifest) \cup Released)
  BY <1>3, <1>4, <1>5
<1>7. UNCHANGED <<saved, sboms, used, rows, cancelled, item, uploads, now>> /\ task' = [task EXCEPT ![q] = Idle]
  BY DEF FinishRender
<1> QED BY <1>6, <1>7, EndsTask, ExportsChange

LEMMA SnapshotBreaks ==
  ASSUME IInv, NEW x \in exports, BreakSnapshot(x)
  PROVE  IInv'
<1>1. \A y \in exports : ExportOK(y) /\ y.manifest \subseteq saved /\ y.cited \subseteq (Names(y.manifest) \cup Released)
  BY DEF IInv, Shapes, EvidenceKept, ExportsBacked
<1>2. PICK b : b = [x EXCEPT !.readable = FALSE]
  OBVIOUS
<1>3. b = [id |-> x.id, manifest |-> x.manifest, cited |-> x.cited, readable |-> FALSE]
  <2>1. x = [id |-> x.id, manifest |-> x.manifest, cited |-> x.cited, readable |-> x.readable]
    BY <1>1 DEF ExportOK
  <2>2. PICK n, m, c, d : n = x.id /\ m = x.manifest /\ c = x.cited /\ d = x.readable
    OBVIOUS
  <2>3. x = [id |-> n, manifest |-> m, cited |-> c, readable |-> d]
    BY ONLY <2>1, <2>2
  <2>4. b = [id |-> n, manifest |-> m, cited |-> c, readable |-> FALSE]
    BY ONLY <1>2, <2>3
  <2> QED BY ONLY <2>2, <2>4
<1>4. ExportOK(b) /\ b.manifest = x.manifest /\ b.cited = x.cited
  BY <1>1, <1>3 DEF ExportOK
<1>5. exports' = (exports \ {x}) \cup {b}
  BY <1>2 DEF BreakSnapshot
<1>6. \A y \in exports' : ExportOK(y) /\ y.manifest \subseteq saved /\ y.cited \subseteq (Names(y.manifest) \cup Released)
  BY <1>1, <1>4, <1>5
<1>7. UNCHANGED <<saved, sboms, used, rows, cancelled, item, uploads, now, task>>
  BY DEF BreakSnapshot
<1>8. /\ task' = [q \in Request |-> task'[q]]
      /\ \A q \in Request : TaskOK(task'[q])
      /\ \A q \in Request : task'[q].op = "render" => task'[q].cited \subseteq (Names(task'[q].manifest) \cup Released)
  BY <1>7 DEF IInv, Shapes, TypeOK, RendersCite
<1> QED BY <1>6, <1>7, <1>8, ExportsChange

(***************************************************************************)
(* Deletion: the guard of the code is what EvidenceKept needs              *)
(***************************************************************************)

(* Neither the plan, a row nor a PDF needs a report that may be deleted.    *)
LEMMA UnneededReport ==
  ASSUME IInv, NEW r \in saved, Deletable(r)
  PROVE  /\ \A i \in Item : {item[i].evidence, item[i].verification} \subseteq (saved \ {r}) \cup {Nil}
         /\ \A a \in rows : <<"audit", a>> \in Names(saved \ {r})
         /\ \A x \in exports : x.manifest \subseteq saved \ {r}
         /\ \A s \in saved : s.kind \in {"delivery", "analysis"} => s.src # r
<1>1. ASSUME NEW i \in Item, NEW e \in {item[i].evidence, item[i].verification}
      PROVE  e \in (saved \ {r}) \cup {Nil}
  <2>1. e \in saved \cup {Nil}
    BY DEF IInv, EvidenceKept, ReferencesKept
  <2>2. CASE e = r /\ r # Nil
    <3>1. NameOf(r) \in PlanNames(i)
      BY <2>2 DEF PlanNames, Names
    <3> QED BY <3>1 DEF Deletable, StoredReference
  <2> QED BY <2>1, <2>2
<1>2. ASSUME NEW a \in rows PROVE <<"audit", a>> \in Names(saved \ {r})
  <2>1. PICK s \in saved : NameOf(s) = <<"audit", a>>
    BY DEF IInv, EvidenceKept, ReferencesKept, Names
  <2>2. s # r
    <3>1. s.kind = "audit" /\ s.id = a
      BY <2>1, AuditNames DEF IInv, Shapes, TypeOK
    <3> QED BY <3>1 DEF Deletable, StoredReference
  <2> QED BY <2>1, <2>2 DEF Names
<1>3. ASSUME NEW x \in exports PROVE x.manifest \subseteq saved \ {r}
  <2>1. x.manifest \subseteq saved
    BY DEF IInv, EvidenceKept, ExportsBacked
  <2>2. NameOf(r) \notin Names(x.manifest)
    BY DEF Deletable, ExportReference
  <2> QED BY <2>1, <2>2 DEF Names
<1>4. ASSUME NEW s \in saved, s.kind \in {"delivery", "analysis"} PROVE s.src # r
  <2>1. s \notin Dependents(r)
    BY DEF Deletable
  <2> QED BY <1>4, <2>1 DEF Dependents, Derived
<1> QED BY <1>1, <1>2, <1>3, <1>4

(* An SBOM goes only when no other CVE report names it.                     *)
LEMMA Deletes ==
  ASSUME IInv, NEW r \in saved, Deletable(r), saved' = saved \ {r},
         sboms' = sboms \/ sboms' = SbomsWithout(r), item' = item, rows' = rows, cancelled' = cancelled,
         exports' = exports
  PROVE  EvidenceKept' /\ saved' \subseteq Report /\ sboms' \subseteq Cve /\ Released \subseteq Released'
<1>1. /\ \A i \in Item : {item[i].evidence, item[i].verification} \subseteq (saved \ {r}) \cup {Nil}
      /\ \A a \in rows : <<"audit", a>> \in Names(saved \ {r})
      /\ \A x \in exports : x.manifest \subseteq saved \ {r}
      /\ \A s \in saved : s.kind \in {"delivery", "analysis"} => s.src # r
  BY UnneededReport
<1>2. ASSUME NEW s \in saved \ {r}, s.kind = "cve", NEW b \in sboms, s.sbom = b PROVE b \in sboms'
  BY <1>2 DEF SbomsWithout
<1>3. TransfersKeepTheirSource'
  <2>1. ASSUME NEW s \in saved', s.kind = "delivery" PROVE s.src \in saved' /\ s.src.sbom \in sboms'
    <3>1. s \in saved /\ s.src \in saved /\ s.src.sbom \in sboms /\ s.src.kind = "cve"
      BY <2>1, Parts DEF IInv, Shapes, EvidenceKept, TransfersKeepTheirSource, SourceIntact
    <3>2. s.src \in saved \ {r}
      BY <1>1, <2>1, <3>1
    <3> QED BY <1>2, <3>1, <3>2
  <2>2. ASSUME NEW s \in saved', s.kind = "analysis" PROVE s.src \in saved'
    BY <1>1, <2>2 DEF IInv, EvidenceKept, TransfersKeepTheirSource
  <2> QED BY <2>1, <2>2 DEF TransfersKeepTheirSource, SourceIntact
<1>4. SbomsKept'
  <2>1. ASSUME NEW s \in saved', s.kind = "cve" PROVE s.sbom \in sboms' \cup {Nil}
    BY <1>2, <2>1 DEF IInv, EvidenceKept, SbomsKept
  <2> QED BY <2>1 DEF SbomsKept
<1>7. Released \subseteq Released'
  BY ReleasedStays
<1>5. ReferencesKept' /\ ExportsBacked'
  BY <1>1, <1>7 DEF IInv, EvidenceKept, ReferencesKept, ExportsBacked
<1>6. saved' \subseteq Report /\ sboms' \subseteq Cve
  BY DEF IInv, Shapes, TypeOK, SbomsWithout
<1> QED BY <1>3, <1>4, <1>5, <1>6, <1>7 DEF EvidenceKept

LEMMA ReportDeleted ==
  ASSUME IInv, NEW r \in saved, DeleteReport(r)
  PROVE  IInv'
<1>1. /\ Deletable(r) /\ saved' = saved \ {r} /\ sboms' = SbomsWithout(r)
      /\ UNCHANGED <<used, rows, cancelled, item, exports, task, uploads, now>>
  BY DEF DeleteReport
<1>2. EvidenceKept' /\ saved' \subseteq Report /\ sboms' \subseteq Cve /\ Released \subseteq Released'
  BY <1>1, Deletes
<1>3. Shapes' /\ Dated' /\ RendersCite' /\ RowsMade' /\ ConfirmedByLaterObservation'
  <2>1. /\ rows' \subseteq Audit /\ cancelled' \subseteq Audit /\ uploads' \in 0 .. MaxUploads /\ RowsMade'
        /\ used' \subseteq Audit \cup Packages \cup Cve \cup Export
    BY <1>1 DEF IInv, Shapes, TypeOK, RowsMade
  <2>2. now' \in Time /\ now <= now'
    BY <1>1, Stays
  <2>3. /\ task' = [q \in Request |-> task'[q]]
        /\ \A q \in Request : TaskOK(task'[q])
        /\ \A q \in Request : task'[q].op = "render" => task'[q].cited \subseteq (Names(task'[q].manifest) \cup Released)
    BY <1>1 DEF IInv, Shapes, TypeOK, RendersCite
  <2> QED BY <1>1, <1>2, <2>1, <2>2, <2>3, PlanStays
<1> QED BY <1>2, <1>3 DEF IInv

LEMMA DeletionCutShort ==
  ASSUME IInv, NEW r \in saved, DeleteCutShort(r)
  PROVE  IInv'
<1>1. /\ Deletable(r) /\ saved' = saved \ {r} /\ sboms' = sboms /\ task' = [q \in Request |-> Idle]
      /\ UNCHANGED <<used, rows, cancelled, item, exports, uploads, now>>
  BY DEF DeleteCutShort
<1>2. EvidenceKept' /\ saved' \subseteq Report /\ sboms' \subseteq Cve /\ Released \subseteq Released'
  BY <1>1, Deletes
<1>3. Shapes' /\ Dated' /\ RendersCite' /\ RowsMade' /\ ConfirmedByLaterObservation'
  <2>1. /\ rows' \subseteq Audit /\ cancelled' \subseteq Audit /\ uploads' \in 0 .. MaxUploads /\ RowsMade'
        /\ used' \subseteq Audit \cup Packages \cup Cve \cup Export
    BY <1>1 DEF IInv, Shapes, TypeOK, RowsMade
  <2>2. now' \in Time /\ now <= now'
    BY <1>1, Stays
  <2> QED BY <1>1, <1>2, <2>1, <2>2, NoTask, PlanStays
<1> QED BY <1>2, <1>3 DEF IInv

(***************************************************************************)
(* The remediation plan                                                    *)
(***************************************************************************)

(* One item of the plan becomes y, which is as an item has to be.           *)
LEMMA PlanChanges ==
  ASSUME IInv, NEW i \in Item, NEW y \in PlanItem, item' = [item EXCEPT ![i] = y],
         UNCHANGED <<saved, sboms, used, rows, cancelled, exports, task, uploads>>,
         now' \in Time, now <= now',
         y.done <= y.updated, y.updated <= now', y.status # "none" => y.finding \in {"audit", "cve"},
         {y.evidence, y.verification} \subseteq saved \cup {Nil},
         y.status = "confirmed" => /\ y.done < ObservedAt(y.verification)
                                   /\ y.verification.complete /\ ~ y.verification.found
  PROVE  IInv'
<1>1. item \in [Item -> PlanItem]
  BY DEF IInv, Shapes
<1>2. item' \in [Item -> PlanItem] /\ (\A j \in Item : item'[j] = IF j = i THEN y ELSE item[j])
  BY <1>1
<1>3. Shapes'
  <2>1. \A j \in Item :
          /\ item'[j].status \in Statuses \cup {"none"}
          /\ item'[j].finding \in {Nil, "audit", "cve"}
          /\ item'[j].evidence \in AuditReport \cup CveReport \cup {Nil}
          /\ item'[j].verification \in AuditReport \cup CveReport \cup {Nil}
          /\ item'[j].updated \in Time /\ item'[j].done \in Time
          /\ item'[j].reached \subseteq Statuses
    BY <1>2 DEF PlanItem, Evidence
  <2>2. TypeOK'
    BY <2>1 DEF IInv, Shapes, TypeOK
  <2> QED BY <1>2, <2>2 DEF IInv, Shapes
<1>4. Dated'
  <2> SUFFICES ASSUME NEW j \in Item
               PROVE  /\ item'[j].done <= item'[j].updated /\ item'[j].updated <= now'
                      /\ item'[j].status # "none" => item'[j].finding \in {"audit", "cve"}
    BY DEF Dated
  <2>1. CASE j = i
    BY <1>2, <2>1
  <2>2. CASE j # i
    <3>1. item'[j] = item[j]
      BY <1>2, <2>2
    <3>2. item[j].updated \in Nat /\ now \in Nat /\ now' \in Nat
      BY DEF IInv, Shapes, TypeOK, Time
    <3> QED BY <3>1, <3>2 DEF IInv, Dated
  <2> QED BY <2>1, <2>2
<1>8. Released' = Released
  BY DEF Released
<1>5. RendersCite' /\ RowsMade'
  BY <1>8 DEF IInv, RendersCite, RowsMade
<1>6. EvidenceKept'
  <2>1. TransfersKeepTheirSource' /\ SbomsKept' /\ ExportsBacked'
    BY <1>8 DEF IInv, EvidenceKept, TransfersKeepTheirSource, SourceIntact, SbomsKept, ExportsBacked
  <2>2. ASSUME NEW j \in Item PROVE {item'[j].evidence, item'[j].verification} \subseteq saved' \cup {Nil}
    <3>1. CASE j = i
      BY <1>2, <3>1
    <3>2. CASE j # i
      BY <1>2, <3>2 DEF IInv, EvidenceKept, ReferencesKept
    <3> QED BY <3>1, <3>2
  <2>3. \A a \in rows' : <<"audit", a>> \in Names(saved')
    BY DEF IInv, EvidenceKept, ReferencesKept
  <2> QED BY <2>1, <2>2, <2>3 DEF EvidenceKept, ReferencesKept
<1>7. ConfirmedByLaterObservation'
  <2> SUFFICES ASSUME NEW j \in Item, item'[j].status = "confirmed"
               PROVE  /\ item'[j].done < ObservedAt(item'[j].verification)
                      /\ item'[j].verification.complete /\ ~ item'[j].verification.found
    BY DEF ConfirmedByLaterObservation, ObservedAt
  <2>1. CASE j = i
    BY <1>2, <2>1
  <2>2. CASE j # i
    <3>1. item'[j] = item[j]
      BY <1>2, <2>2
    <3> QED BY <3>1 DEF IInv, ConfirmedByLaterObservation
  <2> QED BY <2>1, <2>2
<1> QED BY <1>3, <1>4, <1>5, <1>6, <1>7 DEF IInv

LEMMA EmptyItem ==
  NoItem \in PlanItem /\ NoItem.status = "none" /\ NoItem.done = 0 /\ NoItem.updated = 0
  /\ NoItem.evidence = Nil /\ NoItem.verification = Nil /\ NoItem.reached = {}
BY ReportsAssumption DEF NoItem, PlanItem, Evidence, Time

LEMMA FindingPlanned ==
  ASSUME IInv, NEW i \in Item, NEW r \in saved, AddToPlan(i, r)
  PROVE  IInv'
<1>1. now' \in Time /\ now <= now'
  BY Ticks DEF AddToPlan
<1>2. r \in AuditReport \cup CveReport /\ r.kind \in {"audit", "cve"}
  BY Kinds DEF IInv, Shapes, TypeOK, AddToPlan
<1>3. PICK y : y = [NoItem EXCEPT !.status = "discovered", !.finding = r.kind, !.evidence = r,
                                  !.updated = now', !.reached = {"discovered"}]
  OBVIOUS
<1>4. y = [status |-> "discovered", finding |-> r.kind, evidence |-> r, verification |-> Nil,
           updated |-> now', done |-> 0, reached |-> {"discovered"}]
  BY <1>3 DEF NoItem
<1>5. y \in PlanItem
  BY <1>1, <1>2, <1>4, ReportsAssumption DEF PlanItem, Evidence, Time, Statuses, Draft
<1>6. /\ item' = [item EXCEPT ![i] = y]
      /\ UNCHANGED <<saved, sboms, used, rows, cancelled, exports, task, uploads>>
  BY <1>3 DEF AddToPlan
<1>7. /\ y.done <= y.updated /\ y.updated <= now' /\ y.finding \in {"audit", "cve"} /\ y.status # "confirmed"
      /\ {y.evidence, y.verification} \subseteq saved \cup {Nil}
  BY <1>1, <1>2, <1>4 DEF Time
<1> QED BY <1>1, <1>5, <1>6, <1>7, PlanChanges

(* What an update of an item keeps and what it sets.                        *)
LEMMA AdvancedItem ==
  ASSUME IInv, NEW i \in Item, NEW status \in Statuses, now' \in Time, now <= now'
  PROVE  \E y \in PlanItem :
           /\ y = Advanced(i, status)
           /\ y.status = status /\ y.updated = now' /\ y.finding = item[i].finding
           /\ y.evidence = item[i].evidence /\ y.verification = item[i].verification
           /\ y.done = (IF status = "completed" THEN now' ELSE item[i].done)
           /\ y.reached = item[i].reached \cup {status}
           /\ y.done <= y.updated
<1>1. PICK x \in PlanItem : x = item[i]
  BY DEF IInv, Shapes
<1>2. PICK d \in Time : d = IF status = "completed" THEN now' ELSE x.done
  BY <1>1 DEF PlanItem
<1>3. PICK y : y = [status |-> status, finding |-> x.finding, evidence |-> x.evidence,
                    verification |-> x.verification, updated |-> now', done |-> d,
                    reached |-> x.reached \cup {status}]
  OBVIOUS
<1>4. Advanced(i, status) = [x EXCEPT !.status = status, !.updated = now', !.reached = @ \cup {status}, !.done = d]
  BY <1>1, <1>2 DEF Advanced
<1>5. x = [status |-> x.status, finding |-> x.finding, evidence |-> x.evidence, verification |-> x.verification,
           updated |-> x.updated, done |-> x.done, reached |-> x.reached]
  BY DEF PlanItem
<1>6. y = Advanced(i, status)
  BY <1>3, <1>4, <1>5
<1>7. y \in PlanItem
  BY <1>2, <1>3 DEF PlanItem
<1>8. d <= now'
  <2>1. x.done <= x.updated /\ x.updated <= now
    BY <1>1 DEF IInv, Dated
  <2>2. x.done \in Nat /\ x.updated \in Nat /\ now \in Nat /\ now' \in Nat
    BY DEF PlanItem, Time, IInv, Shapes, TypeOK
  <2> QED BY <1>2, <2>1, <2>2
<1> QED BY <1>1, <1>2, <1>3, <1>6, <1>7, <1>8

LEMMA ItemAdvances ==
  ASSUME IInv, NEW i \in Item, NEW status \in Statuses, Advance(i, status)
  PROVE  IInv'
<1>1. now' \in Time /\ now <= now'
  BY Ticks DEF Advance
<1>2. PICK y \in PlanItem :
        /\ y = Advanced(i, status)
        /\ y.status = status /\ y.updated = now' /\ y.finding = item[i].finding
        /\ y.evidence = item[i].evidence /\ y.verification = item[i].verification
        /\ y.done <= y.updated
  BY <1>1, AdvancedItem
<1>3. item' = [item EXCEPT ![i] = y] /\ UNCHANGED <<saved, sboms, used, rows, cancelled, exports, task, uploads>>
  BY <1>2 DEF Advance
<1>4. status # "confirmed" /\ item[i].status # "none"
  <2>1. Transitions["none"] = {}
    BY DEF Transitions
  <2> QED BY <2>1 DEF Advance
<1>5. y.finding \in {"audit", "cve"}
  BY <1>2, <1>4 DEF IInv, Dated
<1>6. {y.evidence, y.verification} \subseteq saved \cup {Nil}
  BY <1>2 DEF IInv, EvidenceKept, ReferencesKept
<1>7. y.updated <= now'
  BY <1>1, <1>2 DEF Time
<1>8. y.status # "confirmed"
  BY <1>2, <1>4
<1> QED BY <1>1, <1>2, <1>3, <1>5, <1>6, <1>7, <1>8, PlanChanges

(* The measure was completed before the item's last update, which the       *)
(* observation that proves it is later than.                                *)
LEMMA ItemConfirmed ==
  ASSUME IInv, NEW i \in Item, NEW r \in saved, Confirm(i, r)
  PROVE  IInv'
<1>1. now' \in Time /\ now <= now'
  BY Ticks DEF Confirm
<1>2. PICK y \in PlanItem :
        /\ y = Advanced(i, "confirmed")
        /\ y.status = "confirmed" /\ y.updated = now' /\ y.finding = item[i].finding
        /\ y.evidence = item[i].evidence /\ y.done = item[i].done /\ y.done <= y.updated
  <2>1. "confirmed" \in Statuses
    BY DEF Statuses
  <2> QED BY <1>1, <2>1, AdvancedItem
<1>3. item[i].status # "none"
  <2>1. Transitions["none"] = {}
    BY DEF Transitions
  <2> QED BY <2>1 DEF Confirm
<1>4. item[i].finding \in {"audit", "cve"} /\ r.kind = item[i].finding
  BY <1>3 DEF IInv, Dated, Confirm
<1>5. r \in AuditReport \cup CveReport
  BY <1>4, Kinds DEF IInv, Shapes, TypeOK
<1>6. PICK z : z = [y EXCEPT !.verification = r]
  OBVIOUS
<1>7. z = [status |-> y.status, finding |-> y.finding, evidence |-> y.evidence, verification |-> r,
           updated |-> y.updated, done |-> y.done, reached |-> y.reached]
  BY <1>6 DEF PlanItem
<1>8. z \in PlanItem
  BY <1>5, <1>7 DEF PlanItem, Evidence
<1>9. item' = [item EXCEPT ![i] = z] /\ UNCHANGED <<saved, sboms, used, rows, cancelled, exports, task, uploads>>
  BY <1>2, <1>6 DEF Confirm
<1>10. z.done < ObservedAt(z.verification) /\ z.verification.complete /\ ~ z.verification.found
  <2>1. z.verification = r /\ z.done = item[i].done
    BY <1>2, <1>7
  <2>2. item[i].done <= item[i].updated /\ item[i].updated < ObservedAt(r)
    BY DEF IInv, Dated, Confirm, Proves, ObservedAt
  <2>3. item[i].done \in Nat /\ item[i].updated \in Nat /\ ObservedAt(r) \in Nat
    BY <1>5 DEF IInv, Shapes, TypeOK, Time, ObservedAt, AuditReport, CveReport, PackageReport
  <2>4. z.done < ObservedAt(r)
    BY <2>1, <2>2, <2>3
  <2> QED BY <2>1, <2>4 DEF Confirm, Proves
<1>11. {z.evidence, z.verification} \subseteq saved \cup {Nil}
  BY <1>2, <1>7 DEF IInv, EvidenceKept, ReferencesKept
<1>12. z.done <= z.updated /\ z.updated <= now' /\ z.finding \in {"audit", "cve"}
  BY <1>1, <1>2, <1>4, <1>7 DEF Time
<1> QED BY <1>1, <1>8, <1>9, <1>10, <1>11, <1>12, PlanChanges

LEMMA DraftDeleted ==
  ASSUME IInv, NEW i \in Item, DeleteDraft(i)
  PROVE  IInv'
<1>1. PICK y : y = NoItem
  OBVIOUS
<1>2. y \in PlanItem /\ y.status = "none" /\ y.done = 0 /\ y.updated = 0 /\ y.evidence = Nil /\ y.verification = Nil
  BY <1>1, EmptyItem
<1>3. item' = [item EXCEPT ![i] = y] /\ UNCHANGED <<saved, sboms, used, rows, cancelled, exports, task, uploads, now>>
  BY <1>1 DEF DeleteDraft
<1>4. now' \in Time /\ now <= now'
  BY <1>3, Stays
<1>5. y.done <= y.updated /\ y.updated <= now' /\ {y.evidence, y.verification} \subseteq saved \cup {Nil}
  BY <1>2, <1>4 DEF Time
<1> QED BY <1>2, <1>3, <1>4, <1>5, PlanChanges

(***************************************************************************)
(* Rows, the archive, and the whole machine                                *)
(***************************************************************************)

LEMMA RowCancelled ==
  ASSUME IInv, NEW a \in rows, CancelRow(a)
  PROVE  IInv'
<1>1. /\ rows' \subseteq rows /\ cancelled \subseteq cancelled' /\ cancelled' \subseteq (rows \cup cancelled)
      /\ UNCHANGED <<saved, sboms, used, item, exports, task, uploads, now>>
  BY DEF CancelRow
<1>4. Released \subseteq Released'
  BY <1>1, ReleasedStays
<1>2. TransfersKeepTheirSource' /\ SbomsKept' /\ ExportsBacked' /\ ReferencesKept'
  BY <1>1, <1>4 DEF IInv, EvidenceKept, TransfersKeepTheirSource, SourceIntact, SbomsKept, ReferencesKept, ExportsBacked
<1>3. Shapes' /\ Dated' /\ RendersCite' /\ RowsMade' /\ ConfirmedByLaterObservation'
  BY <1>1, <1>4 DEF IInv, Shapes, TypeOK, Dated, RendersCite, RowsMade, ConfirmedByLaterObservation
<1> QED BY <1>2, <1>3 DEF IInv, EvidenceKept

(* The archive is a view: nothing the invariant speaks of changes with it.  *)
LEMMA ViewChanges ==
  ASSUME IInv, UNCHANGED <<saved, sboms, used, rows, cancelled, item, exports, task, uploads, now>>
  PROVE  IInv'
<1>3. Released' = Released
  BY DEF Released
<1>1. TransfersKeepTheirSource' /\ SbomsKept' /\ ExportsBacked' /\ ReferencesKept'
  BY <1>3 DEF IInv, EvidenceKept, TransfersKeepTheirSource, SourceIntact, SbomsKept, ReferencesKept, ExportsBacked
<1>2. Shapes' /\ Dated' /\ RendersCite' /\ RowsMade' /\ ConfirmedByLaterObservation'
  BY <1>3 DEF IInv, Shapes, TypeOK, Dated, RendersCite, RowsMade, ConfirmedByLaterObservation
<1> QED BY <1>1, <1>2 DEF IInv, EvidenceKept

LEMMA NextKeeps ==
  ASSUME IInv, [Next]_vars
  PROVE  IInv'
<1>1. CASE Publish
  BY <1>1, AuditAppears, InventoryAppears DEF Publish
<1>2. ASSUME NEW q \in Request, Begin(q) PROVE IInv'
  BY <1>2, ScanStarts, UploadStarts, DownloadStarts, RenderStarts DEF Begin
<1>3. ASSUME NEW q \in Request, End(q) PROVE IInv'
  BY <1>3, ScanEnds, UploadEnds, DownloadEnds, RenderEnds, GivingUp DEF End
<1>4. CASE Operator
  <2>1. ASSUME NEW r \in saved, DeleteReport(r) PROVE IInv'
    BY <2>1, ReportDeleted
  <2>2. ASSUME NEW i \in Item, DeleteDraft(i) PROVE IInv'
    BY <2>2, DraftDeleted
  <2>3. ASSUME NEW i \in Item, NEW r \in saved, AddToPlan(i, r) \/ Confirm(i, r) PROVE IInv'
    BY <2>3, FindingPlanned, ItemConfirmed
  <2>4. ASSUME NEW i \in Item, NEW status \in Statuses, Advance(i, status) PROVE IInv'
    BY <2>4, ItemAdvances
  <2>5. ASSUME NEW a \in rows, CancelRow(a) PROVE IInv'
    BY <2>5, RowCancelled
  <2>6. ASSUME NEW action, ShowArchive(action) PROVE IInv'
    BY <2>6, ViewChanges DEF ShowArchive
  <2>7. CASE ApplyArchive
    BY <2>7, ViewChanges DEF ApplyArchive
  <2> QED BY <1>4, <2>1, <2>2, <2>3, <2>4, <2>5, <2>6, <2>7 DEF Operator
<1>5. CASE Mishap
  BY <1>5, Crashing, DeletionCutShort, SnapshotBreaks DEF Mishap
<1>6. CASE UNCHANGED vars
  BY <1>6, ViewChanges DEF vars
<1> QED BY <1>1, <1>2, <1>3, <1>4, <1>5, <1>6 DEF Next

LEMMA InitHolds ==
  ASSUME Init
  PROVE  IInv
<1>1. /\ rows = {} /\ cancelled = {} /\ exports = {} /\ item = [i \in Item |-> NoItem] /\ task = [q \in Request |-> Idle]
      /\ uploads = 0 /\ now = 0
  BY DEF Init
<1>2. /\ saved \subseteq Report /\ sboms \subseteq Cve /\ used \subseteq Audit \cup Packages \cup Cve \cup Export
      /\ TransfersKeepTheirSource /\ SbomsKept
  <2>1. CASE saved = {} /\ sboms = {} /\ used = {}
    BY <2>1 DEF TransfersKeepTheirSource, SbomsKept
  <2>2. ASSUME NEW p \in Packages, NEW s \in Shared,
               saved = {Old(p)} \cup {[kind |-> "cve", id |-> v, time |-> 0, complete |-> TRUE, found |-> TRUE,
                                       src |-> Old(p), sbom |-> s] : v \in Shared},
               sboms = {s}, used = {p} \cup Shared
        PROVE  /\ saved \subseteq Report /\ sboms \subseteq Cve
               /\ used \subseteq Audit \cup Packages \cup Cve \cup Export
               /\ TransfersKeepTheirSource /\ SbomsKept
    <3>1. s \in Cve /\ 0 \in Time
      BY ReportsAssumption DEF Time
    <3>2. Old(p) \in PackageReport /\ Old(p).kind = "packages"
      BY <3>1 DEF Old, PackageReport
    <3>3. ASSUME NEW r \in saved, r # Old(p)
          PROVE  r \in CveReport /\ r.kind = "cve" /\ r.sbom = s
      <4>1. PICK v \in Shared : r = [kind |-> "cve", id |-> v, time |-> 0, complete |-> TRUE, found |-> TRUE,
                                     src |-> Old(p), sbom |-> s]
        BY <2>2, <3>3
      <4>2. v \in Cve
        BY ReportsAssumption
      <4> QED BY <3>1, <3>2, <4>1, <4>2 DEF CveReport
    <3>4. saved \subseteq Report
      BY <3>2, <3>3 DEF Report
    <3>5. TransfersKeepTheirSource /\ SbomsKept
      BY <2>2, <3>2, <3>3 DEF TransfersKeepTheirSource, SbomsKept
    <3> QED BY <2>2, <3>1, <3>4, <3>5, ReportsAssumption
  <2> QED BY <2>1, <2>2 DEF Init
<1>3. item \in [Item -> PlanItem] /\ (\A i \in Item : item[i] = NoItem)
  BY <1>1, EmptyItem
<1>4. task = [q \in Request |-> task[q]] /\ (\A q \in Request : TaskOK(task[q]) /\ task[q].op # "render")
  BY <1>1 DEF TaskOK, Idle
<1>5. TypeOK
  <2>1. \A i \in Item :
          /\ item[i].status \in Statuses \cup {"none"}
          /\ item[i].finding \in {Nil, "audit", "cve"}
          /\ item[i].evidence \in AuditReport \cup CveReport \cup {Nil}
          /\ item[i].verification \in AuditReport \cup CveReport \cup {Nil}
          /\ item[i].updated \in Time /\ item[i].done \in Time
          /\ item[i].reached \subseteq Statuses
    BY <1>3 DEF PlanItem, Evidence
  <2>2. uploads \in 0 .. MaxUploads /\ now \in Time
    BY <1>1, ReportsAssumption DEF Time
  <2> QED BY <1>1, <1>2, <1>4, <2>1, <2>2 DEF TypeOK
<1>6. Shapes
  BY <1>1, <1>3, <1>4, <1>5 DEF Shapes
<1>7. Dated /\ RendersCite /\ RowsMade /\ ConfirmedByLaterObservation
  BY <1>1, <1>3, <1>4, EmptyItem DEF Dated, RendersCite, RowsMade, ConfirmedByLaterObservation
<1>8. ReferencesKept /\ ExportsBacked
  BY <1>1, <1>3, EmptyItem DEF ReferencesKept, ExportsBacked
<1> QED BY <1>2, <1>6, <1>7, <1>8 DEF IInv, EvidenceKept

-----------------------------------------------------------------------------

(* The invariant holds in every reachable state, whatever the numbers of    *)
(* audits, scans, plan items, exports and concurrent requests, and however  *)
(* often the controller dies.                                               *)
THEOREM Invariance == Spec => []IInv
<1>1. Init => IInv
  BY InitHolds
<1>2. IInv /\ [Next]_vars => IInv'
  BY NextKeeps
<1> QED BY <1>1, <1>2, PTL DEF Spec

(* Every record holds a value of its type: no report without the fields of  *)
(* its kind, no plan item whose evidence is anything but an audit or a CVE  *)
(* report (state-store.ts:1249), no export with a foreign manifest.         *)
THEOREM TypeCorrect == Spec => []TypeOK
<1>1. IInv => TypeOK
  BY DEF IInv, Shapes
<1> QED BY <1>1, Invariance, PTL

(* What other records rest on is never lost: the guards of the deletion,    *)
(* read by name, protect the delivery's CVE report and SBOM, the analysis's *)
(* delivery, the plan's evidence, the audits of the rows that are not       *)
(* cancelled and the PDFs' sources, against any deletion while a service is *)
(* asked or a PDF rendered. What a PDF cites and its manifest lacks is an   *)
(* audit of a cancelled row, and deleted: nothing holds such an audit       *)
(* (state-store.ts:1253-1254), though the PDF prints it.                    *)
THEOREM EvidenceIsKept == Spec => []EvidenceKept
<1>1. IInv => EvidenceKept
  BY DEF IInv
<1> QED BY <1>1, Invariance, PTL

(* A confirmed measure was observed on the machine after it was completed   *)
(* (assertPlanVerification), whatever updates and returns lay in between.   *)
THEOREM ConfirmedLater == Spec => []ConfirmedByLaterObservation
<1>1. IInv => ConfirmedByLaterObservation
  BY DEF IInv
<1> QED BY <1>1, Invariance, PTL

(* A decision once taken stays in the plan with its history: an item leaves *)
(* it only while it was never anything but a draft (state-store.ts:1431).   *)
THEOREM DecisionsRemain == Spec => DecisionsStay
<1>1. ASSUME IInv, [Next]_vars
      PROVE  [\A i \in Item : ~ (item[i].reached \subseteq Draft) => item[i].reached \subseteq item'[i].reached]_vars
  <2> SUFFICES ASSUME Next, NEW i \in Item, ~ (item[i].reached \subseteq Draft)
               PROVE  item[i].reached \subseteq item'[i].reached
    BY <1>1
  <2>1. CASE item' = item
    BY <2>1
  <2>2. ASSUME NEW j \in Item, NEW y, item' = [item EXCEPT ![j] = y], j = i => item[i].reached \subseteq y.reached
        PROVE  item[i].reached \subseteq item'[i].reached
    <3>1. item \in [Item -> PlanItem]
      BY <1>1 DEF IInv, Shapes
    <3> QED BY <2>2, <3>1
  <2>3. ASSUME NEW j \in Item, NEW r \in saved, AddToPlan(j, r)
        PROVE  item[i].reached \subseteq item'[i].reached
    <3>1. j # i
      BY <2>3, EmptyItem DEF AddToPlan
    <3> QED BY <2>2, <2>3, <3>1 DEF AddToPlan
  <2>4. ASSUME NEW j \in Item, DeleteDraft(j)
        PROVE  item[i].reached \subseteq item'[i].reached
    <3>1. j # i
      BY <2>4 DEF DeleteDraft, NeverSettled
    <3> QED BY <2>2, <2>4, <3>1 DEF DeleteDraft
  <2>5. ASSUME NEW j \in Item, NEW status \in Statuses, Advance(j, status)
        PROVE  item[i].reached \subseteq item'[i].reached
    <3>1. now' \in Time /\ now <= now'
      BY <1>1, <2>5, Ticks DEF Advance
    <3>2. PICK y : y = Advanced(j, status) /\ y.reached = item[j].reached \cup {status}
      BY <1>1, <3>1, AdvancedItem
    <3>3. item' = [item EXCEPT ![j] = y]
      BY <2>5, <3>2 DEF Advance
    <3> QED BY <2>2, <3>2, <3>3
  <2>6. ASSUME NEW j \in Item, NEW r \in saved, Confirm(j, r)
        PROVE  item[i].reached \subseteq item'[i].reached
    <3>1. now' \in Time /\ now <= now' /\ "confirmed" \in Statuses
      BY <1>1, <2>6, Ticks DEF Confirm, Statuses
    <3>2. PICK y \in PlanItem : y = Advanced(j, "confirmed") /\ y.reached = item[j].reached \cup {"confirmed"}
      BY <1>1, <3>1, AdvancedItem
    <3>3. PICK z : z = [y EXCEPT !.verification = r]
      OBVIOUS
    <3>4. z.reached = y.reached
      BY <3>3 DEF PlanItem
    <3>5. item' = [item EXCEPT ![j] = z]
      BY <2>6, <3>2, <3>3 DEF Confirm
    <3> QED BY <2>2, <3>2, <3>4, <3>5
  <2>7. CASE Publish
    BY <2>1, <2>7 DEF Publish, PublishAudit, PublishPackages
  <2>8. CASE \E q \in Request : Begin(q) \/ End(q)
    BY <2>1, <2>8 DEF Begin, End, StartScan, StartUpload, StartDownload, StartRender, FinishScan, FinishUpload,
                      FinishDownload, FinishRender, GiveUp
  <2>9. CASE Operator
    BY <2>1, <2>3, <2>4, <2>5, <2>6, <2>9 DEF Operator, DeleteReport, CancelRow, ShowArchive, ApplyArchive
  <2>10. CASE Mishap
    BY <2>1, <2>10 DEF Mishap, Crash, DeleteCutShort, BreakSnapshot
  <2> QED BY <2>7, <2>8, <2>9, <2>10 DEF Next
<1> QED BY <1>1, Invariance, PTL DEF Spec, DecisionsStay

-----------------------------------------------------------------------------
(* What the pages conclude                                                  *)

(* A scan without a login never knows the machine, and before the first     *)
(* binding none has a generation.                                           *)
ScansUnverified ==
  \A r \in DOMAIN published : P!ModeOf(r) = "nmap" =>
    \E g \in 0 .. LastDay, c \in HostConnection : /\ published[r].of = P!Unverified(g, c)
                                                  /\ binding = Nil => g = 0

LEMMA PostureNumbered ==
  ASSUME P!PostureAssumption, P!TypeOK
  PROVE  /\ IsFiniteSet(DOMAIN published) /\ P!Listed \subseteq DOMAIN published /\ P!Matching \subseteq P!Listed
         /\ \A r \in DOMAIN published : r \in Int /\ P!At(r) \in Int
<1>1. DOMAIN published \subseteq P!Id BY DEF P!TypeOK
<1>2. IsFiniteSet(P!Id) BY FS_Interval DEF P!PostureAssumption, P!Id
<1>3. IsFiniteSet(DOMAIN published) BY <1>1, <1>2, FS_Subset
<1>4. \A r \in DOMAIN published : r \in Int BY <1>1 DEF P!Id
<1>5. ASSUME NEW r \in DOMAIN published PROVE P!At(r) \in Int
  <2>1. published[r] \in P!Report BY <1>5 DEF P!TypeOK
  <2>2. published[r].time \in 0 .. LastDay + 1 BY <2>1 DEF P!Report
  <2> QED BY <2>2 DEF P!At
<1> QED BY <1>3, <1>4, <1>5 DEF P!Listed, P!Matching

LEMMA PostureOrdered ==
  ASSUME P!PostureAssumption, P!TypeOK
  PROVE  \A r, s, t \in DOMAIN published :
           /\ ~ P!Before(r, r)
           /\ r # s => P!Before(r, s) \/ P!Before(s, r)
           /\ P!Before(r, s) /\ P!Before(s, t) => P!Before(r, t)
           /\ P!Before(r, s) => P!At(r) >= P!At(s)
BY PostureNumbered DEF P!Before

(* Of finitely many reports one comes before the others.                    *)
LEMMA PostureOneIsFirst ==
  ASSUME P!PostureAssumption, P!TypeOK, NEW Some \in SUBSET DOMAIN published, Some # {}
  PROVE  \E r \in Some : \A s \in Some \ {r} : P!Before(r, s)
<1> DEFINE Below(r) == {s \in Some : P!Before(s, r)}
           Rest == {Below(r) : r \in Some}
<1>1. IsFiniteSet(Some) BY PostureNumbered, FS_Subset
<1>2. Rest \subseteq FiniteSubsetsOf(Some) /\ Rest # {}
  <2>1. ASSUME NEW x \in Some PROVE Below(x) \in SUBSET Some /\ IsFiniteSet(Below(x))
    <3>1. Below(x) \in SUBSET Some OBVIOUS
    <3> QED BY <1>1, <3>1, FS_Subset
  <2> QED BY <2>1 DEF FiniteSubsetsOf
<1>3. \E x \in Rest : \A y \in Rest : ~ (<<y, x>> \in StrictSubsetOrdering(Some))
  BY <1>2, FS_StrictSubsetOrderingWellFounded, WFMin
<1>4. PICK r \in Some : \A y \in Rest : ~ (<<y, Below(r)>> \in StrictSubsetOrdering(Some)) BY <1>3
<1>5. SUFFICES ASSUME NEW s \in Some \ {r} PROVE P!Before(r, s) BY <1>4
<1>6. SUFFICES ASSUME P!Before(s, r) PROVE FALSE BY PostureOrdered
<1>7. Below(s) \subseteq Below(r) /\ s \in Below(r) /\ s \notin Below(s) BY <1>6, PostureOrdered
<1>8. Below(s) \in SUBSET Some /\ Below(r) \in SUBSET Some /\ Below(s) # Below(r) BY <1>7
<1>9. <<Below(s), Below(r)>> \in StrictSubsetOrdering(Some) BY <1>7, <1>8 DEF StrictSubsetOrdering
<1> QED BY <1>4, <1>9

LEMMA PostureFirstIs ==
  ASSUME P!PostureAssumption, P!TypeOK, NEW Some \in SUBSET DOMAIN published, Some # {}
  PROVE  P!First(Some) \in Some /\ \A s \in Some \ {P!First(Some)} : P!Before(P!First(Some), s)
BY PostureOneIsFirst DEF P!First

(* The latest report of the same evidence.                                  *)
LEMMA PostureLatestOfKey ==
  ASSUME P!PostureAssumption, P!TypeOK, NEW Some \in SUBSET DOMAIN published, NEW r \in Some
  PROVE  \E x \in P!FirstOfEach(Some) : P!Key(x) = P!Key(r) /\ (x = r \/ P!Before(x, r))
<1> DEFINE Same == {s \in Some : P!Key(s) = P!Key(r)}
<1>1. Same \in SUBSET DOMAIN published /\ r \in Same OBVIOUS
<1>2. PICK x \in Same : \A s \in Same \ {x} : P!Before(x, s) BY <1>1, PostureOneIsFirst
<1>3. x \in P!FirstOfEach(Some) BY <1>2 DEF P!FirstOfEach
<1> QED BY <1>1, <1>2, <1>3

(* The evidence of two scans of the present machine is the same.            *)
LEMMA PostureScansComparable ==
  ASSUME P!TypeOK, ScansUnverified, NEW r \in P!Matching, NEW s \in P!Matching, P!ModeOf(r) = "nmap", P!ModeOf(s) = "nmap"
  PROVE  P!Evidence(published[r].of) = P!Evidence(published[s].of)
<1>1. r \in DOMAIN published /\ s \in DOMAIN published BY DEF P!Matching, P!Listed
<1>2. PICK g \in 0 .. LastDay, c \in HostConnection : /\ published[r].of = P!Unverified(g, c)
                                                      /\ binding = Nil => g = 0
  BY <1>1 DEF ScansUnverified
<1>3. PICK h \in 0 .. LastDay, d \in HostConnection : /\ published[s].of = P!Unverified(h, d)
                                                      /\ binding = Nil => h = 0
  BY <1>1 DEF ScansUnverified
<1>4. P!IdentityMatches(r) /\ P!IdentityMatches(s) BY DEF P!Matching
<1>5. c = explicit /\ d = explicit BY <1>2, <1>3, <1>4 DEF P!IdentityMatches, P!Unverified
<1>6. binding # Nil => g = binding.generation /\ h = binding.generation
  BY <1>2, <1>3, <1>4 DEF P!IdentityMatches, P!Unverified
<1>7. published[r].of = published[s].of BY <1>2, <1>3, <1>5, <1>6 DEF P!Unverified
<1> QED BY <1>7

(* Every way in which a failure may leave the findings is accounted for.    *)
LEMMA PostureRulesAccounted ==
  ASSUME P!PostureAssumption, P!TypeOK, NEW r \in P!Applicable, NEW c \in P!Failed(r), P!ModeOf(r) = "openscap",
         r # P!First(P!OfMode("openscap"))
  PROVE  \/ P!LookedAgain(r, c)
         \/ \E l \in P!LostCoverage : l.key = P!Key(r) /\ (l.checks = {} \/ c \in l.checks \/ P!Partial(l.report))
<1> DEFINE b == P!First(P!OfMode("openscap"))
<1>1. r \in P!Matching /\ P!Fresh(r) /\ c \in Check /\ published[r].found[c] = "failed"
  BY DEF P!Applicable, P!Failed, P!ModeOf
<1>2. P!OfMode("openscap") \in SUBSET DOMAIN published /\ r \in P!OfMode("openscap") BY <1>1,
     PostureNumbered DEF P!OfMode
<1>3. b \in P!OfMode("openscap") /\ P!Before(b, r) BY <1>2, PostureFirstIs
<1>4. b \in P!Matching /\ P!ModeOf(b) = "openscap" /\ P!Current(b) BY <1>3 DEF P!OfMode, P!Current
<1>5. P!LostProfiles(b) \cup P!LostRules(b) \subseteq P!LostCoverage BY <1>3, <1>4 DEF P!LostCoverage
<1>6. CASE P!Key(b) = P!Key(r)
  <2>1. P!Evidence(published[b].of) = P!Evidence(published[r].of) BY <1>6 DEF P!Key
  <2>2. CASE c \in P!EvaluatedRules(b)
    <3>1. P!LookedAgain(r, c) BY <1>1, <1>3, <1>4, <1>6, <2>1, <2>2 DEF P!LookedAgain
    <3> QED BY <3>1
  <2>3. CASE c \notin P!EvaluatedRules(b)
    <3>1. c \in P!EvaluatedRules(r) \ P!EvaluatedRules(b) BY <1>1, <2>3 DEF P!EvaluatedRules
    <3>2. P!ScopeKnown(b)
      <4>1. SUFFICES ASSUME ~ P!ScopeKnown(b) PROVE FALSE OBVIOUS
      <4>2. published[b].scope = published[r].scope BY <1>6 DEF P!Key
      <4>3. ~ P!ScopeKnown(r) BY <4>1, <4>2 DEF P!ScopeKnown
      <4>4. b = r BY <1>6, <4>1, <4>3 DEF P!Key
      <4> QED BY <4>4
    <3>3. P!LostBy(r, b, "rules_missing", P!EvaluatedRules(r) \ P!EvaluatedRules(b)) \in P!LostRules(b)
      BY <1>1, <1>6, <3>1, <3>2 DEF P!LostRules
    <3>4. PICK l \in P!LostCoverage : l = P!LostBy(r, b, "rules_missing", P!EvaluatedRules(r) \ P!EvaluatedRules(b))
      BY <1>5, <3>3
    <3>5. l.key = P!Key(r) /\ c \in l.checks BY <3>1, <3>4 DEF P!LostBy
    <3> QED BY <3>5
  <2> QED BY <2>2, <2>3
<1>7. CASE P!Key(b) # P!Key(r)
  <2>1. P!Matching \in SUBSET DOMAIN published BY PostureNumbered
  <2>2. PICK x \in P!LatestByKind : P!Key(x) = P!Key(r) /\ (x = r \/ P!Before(x, r))
    BY <1>1, <2>1, PostureLatestOfKey DEF P!LatestByKind
  <2>3. x \in DOMAIN published /\ r \in DOMAIN published BY <1>1, <2>1, <2>2 DEF P!LatestByKind, P!FirstOfEach
  <2>4. P!At(x) >= P!At(r) BY <2>2, <2>3, PostureOrdered, PostureNumbered
  <2>5. P!Valid(x) BY <1>1, <2>3, <2>4, PostureNumbered DEF P!Fresh, P!Valid
  <2>6. P!ModeOf(x) = "openscap" /\ x # b BY <1>7, <2>2 DEF P!Key
  <2>7. PICK why : P!LostBy(x, b, why, {}) \in P!LostProfiles(b) BY <2>2, <2>5, <2>6 DEF P!LostProfiles
  <2>8. PICK l \in P!LostCoverage : l = P!LostBy(x, b, why, {}) BY <1>5, <2>7
  <2>9. l.key = P!Key(r) /\ l.checks = {} BY <2>2, <2>8 DEF P!LostBy
  <2> QED BY <2>9
<1> QED BY <1>6, <1>7

LEMMA PosturePortsAccounted ==
  ASSUME P!PostureAssumption, P!TypeOK, ScansUnverified, NEW r \in P!Applicable, NEW c \in P!Failed(r), P!ModeOf(r) = "nmap",
         r # P!First(P!OfMode("nmap"))
  PROVE  \/ P!LookedAgain(r, c)
         \/ \E x \in P!LatestByKind : /\ P!Partial(x) /\ P!Current(x) /\ P!Key(x) = P!Key(r) /\ x # r
         \/ \E l \in P!LostCoverage : l.key = P!Key(r) /\ (l.checks = {} \/ c \in l.checks \/ P!Partial(l.report))
<1> DEFINE b == P!First(P!OfMode("nmap"))
<1>1. r \in P!Matching /\ P!Fresh(r) /\ c \in Check /\ published[r].found[c] \in {"failed", "manual"}
  BY DEF P!Applicable, P!Failed
<1>2. P!OfMode("nmap") \in SUBSET DOMAIN published /\ r \in P!OfMode("nmap") BY <1>1, PostureNumbered DEF P!OfMode
<1>3. b \in P!OfMode("nmap") /\ P!Before(b, r) BY <1>2, PostureFirstIs
<1>4. b \in P!Matching /\ P!ModeOf(b) = "nmap" /\ P!Current(b) BY <1>3 DEF P!OfMode, P!Current
<1>5. P!LostPorts(b) \subseteq P!LostCoverage
  <2>1. P!LostPorts(b) \in {P!LostPorts(by) : by \in {s \in P!OfMode("nmap") : P!Current(s)}} BY <1>3, <1>4
  <2>2. P!LostPorts(b) \subseteq UNION {P!LostPorts(by) : by \in {s \in P!OfMode("nmap") : P!Current(s)}} BY <2>1
  <2> QED BY <2>2 DEF P!LostCoverage
<1>6. P!Matching \in SUBSET DOMAIN published BY PostureNumbered
<1>7. PICK x \in P!LatestByKind : P!Key(x) = P!Key(r) /\ (x = r \/ P!Before(x, r))
  BY <1>1, <1>6, PostureLatestOfKey DEF P!LatestByKind
<1>8. x \in P!Matching /\ x \in DOMAIN published /\ r \in DOMAIN published BY <1>1, <1>6, <1>7 DEF P!LatestByKind,
     P!FirstOfEach
<1>9. P!ModeOf(x) = "nmap" /\ published[x].scope = published[r].scope BY <1>7 DEF P!Key
<1>10. P!Evidence(published[x].of) = P!Evidence(published[r].of) /\ P!Evidence(published[b].of) = P!Evidence(published[r].of)
  BY <1>1, <1>4, <1>8, <1>9, PostureScansComparable
<1>11. CASE x # r /\ ~ P!Partial(x)
  <2>1. P!LookedAgain(r, c) BY <1>7, <1>8, <1>9, <1>10, <1>11 DEF P!LookedAgain
  <2> QED BY <2>1
<1>12. CASE x = b /\ P!Partial(x) BY <1>3, <1>4, <1>7, <1>12
<1>13. CASE x # b /\ ~ P!Partial(b) /\ P!NmapScopeIncludes(published[b].scope, published[x].scope)
  <2>1. published[b].scope \in {"full_tcp", published[r].scope} BY <1>9, <1>13 DEF P!NmapScopeIncludes
  <2>2. P!LookedAgain(r, c) BY <1>3, <1>4, <1>10, <1>13, <2>1 DEF P!LookedAgain
  <2> QED BY <2>2
<1>14. CASE /\ x # b /\ (x = r \/ P!Partial(x))
            /\ ~ (~ P!Partial(b) /\ P!NmapScopeIncludes(published[b].scope, published[x].scope))
  <2>1. P!At(x) >= P!At(r) BY <1>7, <1>8, PostureOrdered, PostureNumbered
  <2>2. P!Valid(x) BY <1>1, <1>8, <2>1, PostureNumbered DEF P!Fresh, P!Valid
  <2>3. PICK why : P!LostBy(x, b, why, P!Open(x)) \in P!LostPorts(b) BY <1>7, <1>9, <1>14, <2>2 DEF P!LostPorts
  <2>4. PICK l \in P!LostCoverage : l = P!LostBy(x, b, why, P!Open(x)) BY <1>5, <2>3
  <2>5. l.key = P!Key(r) /\ l.report = x /\ l.checks = P!Open(x) BY <1>7, <2>4 DEF P!LostBy
  <2>6. x = r => c \in l.checks BY <1>1, <2>5 DEF P!Open
  <2> QED BY <1>14, <2>5, <2>6
<1>15. b # r BY <1>3
<1>16. x = b => x # r BY <1>15
<1> QED BY <1>11, <1>12, <1>13, <1>14, <1>16

LEMMA PostureRowShown ==
  ASSUME NEW x \in P!LatestByKind, P!Current(x), P!Evaluable(x)
  PROVE  \E row \in P!CorrelationNow.coverage : /\ row = P!Row(x, P!LostCoverage) /\ row.audit /\ row.report = x
                                                /\ row.partial = P!PartialRow(x, P!LostCoverage)
<1>1. P!Shows(x, P!LostCoverage) BY DEF P!Shows
<1>2. P!Row(x, P!LostCoverage) \in P!CorrelationNow.coverage BY <1>1 DEF P!CorrelationNow
<1> QED BY <1>2 DEF P!Row

LEMMA PostureFindingShown ==
  ASSUME NEW r \in P!LatestByKind, P!Current(r), P!Fresh(r), P!Evaluable(r), NEW c \in P!Failed(r)
  PROVE  \E f \in P!CorrelationNow.findings : f.check = c /\ f.report = r
<1>1. c \in P!Open(r) BY DEF P!Failed, P!Open
<1> DEFINE counted == {s \in P!LatestByKind : P!Current(s) /\ P!Fresh(s) /\ P!Evaluable(s)}
           Of(s) == {[report |-> s, check |-> k, status |-> published[s].found[k], info |-> k \in published[s].info,
                      annotated |-> published[s].annotated] : k \in P!Open(s)}
           one == [report |-> r, check |-> c, status |-> published[r].found[c], info |-> c \in published[r].info,
                  annotated |-> published[r].annotated]
<1>2. PICK f \in Of(r) : f.check = c /\ f.report = r
  <2>1. one \in Of(r) /\ one.check = c /\ one.report = r BY <1>1
  <2> QED BY <2>1
<1>3. P!CorrelationNow.findings = UNION {Of(s) : s \in counted} BY DEF P!CorrelationNow
<1>4. Of(r) \in {Of(s) : s \in counted} OBVIOUS
<1>5. f \in UNION {Of(s) : s \in counted} BY <1>2, <1>4
<1> QED BY <1>2, <1>3, <1>5

LEMMA PostureFindingIs ==
  ASSUME NEW f \in P!CorrelationNow.findings
  PROVE  f.info <=> f.check \in published[f.report].info
<1>1. f \in UNION {{[report |-> r, check |-> c, status |-> published[r].found[c], info |-> c \in published[r].info,
                     annotated |-> published[r].annotated] : c \in P!Open(r)} :
                    r \in {r \in P!LatestByKind : P!Current(r) /\ P!Fresh(r) /\ P!Evaluable(r)}}
  BY DEF P!CorrelationNow
<1>2. PICK r \in P!LatestByKind :
        f \in {[report |-> r, check |-> c, status |-> published[r].found[c], info |-> c \in published[r].info,
               annotated |-> published[r].annotated] : c \in P!Open(r)}
  BY <1>1
<1>3. PICK c \in P!Open(r) :
        f = [report |-> r, check |-> c, status |-> published[r].found[c], info |-> c \in published[r].info,
             annotated |-> published[r].annotated]
  BY <1>2
<1> DEFINE one == [report |-> r, check |-> c, status |-> published[r].found[c], info |-> c \in published[r].info,
                   annotated |-> published[r].annotated]
<1>4. one.report = r /\ one.check = c /\ (one.info <=> c \in published[r].info) OBVIOUS
<1>5. f = one BY <1>3
<1> HIDE DEF one
<1> QED BY <1>4, <1>5

LEMMA PostureFirstIsLatest ==
  ASSUME P!PostureAssumption, P!TypeOK, NEW m, P!OfMode(m) # {}
  PROVE  P!First(P!OfMode(m)) \in P!LatestByKind
<1>1. P!OfMode(m) \in SUBSET DOMAIN published BY PostureNumbered DEF P!OfMode
<1>2. /\ P!First(P!OfMode(m)) \in P!OfMode(m)
      /\ \A s \in P!OfMode(m) \ {P!First(P!OfMode(m))} : P!Before(P!First(P!OfMode(m)), s)
  BY <1>1, PostureFirstIs
<1>3. \A s \in P!Matching : P!Key(s) = P!Key(P!First(P!OfMode(m))) => s \in P!OfMode(m) BY <1>2 DEF P!OfMode, P!Key
<1>4. P!First(P!OfMode(m)) \in P!Matching BY <1>2 DEF P!OfMode
<1> QED BY <1>2, <1>3, <1>4 DEF P!LatestByKind, P!FirstOfEach

(* Nothing vanishes: the property of the pages.                             *)
LEMMA PostureAccounted == ASSUME P!PostureAssumption, P!TypeOK, ScansUnverified PROVE P!FindingsAccounted
<1>1. SUFFICES ASSUME NEW r \in P!Applicable, NEW c \in P!Failed(r)
      PROVE  \/ \E f \in P!CorrelationNow.findings : f.check = c /\ f.report = r
             \/ P!LookedAgain(r, c)
             \/ \E row \in P!CorrelationNow.coverage : /\ row.partial /\ row.audit /\ P!Key(row.report) = P!Key(r)
                                                       /\ row.report # r
             \/ \E l \in P!CorrelationNow.lost : l.key = P!Key(r) /\ (l.checks = {} \/ c \in l.checks \/ P!Partial(l.report))
  BY DEF P!FindingsAccounted
<1>2. P!CorrelationNow.lost = P!LostCoverage BY DEF P!CorrelationNow
<1>3. r \in P!Matching /\ P!Fresh(r) /\ P!Evaluable(r) /\ c \in Check
  BY DEF P!Applicable, P!Failed
<1>4. P!Matching \in SUBSET DOMAIN published BY PostureNumbered
<1>5. PICK x \in P!LatestByKind : P!Key(x) = P!Key(r) /\ (x = r \/ P!Before(x, r))
  BY <1>3, <1>4, PostureLatestOfKey DEF P!LatestByKind
<1>6. ASSUME NEW y \in P!LatestByKind, P!Partial(y), P!Current(y), P!Key(y) = P!Key(r), y # r
      PROVE  \E row \in P!CorrelationNow.coverage : row.partial /\ row.audit /\ P!Key(row.report) = P!Key(r) /\ row.report # r
  <2>1. P!Evaluable(y) BY <1>3, <1>6 DEF P!Key, P!Evaluable
  <2>2. PICK row \in P!CorrelationNow.coverage : /\ row.audit /\ row.report = y
                                                 /\ row.partial = P!PartialRow(y, P!LostCoverage)
    BY <1>6, <2>1, PostureRowShown
  <2>3. row.partial BY <1>6, <2>2 DEF P!PartialRow
  <2> QED BY <1>6, <2>2, <2>3
<1>7. CASE P!ModeOf(r) \in P!Kinds /\ r = P!First(P!OfMode(P!ModeOf(r)))
  <2>1. r \in P!OfMode(P!ModeOf(r)) BY <1>3 DEF P!OfMode
  <2>2. r \in P!LatestByKind BY <1>7, <2>1, PostureFirstIsLatest
  <2>3. P!Current(r) BY <1>7 DEF P!Current
  <2> QED BY <1>3, <2>2, <2>3, PostureFindingShown
<1>8. CASE P!ModeOf(r) = "openscap" /\ r # P!First(P!OfMode(P!ModeOf(r))) BY <1>2, <1>8, PostureRulesAccounted
<1>9. CASE P!ModeOf(r) = "nmap" /\ r # P!First(P!OfMode(P!ModeOf(r))) BY <1>2, <1>6, <1>9, PosturePortsAccounted
<1>10. CASE P!ModeOf(r) \notin P!Kinds
  <2>1. P!ModeOf(x) = P!ModeOf(r) /\ P!Evidence(published[x].of) = P!Evidence(published[r].of) BY <1>5 DEF P!Key
  <2>2. P!Current(x) BY <1>10, <2>1 DEF P!Current
  <2>3. CASE x = r
    <3>1. r \in P!LatestByKind /\ P!Current(r) BY <1>5, <2>2, <2>3
    <3> QED BY <1>3, <3>1, PostureFindingShown
  <2>4. CASE x # r /\ P!Partial(x) BY <1>5, <1>6, <2>2, <2>4
  <2>5. CASE x # r /\ ~ P!Partial(x)
    <3>1. x \in P!Matching \ {r} BY <1>5, <2>5 DEF P!LatestByKind, P!FirstOfEach
    <3>2. P!ModeOf(r) # "openscap" /\ P!ModeOf(r) # "nmap" BY <1>10 DEF P!Kinds
    <3>3. P!LookedAgain(r, c) BY <1>5, <2>1, <2>5, <3>1, <3>2 DEF P!LookedAgain
    <3> QED BY <3>3
  <2> QED BY <2>3, <2>4, <2>5
<1> QED BY <1>7, <1>8, <1>9, <1>10 DEF P!Kinds

LEMMA PostureCountedTo ==
  ASSUME P!PostureAssumption, P!TypeOK
  PROVE  /\ Cardinality(DOMAIN published) \in Nat /\ Cardinality(DOMAIN published) + 1 \notin DOMAIN published
         /\ DOMAIN published \cup {Cardinality(DOMAIN published) + 1} = 1 .. Cardinality(DOMAIN published) + 1
<1>1. Cardinality(DOMAIN published) \in Nat BY PostureNumbered, FS_CardinalityType
<1>2. DOMAIN published = 1 .. Cardinality(DOMAIN published) BY DEF P!TypeOK, P!Cardinality, Cardinality
<1> QED BY <1>1, <1>2

LEMMA PostureUpto == ASSUME NEW k \in Nat \ {0} PROVE Cardinality(1 .. k) = k
<1>1. 1 \in Int /\ k \in Int /\ ~ 1 > k OBVIOUS
<1> HIDE DEF Cardinality
<1>2. Cardinality(1 .. k) = IF 1 > k THEN 0 ELSE k - 1 + 1 BY <1>1, FS_Interval
<1> QED BY <1>1, <1>2

LEMMA PostureAnnotatedReport ==
  ASSUME NEW x \in P!Report
  PROVE  /\ [x EXCEPT !.annotated = TRUE] \in P!Report
         /\ [x EXCEPT !.annotated = TRUE].mode = x.mode /\ [x EXCEPT !.annotated = TRUE].of = x.of
<1> DEFINE Some == UNION {P!Scopes[m] : m \in P!Mode}
           Rest == 0 .. LastDay + 1
           Bound == {P!Unbound, P!Unreadable} \cup {P!Verified(a) : a \in Asset}
                \cup {P!Unverified(g, c) : g \in 0 .. LastDay, c \in HostConnection}
<1>1. P!Report = [mode : P!Mode, scope : Some, time : Rest, outcome : P!Outcome, found : [Check -> P!Result],
                  info : SUBSET Check, of : Bound, annotated : BOOLEAN]
  BY DEF P!Report
<1> HIDE DEF Some, Rest, Bound
<1> QED BY <1>1

(* A report as a run may store it.                                          *)
LEMMA PosturePublishStep ==
  ASSUME P!PostureAssumption, P!TypeOK, ScansUnverified, Cardinality(DOMAIN published) < MaxReports,
         NEW way1 \in P!Mode, NEW scope \in P!Scopes[way1], NEW time \in 0 .. day + 1, NEW outcome \in P!Outcome,
         NEW found \in [Check -> P!Result], NEW info \in SUBSET Check, NEW of \in P!OfRun(way1),
         P!Publish(way1, scope, time, outcome, found, info, of)
  PROVE  P!TypeOK' /\ ScansUnverified'
<1> DEFINE n == Cardinality(DOMAIN published)
           new == [mode |-> way1, scope |-> scope, time |-> time, outcome |-> outcome,
                   found |-> found, info |-> info, of |-> of, annotated |-> FALSE]
<1>1. /\ DOMAIN published' = 1 .. n + 1 /\ n \in Nat
      /\ published'[n + 1] = new /\ n + 1 \notin DOMAIN published
      /\ \A r \in DOMAIN published : published'[r] = published[r]
      /\ \A r \in DOMAIN published' : r \in DOMAIN published \/ r = n + 1
  BY PostureCountedTo DEF P!Publish, P!Cardinality, Cardinality
<1>2. Cardinality(DOMAIN published') = n + 1
  <2>1. n + 1 \in Nat \ {0} BY <1>1
  <2>2. Cardinality(1 .. n + 1) = n + 1 BY <2>1, PostureUpto
  <2> QED BY <1>1, <2>2
<1>3. UNCHANGED <<day, hidden, binding, explicit>> BY DEF P!Publish
<1>4. /\ explicit # Nil => explicit \in HostConnection
      /\ binding # Nil => binding.asset \in Asset /\ binding.generation \in 1 .. LastDay
  BY DEF P!TypeOK
<1>5. /\ of \in {P!Verified(a) : a \in Asset} \cup {P!Unverified(g, c) : g \in 0 .. LastDay, c \in HostConnection}
      /\ way1 = "nmap" => \E g \in 0 .. LastDay, c \in HostConnection : /\ of = P!Unverified(g, c)
                                                                        /\ binding = Nil => g = 0
  <2>0. explicit = Nil => P!OfRun(way1) = {} BY DEF P!OfRun
  <2>1. explicit \in HostConnection BY <1>4, <2>0
  <2>2. CASE way1 = "nmap"
    <3>1. of = P!Unverified(IF binding = Nil THEN 0 ELSE binding.generation, explicit) BY <2>2 DEF P!OfRun
    <3>2. (IF binding = Nil THEN 0 ELSE binding.generation) \in 0 .. LastDay BY <1>4 DEF P!PostureAssumption
    <3> QED BY <2>1, <3>1, <3>2
  <2>3. CASE way1 # "nmap"
    <3>1. binding # Nil /\ of = P!Verified(binding.asset) BY <2>3 DEF P!OfRun
    <3> QED BY <1>4, <2>3, <3>1
  <2> QED BY <2>2, <2>3
<1>6. new \in P!Report
  <2>1. scope \in UNION {P!Scopes[m] : m \in P!Mode} OBVIOUS
  <2>2. time \in 0 .. LastDay + 1 BY DEF P!TypeOK, P!Time, P!PostureAssumption
  <2> QED BY <1>5, <2>1, <2>2 DEF P!Report
<1>7. P!TypeOK'
  <2>1. DOMAIN published' = 1 .. Cardinality(DOMAIN published') /\ DOMAIN published' \subseteq P!Id
    BY <1>1, <1>2 DEF P!Id, P!PostureAssumption
  <2>2. \A r \in DOMAIN published' : published'[r] \in P!Report BY <1>1, <1>6 DEF P!TypeOK
  <2>3. hidden' \subseteq DOMAIN published' BY <1>1, <1>3, PostureCountedTo DEF P!TypeOK
  <2> QED BY <1>3, <2>1, <2>2, <2>3 DEF P!TypeOK, P!Cardinality, Cardinality
<1>8. ScansUnverified'
  <2>1. SUFFICES ASSUME NEW r \in DOMAIN published', published'[r].mode = "nmap"
        PROVE  \E g \in 0 .. LastDay, c \in HostConnection : /\ published'[r].of = P!Unverified(g, c)
                                                             /\ binding = Nil => g = 0
    BY <1>3 DEF ScansUnverified, P!ModeOf, P!Unverified
  <2>2. CASE r \in DOMAIN published BY <1>1, <2>1, <2>2 DEF ScansUnverified, P!ModeOf
  <2>3. CASE r = n + 1 BY <1>1, <1>5, <2>1, <2>3
  <2> QED BY <1>1, <2>2, <2>3
<1> QED BY <1>7, <1>8

LEMMA PostureAnnotateStep ==
  ASSUME P!PostureAssumption, P!TypeOK, ScansUnverified, NEW r \in DOMAIN published, P!ApplyOpenScapExceptions(r)
  PROVE  P!TypeOK' /\ ScansUnverified'
<1>1. /\ DOMAIN published' = DOMAIN published /\ published' = [published EXCEPT ![r].annotated = TRUE]
      /\ UNCHANGED <<day, hidden, binding, explicit>>
  BY DEF P!ApplyOpenScapExceptions
<1>2. \A s \in DOMAIN published : published[s] \in P!Report BY DEF P!TypeOK
<1>3. \A s \in DOMAIN published : /\ published'[s] \in P!Report
                                  /\ published'[s].mode = published[s].mode /\ published'[s].of = published[s].of
  <2>1. TAKE s \in DOMAIN published
  <2>2. published'[s] = IF s = r THEN [published[s] EXCEPT !.annotated = TRUE] ELSE published[s] BY <1>1
  <2>3. published[s] \in P!Report BY <1>2
  <2>4. /\ [published[s] EXCEPT !.annotated = TRUE] \in P!Report
        /\ [published[s] EXCEPT !.annotated = TRUE].mode = published[s].mode
        /\ [published[s] EXCEPT !.annotated = TRUE].of = published[s].of
    BY <2>3, PostureAnnotatedReport
  <2> QED BY <2>2, <2>3, <2>4
<1>4. P!TypeOK' BY <1>1, <1>3 DEF P!TypeOK
<1>5. ScansUnverified'
  <2>1. SUFFICES ASSUME NEW s \in DOMAIN published, published'[s].mode = "nmap"
        PROVE  \E g \in 0 .. LastDay, c \in HostConnection : /\ published'[s].of = P!Unverified(g, c)
                                                             /\ binding = Nil => g = 0
    BY <1>1 DEF ScansUnverified, P!ModeOf, P!Unverified
  <2> QED BY <1>3, <2>1 DEF ScansUnverified, P!ModeOf
<1> QED BY <1>4, <1>5

LEMMA PostureNextStep ==
  ASSUME P!PostureAssumption, P!TypeOK, ScansUnverified, [P!Next]_P!vars
  PROVE  P!TypeOK' /\ ScansUnverified'
<1>1. CASE P!Reporting(P!Mode, P!Outcome, P!Result)
  <2>1. PICK m \in P!Mode :
          \E scope \in P!Scopes[m], time \in 0 .. day + 1, outcome \in P!Outcome,
             found \in [Check -> P!Result \cap P!Results[m]], of \in P!OfRun(m) :
            \E info \in P!Bands(m, found) : P!Publish(m, scope, time, outcome, found, info, of)
    BY <1>1 DEF P!Reporting
  <2>2. PICK scope \in P!Scopes[m], time \in 0 .. day + 1, outcome \in P!Outcome,
             found \in [Check -> P!Result \cap P!Results[m]], of \in P!OfRun(m) :
          \E info \in P!Bands(m, found) : P!Publish(m, scope, time, outcome, found, info, of)
    BY <2>1
  <2>3. PICK info \in P!Bands(m, found) : P!Publish(m, scope, time, outcome, found, info, of) BY <2>2
  <2>4. found \in [Check -> P!Result] OBVIOUS
  <2>5. info \in SUBSET Check BY DEF P!Bands
  <2>6. Cardinality(DOMAIN published) < MaxReports BY <1>1 DEF P!Reporting, P!Cardinality, Cardinality
  <2> QED BY <2>3, <2>4, <2>5, <2>6, PosturePublishStep
<1>2. CASE \E r \in DOMAIN published : P!ApplyOpenScapExceptions(r) BY <1>2, PostureAnnotateStep
<1>3. CASE UNCHANGED <<day, published, hidden, binding, explicit>>
  BY <1>3 DEF P!TypeOK, ScansUnverified, P!ModeOf, P!Unverified
<1>4. CASE \E r \in DOMAIN published : P!Archive(r)
  BY <1>4 DEF P!Archive, P!TypeOK, ScansUnverified, P!ModeOf, P!Unverified
<1>5. CASE \E a \in Asset : P!RecordObservation(a)
  <2>1. PICK a \in Asset : P!RecordObservation(a) BY <1>5
  <2>2. /\ UNCHANGED <<day, published, hidden, explicit>> /\ explicit \in HostConnection
        /\ binding' = [asset |-> a, generation |-> IF binding = Nil THEN 1 ELSE binding.generation + 1,
                       connection |-> explicit]
        /\ binding # Nil => binding.generation < LastDay /\ binding.generation \in 1 .. LastDay
    BY <2>1 DEF P!RecordObservation, P!TypeOK
  <2>3. (IF binding = Nil THEN 1 ELSE binding.generation + 1) \in 1 .. LastDay BY <2>2 DEF P!PostureAssumption
  <2>4. binding' \in [asset : Asset, generation : 1 .. LastDay, connection : HostConnection] BY <2>2, <2>3
  <2>5. binding' # Nil BY <2>4 DEF P!PostureAssumption
  <2>6. P!TypeOK' BY <2>2, <2>4 DEF P!TypeOK
  <2>7. ScansUnverified' BY <2>2, <2>5 DEF ScansUnverified, P!ModeOf, P!Unverified
  <2> QED BY <2>6, <2>7
<1>6. CASE \E c \in HostConnection \cup {Nil} : P!EditInventory(c)
  BY <1>6 DEF P!EditInventory, P!TypeOK, ScansUnverified, P!ModeOf, P!Unverified
<1>7. CASE P!Tick
  <2>1. day' \in P!Time BY <1>7 DEF P!Tick, P!TypeOK, P!Time, P!PostureAssumption
  <2>2. UNCHANGED <<published, hidden, binding, explicit>> BY <1>7 DEF P!Tick
  <2>3. P!TypeOK' BY <2>1, <2>2 DEF P!TypeOK
  <2>4. ScansUnverified' BY <2>2 DEF ScansUnverified, P!ModeOf, P!Unverified
  <2> QED BY <2>3, <2>4
<1>8. CASE P!Pages \/ UNCHANGED P!vars
  BY <1>3, <1>8 DEF P!Pages, P!OpenCorrelation, P!OpenHosts, P!Displace, P!vars
<1> QED BY <1>1, <1>2, <1>4, <1>5, <1>6, <1>7, <1>8 DEF P!Next, P!Elsewhere

LEMMA PostureInitStep == ASSUME P!PostureAssumption, P!Init PROVE P!TypeOK /\ ScansUnverified
<1>1. day \in P!Time BY DEF P!Init, P!Time, P!PostureAssumption
<1>2. CASE published = <<>>
  <2>1. DOMAIN published = {} BY <1>2
  <2>2. Cardinality(DOMAIN published) = 0 BY <2>1, FS_EmptySet
  <2>3. P!Cardinality(DOMAIN published) = 0 BY <2>2 DEF P!Cardinality, Cardinality
  <2> QED BY <1>1, <2>1, <2>3 DEF P!Init, P!TypeOK, ScansUnverified, P!Id
<1>3. ASSUME NEW m \in {"agentless", "facts"}, NEW of \in {P!Unbound, P!Unreadable}, published = <<P!Old(m, of)>>
      PROVE  P!TypeOK /\ ScansUnverified
  <2>1. DOMAIN published = 1 .. 1 /\ DOMAIN published = {1} /\ published[1] = P!Old(m, of) BY <1>3
  <2>2. Cardinality(DOMAIN published) = 1 BY <2>1, FS_Singleton
  <2>3. m \in P!Mode /\ "basic" \in P!Scopes[m]
    <3>1. CASE m = "agentless" BY <3>1 DEF P!Mode, P!Scopes
    <3>2. CASE m = "facts" BY <3>2 DEF P!Mode, P!Scopes
    <3> QED BY <3>1, <3>2
  <2>4. "basic" \in UNION {P!Scopes[k] : k \in P!Mode} BY <2>3
  <2>5. P!Old(m, of) \in P!Report BY <2>3, <2>4 DEF P!Old, P!Report, P!Outcome, P!Result, P!PostureAssumption
  <2>6. ScansUnverified BY <2>1 DEF ScansUnverified, P!ModeOf, P!Old
  <2>7. published[1] \in P!Report /\ DOMAIN published \subseteq P!Id BY <2>1, <2>5 DEF P!Id, P!PostureAssumption
  <2>8. P!Cardinality(DOMAIN published) = 1 BY <2>2 DEF P!Cardinality, Cardinality
  <2> QED BY <1>1, <2>1, <2>6, <2>7, <2>8 DEF P!Init, P!TypeOK, P!PostureAssumption
<1> QED BY <1>2, <1>3 DEF P!Init

LEMMA PostureCoverageFinite ==
  ASSUME P!PostureAssumption, P!TypeOK
  PROVE  IsFiniteSet(P!CorrelationNow.coverage)
<1> DEFINE X == {r \in P!LatestByKind : P!Shows(r, P!LostCoverage)}
           Rows == {P!Row(r, P!LostCoverage) : r \in X}
           Others == {P!ExcludedRow(r) : r \in P!Excluded}
<1>1. IsFiniteSet(X) /\ IsFiniteSet(P!Excluded)
  <2>1. X \in SUBSET DOMAIN published /\ P!Excluded \in SUBSET DOMAIN published
    BY PostureNumbered DEF P!LatestByKind, P!Excluded, P!FirstOfEach
  <2> QED BY <2>1, PostureNumbered, FS_Subset
<1>2. PICK f : f = [r \in X |-> P!Row(r, P!LostCoverage)] OBVIOUS
<1>3. PICK g : g = [r \in P!Excluded |-> P!ExcludedRow(r)] OBVIOUS
<1>4. f \in Surjection(X, Rows)
  <2>1. f \in [X -> Rows] BY <1>2
  <2>2. \A y \in Rows : \E x \in X : f[x] = y BY <1>2
  <2> QED BY <2>1, <2>2 DEF Surjection
<1>5. g \in Surjection(P!Excluded, Others)
  <2>1. g \in [P!Excluded -> Others] BY <1>3
  <2>2. \A y \in Others : \E x \in P!Excluded : g[x] = y BY <1>3
  <2> QED BY <2>1, <2>2 DEF Surjection
<1>6. IsFiniteSet(Rows) /\ IsFiniteSet(Others) BY <1>1, <1>4, <1>5, FS_Surjection
<1>7. P!CorrelationNow.coverage = Rows \cup Others BY DEF P!CorrelationNow
<1> QED BY <1>6, <1>7, FS_Union

LEMMA PostureNoneCounted == ASSUME NEW Some, IsFiniteSet(Some) PROVE P!Count(Some) = 0 <=> Some = {}
BY FS_EmptySet DEF P!Count, P!Cardinality, Cardinality

(* Fresh and stale rows are rows, and none is both.                         *)
LEMMA PostureCountersAgree ==
  ASSUME NEW Rows, IsFiniteSet(Rows), NEW F \in SUBSET Rows, NEW Gaps \in SUBSET Rows, NEW Some \in SUBSET Rows, F \cap Some = {},
         Gaps = {} /\ Some = {} => F = Rows
  PROVE  /\ P!Count(Rows) \in Nat /\ P!Count(F) \in Nat /\ P!Count(Gaps) \in Nat /\ P!Count(Some) \in Nat
         /\ P!Count(F) + P!Count(Some) <= P!Count(Rows) /\ P!Count(Gaps) <= P!Count(Rows)
         /\ P!Count(F) < P!Count(Rows) => P!Count(Gaps) # 0 \/ P!Count(Some) # 0
<1>1. IsFiniteSet(F) /\ IsFiniteSet(Gaps) /\ IsFiniteSet(Some) /\ Cardinality(Gaps) <= Cardinality(Rows) BY FS_Subset
<1>2. /\ Cardinality(Rows) \in Nat /\ Cardinality(F) \in Nat /\ Cardinality(Gaps) \in Nat /\ Cardinality(Some) \in Nat
  BY <1>1, FS_CardinalityType
<1>3. IsFiniteSet(F \cup Some) /\ Cardinality(F \cup Some) = Cardinality(F) + Cardinality(Some) - Cardinality(F \cap Some)
  BY <1>1, FS_Union
<1>4. Cardinality(F \cap Some) = 0 BY FS_EmptySet
<1>5. Cardinality(F \cup Some) <= Cardinality(Rows)
  <2>1. F \cup Some \in SUBSET Rows OBVIOUS
  <2> QED BY <2>1, FS_Subset
<1>6. ASSUME Cardinality(Gaps) = 0, Cardinality(Some) = 0 PROVE F = Rows BY <1>1, <1>6, FS_EmptySet
<1>7. Cardinality(F) < Cardinality(Rows) => Cardinality(Gaps) # 0 \/ Cardinality(Some) # 0 BY <1>2, <1>6
<1> QED BY <1>1, <1>2, <1>3, <1>4, <1>5, <1>7 DEF P!Count, P!Cardinality, Cardinality

LEMMA PostureSummaryCounts ==
  ASSUME P!PostureAssumption, P!TypeOK
  PROVE  LET s == P!SummaryOf(P!CorrelationNow)
             audits == {row \in P!CorrelationNow.coverage : row.audit}
         IN  /\ s.auditCount \in Nat /\ s.freshCount \in Nat /\ s.partialCount \in Nat /\ s.staleCount \in Nat
             /\ ~ P!Contradictory(s)
             /\ s.identityExcludedCount \in Nat
             /\ s.partialCount = 0 => \A row \in audits : ~ row.partial
<1> DEFINE s == P!SummaryOf(P!CorrelationNow)
           audits == {row \in P!CorrelationNow.coverage : row.audit}
           F == {row \in audits : row.fresh /\ row.available}
           Gaps == {row \in audits : row.partial \/ ~ row.available}
           Some == {row \in audits : ~ row.fresh}
           X == {row \in P!CorrelationNow.coverage : row.excluded}
<1>1. /\ s.auditCount = P!Count(audits) /\ s.freshCount = P!Count(F) /\ s.partialCount = P!Count(Gaps)
      /\ s.staleCount = P!Count(Some) /\ s.identityExcludedCount = P!Count(X)
  BY DEF P!SummaryOf
<1>2. IsFiniteSet(audits) /\ IsFiniteSet(X)
  <2>1. audits \in SUBSET P!CorrelationNow.coverage /\ X \in SUBSET P!CorrelationNow.coverage OBVIOUS
  <2> QED BY <2>1, PostureCoverageFinite, FS_Subset
<1>3. F \in SUBSET audits /\ Gaps \in SUBSET audits /\ Some \in SUBSET audits /\ F \cap Some = {} OBVIOUS
<1>4. Gaps = {} /\ Some = {} => F = audits
  <2>1. ASSUME Gaps = {}, Some = {} PROVE \A row \in audits : row \in F
    <3>1. \A row \in audits : row \notin Gaps /\ row \notin Some BY <2>1
    <3> QED BY <3>1
  <2> QED BY <1>3, <2>1
<1>5. P!Count(X) \in Nat BY <1>2, FS_CardinalityType DEF P!Count, P!Cardinality, Cardinality
<1>6. Gaps = {} => \A row \in audits : ~ row.partial OBVIOUS
<1> HIDE DEF audits, F, Gaps, Some, X
<1>7. /\ P!Count(audits) \in Nat /\ P!Count(F) \in Nat /\ P!Count(Gaps) \in Nat /\ P!Count(Some) \in Nat
      /\ P!Count(F) + P!Count(Some) <= P!Count(audits) /\ P!Count(Gaps) <= P!Count(audits)
      /\ P!Count(F) < P!Count(audits) => P!Count(Gaps) # 0 \/ P!Count(Some) # 0
  BY <1>2, <1>3, <1>4, PostureCountersAgree
<1>8. IsFiniteSet(Gaps) BY <1>2, <1>3, FS_Subset
<1>9. P!Count(Gaps) = 0 => Gaps = {} BY <1>8, PostureNoneCounted
<1>10. ~ P!Contradictory(s) BY <1>1, <1>7 DEF P!Contradictory
<1> QED BY <1>1, <1>5, <1>6, <1>7, <1>9, <1>10 DEF audits

LEMMA PostureNothingSummed == \A i, j, k \in Nat : i + j + k = 0 => i = 0
OBVIOUS

LEMMA PostureNoFindings ==
  ASSUME P!PostureAssumption, P!TypeOK
  PROVE  /\ P!SummaryOf(P!CorrelationNow).observed \in Nat
         /\ P!SummaryOf(P!CorrelationNow).observed = 0 => \A f \in P!CorrelationNow.findings : f.info
<1> DEFINE of(f) == <<P!Evidence(published[f.report].of), P!ModeOf(f.report), f.check>>
           Seen == {f \in P!CorrelationNow.findings : ~ f.info}
           Y == {of(f) : f \in Seen}
           D == (DOMAIN published) \X Check
           Z == {<<P!Evidence(published[d[1]].of), P!ModeOf(d[1]), d[2]>> : d \in D}
<1>1. P!SummaryOf(P!CorrelationNow).observed = P!Count(Y) BY DEF P!SummaryOf, P!Groups
<1>2. IsFiniteSet(D)
  <2>1. IsFiniteSet(DOMAIN published) BY PostureNumbered
  <2>2. IsFiniteSet(Check) BY DEF P!PostureAssumption, P!IsFiniteSet, IsFiniteSet
  <2> QED BY <2>1, <2>2, FS_Product
<1>3. PICK g : g = [d \in D |-> <<P!Evidence(published[d[1]].of), P!ModeOf(d[1]), d[2]>>] OBVIOUS
<1>4. g \in Surjection(D, Z)
  <2>1. g \in [D -> Z] BY <1>3
  <2>2. \A y \in Z : \E d \in D : g[d] = y BY <1>3
  <2> QED BY <2>1, <2>2 DEF Surjection
<1>5. IsFiniteSet(Z) BY <1>2, <1>4, FS_Surjection
<1>6. \A f \in P!CorrelationNow.findings : f.report \in DOMAIN published /\ f.check \in Check
  <2>1. TAKE f \in P!CorrelationNow.findings
  <2>2. f \in UNION {{[report |-> r, check |-> c, status |-> published[r].found[c], info |-> c \in published[r].info,
                      annotated |-> published[r].annotated] : c \in P!Open(r)} :
                     r \in {r \in P!LatestByKind : P!Current(r) /\ P!Fresh(r) /\ P!Evaluable(r)}}
    BY <2>1 DEF P!CorrelationNow
  <2>3. \E r \in P!LatestByKind : \E c \in P!Open(r) : f.report = r /\ f.check = c BY <2>2
  <2>4. P!LatestByKind \subseteq DOMAIN published BY PostureNumbered DEF P!LatestByKind, P!FirstOfEach
  <2> QED BY <2>3, <2>4 DEF P!Open
<1>7. Y \subseteq Z
  <2>1. ASSUME NEW f \in Seen PROVE of(f) \in Z
    <3>1. f.report \in DOMAIN published /\ f.check \in Check BY <1>6, <2>1
    <3> DEFINE d == <<f.report, f.check>>
    <3>2. d \in D /\ d[1] = f.report /\ d[2] = f.check BY <3>1
    <3>3. of(f) = <<P!Evidence(published[d[1]].of), P!ModeOf(d[1]), d[2]>> BY <3>2
    <3> HIDE DEF d
    <3> QED BY <3>2, <3>3
  <2> QED BY <2>1
<1>8. IsFiniteSet(Y) BY <1>5, <1>7, FS_Subset
<1>9. Y = {} => \A f \in P!CorrelationNow.findings : f.info OBVIOUS
<1> HIDE DEF Y
<1>10. P!Count(Y) \in Nat BY <1>8, FS_CardinalityType DEF P!Count, P!Cardinality, Cardinality
<1>11. P!Count(Y) = 0 => Y = {} BY <1>8, PostureNoneCounted
<1> QED BY <1>1, <1>9, <1>10, <1>11

(* The reading of the dashboard, when it proposes but the report.           *)
LEMMA PostureCalmStep == ASSUME P!PostureAssumption, P!TypeOK, ScansUnverified PROVE P!CalmIsEarned
<1> DEFINE s == P!SummaryOf(P!CorrelationNow)
<1>1. /\ s.auditCount \in Nat /\ s.freshCount \in Nat /\ s.partialCount \in Nat /\ s.staleCount \in Nat
      /\ ~ P!Contradictory(s) /\ s.identityExcludedCount \in Nat
  BY PostureSummaryCounts
<1>2. s.partialCount = 0 => \A row \in P!CorrelationNow.coverage : row.audit => ~ row.partial BY PostureSummaryCounts
<1>3. SUFFICES ASSUME P!NextStep(s) = "report", NEW r \in P!Applicable, NEW c \in P!Failed(r) \ published[r].info
      PROVE  \/ P!LookedAgain(r, c)
             \/ P!ModeOf(r) = "openscap" /\ P!Key(r) # P!Key(P!First(P!OfMode("openscap")))
  BY <1>1 DEF P!CalmIsEarned
<1>4. s.observed > 0 => FALSE
  <2>1. s.observed > 0 => P!NextStep(s) # "report" BY DEF P!NextStep
  <2> QED BY <1>3, <2>1
<1>5. P!EvidenceState(s) = "has_fresh_evidence"
  <2>1. P!EvidenceState(s) \notin {"no_audit", "stale", "needs_review", "contradictory"} BY <1>3 DEF P!NextStep
  <2> QED BY <2>1 DEF P!EvidenceState
<1>6. s.partialCount + s.staleCount + s.identityExcludedCount = 0
  <2>1. ~ s.partialCount + s.staleCount + s.identityExcludedCount > 0 BY <1>5 DEF P!EvidenceState
  <2> HIDE DEF s
  <2> QED BY <1>1, <2>1
<1>7. s.partialCount = 0 BY <1>1, <1>6, PostureNothingSummed
<1>8. \A row \in P!CorrelationNow.coverage : row.audit => ~ row.partial BY <1>2, <1>7
<1>9. \A f \in P!CorrelationNow.findings : f.info
  <2>1. s.observed \in Nat /\ (s.observed = 0 => \A f \in P!CorrelationNow.findings : f.info) BY PostureNoFindings
  <2> HIDE DEF s
  <2> QED BY <1>4, <2>1
<1>10. ASSUME NEW l \in P!LostCoverage, l.key = P!Key(r)
       PROVE  P!ModeOf(r) = "openscap" /\ P!Key(r) # P!Key(P!First(P!OfMode("openscap")))
  <2>1. ASSUME NEW by \in P!LatestByKind, P!Current(by), P!Evaluable(by), P!PartialRow(by, P!LostCoverage) PROVE FALSE
    BY <1>8, <2>1, PostureRowShown
  <2>2. ASSUME NEW by \in P!OfMode("openscap"), P!Current(by), l \in P!LostRules(by) PROVE FALSE
    <3>1. by = P!First(P!OfMode("openscap")) /\ P!ModeOf(by) = "openscap" BY <2>2 DEF P!Current, P!OfMode, P!Kinds
    <3>2. by \in P!LatestByKind BY <2>2, <3>1, PostureFirstIsLatest
    <3>3. l.by = by /\ l.reason = "rules_missing" BY <2>2 DEF P!LostRules, P!LostBy
    <3>4. P!PartialRow(by, P!LostCoverage) BY <3>3, <1>10 DEF P!PartialRow
    <3> QED BY <2>1, <2>2, <3>1, <3>2, <3>4 DEF P!Evaluable, P!NotAudits
  <2>3. ASSUME NEW by \in P!OfMode("nmap"), P!Current(by), l \in P!LostPorts(by) PROVE FALSE
    <3>1. by = P!First(P!OfMode("nmap")) /\ P!ModeOf(by) = "nmap" BY <2>3 DEF P!Current, P!OfMode, P!Kinds
    <3>2. by \in P!LatestByKind BY <2>3, <3>1, PostureFirstIsLatest
    <3>3. l.by = by BY <2>3 DEF P!LostPorts, P!LostBy
    <3>4. P!PartialRow(by, P!LostCoverage) BY <3>1, <3>3, <1>10 DEF P!PartialRow
    <3> QED BY <2>1, <2>3, <3>1, <3>2, <3>4 DEF P!Evaluable, P!NotAudits
  <2>4. ASSUME NEW by \in P!OfMode("openscap"), P!Current(by), l \in P!LostProfiles(by)
        PROVE  P!ModeOf(r) = "openscap" /\ P!Key(r) # P!Key(P!First(P!OfMode("openscap")))
    <3>1. by = P!First(P!OfMode("openscap")) /\ P!ModeOf(by) = "openscap" BY <2>4 DEF P!Current, P!OfMode, P!Kinds
    <3>2. by \in P!LatestByKind BY <2>4, <3>1, PostureFirstIsLatest
    <3>3. PICK x \in P!LatestByKind \ {by} : P!ModeOf(x) = "openscap" /\ l.key = P!Key(x) BY <2>4
       DEF P!LostProfiles, P!LostBy
    <3>4. P!ModeOf(r) = "openscap" BY <1>10, <3>3 DEF P!Key
    <3>5. P!Key(x) # P!Key(by)
      <4>1. SUFFICES ASSUME P!Key(x) = P!Key(by) PROVE FALSE OBVIOUS
      <4>2. P!Before(x, by) /\ P!Before(by, x) /\ x \in DOMAIN published /\ by \in DOMAIN published
        BY <3>2, <3>3, <4>1, PostureNumbered DEF P!LatestByKind, P!FirstOfEach
      <4> QED BY <4>2, PostureOrdered
    <3> QED BY <1>10, <3>1, <3>3, <3>4, <3>5
  <2>5. \/ \E by \in P!OfMode("openscap") : P!Current(by) /\ (l \in P!LostProfiles(by) \/ l \in P!LostRules(by))
        \/ \E by \in P!OfMode("nmap") : P!Current(by) /\ l \in P!LostPorts(by)
    BY <1>10 DEF P!LostCoverage
  <2> QED BY <2>2, <2>3, <2>4, <2>5
<1>11. P!CorrelationNow.lost = P!LostCoverage BY DEF P!CorrelationNow
<1>12. \/ \E f \in P!CorrelationNow.findings : f.check = c /\ f.report = r
       \/ P!LookedAgain(r, c)
       \/ \E row \in P!CorrelationNow.coverage : /\ row.partial /\ row.audit /\ P!Key(row.report) = P!Key(r)
                                                 /\ row.report # r
       \/ \E l \in P!CorrelationNow.lost : l.key = P!Key(r) /\ (l.checks = {} \/ c \in l.checks \/ P!Partial(l.report))
  BY PostureAccounted DEF P!FindingsAccounted
<1>13. ASSUME NEW f \in P!CorrelationNow.findings, f.check = c, f.report = r PROVE FALSE
  <2>1. f.info BY <1>9, <1>13
  <2>2. f.info <=> f.check \in published[f.report].info BY PostureFindingIs
  <2> QED BY <1>3, <1>13, <2>1, <2>2
<1> QED BY <1>8, <1>10, <1>11, <1>12, <1>13

(* The pages as they were in an earlier state `s` of the reports.           *)
Past(s) == INSTANCE Posture WITH
             Connection <- HostConnection, MaxAge <- ReportAge, MaxTime <- LastDay,
             now <- s.now, reports <- s.reports, archived <- s.archived, binding <- s.binding, explicit <- s.explicit,
             correlationCache <- Nil, summaryCache <- Nil

(* What becomes of stored reports: more are added, exceptions are written   *)
(* into them once.                                                          *)
Earlier(s) ==
  /\ s.now \in Int
  /\ \A r \in DOMAIN s.reports :
       /\ r \in DOMAIN published /\ s.reports[r] \in P!Report
       /\ s.reports[r] = published[r] \/ (~ s.reports[r].annotated /\ published[r].annotated)

(* The reports of some modes are listed then and now, unchanged, and count  *)
(* as valid and recent alike.                                               *)
Agree(s, M) ==
  /\ s.binding = binding /\ s.explicit = explicit
  /\ {r \in Past(s)!Listed : Past(s)!ModeOf(r) \in M} = {r \in P!Listed : P!ModeOf(r) \in M}
  /\ \A r \in P!Listed : P!ModeOf(r) \in M => /\ s.reports[r] = published[r]
                                              /\ Past(s)!At(r) = P!At(r)
                                              /\ Past(s)!Valid(r) <=> P!Valid(r)
                                              /\ Past(s)!Recent(r) <=> P!Recent(r)

LEMMA PostureSameAt ==
  ASSUME P!PostureAssumption, P!TypeOK, NEW s, Earlier(s), NEW r \in DOMAIN published, s.reports[r] = published[r],
         Past(s)!Valid(r) <=> P!Valid(r)
  PROVE  Past(s)!At(r) = P!At(r)
<1>1. published[r] \in P!Report BY DEF P!TypeOK
<1>2. published[r].time \in 0 .. LastDay + 1 BY <1>1 DEF P!Report
<1>3. day \in Int /\ s.now \in Int BY DEF P!TypeOK, P!Time, Earlier
<1>4. P!At(r) = IF published[r].time <= day THEN published[r].time ELSE 0 BY DEF P!At
<1>5. Past(s)!At(r) = IF published[r].time <= s.now THEN published[r].time ELSE 0 BY DEF Past!At
<1>6. (Past(s)!At(r) > 0) <=> (P!At(r) > 0) BY DEF Past!Valid, P!Valid
<1> QED BY <1>2, <1>3, <1>4, <1>5, <1>6

LEMMA PostureSameKey ==
  ASSUME NEW s, NEW r, s.reports[r] = published[r]
  PROVE  /\ Past(s)!ModeOf(r) = P!ModeOf(r) /\ Past(s)!Key(r) = P!Key(r)
         /\ Past(s)!Evaluable(r) <=> P!Evaluable(r)
         /\ Past(s)!ScopeKnown(r) <=> P!ScopeKnown(r)
         /\ Past(s)!Partial(r) <=> P!Partial(r)
         /\ Past(s)!Available(r) <=> P!Available(r)
         /\ Past(s)!EvaluatedRules(r) = P!EvaluatedRules(r)
         /\ Past(s)!Open(r) = P!Open(r)
BY DEF Past!ModeOf, P!ModeOf, Past!Key, P!Key, Past!Evaluable, P!Evaluable, Past!NotAudits, P!NotAudits,
  Past!ScopeKnown, P!ScopeKnown, Past!Partial, P!Partial, Past!Available, P!Available, Past!EvaluatedRules, P!EvaluatedRules,
  Past!Open, P!Open, Past!Evidence, P!Evidence, Past!Unreadable, P!Unreadable, Past!Unbound, P!Unbound

LEMMA PostureAgreeOn ==
  ASSUME NEW s, NEW M, Agree(s, M)
  PROVE  /\ s.binding = binding /\ s.explicit = explicit
         /\ \A r : (r \in Past(s)!Listed /\ Past(s)!ModeOf(r) \in M) <=> (r \in P!Listed /\ P!ModeOf(r) \in M)
         /\ \A r \in P!Listed : P!ModeOf(r) \in M => /\ s.reports[r] = published[r] /\ Past(s)!At(r) = P!At(r)
                                                     /\ Past(s)!Valid(r) <=> P!Valid(r)
                                                     /\ Past(s)!Recent(r) <=> P!Recent(r)
                                                     /\ Past(s)!Fresh(r) <=> P!Fresh(r)
<1>1. \A r : (r \in Past(s)!Listed /\ Past(s)!ModeOf(r) \in M)
               <=> r \in {t \in Past(s)!Listed : Past(s)!ModeOf(t) \in M}
  OBVIOUS
<1> QED BY <1>1 DEF Agree, Past!Fresh, P!Fresh

LEMMA PostureSameMatching ==
  ASSUME NEW s, NEW M, Agree(s, M)
  PROVE  \A r : (r \in Past(s)!Matching /\ Past(s)!ModeOf(r) \in M) <=> (r \in P!Matching /\ P!ModeOf(r) \in M)
<1>1. ASSUME NEW r \in P!Listed, P!ModeOf(r) \in M PROVE Past(s)!IdentityMatches(r) <=> P!IdentityMatches(r)
  <2>1. s.reports[r] = published[r] /\ s.binding = binding /\ s.explicit = explicit BY <1>1, PostureAgreeOn
  <2> QED BY <2>1 DEF Past!IdentityMatches, P!IdentityMatches, Past!ConnectionChanged, P!ConnectionChanged
<1> QED BY <1>1, PostureAgreeOn DEF Past!Matching, P!Matching

LEMMA PostureSameBefore ==
  ASSUME NEW s, NEW M, Agree(s, M), NEW r \in P!Listed, NEW t \in P!Listed, P!ModeOf(r) \in M, P!ModeOf(t) \in M
  PROVE  Past(s)!Before(r, t) <=> P!Before(r, t)
BY PostureAgreeOn DEF Past!Before, P!Before

LEMMA PostureSameLatest ==
  ASSUME NEW s, NEW M, Agree(s, M), NEW Some, NEW Rest, Some \subseteq Past(s)!Listed, Rest \subseteq P!Listed,
         \A r : (r \in Some /\ Past(s)!ModeOf(r) \in M) <=> (r \in Rest /\ P!ModeOf(r) \in M)
  PROVE  \A r : (r \in Past(s)!FirstOfEach(Some) /\ Past(s)!ModeOf(r) \in M) <=> (r \in P!FirstOfEach(Rest) /\ P!ModeOf(r) \in M)
<1>1. TAKE r
<1>2. \A t \in Rest : P!ModeOf(t) \in M => s.reports[t] = published[t] /\ Past(s)!Key(t) = P!Key(t) /\ Past(s)!ModeOf(t) = P!ModeOf(t)
  BY PostureAgreeOn, PostureSameKey
<1>3. \A t, u \in Rest : P!ModeOf(t) \in M /\ P!ModeOf(u) \in M => (Past(s)!Before(t, u) <=> P!Before(t, u)) BY PostureSameBefore
<1>4. \A t, u \in Rest : P!Key(t) = P!Key(u) => P!ModeOf(t) = P!ModeOf(u) BY DEF P!Key
<1>5. \A t, u \in Some : Past(s)!Key(t) = Past(s)!Key(u) => Past(s)!ModeOf(t) = Past(s)!ModeOf(u) BY DEF Past!Key
<1>6. ASSUME r \in Past(s)!FirstOfEach(Some), Past(s)!ModeOf(r) \in M PROVE r \in P!FirstOfEach(Rest) /\ P!ModeOf(r) \in M
  <2>1. r \in Rest /\ P!ModeOf(r) \in M BY <1>6 DEF Past!FirstOfEach
  <2>2. ASSUME NEW t \in Rest \ {r}, P!Key(t) = P!Key(r) PROVE P!Before(r, t)
    <3>1. P!ModeOf(t) \in M BY <1>4, <2>1, <2>2
    <3>2. t \in Some \ {r} /\ Past(s)!Key(t) = Past(s)!Key(r) BY <1>2, <2>1, <2>2, <3>1
    <3>3. Past(s)!Before(r, t) BY <1>6, <3>2 DEF Past!FirstOfEach
    <3> QED BY <1>3, <2>1, <2>2, <3>1, <3>3
  <2> QED BY <2>1, <2>2 DEF P!FirstOfEach
<1>7. ASSUME r \in P!FirstOfEach(Rest), P!ModeOf(r) \in M PROVE r \in Past(s)!FirstOfEach(Some) /\ Past(s)!ModeOf(r) \in M
  <2>1. r \in Rest /\ r \in Some /\ Past(s)!ModeOf(r) \in M BY <1>7 DEF P!FirstOfEach
  <2>2. ASSUME NEW t \in Some \ {r}, Past(s)!Key(t) = Past(s)!Key(r) PROVE Past(s)!Before(r, t)
    <3>1. Past(s)!ModeOf(t) \in M BY <1>5, <2>1, <2>2
    <3>2. t \in Rest \ {r} /\ P!ModeOf(t) \in M BY <2>2, <3>1
    <3>3. P!Key(t) = P!Key(r) BY <1>2, <1>7, <2>1, <2>2, <3>2
    <3>4. P!Before(r, t) BY <1>7, <3>2, <3>3 DEF P!FirstOfEach
    <3> QED BY <1>3, <1>7, <2>1, <3>2, <3>4
  <2> QED BY <2>1, <2>2 DEF Past!FirstOfEach
<1> QED BY <1>6, <1>7

LEMMA PostureSameLatestByKind ==
  ASSUME NEW s, NEW M, Agree(s, M)
  PROVE  \A r : (r \in Past(s)!LatestByKind /\ Past(s)!ModeOf(r) \in M) <=> (r \in P!LatestByKind /\ P!ModeOf(r) \in M)
<1>1. Past(s)!Matching \subseteq Past(s)!Listed /\ P!Matching \subseteq P!Listed BY DEF Past!Matching, P!Matching
<1> QED BY <1>1, PostureSameMatching, PostureSameLatest DEF Past!LatestByKind, P!LatestByKind

LEMMA PostureSameOfMode ==
  ASSUME NEW s, NEW M, Agree(s, M), NEW m \in M
  PROVE  Past(s)!OfMode(m) = P!OfMode(m)
<1>1. \A r : (r \in Past(s)!Matching /\ Past(s)!ModeOf(r) \in M) <=> (r \in P!Matching /\ P!ModeOf(r) \in M)
  BY PostureSameMatching
<1>2. \A r \in P!Matching : P!ModeOf(r) \in M => Past(s)!ModeOf(r) = P!ModeOf(r) BY PostureAgreeOn,
     PostureSameKey DEF P!Matching
<1>3. ASSUME NEW r \in Past(s)!OfMode(m) PROVE r \in P!OfMode(m)
  <2>1. r \in Past(s)!Matching /\ Past(s)!ModeOf(r) = m BY <1>3 DEF Past!OfMode
  <2> QED BY <1>1, <1>2, <2>1 DEF P!OfMode
<1>4. ASSUME NEW r \in P!OfMode(m) PROVE r \in Past(s)!OfMode(m)
  <2>1. r \in P!Matching /\ P!ModeOf(r) = m BY <1>4 DEF P!OfMode
  <2> QED BY <1>1, <1>2, <2>1 DEF Past!OfMode
<1> QED BY <1>3, <1>4

LEMMA PostureSameFirst ==
  ASSUME P!PostureAssumption, P!TypeOK, NEW s, NEW M, Agree(s, M), NEW m \in M, P!OfMode(m) # {}
  PROVE  Past(s)!First(P!OfMode(m)) = P!First(P!OfMode(m))
<1> DEFINE Some == P!OfMode(m)
<1>1. Some \in SUBSET DOMAIN published BY PostureNumbered DEF P!OfMode
<1>2. P!First(Some) \in Some /\ \A t \in Some \ {P!First(Some)} : P!Before(P!First(Some), t) BY <1>1, PostureFirstIs
<1>3. \A r, t \in Some : Past(s)!Before(r, t) <=> P!Before(r, t) BY PostureSameBefore DEF P!OfMode, P!Matching
<1>4. \A t \in Some \ {P!First(Some)} : Past(s)!Before(P!First(Some), t) BY <1>2, <1>3
<1>5. Past(s)!First(Some) \in Some /\ \A t \in Some \ {Past(s)!First(Some)} : Past(s)!Before(Past(s)!First(Some), t)
  BY <1>2, <1>4 DEF Past!First
<1>6. \A t \in Some \ {Past(s)!First(Some)} : P!Before(Past(s)!First(Some), t) BY <1>3, <1>5
<1> QED BY <1>1, <1>2, <1>5, <1>6, PostureOrdered

LEMMA PostureSameCurrent ==
  ASSUME P!PostureAssumption, P!TypeOK, NEW s, NEW M, Agree(s, M), P!Kinds \subseteq M,
         NEW r \in P!Matching, P!ModeOf(r) \in M
  PROVE  Past(s)!Current(r) <=> P!Current(r)
<1>1. r \in P!Listed BY DEF P!Matching
<1>2. Past(s)!ModeOf(r) = P!ModeOf(r) /\ Past(s)!Kinds = P!Kinds BY <1>1, PostureAgreeOn,
     PostureSameKey DEF Past!Kinds, P!Kinds
<1>3. CASE P!ModeOf(r) \in P!Kinds
  <2>1. r \in P!OfMode(P!ModeOf(r)) BY DEF P!OfMode
  <2>2. Past(s)!OfMode(P!ModeOf(r)) = P!OfMode(P!ModeOf(r)) BY PostureSameOfMode
  <2>3. Past(s)!First(P!OfMode(P!ModeOf(r))) = P!First(P!OfMode(P!ModeOf(r))) BY <2>1, PostureSameFirst
  <2> QED BY <1>2, <2>2, <2>3 DEF Past!Current, P!Current
<1>4. CASE P!ModeOf(r) \notin P!Kinds BY <1>2, <1>4 DEF Past!Current, P!Current
<1> QED BY <1>3, <1>4

LEMMA PostureSameLostProfiles ==
  ASSUME P!PostureAssumption, P!TypeOK, NEW s, NEW M, Agree(s, M), P!Kinds \subseteq M, NEW by \in P!OfMode("openscap")
  PROVE  Past(s)!LostProfiles(by) = P!LostProfiles(by)
<1> DEFINE X == {r \in P!LatestByKind \ {by} : P!ModeOf(r) = "openscap" /\ P!Valid(r)}
           Y == {r \in Past(s)!LatestByKind \ {by} : Past(s)!ModeOf(r) = "openscap" /\ Past(s)!Valid(r)}
           lost(r) == P!LostBy(r, by, IF P!ScopeKnown(r) /\ P!ScopeKnown(by) THEN "scope_changed" ELSE "scope_unknown", {})
           was(r) == Past(s)!LostBy(r, by, IF Past(s)!ScopeKnown(r) /\ Past(s)!ScopeKnown(by)
                                           THEN "scope_changed" ELSE "scope_unknown", {})
<1>1. "openscap" \in M BY DEF P!Kinds
<1>2. by \in P!Listed /\ P!ModeOf(by) \in M BY <1>1 DEF P!OfMode, P!Matching
<1>3. P!LatestByKind \subseteq P!Listed BY DEF P!LatestByKind, P!FirstOfEach, P!Matching
<1>4. \A r \in P!Listed : P!ModeOf(r) \in M =>
        /\ Past(s)!ModeOf(r) = P!ModeOf(r) /\ Past(s)!Key(r) = P!Key(r)
        /\ Past(s)!ScopeKnown(r) <=> P!ScopeKnown(r)
        /\ Past(s)!Valid(r) <=> P!Valid(r)
  BY PostureAgreeOn, PostureSameKey
<1>5. \A r : (r \in Past(s)!LatestByKind /\ Past(s)!ModeOf(r) \in M) <=> (r \in P!LatestByKind /\ P!ModeOf(r) \in M)
  BY PostureSameLatestByKind
<1>6. X = Y
  <2>1. ASSUME NEW r \in X PROVE r \in Y BY <1>1, <1>3, <1>4, <1>5, <2>1
  <2>2. ASSUME NEW r \in Y PROVE r \in X BY <1>1, <1>3, <1>4, <1>5, <2>2
  <2> QED BY <2>1, <2>2
<1>7. \A r \in X : was(r) = lost(r)
  <2>1. TAKE r \in X
  <2>2. r \in P!Listed /\ P!ModeOf(r) \in M BY <1>1, <1>3
  <2>3. /\ Past(s)!Key(r) = P!Key(r)
        /\ Past(s)!ScopeKnown(r) <=> P!ScopeKnown(r)
        /\ Past(s)!ScopeKnown(by) <=> P!ScopeKnown(by)
    BY <1>2, <1>4, <2>2
  <2> QED BY <2>3 DEF Past!LostBy, P!LostBy
<1>8. P!LostProfiles(by) = {lost(r) : r \in X} BY DEF P!LostProfiles
<1>9. Past(s)!LostProfiles(by) = {was(r) : r \in Y} BY DEF Past!LostProfiles
<1> HIDE DEF X, Y, lost, was
<1> QED BY <1>6, <1>7, <1>8, <1>9

LEMMA PostureSameLostRules ==
  ASSUME P!PostureAssumption, P!TypeOK, NEW s, NEW M, Agree(s, M), P!Kinds \subseteq M, NEW by \in P!OfMode("openscap")
  PROVE  Past(s)!LostRules(by) = P!LostRules(by)
<1> DEFINE X == {r \in P!Matching \ {by} : /\ P!Key(r) = P!Key(by) /\ P!Fresh(r)
                                           /\ P!EvaluatedRules(r) \ P!EvaluatedRules(by) # {}}
           Y == {r \in Past(s)!Matching \ {by} : /\ Past(s)!Key(r) = Past(s)!Key(by) /\ Past(s)!Fresh(r)
                                                 /\ Past(s)!EvaluatedRules(r) \ Past(s)!EvaluatedRules(by) # {}}
           lost(r) == P!LostBy(r, by, "rules_missing", P!EvaluatedRules(r) \ P!EvaluatedRules(by))
           was(r) == Past(s)!LostBy(r, by, "rules_missing",
                                    Past(s)!EvaluatedRules(r) \ Past(s)!EvaluatedRules(by))
<1>1. "openscap" \in M BY DEF P!Kinds
<1>2. by \in P!Listed /\ P!ModeOf(by) \in M BY <1>1 DEF P!OfMode, P!Matching
<1>3. \A r \in P!Listed : P!ModeOf(r) \in M =>
        /\ Past(s)!ModeOf(r) = P!ModeOf(r) /\ Past(s)!Key(r) = P!Key(r)
        /\ Past(s)!EvaluatedRules(r) = P!EvaluatedRules(r)
        /\ Past(s)!ScopeKnown(r) <=> P!ScopeKnown(r)
        /\ Past(s)!Fresh(r) <=> P!Fresh(r)
  BY PostureAgreeOn, PostureSameKey
<1>4. \A r : (r \in Past(s)!Matching /\ Past(s)!ModeOf(r) \in M) <=> (r \in P!Matching /\ P!ModeOf(r) \in M)
  BY PostureSameMatching
<1>5. /\ \A r : P!Key(r) = P!Key(by) => P!ModeOf(r) = P!ModeOf(by)
      /\ \A r : Past(s)!Key(r) = Past(s)!Key(by) => Past(s)!ModeOf(r) = Past(s)!ModeOf(by)
  BY DEF P!Key, Past!Key
<1>6. P!Matching \subseteq P!Listed BY DEF P!Matching
<1>7. X = Y
  <2>1. ASSUME NEW r \in X PROVE r \in Y
    <3>1. P!ModeOf(r) \in M /\ r \in P!Listed BY <1>2, <1>5, <1>6, <2>1
    <3> QED BY <1>2, <1>3, <1>4, <2>1, <3>1
  <2>2. ASSUME NEW r \in Y PROVE r \in X
    <3>1. Past(s)!ModeOf(r) \in M BY <1>2, <1>3, <1>5, <2>2
    <3>2. r \in P!Matching /\ P!ModeOf(r) \in M BY <1>4, <2>2, <3>1
    <3> QED BY <1>2, <1>3, <1>6, <2>2, <3>2
  <2> QED BY <2>1, <2>2
<1>8. \A r \in X : was(r) = lost(r)
  <2>1. TAKE r \in X
  <2>2. r \in P!Listed /\ P!ModeOf(r) \in M BY <1>2, <1>5, <1>6
  <2>3. /\ Past(s)!Key(r) = P!Key(r) /\ Past(s)!EvaluatedRules(r) = P!EvaluatedRules(r)
        /\ Past(s)!EvaluatedRules(by) = P!EvaluatedRules(by)
    BY <1>2, <1>3, <2>2
  <2> QED BY <2>3 DEF Past!LostBy, P!LostBy
<1>9. P!LostRules(by) = IF ~ P!ScopeKnown(by) THEN {} ELSE {lost(r) : r \in X} BY DEF P!LostRules
<1>10. Past(s)!LostRules(by) = IF ~ Past(s)!ScopeKnown(by) THEN {} ELSE {was(r) : r \in Y} BY DEF Past!LostRules
<1>11. Past(s)!ScopeKnown(by) <=> P!ScopeKnown(by) BY <1>2, <1>3
<1> HIDE DEF X, Y, lost, was
<1> QED BY <1>7, <1>8, <1>9, <1>10, <1>11

LEMMA PostureSameLostPorts ==
  ASSUME P!PostureAssumption, P!TypeOK, NEW s, NEW M, Agree(s, M), P!Kinds \subseteq M, NEW by \in P!OfMode("nmap")
  PROVE  Past(s)!LostPorts(by) = P!LostPorts(by)
<1> DEFINE X == {r \in P!LatestByKind \ {by} :
                   /\ P!ModeOf(r) = "nmap" /\ P!Valid(r)
                   /\ ~ (~ P!Partial(by) /\ P!NmapScopeIncludes(published[by].scope, published[r].scope))}
           Y == {r \in Past(s)!LatestByKind \ {by} :
                   /\ Past(s)!ModeOf(r) = "nmap" /\ Past(s)!Valid(r)
                   /\ ~ (~ Past(s)!Partial(by)
                         /\ Past(s)!NmapScopeIncludes(s.reports[by].scope, s.reports[r].scope))}
           why(r) == IF ~ P!ScopeKnown(r) \/ ~ P!ScopeKnown(by) THEN "scope_unknown"
                     ELSE IF P!Partial(by) THEN "ports_unverified"
                     ELSE IF published[r].scope = "top_100" /\ published[by].scope = "top_1000" THEN "port_set_unknown"
                     ELSE "ports_not_checked"
           reason(r) == IF ~ Past(s)!ScopeKnown(r) \/ ~ Past(s)!ScopeKnown(by) THEN "scope_unknown"
                        ELSE IF Past(s)!Partial(by) THEN "ports_unverified"
                        ELSE IF s.reports[r].scope = "top_100" /\ s.reports[by].scope = "top_1000"
                        THEN "port_set_unknown"
                        ELSE "ports_not_checked"
           lost(r) == P!LostBy(r, by, why(r), P!Open(r))
           was(r) == Past(s)!LostBy(r, by, reason(r), Past(s)!Open(r))
<1>1. "nmap" \in M BY DEF P!Kinds
<1>2. by \in P!Listed /\ P!ModeOf(by) \in M BY <1>1 DEF P!OfMode, P!Matching
<1>3. P!LatestByKind \subseteq P!Listed BY DEF P!LatestByKind, P!FirstOfEach, P!Matching
<1>4. \A r \in P!Listed : P!ModeOf(r) \in M =>
        /\ Past(s)!ModeOf(r) = P!ModeOf(r) /\ Past(s)!Key(r) = P!Key(r) /\ Past(s)!Open(r) = P!Open(r)
        /\ s.reports[r] = published[r]
        /\ Past(s)!ScopeKnown(r) <=> P!ScopeKnown(r)
        /\ Past(s)!Partial(r) <=> P!Partial(r)
        /\ Past(s)!Valid(r) <=> P!Valid(r)
  BY PostureAgreeOn, PostureSameKey
<1>5. \A r : (r \in Past(s)!LatestByKind /\ Past(s)!ModeOf(r) \in M) <=> (r \in P!LatestByKind /\ P!ModeOf(r) \in M)
  BY PostureSameLatestByKind
<1>6. \A new, old : Past(s)!NmapScopeIncludes(new, old) <=> P!NmapScopeIncludes(new, old)
  BY DEF Past!NmapScopeIncludes, P!NmapScopeIncludes
<1>7. \A r \in P!Listed : P!ModeOf(r) \in M =>
        (Past(s)!NmapScopeIncludes(s.reports[by].scope, s.reports[r].scope)
           <=> P!NmapScopeIncludes(published[by].scope, published[r].scope))
  BY <1>2, <1>4, <1>6
<1>8. Past(s)!Partial(by) <=> P!Partial(by) BY <1>2, <1>4
<1>9. X = Y
  <2>1. ASSUME NEW r \in X PROVE r \in Y
    <3>1. r \in P!Listed /\ P!ModeOf(r) \in M /\ r \in P!LatestByKind /\ r # by BY <1>1, <1>3, <2>1
    <3>2. r \in Past(s)!LatestByKind BY <1>5, <3>1
    <3>3. Past(s)!ModeOf(r) = "nmap" /\ Past(s)!Valid(r) BY <1>4, <2>1, <3>1
    <3> QED BY <1>7, <1>8, <2>1, <3>1, <3>2, <3>3
  <2>2. ASSUME NEW r \in Y PROVE r \in X
    <3>1. r \in P!LatestByKind /\ P!ModeOf(r) \in M /\ r # by BY <1>1, <1>5, <2>2
    <3>2. r \in P!Listed BY <1>3, <3>1
    <3>3. P!ModeOf(r) = "nmap" /\ P!Valid(r) BY <1>4, <2>2, <3>1, <3>2
    <3> QED BY <1>7, <1>8, <2>2, <3>1, <3>2, <3>3
  <2> QED BY <2>1, <2>2
<1>10. \A r \in X : was(r) = lost(r)
  <2>1. TAKE r \in X
  <2>2. r \in P!Listed /\ P!ModeOf(r) \in M BY <1>1, <1>3
  <2>3. /\ Past(s)!Key(r) = P!Key(r) /\ Past(s)!Open(r) = P!Open(r)
        /\ s.reports[r] = published[r] /\ s.reports[by] = published[by]
        /\ Past(s)!ScopeKnown(r) <=> P!ScopeKnown(r)
        /\ Past(s)!ScopeKnown(by) <=> P!ScopeKnown(by)
    BY <1>2, <1>4, <2>2
  <2>4. reason(r) = why(r) BY <1>8, <2>3
  <2> HIDE DEF reason, why
  <2> QED BY <2>3, <2>4 DEF Past!LostBy, P!LostBy
<1>11. P!LostPorts(by) = {lost(r) : r \in X} BY DEF P!LostPorts
<1>12. Past(s)!LostPorts(by) = {was(r) : r \in Y} BY DEF Past!LostPorts
<1> HIDE DEF X, Y, lost, was
<1> QED BY <1>9, <1>10, <1>11, <1>12

LEMMA PostureSameLost ==
  ASSUME P!PostureAssumption, P!TypeOK, NEW s, NEW M, Agree(s, M), P!Kinds \subseteq M
  PROVE  Past(s)!LostCoverage = P!LostCoverage
<1> DEFINE X == {r \in P!OfMode("openscap") : P!Current(r)}
           Y == {r \in P!OfMode("nmap") : P!Current(r)}
           X0 == {r \in Past(s)!OfMode("openscap") : Past(s)!Current(r)}
           Y0 == {r \in Past(s)!OfMode("nmap") : Past(s)!Current(r)}
<1>1. "openscap" \in M /\ "nmap" \in M BY DEF P!Kinds
<1>2. Past(s)!OfMode("openscap") = P!OfMode("openscap") /\ Past(s)!OfMode("nmap") = P!OfMode("nmap") BY <1>1,
     PostureSameOfMode
<1>3. \A r \in P!OfMode("openscap") \cup P!OfMode("nmap") : Past(s)!Current(r) <=> P!Current(r)
  BY <1>1, PostureSameCurrent DEF P!OfMode
<1>4. X0 = X /\ Y0 = Y BY <1>2, <1>3
<1>5. \A by \in X : Past(s)!LostProfiles(by) \cup Past(s)!LostRules(by) = P!LostProfiles(by) \cup P!LostRules(by)
  BY PostureSameLostProfiles, PostureSameLostRules
<1>6. \A by \in Y : Past(s)!LostPorts(by) = P!LostPorts(by) BY PostureSameLostPorts
<1>7. P!LostCoverage = (UNION {P!LostProfiles(by) \cup P!LostRules(by) : by \in X}) \cup (UNION {P!LostPorts(by) : by \in Y})
  BY DEF P!LostCoverage
<1>8. Past(s)!LostCoverage = (UNION {Past(s)!LostProfiles(by) \cup Past(s)!LostRules(by) : by \in X0})
                             \cup (UNION {Past(s)!LostPorts(by) : by \in Y0})
  BY DEF Past!LostCoverage
<1> HIDE DEF X, Y, X0, Y0
<1>9. {Past(s)!LostProfiles(by) \cup Past(s)!LostRules(by) : by \in X} = {P!LostProfiles(by) \cup P!LostRules(by) : by \in X}
  BY <1>5
<1>10. {Past(s)!LostPorts(by) : by \in Y} = {P!LostPorts(by) : by \in Y} BY <1>6
<1> QED BY <1>4, <1>7, <1>8, <1>9, <1>10

LEMMA PostureModesKnown ==
  ASSUME P!TypeOK, NEW s, Earlier(s)
  PROVE  /\ \A r \in P!Listed : P!ModeOf(r) \in P!Mode
         /\ \A r \in Past(s)!Listed : Past(s)!ModeOf(r) \in P!Mode
<1>1. \A x \in P!Report : x.mode \in P!Mode BY DEF P!Report
<1> QED BY <1>1 DEF P!TypeOK, Earlier, P!Listed, P!ModeOf, Past!Listed, Past!ModeOf

LEMMA PostureSameRow ==
  ASSUME P!PostureAssumption, P!TypeOK, NEW s, NEW M, Agree(s, M), P!Kinds \subseteq M,
         NEW r \in P!LatestByKind, P!ModeOf(r) \in M
  PROVE  /\ Past(s)!Shows(r, P!LostCoverage) <=> P!Shows(r, P!LostCoverage)
         /\ Past(s)!Row(r, P!LostCoverage) = P!Row(r, P!LostCoverage)
<1>1. r \in P!Matching /\ r \in P!Listed BY DEF P!LatestByKind, P!FirstOfEach, P!Matching
<1>2. /\ Past(s)!Current(r) <=> P!Current(r)
      /\ Past(s)!Fresh(r) <=> P!Fresh(r)
      /\ Past(s)!Partial(r) <=> P!Partial(r)
      /\ Past(s)!Available(r) <=> P!Available(r)
      /\ Past(s)!Evaluable(r) <=> P!Evaluable(r)
      /\ Past(s)!ModeOf(r) = P!ModeOf(r)
  BY <1>1, PostureSameCurrent, PostureAgreeOn, PostureSameKey
<1>3. Past(s)!PartialRow(r, P!LostCoverage) <=> P!PartialRow(r, P!LostCoverage) BY <1>2 DEF Past!PartialRow,
     P!PartialRow
<1>4. Past(s)!Row(r, P!LostCoverage) = P!Row(r, P!LostCoverage)
  <2> DEFINE fresh == P!Current(r) /\ P!Fresh(r)
             audit == P!Current(r) /\ P!Evaluable(r)
             partial == P!PartialRow(r, P!LostCoverage)
             fresh0 == Past(s)!Current(r) /\ Past(s)!Fresh(r)
             audit0 == Past(s)!Current(r) /\ Past(s)!Evaluable(r)
             partial0 == Past(s)!PartialRow(r, P!LostCoverage)
  <2>1. (fresh0 <=> fresh) /\ (audit0 <=> audit) /\ (partial0 <=> partial) BY <1>2, <1>3
  <2>2. fresh0 = fresh /\ audit0 = audit BY <2>1
  <2>3. partial0 = partial BY <2>1 DEF Past!PartialRow, P!PartialRow
  <2>4. Past(s)!Current(r) = P!Current(r) BY <1>2 DEF Past!Current, P!Current
  <2>5. Past(s)!Available(r) = P!Available(r) BY <1>2 DEF Past!Available, P!Available
  <2>6. P!Row(r, P!LostCoverage) = [report |-> r, fresh |-> fresh, partial |-> partial, available |-> P!Available(r),
                                audit |-> audit, current |-> P!Current(r), excluded |-> FALSE]
    BY DEF P!Row
  <2>7. Past(s)!Row(r, P!LostCoverage) =
          [report |-> r, fresh |-> fresh0, partial |-> partial0, available |-> Past(s)!Available(r),
           audit |-> audit0, current |-> Past(s)!Current(r), excluded |-> FALSE]
    BY DEF Past!Row
  <2> HIDE DEF fresh, audit, partial, fresh0, audit0, partial0
  <2> QED BY <2>2, <2>3, <2>4, <2>5, <2>6, <2>7
<1> QED BY <1>2, <1>4 DEF Past!Shows, P!Shows

(* The rows of the reports of those modes.                                  *)
RowsOf(M) == {P!Row(r, P!LostCoverage) : r \in {r \in P!LatestByKind : P!ModeOf(r) \in M /\ P!Shows(r, P!LostCoverage)}}

LEMMA PostureSameRows ==
  ASSUME P!PostureAssumption, P!TypeOK, NEW s, NEW M, Agree(s, M), P!Kinds \subseteq M
  PROVE  {Past(s)!Row(r, Past(s)!LostCoverage) : r \in {r \in Past(s)!LatestByKind :
            Past(s)!ModeOf(r) \in M /\ Past(s)!Shows(r, Past(s)!LostCoverage)}} = RowsOf(M)
<1> DEFINE X == {r \in P!LatestByKind : P!ModeOf(r) \in M /\ P!Shows(r, P!LostCoverage)}
           Y == {r \in Past(s)!LatestByKind : Past(s)!ModeOf(r) \in M /\ Past(s)!Shows(r, P!LostCoverage)}
<1>1. Past(s)!LostCoverage = P!LostCoverage BY PostureSameLost
<1>2. \A r : (r \in Past(s)!LatestByKind /\ Past(s)!ModeOf(r) \in M) <=> (r \in P!LatestByKind /\ P!ModeOf(r) \in M)
  BY PostureSameLatestByKind
<1>3. X = Y BY <1>2, PostureSameRow
<1>4. \A r \in X : Past(s)!Row(r, P!LostCoverage) = P!Row(r, P!LostCoverage) BY PostureSameRow
<1> HIDE DEF X, Y
<1>5. {Past(s)!Row(r, P!LostCoverage) : r \in Y} = {P!Row(r, P!LostCoverage) : r \in X} BY <1>3, <1>4
<1> QED BY <1>1, <1>5 DEF X, Y, RowsOf

LEMMA PostureSameFindings ==
  ASSUME P!PostureAssumption, P!TypeOK, NEW s, NEW M, Agree(s, M), P!Mode \ P!NotAudits \subseteq M, Earlier(s)
  PROVE  Past(s)!CorrelationNow.findings = P!CorrelationNow.findings
<1> DEFINE X == {r \in P!LatestByKind : P!Current(r) /\ P!Fresh(r) /\ P!Evaluable(r)}
           Y == {r \in Past(s)!LatestByKind : Past(s)!Current(r) /\ Past(s)!Fresh(r) /\ Past(s)!Evaluable(r)}
           found(r) == {[report |-> r, check |-> c, status |-> published[r].found[c], info |-> c \in published[r].info,
                         annotated |-> published[r].annotated] : c \in P!Open(r)}
           was(r) == {[report |-> r, check |-> c, status |-> s.reports[r].found[c], info |-> c \in s.reports[r].info,
                       annotated |-> s.reports[r].annotated] : c \in Past(s)!Open(r)}
<1>1. P!Kinds \subseteq M BY DEF P!Kinds, P!NotAudits, P!Mode, P!Scopes
<1>2. \A r : (r \in Past(s)!LatestByKind /\ Past(s)!ModeOf(r) \in M) <=> (r \in P!LatestByKind /\ P!ModeOf(r) \in M)
  BY PostureSameLatestByKind
<1>3. \A r \in P!LatestByKind : P!Evaluable(r) => P!ModeOf(r) \in M
  BY PostureModesKnown DEF P!LatestByKind, P!FirstOfEach, P!Matching, P!Evaluable
<1>4. \A r \in Past(s)!LatestByKind : Past(s)!Evaluable(r) => Past(s)!ModeOf(r) \in M
  BY PostureModesKnown DEF Past!LatestByKind, Past!FirstOfEach, Past!Matching, Past!Evaluable, Past!NotAudits,
       P!NotAudits
<1>5. \A r \in P!LatestByKind : P!ModeOf(r) \in M => /\ Past(s)!Current(r) <=> P!Current(r)
                                                     /\ Past(s)!Fresh(r) <=> P!Fresh(r)
                                                     /\ Past(s)!Evaluable(r) <=> P!Evaluable(r)
                                                     /\ s.reports[r] = published[r] /\ Past(s)!Open(r) = P!Open(r)
  <2>1. TAKE r \in P!LatestByKind
  <2>2. HAVE P!ModeOf(r) \in M
  <2>3. r \in P!Matching /\ r \in P!Listed BY DEF P!LatestByKind, P!FirstOfEach, P!Matching
  <2> QED BY <1>1, <2>2, <2>3, PostureSameCurrent, PostureAgreeOn, PostureSameKey
<1>6. X = Y
  <2>1. ASSUME NEW r \in X PROVE r \in Y BY <1>2, <1>3, <1>5, <2>1
  <2>2. ASSUME NEW r \in Y PROVE r \in X BY <1>2, <1>4, <1>5, <2>2
  <2> QED BY <2>1, <2>2
<1>7. \A r \in X : was(r) = found(r) BY <1>3, <1>5
<1>8. P!CorrelationNow.findings = UNION {found(r) : r \in X} BY DEF P!CorrelationNow
<1>9. Past(s)!CorrelationNow.findings = UNION {was(r) : r \in Y} BY DEF Past!CorrelationNow
<1> HIDE DEF X, Y, found, was
<1>10. {was(r) : r \in X} = {found(r) : r \in X} BY <1>7
<1> QED BY <1>6, <1>8, <1>9, <1>10

LEMMA PostureSameCorrelation ==
  ASSUME P!PostureAssumption, P!TypeOK, NEW s, Agree(s, P!Mode), Earlier(s)
  PROVE  Past(s)!CorrelationNow = P!CorrelationNow
<1>1. P!Kinds \subseteq P!Mode BY DEF P!Kinds, P!Mode, P!Scopes
<1>2. Past(s)!LostCoverage = P!LostCoverage BY <1>1, PostureSameLost
<1>3. Past(s)!CorrelationNow.findings = P!CorrelationNow.findings
  <2>1. P!Mode \ P!NotAudits \subseteq P!Mode OBVIOUS
  <2> QED BY <2>1, PostureSameFindings
<1>4. /\ \A r \in P!Listed : P!ModeOf(r) \in P!Mode
      /\ \A r \in Past(s)!Listed : Past(s)!ModeOf(r) \in P!Mode
  BY PostureModesKnown
<1>5. /\ P!LatestByKind \subseteq P!Listed /\ Past(s)!LatestByKind \subseteq Past(s)!Listed
      /\ P!Excluded \subseteq P!Listed /\ Past(s)!Excluded \subseteq Past(s)!Listed
  BY DEF P!LatestByKind, P!FirstOfEach, P!Matching, P!Excluded, Past!LatestByKind, Past!FirstOfEach, Past!Matching,
       Past!Excluded
<1>6. {Past(s)!Row(r, Past(s)!LostCoverage) : r \in {r \in Past(s)!LatestByKind : Past(s)!Shows(r, Past(s)!LostCoverage)}}
      = {P!Row(r, P!LostCoverage) : r \in {r \in P!LatestByKind : P!Shows(r, P!LostCoverage)}}
  <2>1. {r \in P!LatestByKind : P!Shows(r, P!LostCoverage)}
        = {r \in P!LatestByKind : P!ModeOf(r) \in P!Mode /\ P!Shows(r, P!LostCoverage)}
    BY <1>4, <1>5
  <2>2. {r \in Past(s)!LatestByKind : Past(s)!Shows(r, Past(s)!LostCoverage)}
        = {r \in Past(s)!LatestByKind : Past(s)!ModeOf(r) \in P!Mode /\ Past(s)!Shows(r, Past(s)!LostCoverage)}
    BY <1>4, <1>5
  <2> QED BY <1>1, <2>1, <2>2, PostureSameRows DEF RowsOf
<1>7. Past(s)!Excluded = P!Excluded
  <2>1. \A r : (r \in Past(s)!Listed \ Past(s)!Matching /\ Past(s)!ModeOf(r) \in P!Mode)
                 <=> (r \in P!Listed \ P!Matching /\ P!ModeOf(r) \in P!Mode)
    BY <1>4, PostureSameMatching, PostureAgreeOn
  <2>2. \A r : (r \in Past(s)!Excluded /\ Past(s)!ModeOf(r) \in P!Mode) <=> (r \in P!Excluded /\ P!ModeOf(r) \in P!Mode)
    BY <2>1, PostureSameLatest DEF Past!Excluded, P!Excluded
  <2> QED BY <1>4, <1>5, <2>2
<1>8. \A r \in P!Excluded : Past(s)!ExcludedRow(r) = P!ExcludedRow(r)
  <2>1. TAKE r \in P!Excluded
  <2>2. Past(s)!Available(r) <=> P!Available(r) BY <1>4, <1>5, PostureAgreeOn, PostureSameKey
  <2>3. Past(s)!Available(r) = P!Available(r) BY <2>2 DEF Past!Available, P!Available
  <2> QED BY <2>3 DEF Past!ExcludedRow, P!ExcludedRow
<1>9. {Past(s)!ExcludedRow(r) : r \in Past(s)!Excluded} = {P!ExcludedRow(r) : r \in P!Excluded} BY <1>7, <1>8
<1>10. P!CorrelationNow = [coverage |-> {P!Row(r, P!LostCoverage) : r \in {r \in P!LatestByKind : P!Shows(r, P!LostCoverage)}}
                                      \cup {P!ExcludedRow(r) : r \in P!Excluded},
                         lost |-> P!LostCoverage, findings |-> P!CorrelationNow.findings]
  BY DEF P!CorrelationNow
<1>11. Past(s)!CorrelationNow =
         [coverage |-> {Past(s)!Row(r, Past(s)!LostCoverage) :
                          r \in {r \in Past(s)!LatestByKind : Past(s)!Shows(r, Past(s)!LostCoverage)}}
                       \cup {Past(s)!ExcludedRow(r) : r \in Past(s)!Excluded},
          lost |-> Past(s)!LostCoverage, findings |-> Past(s)!CorrelationNow.findings]
  BY DEF Past!CorrelationNow
<1> QED BY <1>2, <1>3, <1>6, <1>9, <1>10, <1>11

(* What the signatures tell of the reports.                                 *)
LEMMA PostureSignatureAgrees ==
  ASSUME P!PostureAssumption, P!TypeOK, NEW s, Earlier(s), Past(s)!CorrelationSignature = P!CorrelationSignature
  PROVE  Agree(s, P!Mode)
<1> DEFINE mark(r) == <<P!File(r), P!Valid(r), P!Recent(r)>>
           was(r) == <<Past(s)!File(r), Past(s)!Valid(r), Past(s)!Recent(r)>>
<1>1. s.binding = binding /\ s.explicit = explicit /\ {was(r) : r \in Past(s)!Listed} = {mark(r) : r \in P!Listed}
  BY DEF Past!CorrelationSignature, P!CorrelationSignature
<1>2. \A r, t : was(r) = mark(t) => /\ r = t /\ s.reports[r].annotated = published[t].annotated
                                    /\ Past(s)!Valid(r) <=> P!Valid(t)
                                    /\ Past(s)!Recent(r) <=> P!Recent(t)
  BY DEF Past!File, P!File
<1> HIDE DEF mark, was
<1>3. \A r \in Past(s)!Listed : r \in P!Listed /\ was(r) = mark(r)
  <2>1. ASSUME NEW r \in Past(s)!Listed PROVE r \in P!Listed /\ was(r) = mark(r)
    <3>1. PICK t \in P!Listed : was(r) = mark(t) BY <1>1
    <3> QED BY <1>2, <3>1
  <2> QED BY <2>1
<1>4. \A r \in P!Listed : r \in Past(s)!Listed /\ was(r) = mark(r)
  <2>1. ASSUME NEW r \in P!Listed PROVE r \in Past(s)!Listed /\ was(r) = mark(r)
    <3>1. PICK t \in Past(s)!Listed : was(t) = mark(r) BY <1>1
    <3> QED BY <1>2, <3>1
  <2> QED BY <2>1
<1>5. ASSUME NEW r \in P!Listed
      PROVE  /\ s.reports[r] = published[r] /\ Past(s)!At(r) = P!At(r)
             /\ Past(s)!Valid(r) <=> P!Valid(r)
             /\ Past(s)!Recent(r) <=> P!Recent(r)
  <2>1. /\ s.reports[r].annotated = published[r].annotated
        /\ Past(s)!Valid(r) <=> P!Valid(r)
        /\ Past(s)!Recent(r) <=> P!Recent(r)
    BY <1>2, <1>4, <1>5
  <2>2. r \in DOMAIN s.reports /\ r \in DOMAIN published BY <1>4, <1>5 DEF Past!Listed, P!Listed
  <2>3. s.reports[r] = published[r] BY <2>1, <2>2 DEF Earlier
  <2>4. Past(s)!At(r) = P!At(r) BY <2>1, <2>2, <2>3, PostureSameAt
  <2> QED BY <2>1, <2>3, <2>4
<1>6. \A r \in P!Listed : Past(s)!ModeOf(r) = P!ModeOf(r) BY <1>5 DEF Past!ModeOf, P!ModeOf
<1>7. {r \in Past(s)!Listed : Past(s)!ModeOf(r) \in P!Mode} = {r \in P!Listed : P!ModeOf(r) \in P!Mode} BY <1>3,
     <1>4, <1>6
<1> QED BY <1>1, <1>5, <1>7 DEF Agree

Evaluated == P!Mode \ P!NotAudits

LEMMA PostureRisksAgree ==
  ASSUME P!PostureAssumption, P!TypeOK, NEW s, Earlier(s), Past(s)!RiskSignature = P!RiskSignature
  PROVE  Agree(s, Evaluated)
<1> DEFINE mark(r) == <<P!File(r), P!Valid(r), P!Recent(r)>>
           was(r) == <<Past(s)!File(r), Past(s)!Valid(r), Past(s)!Recent(r)>>
           X == {r \in P!Listed : P!Evaluable(r)}
           Y == {r \in Past(s)!Listed : Past(s)!Evaluable(r)}
<1>1. s.binding = binding /\ s.explicit = explicit /\ {was(r) : r \in Y} = {mark(r) : r \in X}
  BY DEF Past!RiskSignature, P!RiskSignature
<1>2. \A r, t : was(r) = mark(t) => /\ r = t /\ s.reports[r].annotated = published[t].annotated
                                    /\ Past(s)!Valid(r) <=> P!Valid(t)
                                    /\ Past(s)!Recent(r) <=> P!Recent(t)
  BY DEF Past!File, P!File
<1>3. /\ X = {r \in P!Listed : P!ModeOf(r) \in Evaluated}
      /\ Y = {r \in Past(s)!Listed : Past(s)!ModeOf(r) \in Evaluated}
  BY PostureModesKnown DEF Evaluated, P!Evaluable, Past!Evaluable, Past!NotAudits, P!NotAudits
<1> HIDE DEF mark, was, X, Y
<1>4. \A r \in Y : r \in X /\ was(r) = mark(r)
  <2>1. ASSUME NEW r \in Y PROVE r \in X /\ was(r) = mark(r)
    <3>1. PICK t \in X : was(r) = mark(t) BY <1>1
    <3> QED BY <1>2, <3>1
  <2> QED BY <2>1
<1>5. \A r \in X : r \in Y /\ was(r) = mark(r)
  <2>1. ASSUME NEW r \in X PROVE r \in Y /\ was(r) = mark(r)
    <3>1. PICK t \in Y : was(t) = mark(r) BY <1>1
    <3> QED BY <1>2, <3>1
  <2> QED BY <2>1
<1>6. ASSUME NEW r \in X
      PROVE  /\ s.reports[r] = published[r] /\ Past(s)!At(r) = P!At(r)
             /\ Past(s)!Valid(r) <=> P!Valid(r)
             /\ Past(s)!Recent(r) <=> P!Recent(r)
  <2>1. /\ s.reports[r].annotated = published[r].annotated
        /\ Past(s)!Valid(r) <=> P!Valid(r)
        /\ Past(s)!Recent(r) <=> P!Recent(r)
    BY <1>2, <1>5, <1>6
  <2>2. r \in DOMAIN s.reports /\ r \in DOMAIN published BY <1>3, <1>5, <1>6 DEF Past!Listed, P!Listed
  <2>3. s.reports[r] = published[r] BY <2>1, <2>2 DEF Earlier
  <2>4. Past(s)!At(r) = P!At(r) BY <2>1, <2>2, <2>3, PostureSameAt
  <2> QED BY <2>1, <2>3, <2>4
<1>7. Y = X BY <1>4, <1>5
<1>8. \A r \in P!Listed : P!ModeOf(r) \in Evaluated => r \in X BY <1>3
<1> QED BY <1>1, <1>3, <1>6, <1>7, <1>8 DEF Agree

PostureAuditRows == {row \in P!CorrelationNow.coverage : row.audit}
PastAuditRows(s) == {row \in Past(s)!CorrelationNow.coverage : row.audit}

LEMMA PostureAuditRowsAre ==
  ASSUME P!TypeOK, NEW s, Earlier(s)
  PROVE  /\ PostureAuditRows = {row \in RowsOf(Evaluated) : row.audit}
         /\ PastAuditRows(s) =
              {row \in {Past(s)!Row(r, Past(s)!LostCoverage) : r \in {r \in Past(s)!LatestByKind :
                 Past(s)!ModeOf(r) \in Evaluated /\ Past(s)!Shows(r, Past(s)!LostCoverage)}} : row.audit}
<1>1. \A r \in P!LatestByKind : P!Row(r, P!LostCoverage).audit => P!ModeOf(r) \in Evaluated
  BY PostureModesKnown DEF P!LatestByKind, P!FirstOfEach, P!Matching, P!Row, P!Evaluable, Evaluated
<1>2. \A r \in P!Excluded : ~ P!ExcludedRow(r).audit BY DEF P!ExcludedRow
<1>3. P!CorrelationNow.coverage = {P!Row(r, P!LostCoverage) : r \in {r \in P!LatestByKind : P!Shows(r, P!LostCoverage)}}
                                \cup {P!ExcludedRow(r) : r \in P!Excluded}
  BY DEF P!CorrelationNow
<1>4. PostureAuditRows = {row \in RowsOf(Evaluated) : row.audit}
  <2>1. ASSUME NEW row \in PostureAuditRows PROVE row \in RowsOf(Evaluated) /\ row.audit
    BY <1>1, <1>2, <1>3, <2>1 DEF PostureAuditRows, RowsOf
  <2>2. ASSUME NEW row \in RowsOf(Evaluated), row.audit PROVE row \in PostureAuditRows
    BY <1>3, <2>2 DEF PostureAuditRows, RowsOf
  <2> QED BY <2>1, <2>2
<1>5. \A r \in Past(s)!LatestByKind : Past(s)!Row(r, Past(s)!LostCoverage).audit => Past(s)!ModeOf(r) \in Evaluated
  BY PostureModesKnown DEF Past!LatestByKind, Past!FirstOfEach, Past!Matching, Past!Row, Past!Evaluable,
       Past!NotAudits,
    P!NotAudits, Evaluated
<1>6. \A r \in Past(s)!Excluded : ~ Past(s)!ExcludedRow(r).audit BY DEF Past!ExcludedRow
<1>7. Past(s)!CorrelationNow.coverage =
        {Past(s)!Row(r, Past(s)!LostCoverage) :
           r \in {r \in Past(s)!LatestByKind : Past(s)!Shows(r, Past(s)!LostCoverage)}}
        \cup {Past(s)!ExcludedRow(r) : r \in Past(s)!Excluded}
  BY DEF Past!CorrelationNow
<1> DEFINE was == {Past(s)!Row(r, Past(s)!LostCoverage) : r \in {r \in Past(s)!LatestByKind :
                     Past(s)!ModeOf(r) \in Evaluated /\ Past(s)!Shows(r, Past(s)!LostCoverage)}}
<1>8. PastAuditRows(s) = {row \in was : row.audit}
  <2>1. ASSUME NEW row \in PastAuditRows(s) PROVE row \in was /\ row.audit
    BY <1>5, <1>6, <1>7, <2>1 DEF PastAuditRows
  <2>2. ASSUME NEW row \in was, row.audit PROVE row \in PastAuditRows(s)
    BY <1>7, <2>2 DEF PastAuditRows
  <2> QED BY <2>1, <2>2
<1> QED BY <1>4, <1>8

LEMMA PostureSameAudits ==
  ASSUME P!PostureAssumption, P!TypeOK, NEW s, Agree(s, Evaluated), Earlier(s)
  PROVE  PastAuditRows(s) = PostureAuditRows
<1>1. P!Kinds \subseteq Evaluated BY DEF P!Kinds, Evaluated, P!Mode, P!Scopes, P!NotAudits
<1> QED BY <1>1, PostureAuditRowsAre, PostureSameRows

LEMMA PostureAuditRowsOf ==
  ASSUME P!TypeOK
  PROVE  /\ \A row \in PostureAuditRows : row.report \in P!Listed /\ P!ModeOf(row.report) \in Evaluated
         /\ \A f \in P!CorrelationNow.findings : f.report \in P!Listed /\ P!ModeOf(f.report) \in Evaluated
<1>1. \A r \in P!Listed : P!ModeOf(r) \in P!Mode
  <2>1. \A x \in P!Report : x.mode \in P!Mode BY DEF P!Report
  <2> QED BY <2>1 DEF P!TypeOK, P!Listed, P!ModeOf
<1>2. P!LatestByKind \subseteq P!Listed BY DEF P!LatestByKind, P!FirstOfEach, P!Matching
<1>3. ASSUME NEW row \in PostureAuditRows PROVE row.report \in P!Listed /\ P!ModeOf(row.report) \in Evaluated
  <2>1. \/ \E r \in P!LatestByKind : row = P!Row(r, P!LostCoverage)
        \/ \E r \in P!Excluded : row = P!ExcludedRow(r)
    BY <1>3 DEF PostureAuditRows, P!CorrelationNow
  <2>2. row.audit BY <1>3 DEF PostureAuditRows
  <2>3. PICK r \in P!LatestByKind : row = P!Row(r, P!LostCoverage) BY <2>1, <2>2 DEF P!ExcludedRow
  <2>4. row.report = r /\ P!Evaluable(r) BY <2>2, <2>3 DEF P!Row
  <2> QED BY <1>1, <1>2, <2>3, <2>4 DEF P!Evaluable, Evaluated
<1>4. ASSUME NEW f \in P!CorrelationNow.findings PROVE f.report \in P!Listed /\ P!ModeOf(f.report) \in Evaluated
  <2>1. f \in UNION {{[report |-> r, check |-> c, status |-> published[r].found[c], info |-> c \in published[r].info,
                      annotated |-> published[r].annotated] : c \in P!Open(r)} :
                     r \in {r \in P!LatestByKind : P!Current(r) /\ P!Fresh(r) /\ P!Evaluable(r)}}
    BY <1>4 DEF P!CorrelationNow
  <2>2. PICK r \in P!LatestByKind : P!Evaluable(r) /\ f.report = r BY <2>1
  <2> QED BY <1>1, <1>2, <2>2 DEF P!Evaluable, Evaluated
<1> QED BY <1>3, <1>4

LEMMA PostureSameSummary ==
  ASSUME P!PostureAssumption, P!TypeOK, NEW s, Agree(s, Evaluated), Earlier(s)
  PROVE  P!Compared(Past(s)!SummaryOf(Past(s)!CorrelationNow)) = P!Compared(P!SummaryOf(P!CorrelationNow))
<1>1. PastAuditRows(s) = PostureAuditRows BY PostureSameAudits
<1>2. Past(s)!CorrelationNow.findings = P!CorrelationNow.findings BY PostureSameFindings DEF Evaluated
<1> DEFINE Rows == PostureAuditRows
           X == {row \in P!CorrelationNow.coverage : row.excluded}
           Y == {row \in Past(s)!CorrelationNow.coverage : row.excluded}
           Findings == P!CorrelationNow.findings
           Seen == {f \in Findings : ~ f.info}
           D == {P!At(row.report) : row \in {row \in Rows : row.available}}
           E == {Past(s)!At(row.report) : row \in {row \in Rows : row.available}}
<1>3. \A Some : Past(s)!Count(Some) = P!Count(Some) BY DEF Past!Count, P!Count, Past!Cardinality, P!Cardinality, Cardinality
<1>4. \A Some : Past(s)!Latest(Some) = P!Latest(Some) BY DEF Past!Latest, P!Latest
<1>5. ASSUME NEW Part \in SUBSET Findings PROVE Past(s)!Groups(Part) = P!Groups(Part)
  <2>1. \A f \in Part : /\ Past(s)!ModeOf(f.report) = P!ModeOf(f.report)
                        /\ Past(s)!Evidence(s.reports[f.report].of) = P!Evidence(published[f.report].of)
    <3>1. TAKE f \in Part
    <3>2. s.reports[f.report] = published[f.report] BY PostureAuditRowsOf, PostureAgreeOn
    <3> QED BY <3>2 DEF Past!ModeOf, P!ModeOf, Past!Evidence, P!Evidence, Past!Unreadable, P!Unreadable,
         Past!Unbound, P!Unbound
  <2> QED BY <2>1 DEF Past!Groups, P!Groups
<1>6. D = E BY PostureAuditRowsOf, PostureAgreeOn
<1>7. P!SummaryOf(P!CorrelationNow) =
        [total |-> P!Count(P!Groups(Findings)), observed |-> P!Count(P!Groups(Seen)), auditCount |-> P!Count(Rows),
         freshCount |-> P!Count({row \in Rows : row.fresh /\ row.available}),
         partialCount |-> P!Count({row \in Rows : row.partial \/ ~ row.available}),
         staleCount |-> P!Count({row \in Rows : ~ row.fresh}),
         identityExcludedCount |-> P!Count(X), lastSecurityAuditAt |-> P!Latest(D)]
  BY DEF P!SummaryOf, PostureAuditRows
<1>8. Past(s)!SummaryOf(Past(s)!CorrelationNow) =
        [total |-> Past(s)!Count(Past(s)!Groups(Past(s)!CorrelationNow.findings)),
         observed |-> Past(s)!Count(Past(s)!Groups({f \in Past(s)!CorrelationNow.findings : ~ f.info})),
         auditCount |-> Past(s)!Count(PastAuditRows(s)),
         freshCount |-> Past(s)!Count({row \in PastAuditRows(s) : row.fresh /\ row.available}),
         partialCount |-> Past(s)!Count({row \in PastAuditRows(s) : row.partial \/ ~ row.available}),
         staleCount |-> Past(s)!Count({row \in PastAuditRows(s) : ~ row.fresh}),
         identityExcludedCount |-> Past(s)!Count(Y),
         lastSecurityAuditAt |-> Past(s)!Latest({Past(s)!At(row.report) : row \in {row \in PastAuditRows(s) : row.available}})]
  BY DEF Past!SummaryOf, PastAuditRows
<1> DEFINE total == P!Count(P!Groups(Findings))
           observed == P!Count(P!Groups(Seen))
           auditCount == P!Count(Rows)
           freshCount == P!Count({row \in Rows : row.fresh /\ row.available})
           partialCount == P!Count({row \in Rows : row.partial \/ ~ row.available})
           staleCount == P!Count({row \in Rows : ~ row.fresh})
           last == P!Latest(D)
<1>9. /\ Past(s)!Count(Past(s)!Groups(Past(s)!CorrelationNow.findings)) = total
      /\ Past(s)!Count(Past(s)!Groups({f \in Past(s)!CorrelationNow.findings : ~ f.info})) = observed
      /\ Past(s)!Count(PastAuditRows(s)) = auditCount
      /\ Past(s)!Count({row \in PastAuditRows(s) : row.fresh /\ row.available}) = freshCount
      /\ Past(s)!Count({row \in PastAuditRows(s) : row.partial \/ ~ row.available}) = partialCount
      /\ Past(s)!Count({row \in PastAuditRows(s) : ~ row.fresh}) = staleCount
      /\ Past(s)!Latest({Past(s)!At(row.report) : row \in {row \in PastAuditRows(s) : row.available}}) = last
  <2>1. Past(s)!Count(Past(s)!Groups(Past(s)!CorrelationNow.findings)) = total
    <3>1. Past(s)!Groups(Past(s)!CorrelationNow.findings) = P!Groups(Findings) BY <1>2, <1>5
    <3> QED BY <1>3, <3>1
  <2>2. Past(s)!Count(Past(s)!Groups({f \in Past(s)!CorrelationNow.findings : ~ f.info})) = observed
    <3>1. {f \in Past(s)!CorrelationNow.findings : ~ f.info} = Seen BY <1>2
    <3>2. Past(s)!Groups(Seen) = P!Groups(Seen) BY <1>5
    <3> QED BY <1>3, <3>1, <3>2
  <2>3. Past(s)!Latest({Past(s)!At(row.report) : row \in {row \in PastAuditRows(s) : row.available}}) = last
    <3>1. {Past(s)!At(row.report) : row \in {row \in PastAuditRows(s) : row.available}} = E BY <1>1
    <3> HIDE DEF D, E
    <3> QED BY <1>4, <1>6, <3>1
  <2> QED BY <1>1, <1>3, <2>1, <2>2, <2>3
<1>10. P!SummaryOf(P!CorrelationNow) =
         [total |-> total, observed |-> observed, auditCount |-> auditCount, freshCount |-> freshCount,
          partialCount |-> partialCount, staleCount |-> staleCount, identityExcludedCount |-> P!Count(X),
          lastSecurityAuditAt |-> last]
  BY <1>7
<1> DEFINE excluded == Past(s)!Count(Y)
<1> HIDE DEF total, observed, auditCount, freshCount, partialCount, staleCount, last, excluded
<1>11. Past(s)!SummaryOf(Past(s)!CorrelationNow) =
         [total |-> total, observed |-> observed, auditCount |-> auditCount, freshCount |-> freshCount,
          partialCount |-> partialCount, staleCount |-> staleCount, identityExcludedCount |-> excluded,
          lastSecurityAuditAt |-> last]
  BY <1>8, <1>9 DEF excluded
<1> QED BY <1>10, <1>11 DEF P!Compared

(* What is cached was true of some earlier state.                           *)
CorrelationKept ==
  correlationCache # Nil => \E s : /\ Earlier(s) /\ correlationCache.signature = Past(s)!CorrelationSignature
                                   /\ correlationCache.result = Past(s)!CorrelationNow

SummaryKept ==
  summaryCache # Nil =>
    \E s : /\ Earlier(s) /\ summaryCache.signature = Past(s)!RiskSignature
           /\ P!Compared(summaryCache.summary) = P!Compared(Past(s)!SummaryOf(Past(s)!CorrelationNow))

PostureIInv == P!TypeOK /\ ScansUnverified /\ CorrelationKept /\ SummaryKept

LEMMA PostureCorrelationCurrent ==
  ASSUME P!PostureAssumption, P!TypeOK, CorrelationKept
  PROVE  P!BuildHostCorrelation = P!CorrelationNow
<1>1. CASE correlationCache # Nil /\ correlationCache.signature = P!CorrelationSignature
  <2>1. PICK s : /\ Earlier(s) /\ correlationCache.signature = Past(s)!CorrelationSignature
                 /\ correlationCache.result = Past(s)!CorrelationNow
    BY <1>1 DEF CorrelationKept
  <2>2. Agree(s, P!Mode) BY <1>1, <2>1, PostureSignatureAgrees
  <2>3. Past(s)!CorrelationNow = P!CorrelationNow BY <2>1, <2>2, PostureSameCorrelation
  <2> QED BY <1>1, <2>1, <2>3 DEF P!BuildHostCorrelation
<1>2. CASE ~ (correlationCache # Nil /\ correlationCache.signature = P!CorrelationSignature)
  BY <1>2 DEF P!BuildHostCorrelation
<1> QED BY <1>1, <1>2

LEMMA PostureCurrentNow == ASSUME P!PostureAssumption, PostureIInv PROVE P!PagesAreCurrent
<1>1. P!BuildHostCorrelation = P!CorrelationNow BY PostureCorrelationCurrent DEF PostureIInv
<1>2. CASE P!SummaryCached
  <2>1. PICK s : /\ Earlier(s) /\ summaryCache.signature = Past(s)!RiskSignature
                 /\ P!Compared(summaryCache.summary) = P!Compared(Past(s)!SummaryOf(Past(s)!CorrelationNow))
    BY <1>2 DEF PostureIInv, SummaryKept, P!SummaryCached
  <2>2. Agree(s, Evaluated) BY <1>2, <2>1, PostureRisksAgree DEF P!SummaryCached, PostureIInv
  <2>3. P!Compared(Past(s)!SummaryOf(Past(s)!CorrelationNow)) = P!Compared(P!SummaryOf(P!CorrelationNow))
    BY <2>1, <2>2, PostureSameSummary DEF PostureIInv
  <2>4. P!BuildHostRiskSummary = summaryCache.summary BY <1>2 DEF P!BuildHostRiskSummary
  <2> QED BY <1>1, <2>1, <2>3, <2>4 DEF P!PagesAreCurrent
<1>3. CASE ~ P!SummaryCached
  <2>1. P!BuildHostRiskSummary = P!SummaryOf(P!CorrelationNow) BY <1>1, <1>3 DEF P!BuildHostRiskSummary
  <2> QED BY <1>1, <2>1 DEF P!PagesAreCurrent
<1> QED BY <1>2, <1>3

LEMMA PostureEarlierStep ==
  ASSUME P!TypeOK, [P!Next]_P!vars, NEW s, Earlier(s)
  PROVE  Earlier(s)'
<1>1. \/ UNCHANGED published
      \/ \E way1, scope, time, outcome, found, info, of : P!Publish(way1, scope, time, outcome, found, info, of)
      \/ \E r \in DOMAIN published : P!ApplyOpenScapExceptions(r)
  BY DEF P!Next, P!vars, P!Reporting, P!Elsewhere, P!Archive, P!RecordObservation, P!EditInventory, P!Tick, P!Pages,
       P!OpenCorrelation,
    P!OpenHosts, P!Displace
<1>2. CASE UNCHANGED published BY <1>2 DEF Earlier, P!Report
<1>3. ASSUME NEW way1, NEW scope, NEW time, NEW outcome, NEW found, NEW info, NEW of,
             P!Publish(way1, scope, time, outcome, found, info, of)
      PROVE  Earlier(s)'
  <2>1. \A r \in DOMAIN published : r \in DOMAIN published' /\ published'[r] = published[r] BY <1>3 DEF P!Publish
  <2> QED BY <2>1 DEF Earlier, P!Report
<1>4. ASSUME NEW r \in DOMAIN published, P!ApplyOpenScapExceptions(r) PROVE Earlier(s)'
  <2>1. DOMAIN published' = DOMAIN published /\ \A t \in DOMAIN published \ {r} : published'[t] = published[t]
    BY <1>4 DEF P!ApplyOpenScapExceptions
  <2>2. published'[r] = [published[r] EXCEPT !.annotated = TRUE] /\ ~ published[r].annotated
    BY <1>4 DEF P!ApplyOpenScapExceptions
  <2>3. published[r] \in P!Report BY <1>4 DEF P!TypeOK
  <2>4. published'[r].annotated
    <3>1. [published[r] EXCEPT !.annotated = TRUE].annotated = TRUE BY <2>3 DEF P!Report
    <3> QED BY <2>2, <3>1
  <2> QED BY <2>1, <2>2, <2>4 DEF Earlier, P!Report
<1> QED BY <1>1, <1>2, <1>3, <1>4

LEMMA PostureKept ==
  ASSUME P!TypeOK, CorrelationKept, SummaryKept, [P!Next]_P!vars, UNCHANGED <<correlationCache, summaryCache>>
  PROVE  CorrelationKept' /\ SummaryKept'
BY PostureEarlierStep DEF CorrelationKept, SummaryKept

(* A cache that is filled now.                                              *)
LEMMA PostureFilled ==
  ASSUME P!PostureAssumption, P!TypeOK
  PROVE  \E s : /\ Earlier(s)
                /\ Past(s)!CorrelationSignature = P!CorrelationSignature /\ Past(s)!CorrelationNow = P!CorrelationNow
                /\ Past(s)!RiskSignature = P!RiskSignature
                /\ P!Compared(Past(s)!SummaryOf(Past(s)!CorrelationNow)) = P!Compared(P!SummaryOf(P!CorrelationNow))
<1>1. PICK s : s = [now |-> day, reports |-> published, archived |-> hidden, binding |-> binding, explicit |-> explicit]
  OBVIOUS
<1>2. s.now = day /\ s.reports = published /\ s.archived = hidden /\ s.binding = binding /\ s.explicit = explicit
  BY <1>1
<1>3. Earlier(s) BY <1>2 DEF Earlier, P!TypeOK, P!Time
<1>4. Past(s)!Listed = P!Listed BY <1>2 DEF Past!Listed, P!Listed
<1>5. \A r : /\ Past(s)!File(r) = P!File(r) /\ Past(s)!Valid(r) = P!Valid(r) /\ Past(s)!Recent(r) = P!Recent(r)
             /\ Past(s)!Evaluable(r) = P!Evaluable(r)
  BY <1>2 DEF Past!File, P!File, Past!Valid, P!Valid, Past!At, P!At, Past!Recent, P!Recent, Past!Evaluable,
       P!Evaluable,
    Past!ModeOf, P!ModeOf, Past!NotAudits, P!NotAudits
<1>6. Past(s)!CorrelationSignature = P!CorrelationSignature
  BY <1>2, <1>4, <1>5 DEF Past!CorrelationSignature, P!CorrelationSignature
<1>7. Past(s)!RiskSignature = P!RiskSignature
  <2>1. {r \in Past(s)!Listed : Past(s)!Evaluable(r)} = {r \in P!Listed : P!Evaluable(r)} BY <1>4, <1>5
  <2> QED BY <1>2, <1>5, <2>1 DEF Past!RiskSignature, P!RiskSignature
<1>8. Past(s)!CorrelationNow = P!CorrelationNow BY <1>3, <1>6, PostureSignatureAgrees, PostureSameCorrelation
<1>9. P!Compared(Past(s)!SummaryOf(Past(s)!CorrelationNow)) = P!Compared(P!SummaryOf(P!CorrelationNow))
  BY <1>3, <1>7, PostureRisksAgree, PostureSameSummary
<1> QED BY <1>3, <1>6, <1>7, <1>8, <1>9

LEMMA PosturePagesStep ==
  ASSUME P!PostureAssumption, PostureIInv, [P!Next]_P!vars, P!Pages
  PROVE  CorrelationKept' /\ SummaryKept'
<1>1. P!BuildHostCorrelation = P!CorrelationNow BY PostureCorrelationCurrent DEF PostureIInv
<1>2. PICK s : /\ Earlier(s)
               /\ Past(s)!CorrelationSignature = P!CorrelationSignature /\ Past(s)!CorrelationNow = P!CorrelationNow
               /\ Past(s)!RiskSignature = P!RiskSignature
               /\ P!Compared(Past(s)!SummaryOf(Past(s)!CorrelationNow)) = P!Compared(P!SummaryOf(P!CorrelationNow))
  BY PostureFilled DEF PostureIInv
<1>3. Earlier(s)' BY <1>2, PostureEarlierStep DEF PostureIInv
<1>4. correlationCache' = [signature |-> P!CorrelationSignature, result |-> P!CorrelationNow] => CorrelationKept'
  BY <1>2, <1>3 DEF CorrelationKept
<1>5. UNCHANGED summaryCache => SummaryKept' BY PostureEarlierStep DEF SummaryKept, PostureIInv
<1>6. CASE P!OpenCorrelation BY <1>1, <1>4, <1>5, <1>6 DEF P!OpenCorrelation
<1>7. CASE P!OpenHosts
  <2>1. correlationCache' = [signature |-> P!CorrelationSignature, result |-> P!CorrelationNow] BY <1>1,
       <1>7 DEF P!OpenHosts
  <2>2. /\ summaryCache'.signature = P!RiskSignature /\ summaryCache'.summary = P!SummaryOf(P!CorrelationNow)
    BY <1>1, <1>7 DEF P!OpenHosts
  <2>3. SummaryKept' BY <1>2, <1>3, <2>2 DEF SummaryKept
  <2> QED BY <1>4, <2>1, <2>3
<1>8. CASE P!Displace BY <1>5, <1>8 DEF P!Displace, CorrelationKept
<1> QED BY <1>6, <1>7, <1>8 DEF P!Pages

LEMMA PostureInitIInv == ASSUME P!PostureAssumption, P!Init PROVE PostureIInv
<1>1. P!TypeOK /\ ScansUnverified BY PostureInitStep
<1>2. CorrelationKept /\ SummaryKept BY DEF P!Init, CorrelationKept, SummaryKept
<1> QED BY <1>1, <1>2 DEF PostureIInv

LEMMA PostureStepIInv == ASSUME P!PostureAssumption, PostureIInv, [P!Next]_P!vars PROVE PostureIInv'
<1>1. P!TypeOK' /\ ScansUnverified' BY PostureNextStep DEF PostureIInv
<1>2. CASE P!Pages BY <1>1, <1>2, PosturePagesStep DEF PostureIInv
<1>3. CASE ~ P!Pages
  <2>1. UNCHANGED <<correlationCache, summaryCache>>
    BY <1>3 DEF P!Next, P!vars, P!Reporting, P!Publish, P!Elsewhere, P!ApplyOpenScapExceptions, P!Archive,
         P!RecordObservation,
      P!EditInventory, P!Tick
  <2> QED BY <1>1, <2>1, PostureKept DEF PostureIInv
<1> QED BY <1>2, <1>3
=============================================================================
