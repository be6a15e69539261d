---------------------------- MODULE DebianTracker ----------------------------
(* Snapshots of the Debian Security Tracker: download and publication under *)
(* their digest, approval of one of them by administrators in two sessions, *)
(* and the provisional comparison in CVE reports. The publication runs      *)
(* without an await, so that only a crash may come between its steps.       *)
EXTENDS Naturals

CONSTANTS
  Digest,     \* the contents the site may serve
  Session,    \* browser sessions of administrators
  MaxAge,     \* oldest capture that may be used
  MaxTime,    \* bound of the clock
  Nil

VARIABLES
  now,
  data,       \* <digest>.json: absent, linked (it still has its temporary
              \* name as a second link) or stored
  manifest,   \* <digest>.manifest.json likewise, with what it says
  tampered,   \* digests whose data file was changed on disk
  latest,     \* the digest imported last
  selected,   \* the digest that reports use; at first that of the environment
  import,     \* the one download
  form,       \* what each session shows
  scan,       \* a CVE scan of a Debian inventory
  preview,    \* the comparison in the report written last
  captured    \* history: when the bytes of a digest were first recorded

vars == <<now, data, manifest, tampered, latest, selected, import, form, scan, preview, captured>>
store == <<data, manifest, tampered, captured>>

Time == 0 .. MaxTime
Idle == [step |-> "idle"]
Claims == [at : Time, pinned : BOOLEAN]
Manifest == [links : 1 .. 2, says : Claims]

(* The module that instantiates this one assumes it.                        *)
TrackerAssumption ==
  {MaxAge, MaxTime} \subseteq Nat /\ Nil \notin Digest /\ Nil \notin Time /\ Nil \notin Manifest

TypeOK ==
  /\ now \in Time
  /\ data \in [Digest -> {"absent", "linked", "stored"}]
  /\ manifest \in [Digest -> Manifest \cup {Nil}]
  /\ tampered \subseteq Digest
  /\ latest \in Digest \cup {Nil} /\ selected \in Digest \cup {Nil}
  /\ \/ import = Idle
     \/ import \in [step : {"fetching"}, says : Claims]
     \/ import \in [step : {"data", "unlinkData", "manifest", "unlinkManifest", "reading"},
                    digest : Digest, says : Claims, own : BOOLEAN]
  /\ form \in [Session -> [current : Digest \cup {Nil}, candidate : Digest \cup {Nil}] \cup {Nil}]
  /\ scan \in Time \cup {Nil}
  /\ preview = Nil \/ preview \in [digest : Digest, at : Time, intact : BOOLEAN]
  /\ captured \in [Digest -> Time \cup {Nil}]

Quiet == import = Idle \/ import.step = "fetching"

-----------------------------------------------------------------------------
(* Reading a snapshot                                                       *)

(* A file with a second link is refused.                                    *)
ManifestReadable(d) == manifest[d] # Nil /\ manifest[d].links = 1
Readable(d) == ManifestReadable(d) /\ data[d] = "stored" /\ d \notin tampered

Young(d, at) == manifest[d].says.at <= at /\ at <= manifest[d].says.at + MaxAge

-----------------------------------------------------------------------------
(* Import                                                                   *)

(* The capture is dated before the download.                                *)
BeginImport(pinned) ==
  /\ import = Idle
  /\ import' = [step |-> "fetching", says |-> [at |-> now, pinned |-> pinned]]
  /\ UNCHANGED <<now, store, latest, selected, form, scan, preview>>

(* Refused by the transport, the parser or the operator's own digest.       *)
FetchFails ==
  /\ import # Idle /\ import.step = "fetching"
  /\ import' = Idle
  /\ UNCHANGED <<now, store, latest, selected, form, scan, preview>>

Fetched(d) ==
  /\ import # Idle /\ import.step = "fetching"
  /\ import' = [step |-> "data", digest |-> d, says |-> import.says, own |-> FALSE]
  /\ UNCHANGED <<now, store, latest, selected, form, scan, preview>>

Go(step, own) == import' = [import EXCEPT !.step = step, !.own = own]

(* The link never replaces a file that is there.                            *)
LinkData ==
  /\ import # Idle /\ import.step = "data"
  /\ LET d == import.digest IN
       /\ Go("unlinkData", data[d] = "absent")
       /\ data' = IF data[d] = "absent" THEN [data EXCEPT ![d] = "linked"] ELSE data
  /\ UNCHANGED <<now, manifest, tampered, captured, latest, selected, form, scan, preview>>

UnlinkData ==
  /\ import # Idle /\ import.step = "unlinkData"
  /\ data' = IF import.own THEN [data EXCEPT ![import.digest] = "stored"] ELSE data
  /\ Go("manifest", FALSE)
  /\ UNCHANGED <<now, manifest, tampered, captured, latest, selected, form, scan, preview>>

(* Mutant: the manifest of a new download replaces the old one.             *)
PublishedAnew(d) == [links |-> IF manifest[d] = Nil THEN 2 ELSE 1, says |-> import.says]

Published(d) == IF manifest[d] = Nil THEN [links |-> 2, says |-> import.says] ELSE manifest[d]

LinkManifest ==
  /\ import # Idle /\ import.step = "manifest"
  /\ LET d == import.digest IN
       /\ Go("unlinkManifest", manifest[d] = Nil)
       /\ manifest' = [manifest EXCEPT ![d] = Published(d)]
       /\ captured' = IF captured[d] = Nil THEN [captured EXCEPT ![d] = import.says.at] ELSE captured
  /\ UNCHANGED <<now, data, tampered, latest, selected, form, scan, preview>>

UnlinkManifest ==
  /\ import # Idle /\ import.step = "unlinkManifest"
  /\ manifest' = IF import.own THEN [manifest EXCEPT ![import.digest].links = 1] ELSE manifest
  /\ Go("reading", FALSE)
  /\ UNCHANGED <<now, data, tampered, captured, latest, selected, form, scan, preview>>

(* Known bytes may be seen again; they keep their date, and never become    *)
(* independently pinned.                                                    *)
FinishImport ==
  /\ import # Idle /\ import.step = "reading"
  /\ LET d == import.digest IN
       latest' = IF Readable(d) /\ manifest[d].says.pinned = import.says.pinned THEN d ELSE latest
  /\ import' = Idle
  /\ UNCHANGED <<now, store, selected, form, scan, preview>>

-----------------------------------------------------------------------------
(* Approval                                                                 *)

ShowStatus(s) ==
  /\ Quiet
  /\ form' = [form EXCEPT ![s] = [current |-> selected, candidate |-> latest]]
  /\ UNCHANGED <<now, store, latest, selected, import, scan, preview>>

(* Mutant: the selection is written whatever it has become.                 *)
AnySelection(s) == TRUE

SelectionAsShown(s) == selected = form[s].current

(* Only the snapshot imported last, read in full, and not too old.          *)
Approve(s) ==
  /\ Quiet /\ form[s] # Nil /\ form[s].candidate \notin {Nil, form[s].current}
  /\ form[s].candidate = latest
  /\ Readable(latest) /\ Young(latest, now)
  /\ SelectionAsShown(s)
  /\ selected' = latest
  /\ form' = [form EXCEPT ![s] = [current |-> latest, candidate |-> latest]]
  /\ UNCHANGED <<now, store, latest, import, scan, preview>>

Disable(s) ==
  /\ Quiet /\ form[s] # Nil /\ form[s].current # Nil
  /\ SelectionAsShown(s)
  /\ selected' = Nil
  /\ form' = [form EXCEPT ![s] = [current |-> Nil, candidate |-> latest]]
  /\ UNCHANGED <<now, store, latest, import, scan, preview>>

-----------------------------------------------------------------------------
(* Comparison in a report                                                   *)

StartScan ==
  /\ Quiet /\ scan = Nil
  /\ scan' = now
  /\ UNCHANGED <<now, store, latest, selected, import, form, preview>>

(* The age is that at the start of the scan, the selection that at its end. *)
FinishScan ==
  /\ Quiet /\ scan # Nil
  /\ preview' = IF selected # Nil /\ Readable(selected) /\ Young(selected, scan)
                THEN [digest |-> selected, at |-> scan, intact |-> selected \notin tampered]
                ELSE Nil
  /\ scan' = Nil
  /\ UNCHANGED <<now, store, latest, selected, import, form>>

-----------------------------------------------------------------------------
(* Everything else                                                          *)

Tick ==
  /\ now < MaxTime /\ now' = now + 1
  /\ UNCHANGED <<store, latest, selected, import, form, scan, preview>>

Tamper(d) ==
  /\ data[d] # "absent"
  /\ tampered' = tampered \cup {d}
  /\ UNCHANGED <<now, data, manifest, captured, latest, selected, import, form, scan, preview>>

Crash ==
  /\ import' = Idle /\ scan' = Nil
  /\ UNCHANGED <<now, store, latest, selected, form, preview>>

-----------------------------------------------------------------------------
(* Specification                                                            *)

Init ==
  /\ now = 0
  /\ data = [d \in Digest |-> "absent"] /\ manifest = [d \in Digest |-> Nil]
  /\ tampered = {} /\ captured = [d \in Digest |-> Nil]
  /\ latest = Nil /\ selected \in Digest \cup {Nil}
  /\ import = Idle /\ form = [s \in Session |-> Nil]
  /\ scan = Nil /\ preview = Nil

Next ==
  \/ \E pinned \in BOOLEAN : BeginImport(pinned)
  \/ \E d \in Digest : Fetched(d) \/ Tamper(d)
  \/ FetchFails \/ LinkData \/ UnlinkData \/ LinkManifest \/ UnlinkManifest \/ FinishImport
  \/ \E s \in Session : ShowStatus(s) \/ Approve(s) \/ Disable(s)
  \/ StartScan \/ FinishScan \/ Tick \/ Crash

Spec == Init /\ [][Next]_vars

-----------------------------------------------------------------------------
(* Properties                                                               *)

(* A comparison is shown only for intact bytes that were first captured at  *)
(* most MaxAge before the scan: downloading the same bytes again does not   *)
(* make them young (debian-tracker-snapshot.ts:324-335).                    *)
PreviewsStayYoung ==
  preview # Nil => preview.intact /\ preview.at <= captured[preview.digest] + MaxAge

(* The source of the reports changes only in a session that saw what it was *)
(* before, and only to nothing or to the last import that session showed    *)
(* (state-store.ts:633, debian-tracker-management.ts:98).                   *)
SelectedAsSeen ==
  selected' # selected =>
    \E s \in Session : /\ form[s] # Nil /\ form[s].current = selected
                       /\ selected' \in {Nil, form[s].candidate}

(* "An interrupted write may be retried with identical input and capture    *)
(* metadata" (docs/debian-tracker-full-snapshot.md:40): an import of bytes  *)
(* that nobody changed on disk is able to read back what it published.      *)
InterruptedImportsRetry ==
  import # Idle /\ import.step = "reading" /\ import.digest \notin tampered => Readable(import.digest)
=============================================================================
