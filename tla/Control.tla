------------------------------- MODULE Control -------------------------------
(* The controller's components that the asset locks do not cover, side by   *)
(* side: reports and the evidence they are built on, access to the hosts,   *)
(* the CVE database, the Debian snapshots, what the pages conclude from the *)
(* reports, the console that starts and follows audits, runs, the host      *)
(* wizard and the inventory, remediation, verdicts, scripts, policies and   *)
(* changes. A behaviour moves one of them, `part`; every step is that of    *)
(* its module.                                                              *)
EXTENDS Reports

CONSTANTS
  Host, Server, Location, AccessKey, ServerKey, AccessRequest, Stale,                     \* HostAccess
  CveRequest, Publication, Record, KeyRecord, ForeignRecord, Vulnerable, Registries,      \* CveScan
  Digest, Session, SnapshotAge, LastHour,                                                 \* DebianTracker
  Check, Asset, HostConnection, ReportAge, LastDay, MaxReports,                           \* Posture
  MaxJobs, MaxListed, MaxAnswers,                                                         \* AuditConsole
  Alias, Address, Machine, Supports, Launch, All, MaxGeneration,                          \* FrozenRun
  WizardAlias, WizardAddress, Root, WizardPage,                                           \* Onboarding
  MaxTxn, SagaRequest, RecoveryPage, Transient,                                           \* RemediationSaga
  InventoryAlias, InventoryGroup, InventoryAddress, None, Variable, Handwritten, MaxLength,       \* Inventory
  System, Package, MaxPackages,                                                           \* Applicability
  OwnScript, Builtin, MaxText, MaxCalls, MaxOpens,                                        \* Playbooks
  ChangeAttempt, Own, Way, Standard, Thing, MaxEvents,                                    \* ChangeRequest
  FleetAlias, FleetGroup, Config, FleetRule, FleetMembership, LastMinute, MaxEdits        \* FleetAudits

VARIABLES
  part,  \* the component that moves
  files, private, credential, closeLock, authorized, pairs, inventory, record, attested,
  known, trustLock, accessTask,
  file, source, pending, lock, work, refresh, cveTask, report, mode, oldest,
  hour, data, manifest, tampered, latest, selected, import, form, scan, comparison, captured,
  day, published, hidden, binding, explicit, correlationCache, summaryCache,
  jobs, equal, session, path, shown, previous, registered, revision, poll, launch, seen, announced,
  listed, onDemand, trusted, answers, bindings, leases, run,
  hostRows, ownKey, hostForm, wizard,
  sagaRow, sagaRequest, remote, target, recoveryForm, store,
  text,
  subject, reply, assessment,
  drafts, scriptPage, scriptCalls, texts,
  environment, members, policies, exceptions, minute, settled, scap, scapReports, chosen, asked, preparation,
  way, changeRow, firewall, denied, bar, change, events

accessVars == <<files, private, credential, closeLock, authorized, pairs, inventory, record, attested,
                known, trustLock, accessTask>>
cveVars == <<file, source, pending, lock, work, refresh, cveTask, report, mode, oldest>>
trackerVars == <<hour, data, manifest, tampered, latest, selected, import, form, scan, comparison, captured>>
postureVars == <<day, published, hidden, binding, explicit, correlationCache, summaryCache>>
consoleVars == <<jobs, equal, session, path, shown, previous, registered, revision, poll, launch, seen, announced>>
runVars == <<listed, onDemand, trusted, answers, bindings, leases, run>>
onboardingVars == <<hostRows, ownKey, hostForm, wizard>>
sagaVars == <<sagaRow, sagaRequest, remote, target, recoveryForm, store>>
verdictVars == <<subject, reply, assessment>>
scriptVars == <<drafts, scriptPage, scriptCalls, texts>>
scapVars == <<environment, members, policies, exceptions, minute, settled, scap, scapReports, chosen, asked, preparation>>
changeVars == <<way, changeRow, firewall, denied, bar, change, events>>

(* Everything but the component.                                            *)
butReports == <<accessVars, cveVars, trackerVars, postureVars, consoleVars, runVars, onboardingVars, sagaVars, text,
                verdictVars, scriptVars, scapVars, changeVars>>
butAccess == <<vars, cveVars, trackerVars, postureVars, consoleVars, runVars, onboardingVars, sagaVars, text,
               verdictVars, scriptVars, scapVars, changeVars>>
butCve == <<vars, accessVars, trackerVars, postureVars, consoleVars, runVars, onboardingVars, sagaVars, text,
            verdictVars, scriptVars, scapVars, changeVars>>
butTracker == <<vars, accessVars, cveVars, postureVars, consoleVars, runVars, onboardingVars, sagaVars, text,
                verdictVars, scriptVars, scapVars, changeVars>>
butPosture == <<vars, accessVars, cveVars, trackerVars, consoleVars, runVars, onboardingVars, sagaVars, text,
                verdictVars, scriptVars, scapVars, changeVars>>
butConsole == <<vars, accessVars, cveVars, trackerVars, postureVars, runVars, onboardingVars, sagaVars, text,
                verdictVars, scriptVars, scapVars, changeVars>>
butRuns == <<vars, accessVars, cveVars, trackerVars, postureVars, consoleVars, onboardingVars, sagaVars, text,
             verdictVars, scriptVars, scapVars, changeVars>>
butOnboarding == <<vars, accessVars, cveVars, trackerVars, postureVars, consoleVars, runVars, sagaVars, text,
                   verdictVars, scriptVars, scapVars, changeVars>>
butSaga == <<vars, accessVars, cveVars, trackerVars, postureVars, consoleVars, runVars, onboardingVars, text,
             verdictVars, scriptVars, scapVars, changeVars>>
butInventory == <<vars, accessVars, cveVars, trackerVars, postureVars, consoleVars, runVars, onboardingVars,
                  sagaVars, verdictVars, scriptVars, scapVars, changeVars>>
butVerdicts == <<vars, accessVars, cveVars, trackerVars, postureVars, consoleVars, runVars, onboardingVars, sagaVars,
                 text, scriptVars, scapVars, changeVars>>
butPlaybooks == <<vars, accessVars, cveVars, trackerVars, postureVars, consoleVars, runVars, onboardingVars,
                  sagaVars, text, verdictVars, scapVars, changeVars>>
butScap == <<vars, accessVars, cveVars, trackerVars, postureVars, consoleVars, runVars, onboardingVars, sagaVars,
             text, verdictVars, scriptVars, changeVars>>
butChanges == <<vars, accessVars, cveVars, trackerVars, postureVars, consoleVars, runVars, onboardingVars, sagaVars,
                text, verdictVars, scriptVars, scapVars>>

H == INSTANCE HostAccess WITH
       At <- Location, Key <- AccessKey, Request <- AccessRequest, used <- pairs, task <- accessTask, form <- attested

C == INSTANCE CveScan WITH
       Request <- CveRequest, Package <- Record, Foreign <- ForeignRecord, manifest <- source, task <- cveTask

T == INSTANCE DebianTracker WITH MaxAge <- SnapshotAge, MaxTime <- LastHour, now <- hour, preview <- comparison

P == INSTANCE Posture WITH
       Connection <- HostConnection, MaxAge <- ReportAge, MaxTime <- LastDay,
       now <- day, reports <- published, archived <- hidden

A == INSTANCE AuditConsole

R == INSTANCE FrozenRun WITH Group <- All

W == INSTANCE Onboarding WITH
       Alias <- WizardAlias, Address <- WizardAddress, Page <- WizardPage,
       inventory <- hostRows, credential <- ownKey, form <- hostForm

S == INSTANCE RemediationSaga WITH
       Request <- SagaRequest, Page <- RecoveryPage, row <- sagaRow, req <- sagaRequest, form <- recoveryForm

I == INSTANCE Inventory WITH
       Alias <- InventoryAlias, Group <- InventoryGroup, Address <- InventoryAddress, Nil <- None

V == INSTANCE Applicability

B == INSTANCE Playbooks WITH Draft <- OwnScript, files <- drafts, page <- scriptPage, calls <- scriptCalls, typed <- texts

G == INSTANCE ChangeRequest WITH Request <- ChangeAttempt, row <- changeRow, task <- change

O == INSTANCE FleetAudits WITH
       Alias <- FleetAlias, Group <- FleetGroup, Rule <- FleetRule, Membership <- FleetMembership, MaxTime <- LastMinute,
       now <- minute, edits <- settled, audit <- scap, reports <- scapReports, choice <- chosen, calls <- asked

ASSUME ControlAssumption ==
  /\ H!AccessAssumption /\ T!TrackerAssumption /\ R!RunAssumption /\ W!OnboardingAssumption /\ S!SagaAssumption
  /\ I!InventoryAssumption /\ B!PlaybooksAssumption /\ O!FleetAssumption /\ G!ChangeAssumption /\ A!ConsoleAssumption
  /\ C!CveAssumption /\ V!VerdictAssumption /\ P!PostureAssumption

-----------------------------------------------------------------------------
ControlInit ==
  \/ part = "reports" /\ Init
  \/ part = "access" /\ H!Init
  \/ part = "cve" /\ C!Init
  \/ part = "tracker" /\ T!Init
  \/ part = "posture" /\ P!Init
  \/ part = "console" /\ A!Init
  \/ part = "runs" /\ R!Init
  \/ part = "onboarding" /\ W!Init
  \/ part = "saga" /\ S!Init
  \/ part = "inventory" /\ I!Init
  \/ part = "verdicts" /\ V!Init
  \/ part = "playbooks" /\ B!Init
  \/ part = "scap" /\ O!Init
  \/ part = "changes" /\ G!Init

ControlNext ==
  /\ UNCHANGED part
  /\ \/ part = "reports" /\ Next /\ UNCHANGED butReports
     \/ part = "access" /\ H!Next /\ UNCHANGED butAccess
     \/ part = "cve" /\ C!Next /\ UNCHANGED butCve
     \/ part = "tracker" /\ T!Next /\ UNCHANGED butTracker
     \/ part = "posture" /\ P!Next /\ UNCHANGED butPosture
     \/ part = "console" /\ A!Next /\ UNCHANGED butConsole
     \/ part = "runs" /\ R!Next /\ UNCHANGED butRuns
     \/ part = "onboarding" /\ W!Next /\ UNCHANGED butOnboarding
     \/ part = "saga" /\ S!Next /\ UNCHANGED butSaga
     \/ part = "inventory" /\ I!Next /\ UNCHANGED butInventory
     \/ part = "verdicts" /\ V!Next /\ UNCHANGED butVerdicts
     \/ part = "playbooks" /\ B!Next /\ UNCHANGED butPlaybooks
     \/ part = "scap" /\ O!Next /\ UNCHANGED butScap
     \/ part = "changes" /\ G!Next /\ UNCHANGED butChanges

ControlSpec == ControlInit /\ [][ControlNext]_<<part, vars, butReports>>

-----------------------------------------------------------------------------
(* The type of the component that moves: the others keep their first state. *)
ControlTypeOK ==
  CASE part = "reports" -> TypeOK        [] part = "access" -> H!TypeOK   [] part = "cve" -> C!TypeOK
    [] part = "tracker" -> T!TypeOK      [] part = "posture" -> P!TypeOK  [] part = "console" -> A!TypeOK
    [] part = "runs" -> R!TypeOK         [] part = "onboarding" -> W!TypeOK
    [] part = "saga" -> S!TypeOK         [] part = "inventory" -> I!TypeOK
    [] part = "verdicts" -> V!TypeOK     [] part = "playbooks" -> B!TypeOK   [] part = "scap" -> O!TypeOK
    [] part = "changes" -> G!TypeOK

-----------------------------------------------------------------------------
(* The properties of the instances, each about the part that it concerns    *)

(* HostAccess: a key is not enrolled while its host is closed out           *)
(* (host-credentials.ts:97-105, 229-236), and no key keeps opening a target *)
(* without its private half (host-closeout.ts:17-27, 80-115).               *)
NoStrandedAccess == part = "access" => H!EnrolOrRevoke /\ H!NoStrandedAccess

(* HostAccess, Onboarding: files, records, rows and target agree            *)
(* (hosts/route.ts:353, 359, 424, bootstrap/route.ts:51,                    *)
(* host-credentials.ts:214, 247), with one trusted key per server           *)
(* (ssh-access.ts:242).                                                     *)
KeysMatchTheirRecords ==
  /\ part = "access" => H!KeysMatchTheirRecords /\ H!OneServerKey
  /\ part = "onboarding" => W!RowsNameTheirKey

(* Onboarding, Playbooks, FleetAudits: a form holds the key of the           *)
(* connection it shows, a wizard sends what its form shows                  *)
(* (ansible-control-client.tsx:533-561, 899); no script is overwritten with *)
(* the text of another, and a text that the page takes for saved is the     *)
(* file's (playbooks-client.tsx:82, 145-224); the preparation of a host is  *)
(* its own, and what a launch would choose (audit-preparation/route.ts:29-89)*)
FormsKeepTheirSubject ==
  /\ part = "onboarding" => W!FormKeepsItsKey
  /\ part = "playbooks" => B!ScriptsKeepTheirText /\ B!CleanMeansSaved
  /\ part = "scap" => O!PreparationIsLaunch

(* FrozenRun: findings go to the machine they were collected from           *)
(* (asset-execution.ts:36-62, asset-report-publication.ts:80), and one      *)
(* authenticated run at a time works on a machine, with an Ansible that     *)
(* suits it (state-store.ts:530, ansible-runtime.ts:49). FleetAudits: every  *)
(* report of a launch follows the policies and exceptions agreed before it  *)
(* (scheduled/openscap/route.ts:21-24, run/route.ts:191-192).               *)
ReportsOfTheirLaunch ==
  /\ part = "runs" => R!ReportsOfTheirMachine /\ R!RunsNeverMeet
  /\ part = "scap" => O!ReportsOfTheirLaunch

(* Applicability: verdicts rest on advisories and packages of the machine's *)
(* own distribution (vulnerability-scan.ts:793, 1005, 1365). FleetAudits: a  *)
(* complete audit went through the agreed exceptions (run/route.ts:236-247, *)
(* audit-result.ts:43-57). ChangeRequest: a change that is answered with    *)
(* "applied and audited again" is in force (run/route.ts:119-167).          *)
VerdictsAreEarned ==
  /\ part = "changes" => G!CompleteMeansEnforced
  /\ part = "verdicts" => V!VerdictsAreEarned
  /\ part = "scap" => O!CompleteMeansAccounted

(* CveScan, DebianTracker: "no known CVE" is true of the database it names  *)
(* (vulnerability-scan.ts:1366), interrupted downloads never look like a    *)
(* source (hcp-trivy-source.py:257-269), and comparisons use young          *)
(* snapshots (debian-tracker-snapshot.ts:324-335).                          *)
CleanMeansClean ==
  /\ part = "cve" => C!CleanMeansClean /\ C!NoMixedSource
  /\ part = "tracker" => T!PreviewsStayYoung

(* Posture: no recent failure silently leaves the summary                   *)
(* (audit-correlation.ts:179-306), and calm advice rests on evidence        *)
(* (host-audit-workflow.ts:86).                                             *)
FindingsAccounted == part = "posture" => P!FindingsAccounted /\ P!CalmIsEarned

(* Posture: cached pages are what would be computed now                     *)
(* (host-risk-summary.ts:26, audit-correlation.ts:165).                     *)
PagesAreCurrent == part = "posture" => P!PagesAreCurrent

(* AuditConsole: a page keeps the running jobs it has shown, and announces  *)
(* the end of each (audit-jobs-provider.tsx:27, 41, audit-job-status.ts:13).*)
PageKeepsUp == [][part = "console" => A!KnownJobsStayListed /\ A!CompletionsAnnounced']_consoleVars

(* AuditConsole: one check of a host at a time, a needless one only for     *)
(* somebody who asked for it (run/route.ts:209-226).                        *)
RepeatsAreAskedFor == part = "console" => A!RepeatsAreAskedFor

(* RemediationSaga: the machine gets one command at a time, in an order its *)
(* helper can bear (remediation.ts:234-273, state-store.ts:1105), and what  *)
(* the store accepts from a form is about the machine that was looked at    *)
(* (state-store.ts:1043, operation-owner.ts:37).                            *)
CallsAsPromised == part = "saga" => S!CallsAsPromised /\ S!AttestedAsSeen

(* RemediationSaga: what was left on a machine bars it or can be rolled     *)
(* back (remediation.ts:247-252, 325, hcp-firewall.py:895-900).             *)
(* ChangeRequest: and the controller can come back to do so, since no rule  *)
(* that a change put there denies it the way in (docs/site-guide.md:41-42,  *)
(* remediation.ts:128-151, 393-400, hcp-firewall.py:183-207).               *)
TargetIsRecoverable ==
  /\ part = "saga" => S!TargetIsRecoverable
  /\ part = "changes" => G!DoorStaysOpen

(* Inventory: an edit is about one host, whatever the order of the sections *)
(* (hosts/route.ts:173-254, inventory-closeout.ts:53-66).                   *)
EditsOneHost == part = "inventory" => I!EditsOneHost

(* What an operator approves or applies in a form is what the form showed,  *)
(* whatever others did in between: the records he archives (archive.ts:23), *)
(* the snapshot he selects (state-store.ts:633).                            *)
DoneAsShown == [][ArchivedAsShown /\ T!SelectedAsSeen]_<<archived, preview, trackerVars>>
=============================================================================
