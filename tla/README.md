# TLA+ models of the hardening control platform

The platform audits and hardens Linux hosts from one controller: a Next.js
application (`src/web`) keeps its state in SQLite and files, and runs Ansible
playbooks and SSH scripts (`src/ansible`) against machines. This directory holds
TLA+ models of the parts where interleavings, crashes and lost answers decide
whether that is safe, the TLC configurations that check them and machine-checked
proofs of the most important facts.

    tlc -workers 2 -config locks_admission.cfg MCAdmission.tla         # the locks
    tlc -workers 2 -config firewall_safety.cfg MCTargetFirewall.tla    # the helper
    tlc -workers 2 -config control.cfg MCControl.tla                   # everything else
    tlapm TargetFirewall_proofs.tla                                    # a proof

`PROJECT.json` lists every run with its module. The modules with proofs are
`AssetLocks_proofs`, `TargetFirewall_proofs`, `RemediationSaga_proofs`,
`HostAccess_proofs`, `Reports_proofs`, `AuditConsole_proofs`,
`FrozenRun_proofs` and `Control_proofs`, which takes the others of section 5 together.

Line numbers below refer to files under `src/`. `PROJECT.json` maps every
definition to the lines it models.

## 1. Inventory

| Component | State it keeps | Operations | What is hard | Modules |
|---|---|---|---|---|
| Asset locks (`state-store.ts`, `asset-registry.ts`, `asset-execution.ts`, `operation-owner.ts`) | asset bindings by generation, execution leases, audit jobs, remediation rows, closeout records; each write one `BEGIN IMMEDIATE` transaction | record an observation, take and release a lease, create, claim, update, interrupt, reconcile and cancel a transaction, claim and record a closeout | two aliases of one machine, a binding captured before an await, an owner in another container, commands that outlive their request | AssetLocks, MachineLock |
| Remediation saga (`remediation.ts` and its routes) | nothing of its own: the row, the incident, the machine | apply: pre-audit, backup, change, post-audit; rollback; recovery; cancel | unknown outcomes, failures between a command and the write about it, a status read before awaits | RemediationSaga, ChangeRequest, AssetLocks |
| Ansible runner (`ansible-control.ts`, `asset-execution.ts`, `ansible-runtime.ts`) | frozen inventory, temporary credentials, child process | freeze, observe, choose a runtime, lease, run, publish | a machine that changes its address while it is probed; timeouts are neither success nor failure | FrozenRun, AssetLocks |
| Target firewall helper (`hcp-firewall.py`) | transaction directory, journal, marker of the active operation, flock | backup, close port, block address, rollback | a crash between any two durable steps, replayed commands, a reload whose result is not known | TargetFirewall, SaveRestore |
| Host closeout (`host-closeout.ts`, `ssh-revocation.ts`) | closeout record, lock directory, key, inventory line | claim, revoke, record, complete locally, recover | revocation with unknown outcome, local deletion half done | HostAccess, AssetLocks |
| Credentials and bootstrap (`host-credentials.ts`, `ssh-bootstrap.ts`, `ssh-access.ts`) | key files, lock directories, known hosts | enrol a key, delete it, trust a server | two locks taken in opposite order, a lock left by a crash | HostAccess |
| Onboarding and inventory (`hosts/route.ts`, `inventory.ts`, the connection form) | inventory text, credential metadata, the page's form | add, edit, close out, remove a host | a form changed while a request runs; a text that people also edit | Onboarding, Inventory |
| Audit jobs (`jobs/route.ts`, `run/route.ts`, `audit-jobs-provider.tsx`) | job rows; what the page has shown | create, run, finish, recover, poll, announce | answers in any order, needless repetitions | AuditConsole, AssetLocks |
| Reports and evidence (`ansible-reports.ts`, `asset-report-publication.ts`, `dependency-track.ts`) | report files, SBOMs, evidence lock | publish, derive, deliver, delete | deletion of what something refers to | Reports |
| Remediation plan (`remediation-plan*.ts`), project report (`project-report.ts`), archive (`archive.ts`) | plan items with their evidence, PDFs with manifests, archived names | confirm, verify, close; render; archive a previewed list | an edit beside a confirmation, sources that change while rendering, a list older than its preview | Reports |
| Scheduled audits, SCAP policies and exceptions (`scheduled/*`, `scap-*.ts`) | policies and exceptions of groups | choose a profile, run host by host, annotate, scan, deliver | settings edited between two hosts, one step of several failing | FleetAudits |
| Vulnerability sources (`vulnerability-scan.ts`, `hcp-trivy-source.py`, `debian-tracker-*.ts`) | CVE database with its registration, Debian snapshots, the approved one | refresh, import, scan, approve | a database replaced during a scan; approval of a snapshot that is no longer the candidate | CveScan, Applicability, DebianTracker |
| Correlation and presentation (`audit-correlation.ts`, `host-risk-summary.ts`, `host-audit-workflow.ts`) | two caches | what is current, what was found, what to do next | stale caches, lost coverage taken for health | Posture |
| Operators' audit scripts (`playbook-registry.ts`, `playbooks-client.tsx`) | two files a script, the page | list, open, create, save, delete | answers in any order | Playbooks |
| Admin sessions, collectors on the targets, deployment | - | - | - | none |

How they interact. A browser request or the scheduler calls a route; the route
calls store functions (SQLite, one step each) and awaits SSH or Ansible in
between. Requests of one process interleave at every await; two controller
processes may share the state directory. The commands a process has sent to a
machine are independent of it: they go on after it died, and their answers may
be lost. What ties them together is only what the store says: a lease while a
live request executes, and an unresolved row or closeout while a machine may be
changing. Correctness of the whole rests on four facts: one machine has one
authenticated identity however many aliases lead to it; at most one operation
may change it; whatever may still be changing it keeps it barred; and whatever
bars it can be settled in the end.

## 2. Plan

The order was: what can damage a machine first, then what can mislead its
operator. Everything of the list is modelled; what remains is at its end.

1. **AssetLocks** with **MachineLock** as its abstract specification: checked, and
   all of its safety properties and the refinement proved (section 3).
2. **TargetFirewall**, `hcp-firewall.py` with a crash at every durable step, with
   **SaveRestore**, an atomic save and restore: checked, and all of its safety
   properties and the refinement proved (section 4).
3. The controller's other components, each a module of its own, explored side by
   side by one run (section 5): **RemediationSaga**, **ChangeRequest**, **HostAccess**, **Onboarding**,
   **Inventory**, **FrozenRun**, **AuditConsole**, **Reports**, **FleetAudits**,
   **CveScan**, **Applicability**, **DebianTracker**, **Posture**, **Playbooks**.
   Checked by TLC, and the safety properties of all of them proved.

Nothing of the plan is open. What could come next: the parts of section 7.

## 3. AssetLocks

### State and code

| Variable | Code |
|---|---|
| `up`, `HostOf` | controller processes, and the container they identify themselves with (`operation-owner.ts`: host name and boot) |
| `reach` | the machine and connection an SSH probe of an alias would find |
| `bound` | `asset_bindings`, latest generation of every alias |
| `lease` | `asset_execution_leases`, keyed by the machine or, before it is known, by the alias |
| `jobs` | `audit_jobs` that are queued or running |
| `txn` | `remediation_transactions` in rowid order: status, `interrupted_from`, binding snapshot, owner, whether a backup reference is stored |
| `closeout` | `host_closeout` with its claim (lock token and owner) |
| `req` | where a request is between two awaits, and what it has read |
| `remote` | commands changing a machine now, with or without anybody waiting |
| `target` | what the machine went through for a transaction |

Each store function is one action or part of one: `createAuditJob`,
`captureAssetBinding` with `recordAssetObservation` (`Capture`),
`createRemediationTransaction`, `claimRemediationRollback`,
`prepareAssetExecution` (`Probe`, `AcquireAssetExecution`),
`updateRemediationTransaction` where the saga writes (`RecordApply`,
`RecordRollback`), `reconcileRemediationTransaction` with its three resolutions,
`cancelRemediationTransaction`, the four of closeout, and the recoveries that
`assertAssetIdle` and its neighbours call in passing. `EndRun` is the end of
`runAnsiblePlaybook`: the result of the command, or an unknown one while the
command goes on; its `finally` releases the lease either way. `EndCommand` is the
machine: a command takes effect, or fails before or after its effect.

Choices that a reader should know:

- A probe and the recording of what it found are one action. The probe is
  read-only and the recording checks everything again in its transaction.
- Guards look at the rows before `recoverInterruptedRemediations` in the same
  transaction: an interrupted row is as unresolved as the row it was.
- The operator's attestation is true when it is given (`ProcessesStopped`): the
  program cannot check it, and `validateRecoveryAttestation` demands it. The
  recovery version that ties it to the form is in RemediationSaga.
- Jobs queued and running are one state: no code reads the difference.
- Commands that only read are not kept in `remote`: left behind, they disturb
  nothing.
- A store write fails only where the code turns that into another outcome: an
  incident that cannot be written makes a change `failed` and a rollback
  `rollback_failed`. Writes that fail anywhere else
  are in RemediationSaga.
- `Rebind` looks at every alias of the machine the alias moves to; the code takes
  any one of them, which gives the same aliases.
- Not modelled: several hosts in one run, rows written before bindings existed,
  and confirming a completed closeout again (its host has left the inventory).

### Runs

A process that died does not start again; another one takes over, so a behaviour
may end when all are down, and `CHECK_DEADLOCK` is off for that reason. The
bounds: `MaxTxn` transactions are created in all, `MaxGen` generations of one
binding; when they are used up the actions that create more are disabled.

| Run | Instance | Question |
|---|---|---|
| `locks_admission` (`MCAdmission`) | two aliases of one machine, learnt as the run goes; two requests; two scenarios: changes and rollbacks with two transactions, or one change among closeouts, audits, direct runs and unauthenticated scans | At most one unresolved transaction and one changing command per machine (`OneUnresolvedPerAsset`, `OneChangePerAsset`)? Do leases keep live runs apart (`LiveRunsExclusive`); do closeouts and transactions exclude each other (`CloseoutExcludesRemediation`)? Types (`TypeOK`). |
| `locks_overlap` | two containers at once, one alias, two transactions, audits | Does a row stay barred while its command may run (`ChangeIsBarred`), is an interrupted row released by an operator only (`InterruptedUntilReconciled`), is only the newest change in force rolled back (`RollbackNewestFirst`), do closed rows leave nothing behind (`ClosedRowsAreClean`)? |
| `locks_rebind` | two machines that swap aliases, rebinding | Does all of it implement one lock per machine (`ImplementsMachineLock`)? Does a new generation leave operations alone (`BindingStaysUnderUse`)? |
| `locks_liveness` | changes, rollbacks and closeouts with crashes and a new container | Can every unresolved row and begun closeout be settled (`UnresolvedIsSettled`, `CloseoutIsSettled`)? |

Why these bounds are enough: what goes wrong here takes two requests, two
aliases or two transactions of one machine, and one change of process or
identity. The runs have two of each where the question needs it. All kinds of
request in one instance exceed what TLC explores in minutes (a closeout beside
rebinding passes five million states), so each run takes the kinds that meet in
its question. For the safety properties the proofs below do without any bound.
Symmetry permutes requests, and aliases and processes of one container;
transactions are ordered and never permuted; the liveness run uses no symmetry.

`locks_overlap` and `locks_admission` differ on purpose. A process of another
container counts as unknown, and a lease of an unknown owner is dropped
(`recoverReadOnlyAssetLeases`), so with overlapping controllers two audits could
run on one machine. The comments at `state-store.ts` 460-462 and 1555-1559 rule
that deployment out: `LiveRunsExclusive` and its companions are checked and
proved with `SingleController`, while the barrier of unresolved rows is checked
and proved without it.

### Fairness

`Fairness` assumes: every request goes on (SSH and Ansible calls have timeouts
and a `finally`), every command on a machine ends, a stopped controller is
started again (the container's restart policy), and the operator settles what
the program offers him to settle, by declaring a machine restored or recovering
a closeout, whenever it is offered again and again. Strong fairness stands only
for the operator and for local deletion that may fail some times but not always.
The liveness properties further suppose `[]<>ControllerRuns`, because dead
processes are used up in a finite instance. What they show is that no guard of a
recovery waits for something that only a barred operation could end.

### Abstract specification

`MachineLock` knows machines, holders, and who is changing a machine. A lock is
taken only when it is free and nothing runs, changes run for the holder only, one
at a time, and the lock is left only when nothing runs. `ImplementsMachineLock`
maps a lock's holders to the unresolved rows whose alias is still bound as at
their creation, and to the begun closeouts of bound aliases; the changes are the
commands in `remote`. A row whose alias was rebound holds no lock of its former
machine: it cannot send commands any more, since every run checks the snapshot.

### Proofs (`AssetLocks_proofs`)

The proofs hold for every instance: any sets of machines, aliases, processes and
requests, any bounds, any kinds of request. They assume `AssetLocksAssumption`
only: the bounds are numbers, `Nil` is none of the values it stands in for, and
an alias is neither a machine nor a row number (in the code a name, an id in
hexadecimal and a rowid).

| Theorem | Property | Deployment |
|---|---|---|
| `TypeCorrect` | `TypeOK` | any number of containers |
| `MutualExclusion` | `OneUnresolvedPerAsset` | " |
| `InterruptionIsFinal` | `InterruptedUntilReconciled` | " |
| `ChangesAreBarred` | `ChangeIsBarred` | " |
| `RollbacksNewestFirst` | `RollbackNewestFirst` | " |
| `ClosedRowsLeaveNothing` | `ClosedRowsAreClean` | " |
| `ChangesNeverMeet` | `OneChangePerAsset` | " |
| `RunsAreExclusive` | `LiveRunsExclusive` | `SingleController` |
| `CloseoutsMeetNoRemediation` | `CloseoutExcludesRemediation` | `SingleController` |
| `BindingsStayUnderUse` | `BindingStaysUnderUse` | `SingleController` |
| `StoreIsMachineLock` | `ImplementsMachineLock` | `SingleController` |

The inductive invariant is built in four layers, each inductive on top of those
before it.

- `IInv`, the rows. `OneUnresolvedPerAsset` alone is not inductive, for two
  reasons. A late `UPDATE` does not look at the status it overwrites, so a row
  written twice could become unresolved again: `ThreadsGood` and `Exclusive` say
  that a request between its claim and its last write works on a row that is
  still working, still its own, and nobody else's; a dead request's row may be
  interrupted because `operationOwnerState` never takes a running process for a
  dead one. And `claimRemediationRollback` compares with the machine the alias
  leads to now, which a rebind may have changed since the row was written: what
  keeps a second row out is `assertNoNewerRemediation`, for which
  `NothingStandsAbove` is needed, that no unresolved row lies under a later change
  that could be claimed.
- `CInv`, the commands. `ThreadsTrue` ties what a request believes to what its
  machine went through; `CommandsTrue` says for whom each running command runs and
  which row or closeout bars it; `TargetsTrue` says for every status of a row what
  its firewall may look like; `NewestFirst` that what lies under a change in force
  is itself in force. From these follow `ChangeIsBarred`, `RollbackNewestFirst` and
  `ClosedRowsAreClean`, which are not inductive because a command ends long after
  the request that sent it.
- `XInv`, identities. Two commands meet on a machine when a revocation and a
  change do, or two transactions. `RowsSnapped` and `RequestsKept` say that what a
  request carries from before an await is what its row or closeout was written
  with; `ChangesAreFresh` that a command goes only to a machine whose alias was
  not bound again since; `OneRevocation` and `RevocationExcludesChange` are the
  exclusion itself.
- `SInv`, leases and claims, under `SingleController`. `LeasesHeld` says that a run
  has its lease under the key its alias still has, `ClaimsHeld` that nobody takes
  over a closeout that is still served; `NeverBoth` and `OneClosesOut` are the
  exclusions. Without the assumption `CloseoutExcludesRemediation` is false, and
  TLC shows it: `recoverHostCloseout` by one container may settle a closeout that
  the other one still serves, whose remediation is then admitted while the
  closeout's owner cannot be judged from there.

The invariants have one lemma for each action and one for each way in which
several actions touch them (`QuietStep`, `ObserveStep`, `EngageStep`,
`SettleStep`, `OperatorRowStep`, `MoveStep`, `RowTrue`). The refinement needs one
fact more, `HoldersAlone`: a lock of `MachineLock` never has two holders. Under
it every action of the store is a stutter (`HoldStays`, `RowStep`), or takes a
lock and perhaps begins a change (`CreateRemediation`, `ClaimRollback`,
`StartCloseout`), begins one (`AcquireAssetExecution`), ends one (`EndCommand`),
or releases a lock (`SettleCloseoutStep` and the end of a row).

TLC checked the invariants before they were proved, as invariants of runs over
the instances of the table and these: apply, rollback and audit over one alias
with two containers one after the other; apply, rollback, relocate, rebind and
scan over two aliases and two machines (1,627,668 states); apply, closeout and
scan over two aliases of one machine (492,570 states); apply, rollback and
closeout with two overlapping containers without `SInv` (140,522 states).

Checked by TLC only: `UnresolvedIsSettled` and `CloseoutIsSettled`, since the
proof system does not cover liveness under fairness.

## 4. TargetFirewall

### State and code

The helper is a script that the controller runs on the machine, once per
operation. All of its memory is in files; whatever a call needs to know of an
earlier one it reads from them.

| Variable | Code |
|---|---|
| `selected` | `backend()`: ufw or firewalld, whichever is active |
| `dest` | the configuration directory (`/etc/ufw`, `/etc/firewalld`), `None` between the two renames |
| `live` | the rules the kernel enforces |
| `marker` | `.operation-state.json`: the transaction that may be changing the machine, and how far it is |
| `copy` | archive and metadata of a transaction's backup; `Partial` until the metadata is written |
| `journal` | `rollback-state.json`: phase, the tree to be replaced, whether cleanup began |
| `staging` | the staging directory of a rollback: owner file, `etc` (the tree to install), `previous` (the tree taken away), and a file a torn write left |
| `helper` | a process: what it was called for and the step it is at; `Working` processes hold the flock |
| `inflight` | native commands that still run, waited for or not |
| `told` | the last answer the controller got for a transaction |

`Start` and `Answer` are `main`, `Refuse` everything `execute_operation` and the
operations raise before their first write. `BeginBackup` .. `BackupIsThere` are
`backup`, `MayApply` .. `RecordApplyError` are `close_or_block` between
`mark_apply_intent` and its error handler, `MayRollback` .. `CleanedUp` are
`rollback`, one action per durable step. `Die` kills a process anywhere.

Choices that a reader should know:

- What the callers promise is in the guard of `Start`: one call per transaction at
  a time (the saga and the locks of section 3), `--recovery-verified` only when
  no helper and no command is left (the operator says so), and no change by a
  transaction whose rollback began.
- A tree is the set of its rules. The digests, archive formats, SELinux labels and
  the parsing of ufw and firewall-cmd output become equality of such sets, so
  `preparedSha256` is the digest of the copy.
- Every durable write and every rename may fail before or after it took effect
  (`Writes`: the file system is full, or the directory cannot be synced). A kill is
  a kill of the process: power loss, where even synced order may be lost, is not
  modelled.
- ufw changes files and kernel in one command; firewalld takes two commands, and
  any of them may end half done. A timed-out command goes on by itself
  (`CommandEndsAlone`).
- The administrator uses the tools of the backend, so his edits reach files and
  kernel together, and he keeps away while a change or a rollback is under way.
- Left out: check mode (it changes nothing), timeouts of commands that only read,
  and a backend that is exchanged between two calls (849, 868, 779 refuse it).

### Runs

`MaxMishaps` bounds kills, failed writes and failed or unanswered commands
together. A behaviour never has to stop (another call may always arrive), so
deadlock is checked.

| Run | Instance | Question |
|---|---|---|
| `firewall_safety` | two transactions, two processes, two mishaps, edits, torn writes | Is a whole configuration always somewhere the journal can find it (`ConfigurationKept`)? Does the marker name whoever may be changing the machine (`MarkerKept`)? Do files and kernel agree when nothing is pending (`SettledAgree`)? Does no command or rename overlap another command (`ChangesDoNotOverlap`)? Is a definite answer given only when nothing runs (`DefiniteMeansQuiet`)? Does a rollback that answers success have restored everything (`RollbackRestores`)? Is all of it an atomic save and restore (`ImplementsSaveRestore`)? Types (`TypeOK`). |
| `firewall_resume` | one transaction, two processes, three mishaps | Is a rollback the target has recorded completed if it is repeated (`RollbackResumes`)? |
| `firewall_bypass` | two transactions, one mishap | Does a begun rollback keep other transactions away (`NewTransactionWaits`)? Violated: see the finding. |

Why these bounds are enough: the helper is sequential under its flock, so two
processes give every overlap there is (one inside, one called beside it or after
its death), and two transactions give every mixture of own and foreign marker.
Two mishaps allow a failure while an earlier one is being recovered from; the
single-transaction run has three. A transaction's two rules let a change stop in
the middle.

Symmetry permutes transactions and processes in the safety run only.

### Fairness

`FairSpec` assumes that a process that is not killed goes on (all its waits have
timeouts), that native commands end, and that the operator, whenever again and
again he finds everything stopped, repeats the rollback with his attestation.
That is the procedure of `docs/operations-recovery.md`; without an operator the
code itself never repeats a rollback. Mishaps are bounded, so in the end an
attempt is not disturbed.

### Abstract specification

`SaveRestore` has a configuration, a saved copy per transaction, and an owner. A
change begins only when nobody owns the configuration and it equals the copy;
restoring is one step that brings back exactly the copy. `ImplementsSaveRestore`
takes for the configuration the directory, or the tree that was moved away while
there is none: the restore happens at the second rename.

### Finding

`firewall_bypass`. `docs/operations-recovery.md:52` says that a new transaction
does not pass an unfinished rollback. The journal entry `preparing` (787) is
written before the marker (788). After a successful change there is no marker, so
a kill between the two leaves a begun rollback that keeps nobody away. The
model's other properties show the damage is contained: the interrupted rollback
then stops at the digest of the tree (718).

An observation without a run of its own: `docs/operations-recovery.md:44` says
that after a crash the helper goes on with the interrupted operation. A kill
inside the write of `owner.json` (line 744) leaves the temporary file
`.hcp-state-*` in the staging directory; lines 729-733 refuse a staging directory
with unknown contents, so every later rollback stops there. Nothing is lost, but
somebody has to remove the file by hand. With `TornOwner = TRUE` in
`firewall_resume.cfg` TLC shows it as a violation of `RollbackResumes`; without
that one kill point there is no other with this effect.

### Proofs

`TargetFirewall_proofs` proves, for any number of
transactions, helper processes and mishaps, with torn writes and an administrator
who edits:

| Theorem | Property |
|---|---|
| `TypeCorrect` | `TypeOK` |
| `ConfigurationNeverLost` | `ConfigurationKept` |
| `MarkerNamesTheOwner` | `MarkerKept` |
| `SettledStateIsConsistent` | `SettledAgree` |
| `CommandsNeverOverlap` | `ChangesDoNotOverlap` |
| `DefiniteAnswersAreFinal` | `DefiniteMeansQuiet` |
| `RollbackRestoresWhatWasSaved` | `RollbackRestores` |
| `HelperSavesAndRestores` | `ImplementsSaveRestore` |

The assumptions are `TargetFirewallAssumption` (the bound is a number, the
switches are Boolean, the administrator and a missing file are no transactions)
and `AbsenceAssumption` (a missing file is no record, and neither it nor a
half-written copy is a tree).

The inductive invariant `FInv` is the design of the helper written out:

- `Alone`: one process works under the flock, and a transaction is called once at
  a time.
- `Helpers`: for each place in the program (`CallGood`, `BackupGood`,
  `ChangeGood`, `RollbackGood`, `FinishGood`) what has been seen there, and what
  of it still holds although the helper that saw it may be a different one from
  the helper that caused it.
- `Commands`: at most one native command is running, waited for or not, and the
  marker says for whom. This is what makes an answer definite.
- `Trees` (`InPhase`): for each phase of the journal, what is in the staging
  directory, in the place of the configuration, and in force.
- `MarkerGood`, `DestGood`, `SettledAgree`: what the marker's phases promise, and
  that the configuration is missing only between the two renames.

No property is inductive alone. `ConfigurationKept` says nothing of what a helper
that resumes has already seen; `RollbackRestores` needs the phases before its own;
firewalld's two commands may leave a rule in the files that is not in force, so
that `SettledAgree` needs `Synced`, that a definite answer of a change was given
only after both; and an answer `failed` is definite only because `CommandGood`
leaves no command of the transaction running.

The lemmas go by the kind of step (`HelperStep`, `RollbackStep`, `RollingStep`,
`MarkerStep`, `BackupStep`, `ChangeStep`) and then by action. For the refinement,
`EffectiveIs` finds the one rollback that may have moved a tree, that of the
marker; then `WriteMetadata` saves, `MarkApplyIntent` begins a change, a native
command changes, `MarkRollback` begins to restore, `Install` restores,
`ReleaseActive` releases, and everything else stutters.

TLC checked `FInv` first: 2,648,569 states of two transactions, two helpers and
two mishaps with edits and torn writes. Only model-checked: `RollbackResumes`,
which is liveness under fairness, and `NewTransactionWaits`, which does not hold.

## 5. The controller's other components

`Control` puts fourteen modules side by side, and one run, `control`, explores them.
`Control` extends `Reports` and instantiates the others; `MCControl` gives the
constants their values and cuts components into scenarios. `part` chooses one
component, `scenario` one of its scenarios, and a behaviour moves that component
only. The components share no state in these modules (what they share in the
code is stated below under "left out", and lies in AssetLocks), so exploring them
together is the same as exploring each alone: every property is an implication
from its `part`, and the run's 1,751,665 states are the sum of the components'.
`ControlAssumption` gathers the assumptions of the instances. Deadlock is not
checked because most behaviours end: clocks, ids and answers are used up, and
some scenarios stop at the first complete report. There is no liveness in this
section: nothing here is retried or scheduled by the code itself (a person asks
again, or the next page load does), so no fairness would be justified by it.

Proofs. `Control_proofs` proves properties of `ControlSpec`: any instance that
satisfies `ControlAssumption`, any part, without the scenarios. `ControlIInv` is
the invariant of the part that moves, and `ControlStep` its preservation: a step
moves one part, so it is that part's own step (`MovesOne`). RemediationSaga,
HostAccess, FrozenRun, AuditConsole and Reports have modules of proofs of their own.
`Control_proofs` extends `Reports_proofs`, as `Control` extends Reports, and instantiates
the other four as `Control` does their components; the lemmas `SameSaga`, `SameAccess`,
`SameRun` and `SameConsole` say that both instances mean the same. Onboarding, Playbooks,
DebianTracker, ChangeRequest, CveScan, Applicability, FleetAudits and Inventory are proved
in sections of `Control_proofs`, Posture in the second part of `Reports_proofs`, each with
its own invariant; the paragraphs "Proved" below say why it is needed. Every property
of the run is a theorem, `ControlTypeOK` included (`ControlKeepsTypes`);
`TargetIsRecoverable` has the premise `~ Transient`, without which it is false.

### RemediationSaga

| Variable | Code |
|---|---|
| `row` | `remediation_transactions`: status, `interrupted_from`, owner, backup reference |
| `req` | where `applyRemediation` or `rollbackRemediation` is between two awaits, and the status it read at its start |
| `remote` | commands on their way to the machine or running there |
| `target` | what the machine went through for a transaction, as the helper's marker and journal tell |
| `form` | the recovery form of each page: what its operator saw, and whether its recovery version is current |
| `store` | whether SQLite accepts writes |

Every write of the store and every command is a step; a write may be refused, an
answer lost, the controller restarted in the same container or a new one. With
`Transient = FALSE` a store that refused a write stays down until a restart
(`control`); with `TRUE` it may accept the next one (`saga_orphan`). The operator
keeps one promise, that of the form's text: he declares what he saw only when no
command is left (`Inspect`). The helper is its interface of section 4, and
`CallsAsPromised` shows what `TargetFirewall.Start` takes for granted. Scenarios:
one transaction with two requests and one page, or one request and two pages;
two transactions with one of each. (Two of everything was checked once: 17.5 million states.)

Properties: `CallsAsPromised` (one command at a time, none after a rollback
began), `AttestedAsSeen` (a form the store accepts is about the machine its
operator saw), both in the run's `CallsAsPromised`; `TargetIsRecoverable` (what
is left on a machine bars it or can be rolled back). Left out: the audits'
firewall baseline and the dry-run preview.

Proofs (`RemediationSaga_proofs`), for any number of transactions, requests and
pages. `CommandsAsPromised` and `FormsAttestWhatWasSeen` hold with either value of
`Transient`, `WhatIsLeftCanBeUndone` with `Transient = FALSE`, as `saga_orphan` shows
that it must. They assume `SagaAssumption`, which Control asserts of its
instance: `MaxTxn` is a number, `Nil` neither a request nor an owner. None of the
properties is inductive: that no second command is on its way follows from who
may be waiting for the first. `IInv` therefore says, of a request that has claimed
a row, that it alone works, which status its row has and what its machine looks
like before and after each command (`Threads`); of a command, that its sender
waits for it or has lost it, and that its row stays unresolved meanwhile
(`Commands`); of a form with a current version, that nobody works on its row and
its machine is still what was found (`Forms`). The argument is in `AtWork` (a
request at work excludes every other unresolved row, so every valid form) and
`NothingSent` (a request that waits for no answer and lost none knows that nothing
is on its way); `ThreadStep` and `ClaimStep` carry most actions. TLC checked `IInv`
on two transactions, two requests and a page first (1.3 million states with
`Transient`, 0.95 million without).

Findings. `saga_orphan`: `remediation.ts:258` clears `backupInFlight` before the
backup is recorded (260); if that one write fails and the next succeeds, the row
fails without a backup, offers only "cancel", and the machine stays reserved,
against what the comments at `remediation.ts:247-248` and `hcp-firewall.py:897-898`
set out to prevent. `saga_unbarred`: a rollback request that read its row before
another failure and an operator's preparation runs unverified, and its failure
writes `rollback_failed` (387) instead of `recovery_ready`, which takes off the bar
that `state-store.ts:1056-1057` and the page promise.

### HostAccess

`files`, `private`, `credential` are the credential directory, `closeLock` the
`.decommission-lock` beside it, `authorized` the target's `authorized_keys`,
`inventory` the rows, `record` the closeout records, `form` what an operator saw,
`known` and `trustLock` the known hosts and their lock, `task` what each request
is at. `Bootstrap` has the steps of `bootstrapHostCredential` with both of its
looks at the other lock, `Decommission` those of closeout and of its recoveries
with every file that is removed, `Trust` the read, wait and append of
`ssh-access.ts`; `Restart` may come anywhere. Properties: `EnrolOrRevoke`,
`NoStrandedAccess`, `KeysMatchTheirRecords`, `OneServerKey`. Bounds: one host, one
server, two keys, two server keys, two requests: two keys make an old and a new
one, and all of it is per host.

Left out: sudo mode and marks, `PUT /hosts`, aliases of one asset, remediation
and lease guards (AssetLocks), the late effect of a helper that was killed, a
machine that is installed anew. A crash leaves the known-hosts lock until
somebody removes it. A completed closeout that is recovered after the host was
enrolled again leaves `remote_revoked` (`docs/operations-recovery.md:101`).

Proofs (`HostAccess_proofs`), for any hosts, servers, keys and requests: all four
properties, each a theorem of its own (`EnrolmentExcludesCloseout`,
`NoKeyStranded`, `RecordsMatchKeys`, `ServersKeepOneKey`). They assume
`AccessAssumption`, which Control asserts of its instance: every host has a
server, and `Nil` and `Stale` are two values that are neither request, key nor
host. None of the four is inductive.

- `Apart` carries the exclusion: each side takes its own lock before it looks for
  the other's, so whichever looked second has seen the first (`InLock` and
  `CloseGood` tie the two locks to the steps of their holders).
- A closeout acts on what its record said when it began. `ClaimGood` and
  `CloseGood` make the holder of the claim the only one at work on a host;
  `KeyGood` and `StatusGood` say, step by step, whether its key still opens the
  target and what its record has told of that. `BootGood` adds that an enrolment
  beside it never brings back the key the record is about, since a new pair is one
  that was never used.
- `RecordGood` is what outlives the closeout: one that ended `not_changed` left its
  key in place, one that ended `completed` left no such pair, and a verified pair
  opens its target while the record is settled. `FormGood` says that a form whose
  version is current still tells what is on the target, since
  taking the key of a record off it needs a claim, which ends the version, and no
  enrolment puts it back.
- One request saves trusted keys at a time, and what it read is still there when it
  appends (`TrustGood`).

`HostStep` reduces a step to one host and one request; `CloserMoves` and
`CloserSaves` carry the steps of a closeout, `EnrolStep` those of an enrolment,
`TrustStep` those of trust. TLC checked `IInv` on one host, three keys and two
requests first (145,326 states).

### Onboarding

`inventory` has the rows, `credential` the metadata of each connection's key,
`form` and `wizard` the connection form of each page and the request it waits
for (status, bootstrap, preflight, save). Other pages add, edit, close out and
remove hosts meanwhile. Properties: a form holds the key of the connection it
shows (`FormKeepsItsKey`, in `FormsKeepTheirSubject`), and rows name a key that is
theirs (`RowsNameTheirKey`, in `KeysMatchTheirRecords`). Scenarios: one page that
edits two connections, two pages that meet over one.

Observations without a run: a closeout and a new enrolment with failed sudo
between a wizard's preflight and its save can save a sudo mode that was not
proved. And `preflight/route.ts:156-170` refuses every edited connection of a
saved host (409 at 168), although `docs/ubuntu-astra-setup.md:225` and `:227` and
`docs/site-guide.md:6` say how to change its user; the tests
(`preflight-runtime.test.mjs:119-123`, `http-smoke.mjs:265-268`) pin the refusal.
Restarts and locks are in HostAccess.

Proved, for any hosts, connections and pages: both properties, with the types as
the invariant, and that a form which names a host shows its connection, that
metadata are there before a key is tried.

### Inventory

`text` is `ansible/inventory.ini` as a sequence of lines. `parseStaticInventory` is
what a text says of hosts, groups, variables and cycles; adding, changing,
removing and closing out a host are the edits of the text, begun from every text
of up to three of nine pieces that people write (`Handwritten`). `EditsOneHost`: an edit
that succeeds changes what the text says of its host, and nothing about any other.
Texts have at most seven lines.

Proved, for any hosts, groups, addresses, texts and lengths: `EditsOneHost`. No host
or group is called "all" or "ungrouped", which the routes refuse, and no host is called
like the managed group: a file may lack its header, and saving a host of that name
would then add the header and make a group of it. A host and a group may else share
a name; that the edit then refuses (`Collides`) is part of the argument. The invariant
besides the type is `ParentsHaveSections`, that a child group has a section of its own,
as Ansible asks of the text that people wrote: without it a host could share the
name of a group that no header shows. The rest is about texts. An edit puts in a line, a
header with a line, or takes lines out. `Keeps` says what all three have in common:
the lines that stay keep their order, all headers stay, and one that is new comes to
stand above no old line, so that every line that stays has the header it had
(`HeaderKept`), and what the text said stays said (`FactsKept`). `Gains` and `Leaves` sum up
what is new and what is left. To make this provable the operators that read a text
are defined by what they find (the last header above a line, the least set closed
under parents) and not by going through it line by line.

Observations: saving a host in a group above `linux_hosts` makes a cycle that the
parser then refuses; `;` comments and headers with trailing comments are read
differently by `readInventoryHosts` (`hosts/route.ts:111`) and
`parseStaticInventory` (`inventory.ts:21`); editing a host of several groups leaves
it in one; making a group a child of `linux_hosts` makes its other hosts managed.

### FrozenRun

`listed`, `onDemand`, `trusted` are settings, `answers` the machine behind each
address, `bindings` and `leases` the store, `run` each launch: the frozen
inventory, what was observed of each target, the pins, the runtime, the reports.
Machines swap addresses, operators edit rows and bind aliases again between any
two steps. `ReportsOfTheirMachine`: findings are published under the machine they
were collected from. `RunsNeverMeet`: one authenticated run works on a machine at
a time, with an Ansible that suits its Python. Both are in the run's
`ReportsOfTheirLaunch`. Scenarios: one launch of every kind with all edits; two
audits that meet while machines swap as long as one is probing.

Left out: jobs, remediation and closeout barriers (AssetLocks), the orphan child
of a dead controller. Machines have distinct host keys; a run's connections are
one step (`ControlPersist`), and so is a rebind.

Proofs (`FrozenRun_proofs`), for any hosts, addresses, machines and runtimes and any
number of launches, with `RunAssumption`: the type invariant and both properties.
Neither is inductive. Bindings only grow (`Known`), so what a launch captured is
still a binding of the store when it publishes, though seldom the newest; a machine
that a launch claims has its key pinned for the address it was frozen with
(`Claims`), so what it collects comes from there or not at all; and a launch at
work has a lease of every machine it claims (`Held`), which the next acquisition
compares with the machines its own aliases lead to now: `StillCurrent` is what makes
them those it observed.

### AuditConsole

The jobs of one host, one page that polls and launches, and other operators.
`shown`, `previous`, `registered`, `revision` are the provider's state in
`audit-jobs-provider.tsx`; `poll` and `launch` the calls on their way, answered late
or never; `session` and `path` the login. Properties: `PageKeepsUp` (a running job
that was shown stays on the page, and the end of each is announced once it was),
`RepeatsAreAskedFor` (one check of a host at a time, and one that repeats a
complete check only for somebody who confirmed it). Bounds: two jobs, one listed
beside the active ones, two answers; scenarios with late answers and with sessions
that end. The phases of a job are one step, a recorded change waits until no job
is active, and `audit-repeat.ts:49` compares aliases, not machines.

Proofs (`AuditConsole_proofs`), for any number of jobs, listed jobs and answers
(`ConsoleAssumption` says only that the bounds are numbers): `RepeatsWereAskedFor`,
and both halves of `PageKeepsUp`, `RunningJobsStayListed` and `EndsAreAnnounced`.
That one check works at a time and was asked for follows from `OneActive` alone.
What a page shows needs a fact about the answer on its way: `RowsFresh` says that
every job the page knows is named by the answer, came to the page after the poll
was sent (`registered` with a later revision), or is `Gone`: ended, and so far back
that no list names it again. `SeenKept` says that a job that was seen is compared
with the next answer until it is gone. `ServerStep` carries everything that shows
the page nothing. TLC checked `IInv` and the action property on three jobs first
(3.1 million states).

### Reports

| Variable | Code |
|---|---|
| `saved` | the report files with what they say |
| `sboms` | CycloneDX files |
| `rows`, `cancelled` | audits that remediation rows point at, and those of cancelled rows |
| `item` | plan items with evidence, verification, status, dates |
| `exports` | PDFs with the manifest of their sources |
| `archived`, `preview` | archived names, and the list an operator was shown |
| `task` | a scan, upload, download or rendering that waits |

Publication, deletion (`deleteAnsibleReport` with its dependents), delivery to and
analyses from Dependency-Track, the plan's transitions, the PDF and the archive
are its actions; what spans an await ends in an action of its own. Properties:
`EvidenceKept` (what anything refers to is never lost; with `ExportsBacked`: the
manifest of a PDF names what the PDF cites, but for `Released`, the deleted audits of
cancelled rows),
`ConfirmedByLaterObservation`, `DecisionsStay`, and the archive's part of
`DoneAsShown`. Six scenarios (`chain`, `again`, `shared`, `export`, `decision`,
`proof`) choose which ids, requests and tools meet: at most seven dated steps, two
uploads, two requests, one plan item, one PDF. Ids are given in order.

Proofs (first part of `Reports_proofs`), for any sets of ids, items, exports and requests, with
`ReportsAssumption` (the bounds are numbers, `Nil` is no id): the type invariant,
`EvidenceKept`, `ConfirmedByLaterObservation` and `DecisionsStay`. Two additions make
them inductive. `RendersCite`: what a PDF that is being rendered will cite is in the
manifest it was begun with or belongs to a cancelled row and was deleted, so that an
export recorded later is backed (`ManifestCites` shows why the archive cannot hide a cited report; `RowsMade`, that rows
point at audits that were made, why a deleted audit does not come back). `Dated`: an item
was completed no later than it was last updated, which is what a confirmation
compares with, and every item in the plan is about a kind of check. A deletion is
the delicate step: its guard speaks of names, the invariant of the reports
themselves, and `UnneededReport` leads from the one to the other, also for a PDF
whose snapshot cannot be read; `Deletes` adds that an SBOM goes only with the last
report that shares it. TLC checked the strengthened invariant on the six scenarios.
`SourcesKept` is no theorem, as the finding shows.

Finding `reports_dangling`: `scanPackageInventory` (`vulnerability-scan.ts:713`)
writes its report without another look at the inventory, which may have been
deleted while it waited, against the comment at `ansible-reports.ts:460-463`.
Observations: the PDF takes the rows of its host whatever their status
(`project-report.ts:157-160`, `:258-261`) and prints their audits
(`hcp-final-report-pdf.py:275-279`), but the audit of a cancelled row is protected by
nothing (`state-store.ts:1253-1254`). Once it is deleted, a PDF exported later cites a
report that is neither in its manifest nor saved, while `docs/project-closeout.md:9`
says that the manifest ties the PDF to its original reports. TLC shows it when the
exception `Released` is taken out of `ExportsBacked`. A delivery that is made again
keeps its archived name (`dependency-track.ts:201`, against `README.md:313`).

Left out: one process only, so code between awaits is atomic; `AddToPlan` and
`Confirm` do not take the evidence lock, as in the code; SBOM and PDF files
orphaned by a crash, the ageing of reports, texts, owners and due dates, vendor
evidence in plan items, the verification id in other transitions, the row guard of
`setRecordArchive`.

### ChangeRequest

A firewall change from the form to its answer, on one host: what the form, the
controller, the playbook and the helper let through, the audit before and the one
after, the dry run. `way` is how the machine is reached (the address and port that
lead to it, and what its sshd sees), `row` the connection in the inventory,
`firewall` what filters, `denied` the rules that changes put there, `bar` the live
transaction, `task` the requests. `DoorStaysOpen` (in `TargetIsRecoverable`): no rule
denies the port sshd listens on, port 22, the machine's address, the client it
sees or an address of the controller, although the row is edited, the controller
moves between its addresses and the helper sees other ends than the inventory
(`docs/site-guide.md:41-42`). It takes both checks: the controller's knows its own
addresses, the helper's knows the connection. `CompleteMeansEnforced` (in
`VerdictsAreEarned`): an answer without reservation is about a rule that was put
there, under a firewall that the second audit saw. Bounds: two requests, one event
(an edit of the row, a move, the firewall turned on or off), a machine reached
directly, one behind a forwarded port, one whose sshd does not tell of the
connection; eight rules. Assumed: such an sshd is reached at its own port, and
`ipaddress` refuses leading zeros (Python 3.9.5 and later).

Proved, for any sets of rules, addresses, ways and requests and any number of
events: both properties, the first also alone (`ChangesKeepTheDoor`), since here
nothing hangs on `Transient`. `DoorStaysOpen` needs `ChangeAccepted`: what the controller compared with its
own addresses cannot have changed since, while what it compared with the row can,
so that the helper, which looks at the connection it has, must do the rest.
`ChangeApplied` says that a request in its second audit had its rule put there. The one
thing a machine may do in between that the proof relies on is that the ports and
addresses of a route stay: only the controller moves. TLC checked the strengthened
invariant (98,812 states).

Observations: a port spelled otherwise (`8080.0`, `1e3`) passes `validateExtraVars` and
is refused by the assertion of `close-port.yml`, after the backup, with a failure
that has no helper's answer: it counts as unknown, and the host stays barred until
it is reconciled. An address spelled otherwise passes the comparison of texts in
`wouldBlockProtectedAddress` and is refused only by the helper. Left out: what a
rollback takes away, lost writes (RemediationSaga), other aliases (AssetLocks).

### FleetAudits

Settings (`environment`, `members`, `policies`, `exceptions`) that operators edit,
one `audit` request that goes host by host, its `reports`, and the preparation page
(`choice`, `calls`, `preparation`). Properties: `ReportsOfTheirLaunch` (the first
host's report and the last's follow the settings of the moment the request
came), `CompleteMeansAccounted` (in `VerdictsAreEarned`), `PreparationIsLaunch` (in
`FormsKeepTheirSubject`). Two aliases, of which one changes its groups; groups
`web`, `db` and `linux_hosts`; one rule; two edits; scenarios for launches, batches
and the page. Hosts go in the order of their names.

Observations: exceptions deleted during a run still annotate, those that expire
do not; annotation never changes status or risk; a failed run, a crash between
publication and annotation, or an alias that left the inventory leaves a raw
report without notes; the environment's profile is a fallback for OpenSCAP only; a
specific group beats `linux_hosts`, two specific ones are refused; `bare` OVAL bases
come from earlier versions only. Left out: the settings pages (a listing in flight
may show a removed policy again), groups without hosts; edits between two hosts
are over-approximated.

Proved, for any hosts, groups, rules, dates and edits: the three properties. In the
model `audit.agreed` remembers the settings of the moment a request came, so that
"agreed before" can be said. `FleetAgreed` ties the selection each host was given to
them (`Accepting`: what a host is given governs it then), `FleetReported` each
report to its host's selection and to the exceptions taken along, and `FleetAhead`
says that a host whose turn has not come has no result, so that what is summed up
at the end is complete. For the page, `FleetShown` is the whole argument: calls
about another host than the chosen one are thrown away when the choice changes.

### CveScan

`file`, `manifest`, `pending` are the cache and its registration, `lock` and `work` the
helper under the flock, `refresh` the download all requests share, `task` the
scans, `report` the report written last. `CleanMeansClean`: "no known CVE" is true
of the database it names, which was not stale. `NoMixedSource`: no interrupted
download makes the database of one publication and the metadata of another look
like a source. Scenarios: an outsider that writes the cache without the lock; two
scans that meet; offline work; a registry that fails and a package that is not the
distribution's. A native child that outlives its helper keeps the lock. In the run,
behaviours end with the first complete report.

Proved, for any packages, publications, requests and outsiders: both properties.
`CveMarkedFirst` and `CveOwnDatabase`: the marker is there before the first file is
replaced and until a manifest vouches for both, whoever is killed in between, and
`CveOnePublication`: a manifest that vouches has files of one publication.
`CveScanGood` follows a scan: what it names when it ends is what it opened, as long
as its files did not change meanwhile, which it looks at; `CveAnswersGood` keeps
that until the report is written.

### Applicability

One CVE and an inventory of up to two packages: from distribution, maker and what
Trivy lists, the finding, its verdict and the completeness of the report.
`VerdictsAreEarned`: a verdict rests on advisories and packages of the machine's
own distribution. `gaps` stands for the reasons that lie in the inventory alone.
Observations: without an advisory source, or with a stale database, findings may
be `passed` or `failed` with verdict `unknown`; ambiguous copies of a package get
verdict `unknown` although `vendorAssessment.metadataConsistent` is true; the
deduplication by id assumes one status per CVE and package.

Proved, for any distributions, packages and answers (a distribution's name is none
that stands for "none", packages are finitely many): `VerdictsAreEarned`. The
invariant says that a report is what follows from the inventory and the answer; the
property is then a fact about `TrivyFinding` and `ScanCoverage`.

### DebianTracker

`data` and `manifest` are the two files of a snapshot with their second links while
they are published, `latest` and `selected` the store, `form` what each session
shows. `PreviewsStayYoung`: a comparison uses intact bytes captured recently, however
often they are downloaded again. `SelectedAsSeen` (in `DoneAsShown`): a session
selects only what it was shown. Scenarios: one snapshot that ages, with tampering
and both ways of pinning; two snapshots and two sessions. Between the fetch and
the end of an import there is no await, so that only a crash intervenes. Finding
`tracker_retry`: a crash between `link` and `unlink` (`debian-tracker-snapshot.ts:186`)
leaves a second link that every reader refuses and no retry repairs, against
`docs/debian-tracker-full-snapshot.md:40`; `vendor-advisory-snapshot.ts` uses the same
protocol.

Proved, for any digests, sessions and times: both properties. `PreviewsStayYoung`
needs `TrackerDatedFirst`: a manifest keeps the date at which its bytes were first
recorded, whatever a later download claims, and `TrackerManifestFirst`: where a
temporary name is removed the manifest is there.

### Posture

`published` and `hidden` are the reports of a host, `binding` and `explicit` what it is
and where, and two caches lie between them and the pages. `FindingsAccounted`: a
recent failure (or open port, which nmap reports for review and never as a failure) is
listed, or was looked at again, or its loss is named; and calm advice rests on evidence:
when the dashboard proposes nothing but the report, every recent failure whose risk is
more than "info" was looked at again or belongs to a profile given up (`CalmIsEarned`).
`info` of a report are the checks whose findings have no more risk, `Bands` what the
tools can say of it, `observed` the sum that the next step is chosen from: all bands but
that one. `PagesAreCurrent`: what a page takes from
its cache is what it would compute now, but for `identityExcludedCount`, which may
be stale because the signature (`host-risk-summary.ts:23-31`) leaves reports of
facts, events and packages out. Bounds: two checks, two machines, one connection,
three reports, age one; scenarios for profiles, ports, dates and identity. The band is
free (all findings or none) in the scenario for profiles. The two
checks of a report differ only in the scenario for ports, where the first report
shows one of them to fail.

Observation: the sum at `host-audit-workflow.ts:91-92` leaves the band "info" out, into
which a failed OpenSCAP rule falls whose severity is "info", unknown or not stated
(`hcp-controller-scan.py:620-628`, `:698`). With only such rules in the list of findings
the dashboard says that none are registered in the observed scope (`:100`). TLC shows it
after one report when the exception for `info` is taken out of `CalmIsEarned`.

Proved, for any checks, machines, connections, reports and dates (`PostureAssumption`:
the bounds are numbers, checks are finitely many, `Nil` is no connection or binding):
both, `CalmIsEarned` among them. The attempt showed an earlier form of
`FindingsAccounted` to be false, which the run with one check could not show: a
complete scan of 1000 ports, a complete and then an incomplete one of 100 that
misses one of two findings, and one of another scope that pushes it out of the
list. What the summary then names is the scope of the incomplete scan, with the
checks it did see, so the property now says that too, and the run has two checks.
`ScansUnverified` is what it rests on, besides the types: a scan
without a login never knows the machine, so that the evidence of two scans of the
present one is the same (`PostureScansComparable`) and the later stands for the
earlier; `PostureRulesAccounted` and `PosturePortsAccounted` follow a failure from the
report that has it to the one that came first of its kind. For the caches the invariant
speaks of the state in which they were filled: `CorrelationKept` and `SummaryKept` say
that there was an earlier state of the reports (`Earlier`: there were fewer, and the
exceptions of some were not yet written into them) whose signature and page
are those of the cache. `PostureSignatureAgrees` and `PostureRisksAgree` read off two equal
signatures that the listed reports are the same ones, unchanged, with the same order
(`Agree`), and `PostureSameCorrelation` and `PostureSameSummary` that the page then is the
same: the dates that pass in between are in the signature, the annotation is
in the file's size and date, and a report that is dated ahead counts when its day comes.

### Playbooks

The two files of each own script, the page, and its calls, answered in any order.
`ScriptsKeepTheirText`: no script is overwritten with another's text;
`CleanMeansSaved`: a text the page takes for saved is the file's, once all answers
are there and unless the script it went to open last was gone (`page.failed`). Both
are in `FormsKeepTheirSubject`. Two scripts and a built-in one, one typed text, two calls
at once, four openings (two, three and five checked once: 8.0 million states).

Observations: a controller that dies between a script's two files leaves an
orphan that can be neither listed nor created again (`playbook-registry.ts:355-370`),
or new YAML under old metadata; a lost answer to a save leaves the file ahead of
the form; a run reads the metadata when it is asked for and the YAML later; after
a save, text typed meanwhile is overwritten by the reopening, and if another script
was chosen meanwhile the saved one is shown again. Left out: these, other pages,
running and syntax checks.

Proved, for any scripts, texts, calls and openings: both properties. The first
needs only that a call carries a text of the script it names (`PlaybooksSensible`).
The second needs what is on its way: `PlaybooksCovered` says that the file has the
text that the page shows, or that a call is on its way whose answer will make the
page open the script again or close it, and `PlaybooksInFlight` that the opening the
page waits for is one of the calls. The attempt showed an earlier form of
`CleanMeansSaved`, without `page.failed`, to be false with more calls on their way
than the run has: the script opened last is gone, and the page keeps a text that
another answer has overtaken.

### Which bounds matter

Every hazard here takes two actors over one object, or one actor and a crash.
Each component therefore has two of what competes (requests, pages, keys,
sessions, reports, hosts) and one of what they compete for, and its scenarios
drop what does not meet. Where a larger instance was affordable once, the section
says so.

## 6. What is proved and what is only checked

Proved for every instance: all safety properties that hold, the types included, and
both refinements. Three assumptions are part of theorems: `SingleController`,
`~ Transient`, and those that `ControlAssumption` gathers; the findings show what happens
without the second. Only model-checked: liveness, for want of a proof system that
reasons about fairness and `ENABLED`. Induction over data is out of its reach,
too: where a definition would go through a sequence step by step, the model says instead
what is found (Inventory), and no module with a theorem reaches a `RECURSIVE` operator.

## 7. Not modelled

Admin sessions (`auth.ts`): a session is one row, nothing waits or writes to it
between its reading and its use. The read-only collectors: parsing
of system tools' output, without state (Posture takes from them what nmap reports and
which risk a rule of OpenSCAP gets). Deployment, laboratory and acceptance
scripts: the deployment they document (the old container stops before the new one
starts) is the assumption `SingleController`. Of components that are modelled in
part: the hash chain of the journal, network discovery and the readiness probe's
contents, the formats of vendor advisories, the layout of PDFs, severities and
texts of findings, the pages that show what the routes return and keep nothing.
`PROJECT.json` says for each component what is left out.
