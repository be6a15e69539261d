----------------------------- MODULE FleetAudits -----------------------------
(* Audits by policy and by timetable: OpenSCAP and Astra OVAL follow the     *)
(* policies and agreed exceptions of the inventory's groups; the scheduler   *)
(* runs OpenSCAP, the system audit and the package check host by host. With  *)
(* the page that says beforehand what a launch would choose. What a run does *)
(* on its way to a machine is in FrozenRun.                                  *)
EXTENDS Naturals, FiniteSets

CONSTANTS
  Alias, Group,  \* hosts, and the groups beside linux_hosts
  Config,        \* what a policy may assign: a profile, or an OVAL base
  Rule,          \* rules that may fail on a host
  Membership,    \* sets of groups that a host may be in
  MaxTime, MaxEdits,  \* bounds
  Nil

VARIABLES
  environment,  \* is there a profile in the environment?
  members,      \* alias -> its groups; none when the inventory does not list it
  policies,     \* tool -> group -> its policy
  exceptions,   \* group and rule -> end of the exception, 0 without one
  now, edits,
  audit,        \* the request being served, over when nothing is left to do
  reports,      \* alias -> its report
  choice,       \* the host that the page shows
  calls,        \* its requests that were not aborted
  preparation   \* what it shows

vars == <<environment, members, policies, exceptions, now, edits, audit, reports, choice, calls, preparation>>
settings == <<environment, members, policies, exceptions>>
pageVars == <<choice, calls, preparation>>

Linux == "linux_hosts"
Groups == Group \cup {Linux}
Tool == {"openscap", "oval"}             \* these have policies
Kind == Tool \cup {"agentless", "packages"}
Managed(a) == Linux \in members[a]
InventoryHostExists(a) == members[a] # {}
Bare == "bare"   \* an OVAL base whose origin was never recorded, from earlier versions
Refused == [refused |-> TRUE]

Selection == [group : Groups \cup {Nil}, config : Config \cup {"environment", Nil}, groups : SUBSET (Groups \cup {"all"})]

Report == [kind : Kind, group : Groups \cup {Nil}, config : Config \cup {"environment", Nil}, failed : SUBSET Rule,
           marked : SUBSET (Groups \X Rule), evaluated : (0..MaxTime) \cup {Nil}]

Outcome == {"complete", "partial", "error"}

(* What happened on behalf of a host, for the properties.                    *)
Deed == {"report", "scan", "delivery"}

Source == [state : {"configured", "missing", "conflict", "incomplete"}, group : Groups \cup {Nil}]

(* What is known of a request that names these hosts.                        *)
AuditRequest(hosts) ==
  [by : {"page", "scheduler"}, kind : Kind, selections : [hosts -> Selection],
   exceptions : [Groups \X Rule -> 0..MaxTime + 1], stage : {"runs", "scans", "dead"}, current : hosts \cup {Nil},
   todo : SUBSET hosts, results : [hosts -> Outcome \cup {Nil}], done : [hosts -> SUBSET Deed],
   agreed : [members : [Alias -> Membership], policies : [Tool -> [Groups -> Config \cup {Bare, Nil}]],
             exceptions : [Groups \X Rule -> 0..MaxTime + 1]]]

Call == [alias : Alias, sources : {Nil, Refused} \cup [Tool -> Source]]

FleetAssumption ==
  /\ Linux \notin Group /\ \A m \in Membership : m = {} \/ ("all" \in m /\ m \subseteq Groups \cup {"all"})
  /\ IsFiniteSet(Group) /\ MaxTime \in Nat /\ MaxEdits \in Nat
  /\ Nil \notin Alias \cup Groups \cup Outcome /\ Nil \notin 0..MaxTime
  /\ Nil \notin Report /\ \A hosts \in SUBSET Alias : Nil \notin AuditRequest(hosts)

TypeOK ==
  /\ environment \in BOOLEAN /\ now \in 0..MaxTime /\ edits \in 0..MaxEdits
  /\ members \in [Alias -> Membership]
  /\ policies \in [Tool -> [Groups -> Config \cup {Bare, Nil}]]
  /\ exceptions \in [Groups \X Rule -> 0..MaxTime + 1]
  /\ reports \in [Alias -> Report \cup {Nil}]
  /\ audit = Nil \/ \E hosts \in SUBSET Alias : audit \in AuditRequest(hosts)
  /\ choice \in Alias \cup {Nil} /\ calls \subseteq Call /\ preparation \in Call \cup {Nil}

-----------------------------------------------------------------------------
(* What applies to a host                                                    *)

(* Mutant: the policy of linux_hosts goes before a more specific one.        *)
WidestFirst(tool, groups) ==
  LET assigned == {g \in groups \cap Groups : policies[tool][g] # Nil}
  IN IF Linux \in assigned THEN {Linux} ELSE assigned

(* The policies that compete for a host: those of its groups, or that of     *)
(* linux_hosts when no other has one.                                        *)
Candidates(tool, groups) ==
  LET assigned == {g \in groups \cap Groups : policies[tool][g] # Nil}
  IN IF assigned = {Linux} THEN assigned ELSE assigned \ {Linux}

(* The other audits need no policy, only a managed host.                     *)
ResolveForHost(tool, a) ==
  LET of == IF tool \in Tool THEN Candidates(tool, members[a]) ELSE {} IN
    CASE ~ Managed(a) \/ Cardinality(of) > 1 -> Refused
      [] Managed(a) /\ tool \notin Tool -> [group |-> Nil, config |-> Nil, groups |-> members[a]]
      [] Managed(a) /\ tool \in Tool /\ of = {} -> IF tool = "openscap" /\ environment
                                  THEN [group |-> Nil, config |-> "environment", groups |-> members[a]] ELSE Refused
      [] Managed(a) /\ Cardinality(of) = 1 ->
           LET g == CHOOSE x \in of : TRUE IN
             IF policies[tool][g] = Bare THEN Refused
             ELSE [group |-> g, config |-> policies[tool][g], groups |-> members[a]]

(* Mutant: the page does not know the environment.                           *)
AssignedSource(tool, groups) ==
  LET of == Candidates(tool, groups) IN
    IF of = {} THEN [state |-> "missing", group |-> Nil]
    ELSE IF Cardinality(of) > 1 THEN [state |-> "conflict", group |-> Nil]
    ELSE [state |-> "configured", group |-> CHOOSE x \in of : TRUE]

(* The page asks the same tables in a handler of its own, which looks for    *)
(* conflicts first and reports a refusal as an incomplete policy.            *)
SourceStatus(tool, groups) ==
  LET specific == {g \in groups \cap Group : policies[tool][g] # Nil}
      of == IF specific # {} THEN specific ELSE {g \in groups \cap {Linux} : policies[tool][g] # Nil}
      group == CHOOSE x \in of : TRUE
  IN CASE Cardinality(specific) > 1 -> [state |-> "conflict", group |-> Nil]
       [] Cardinality(specific) <= 1 /\ of = {} ->
            [state |-> IF tool = "openscap" /\ environment THEN "configured" ELSE "missing", group |-> Nil]
       [] Cardinality(specific) <= 1 /\ of # {} ->
            [state |-> IF policies[tool][group] = Bare THEN "incomplete" ELSE "configured", group |-> group]

-----------------------------------------------------------------------------
(* Settings                                                                  *)

Edit == edits < MaxEdits /\ edits' = edits + 1 /\ UNCHANGED <<environment, now, audit, reports, pageVars>>

(* A group without hosts governs nobody and is left out.                     *)
InventoryGroups == Groups \cap UNION {members[a] : a \in Alias}

UpsertPolicy(tool, g, c) ==
  /\ Edit /\ g \in InventoryGroups
  /\ policies' = [policies EXCEPT ![tool][g] = c]
  /\ UNCHANGED <<members, exceptions>>

DeletePolicy(tool, g) ==
  /\ Edit /\ policies[tool][g] # Nil
  /\ policies' = [policies EXCEPT ![tool][g] = Nil]
  /\ UNCHANGED <<members, exceptions>>

UpsertException(g, r, until) ==
  /\ Edit /\ g \in InventoryGroups /\ until > now
  /\ exceptions' = [exceptions EXCEPT ![<<g, r>>] = until]
  /\ UNCHANGED <<members, policies>>

DeleteException(g, r) ==
  /\ Edit /\ exceptions[<<g, r>>] # 0
  /\ exceptions' = [exceptions EXCEPT ![<<g, r>>] = 0]
  /\ UNCHANGED <<members, policies>>

(* The inventory is edited by its own pages, or by hand.                     *)
Move(a, groups) ==
  /\ Edit /\ groups \in Membership \ {members[a]}
  /\ members' = [members EXCEPT ![a] = groups]
  /\ UNCHANGED <<policies, exceptions>>

Tick == now < MaxTime /\ now' = now + 1 /\ UNCHANGED <<settings, edits, audit, reports, pageVars>>

-----------------------------------------------------------------------------
(* Launches                                                                  *)

(* `agreed` is for the properties: the settings when the request came.       *)
Accept(by, kind, hosts, current) ==
  /\ audit = Nil
  /\ \A a \in hosts : ResolveForHost(kind, a) # Refused
  /\ audit' = [by |-> by, kind |-> kind, selections |-> [a \in hosts |-> ResolveForHost(kind, a)],
               exceptions |-> exceptions, stage |-> "runs", current |-> current, todo |-> hosts \ {current},
               results |-> [a \in hosts |-> Nil], done |-> [a \in hosts |-> {}],
               agreed |-> [members |-> members, policies |-> policies, exceptions |-> exceptions]]
  /\ UNCHANGED <<settings, now, edits, reports, pageVars>>

LaunchManual(tool, a) == Accept("page", tool, {a}, a)

TargetHosts(target) == {a \in Alias : Managed(a) /\ (a = target \/ target \in members[a])}

(* Refused as a whole when one host of an OpenSCAP audit has no profile.     *)
LaunchScheduled(kind, target) ==
  /\ TargetHosts(target) # {}
  /\ Accept("scheduler", kind, TargetHosts(target), Nil)

Free(stage) == audit # Nil /\ audit.stage = stage /\ audit.current = Nil

(* The scheduler's next host, which may have left the managed group. In the  *)
(* code this follows the host before without a pause; edits in between only  *)
(* add behaviours.                                                           *)
StartHost(a) ==
  /\ Free("runs") /\ a \in audit.todo
  /\ audit' = IF Managed(a) THEN [audit EXCEPT !.current = a, !.todo = @ \ {a}]
              ELSE [audit EXCEPT !.results[a] = "error", !.todo = @ \ {a}]
  /\ UNCHANGED <<settings, now, edits, reports, pageVars>>

-----------------------------------------------------------------------------
(* Ends of a run                                                             *)

Runs(a) == audit # Nil /\ audit.stage = "runs" /\ audit.current = a

(* Mutant: the exceptions are those in the tables when the run ends.         *)
ExceptionsNow(a, failed) == {x \in Groups \X Rule : x[1] \in members[a] /\ x[2] \in failed /\ exceptions[x] > now}

Annotations(a, failed) ==
  {x \in Groups \X Rule : x[1] \in audit.selections[a].groups /\ x[2] \in failed /\ audit.exceptions[x] > now}

RawReport(a, failed) ==
  [kind |-> audit.kind, group |-> audit.selections[a].group, config |-> audit.selections[a].config,
   failed |-> failed, marked |-> {}, evaluated |-> Nil]

Annotated(a, failed) == [RawReport(a, failed) EXCEPT !.marked = Annotations(a, failed), !.evaluated = now]

(* Mutant: a run is complete when its report is.                             *)
InspectReportOnly(a, sound) == IF sound THEN "complete" ELSE "partial"

(* Which report to expect follows from the inventory at that time; a page's  *)
(* request tolerates that the alias has gone, the scheduler's does not.      *)
InspectAuditReports(a, sound) ==
  IF audit.by = "scheduler" /\ ~ InventoryHostExists(a) THEN "error"
  ELSE IF sound /\ (audit.kind \in Tool => Managed(a)) THEN "complete" ELSE "partial"

Ended(a, outcome, deeds) == [audit EXCEPT !.current = Nil, !.results[a] = outcome, !.done[a] = @ \cup deeds]

(* The reports of a run are published, annotated and inspected in one turn.  *)
(* `sound`: the scanner looked at everything and its dates can be read.      *)
Finish(a, failed, sound) ==
  /\ Runs(a)
  /\ reports' = [reports EXCEPT ![a] = IF audit.kind = "openscap" /\ InventoryHostExists(a) THEN Annotated(a, failed)
                                       ELSE RawReport(a, failed)]
  /\ audit' = Ended(a, InspectAuditReports(a, sound), IF sound THEN {"report"} ELSE {})
  /\ UNCHANGED <<settings, now, edits, pageVars>>

(* A run that fails may leave a report; it is published and not annotated.   *)
Fail(a, failed, published) ==
  /\ Runs(a)
  /\ reports' = IF published THEN [reports EXCEPT ![a] = RawReport(a, failed)] ELSE reports
  /\ audit' = Ended(a, "error", {})
  /\ UNCHANGED <<settings, now, edits, pageVars>>

(* The controller dies, perhaps between the publication and the notes; no    *)
(* other request goes on with the audit.                                     *)
Crash(failed, published) ==
  /\ audit # Nil /\ audit.current # Nil
  /\ reports' = IF published /\ audit.stage = "runs"
                THEN [reports EXCEPT ![audit.current] = RawReport(audit.current, failed)] ELSE reports
  /\ audit' = [audit EXCEPT !.current = Nil, !.todo = {}, !.stage = "dead"]
  /\ UNCHANGED <<settings, now, edits, pageVars>>

-----------------------------------------------------------------------------
(* The package check goes on with the hosts whose inventory is there         *)

BeginScans ==
  /\ Free("runs") /\ audit.kind = "packages" /\ audit.todo = {}
  /\ audit' = [audit EXCEPT !.stage = "scans", !.todo = {a \in DOMAIN audit.results : audit.results[a] # "error"}]
  /\ UNCHANGED <<settings, now, edits, reports, pageVars>>

(* Mutant: the scan and the delivery alone decide.                           *)
ScanDecides(a, scan, delivery) == IF scan = "complete" /\ delivery # "failed" THEN "complete" ELSE "partial"

Overall(a, scan, delivery) ==
  IF audit.results[a] = "complete" /\ scan = "complete" /\ delivery # "failed" THEN "complete" ELSE "partial"

Scan(a, scan) ==
  /\ Free("scans") /\ a \in audit.todo
  /\ audit' = IF scan = "error" THEN [Ended(a, "error", {}) EXCEPT !.todo = @ \ {a}]
              ELSE [audit EXCEPT !.current = a, !.todo = @ \ {a},
                                 !.done[a] = IF scan = "complete" THEN @ \cup {"scan"} ELSE @]
  /\ UNCHANGED <<settings, now, edits, reports, pageVars>>

(* Dependency-Track may not be configured.                                   *)
Deliver(a, delivery) ==
  /\ audit # Nil /\ audit.stage = "scans" /\ audit.current = a
  /\ audit' = Ended(a, Overall(a, IF "scan" \in audit.done[a] THEN "complete" ELSE "partial", delivery),
                    IF delivery = "failed" THEN {} ELSE {"delivery"})
  /\ UNCHANGED <<settings, now, edits, reports, pageVars>>

-----------------------------------------------------------------------------
(* The preparation page                                                      *)

Ask(a) == [alias |-> a, sources |-> Nil]

(* Mutant: a new choice does not abort the request of the one before.        *)
ChooseAgain(a) ==
  /\ choice' = a /\ calls' = calls \cup {Ask(a)} /\ preparation' = Nil
  /\ UNCHANGED <<settings, now, edits, audit, reports>>

(* Also a refresh of the same host.                                          *)
Choose(a) ==
  /\ choice' = a /\ calls' = {Ask(a)} /\ preparation' = Nil
  /\ UNCHANGED <<settings, now, edits, audit, reports>>

Prepare(c) ==
  /\ c.sources = Nil
  /\ calls' = (calls \ {c}) \cup
                 {[c EXCEPT !.sources = IF Managed(c.alias)
                                        THEN [tool \in Tool |-> SourceStatus(tool, members[c.alias])] ELSE Refused]}
  /\ UNCHANGED <<settings, now, edits, audit, reports, choice, preparation>>

Receive(c) ==
  /\ c.sources # Nil
  /\ calls' = calls \ {c}
  /\ preparation' = IF c.sources = Refused THEN Nil ELSE c
  /\ UNCHANGED <<settings, now, edits, audit, reports, choice>>

-----------------------------------------------------------------------------
Init ==
  /\ environment \in BOOLEAN /\ now = 0 /\ edits = 0
  /\ members \in [Alias -> Membership]
  /\ policies \in [Tool -> [Groups -> Config \cup {Bare, Nil}]]
  /\ \A g \in Groups : policies["openscap"][g] # Bare
  /\ exceptions = [x \in Groups \X Rule |-> 0]
  /\ audit = Nil /\ reports = [a \in Alias |-> Nil]
  /\ choice = Nil /\ calls = {} /\ preparation = Nil

Settings ==
  \/ \E tool \in Tool, g \in Groups : DeletePolicy(tool, g) \/ \E c \in Config : UpsertPolicy(tool, g, c)
  \/ \E g \in Groups, r \in Rule : DeleteException(g, r) \/ \E until \in 1..MaxTime + 1 : UpsertException(g, r, until)
  \/ \E a \in Alias, groups \in Membership : Move(a, groups)

Failures == IF audit # Nil /\ audit.kind = "openscap" THEN SUBSET Rule ELSE {{}}

Audits ==
  \/ \E tool \in Tool, a \in Alias : LaunchManual(tool, a)
  \/ \E target \in Alias \cup Groups, kind \in Kind \ {"oval"} : LaunchScheduled(kind, target)
  \/ \E a \in Alias, failed \in Failures, b \in BOOLEAN : StartHost(a) \/ Finish(a, failed, b) \/ Fail(a, failed, b)
  \/ \E failed \in Failures, b \in BOOLEAN : Crash(failed, b)
  \/ BeginScans
  \/ \E a \in Alias : \/ \E scan \in Outcome : Scan(a, scan)
                      \/ \E delivery \in {"accepted", "skipped", "failed"} : Deliver(a, delivery)
  \/ Tick

Page == (\E a \in Alias : Choose(a)) \/ \E c \in calls : Prepare(c) \/ Receive(c)

Next == Settings \/ Audits \/ Page

Spec == Init /\ [][Next]_vars

-----------------------------------------------------------------------------
(* Properties                                                                *)

(* In the settings `c`, group `g` governs the audits of `a`.                 *)
Governs(c, tool, g, a) ==
  /\ g \in c.members[a] /\ c.policies[tool][g] # Nil
  /\ \A other \in c.members[a] \cap Groups :
       other # g /\ c.policies[tool][other] # Nil => g # Linux /\ other = Linux

(* Every report of an audit, of the first host and of the last, is made with *)
(* the policy and annotated with the exceptions that were agreed when the    *)
(* request came, except for those that ended during the run, whatever        *)
(* operators change meanwhile (scheduled/openscap/route.ts:21-24,            *)
(* run/route.ts:191-192, openscap-policy.ts:58-65).                          *)
ReportsOfTheirLaunch ==
  \A a \in Alias : reports[a] # Nil /\ audit.kind \in Tool =>
    LET r == reports[a] IN
      /\ IF r.group = Nil THEN environment /\ \A g \in Groups : ~ Governs(audit.agreed, r.kind, g, a)
         ELSE Governs(audit.agreed, r.kind, r.group, a) /\ r.config = audit.agreed.policies[r.kind][r.group]
      /\ r.evaluated # Nil =>
           \A g \in Groups, rule \in Rule :
             <<g, rule>> \in r.marked <=> /\ g \in audit.agreed.members[a] /\ rule \in r.failed
                                          /\ audit.agreed.exceptions[g, rule] > r.evaluated

(* What an audit calls completely checked was checked in every respect,      *)
(* although each of its steps may fail for each host and the alias may leave *)
(* the inventory on the way: a sound report, the exceptions for OpenSCAP, a  *)
(* complete scan and no failed delivery for packages; and no host is left    *)
(* without a result unless the controller died (scheduled/openscap/route.ts: *)
(* 36-45, scheduled-audit.ts:32-56, scheduled/package-vulnerabilities/       *)
(* route.ts:29-56, run/route.ts:236-247, audit-result.ts:43-57).             *)
CompleteMeansAccounted ==
  audit # Nil =>
    \A a \in DOMAIN audit.results :
      /\ audit.results[a] = "complete" =>
           /\ reports[a] # Nil /\ "report" \in audit.done[a]
           /\ audit.kind = "openscap" => reports[a].evaluated # Nil
           /\ audit.stage = "scans" => \/ {"scan", "delivery"} \subseteq audit.done[a]
                                       \/ a = audit.current \/ a \in audit.todo
      /\ audit.stage # "dead" /\ a # audit.current /\ a \notin audit.todo => audit.results[a] # Nil

(* What the page announces for a host is what a launch would choose now      *)
(* (audit-preparation/route.ts:29-89, openscap-policy.ts:30-49,              *)
(* astra-oval-policy.ts:5-18), and an answer is shown with its own host      *)
(* (host-audit-preparation-client.tsx:108-135).                              *)
PreparationIsLaunch ==
  /\ \A tool \in Tool, a \in Alias : Managed(a) =>
       LET source == SourceStatus(tool, members[a])
           launch == ResolveForHost(tool, a)
       IN /\ source.state = "configured" <=> launch # Refused
          /\ launch # Refused => launch.group = source.group
  /\ preparation # Nil => preparation.alias = choice
=============================================================================
