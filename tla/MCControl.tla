------------------------------ MODULE MCControl ------------------------------
(* Control explored within scenarios: `part` is the component that moves,   *)
(* and the others keep a first state. The steps are those of Control.       *)
EXTENDS Control, MCReports

Servers == [h \in {"web"} |-> "10.0.0.1:22"]
KnownVulnerable == <<{}, {"own"}>>
SupportedBy == [modern |-> {"m1"}, legacy |-> {"m1", "m2"}]

Installed(manager, name, arch, maker, origin) ==
  [manager |-> manager, name |-> name, version |-> "1", arch |-> arch, maker |-> maker, origin |-> origin]

(* What an inventory may consist of, in any order; `k` is a variable.       *)
Head(g, section) == [header |-> TRUE, name |-> g, section |-> section, address |-> "none"]
Line(name, x) == [header |-> FALSE, name |-> name, section |-> "", address |-> x]

InventoryBlocks ==
  { <<Line("w1", "x")>>, <<Line("w2", "none")>>,
    <<Head("linux_hosts", "hosts"), Line("w1", "x")>>, <<Head("linux_hosts", "hosts")>>,
    <<Head("web", "hosts"), Line("w2", "y")>>, <<Head("web", "hosts")>>,
    <<Head("linux_hosts", "children"), Line("web", "none")>>,
    <<Head("linux_hosts", "vars"), Line("w1", "none")>>, <<Head("web", "vars"), Line("k", "none")>> }

(* Texts of up to three of them.                                            *)
Sequence == INSTANCE SequencesExt

InventoryTexts ==
  {Sequence!FlattenSeq(blocks) :
     blocks \in UNION {{b \in [1 .. n -> InventoryBlocks] : Sequence!IsInjective(b)} : n \in 0 .. 3}}

(* Copies of a package by different makers, a key, and distributions that   *)
(* have advisories of their own or only resemble one that has.              *)
Systems ==
  { [id |-> "debian", like |-> Nil, stream |-> FALSE], [id |-> "ubuntu", like |-> "debian", stream |-> FALSE],
                   [id |-> "mint", like |-> "ubuntu", stream |-> FALSE], [id |-> "alpine", like |-> Nil, stream |-> FALSE],
                   [id |-> "centos", like |-> "rhel", stream |-> FALSE], [id |-> "centos", like |-> "rhel", stream |-> TRUE] }

Copies ==
  { Installed("dpkg", "lib", "amd64", "debian", Nil), Installed("dpkg", "lib", "i386", "vendor", Nil),
                    Installed("dpkg", "lib", "armhf", "debian", "mint"), Installed("rpm", "lib", "x86_64", "centos", Nil),
                    Installed("rpm", "lib", "i686", "epel", Nil), Installed("rpm", "gpg-pubkey", Nil, Nil, Nil),
                    Installed("apk", "lib", "x86_64", "alpine", Nil) }

(* A machine at its own address and port, one behind a forwarded port and   *)
(* one whose sshd does not tell of the connection; rules about the ports    *)
(* and addresses of both ends, in the plain and in another spelling.        *)
Wanted(by, what, plain) == [by |-> by, what |-> what, plain |-> plain]

Ways ==
  {[address |-> "s", port |-> "22", server |-> "s", sshd |-> "22", client |-> c, told |-> TRUE] : c \in {"o1", "o2"}}
  \cup {[address |-> "p", port |-> "2222", server |-> "s", sshd |-> "2200", client |-> c, told |-> TRUE] : c \in {"o1", "n"}}
  \cup {[address |-> "s", port |-> "2200", server |-> "s", sshd |-> "2200", client |-> "o1", told |-> FALSE]}

Things ==
  { Wanted("tcp", "22", TRUE), Wanted("tcp", "2200", TRUE), Wanted("tcp", "2200", FALSE), Wanted("udp", "22", TRUE),
                  Wanted("from", "o2", TRUE), Wanted("from", "o2", FALSE), Wanted("from", "n", TRUE), Wanted("from", "s", TRUE) }

In(groups) == groups \cup {"all"}

Memberships ==
  {{}, In({}), In({"linux_hosts"}), In({"linux_hosts", "web"}), In({"web"}),
                      In({"linux_hosts", "web", "db"})}

(* One tool's launches while its settings change; batches while a host goes *)
(* away; a page over any settings.                                          *)
ScapScenarios == { [name |-> "launches", kinds |-> {"openscap", "oval"}, edits |-> 2, time |-> 1],
                   [name |-> "batches", kinds |-> {"agentless", "packages"}, edits |-> 1, time |-> 0],
                   [name |-> "page", kinds |-> {}, edits |-> 0, time |-> 0] }

ScapSettings ==
  /\ policies["openscap"]["db"] = Nil /\ \A tool \in O!Tool, g \in O!Groups : policies[tool][g] # "c2"
  /\ members["w2"] = In({"linux_hosts"})
  /\ IF scenario.name = "page" THEN TRUE
     ELSE /\ members["w1"] = In({"linux_hosts", "web"}) /\ (environment <=> policies["openscap"]["linux_hosts"] = Nil)
          /\ policies["oval"] = [g \in O!Groups |-> IF g = O!Linux THEN "c1" ELSE Nil]
  /\ scenario.name = "batches" => environment /\ policies["openscap"]["web"] = Nil

(* Exceptions are given before the launch; then everything may change, the  *)
(* groups of w1 and the policies of OpenSCAP, until the audit is over.      *)
ScapWithin ==
  /\ scap # Nil => scap.stage # "dead" /\ (scap.current # Nil \/ scap.todo # {} \/ O!BeginScans)
  /\ scap = Nil => members' = members /\ policies' = policies
  /\ members'["w2"] = members["w2"] /\ policies'["oval"] = policies["oval"]
  /\ members'["w1"] \notin {In({}), In({"linux_hosts", "web", "db"})}
  /\ policies'["openscap"]["db"] = Nil /\ exceptions'[<<"db", "r1">>] = 0
  /\ scap' # Nil => scap'.kind \in scenario.kinds
  /\ scap' # Nil /\ scap'.current = "w2" => "w1" \notin scap'.todo
  /\ settled' <= scenario.edits /\ minute' <= scenario.time
  /\ scenario.name = "batches" => policies' = policies /\ exceptions' = exceptions
  /\ \A g \in O!Groups : policies'["openscap"][g] = "c1" => policies["openscap"][g] = "c1"

(* Everything is in order but the finding, or nothing is found.             *)
VerdictScenarios == { [name |-> "finding"], [name |-> "coverage"] }

VerdictNext ==
  \/ scenario.name = "finding" /\ \E about \in V!Entries \ {{}}, status \in V!Status, fresh \in BOOLEAN,
                                    id \in {"debian", "ubuntu", "centos", "alpine", Nil} :
       V!Answer(about, status, id, TRUE, {V!Ref(p) : p \in V!Software(subject.packages)}, fresh)
  \/ scenario.name = "coverage" /\ \E detected, fresh \in BOOLEAN, decoded \in SUBSET {V!Ref(p) : p \in subject.packages} :
       V!Answer({}, "affected", Nil, detected, decoded, fresh)
  \/ V!Assess

(* Outsiders write files of the cache; downloads and scans meet; an operator *)
(* works offline; a registry fails, and a package is not the distribution's. *)
CveScenarios ==
  { [name |-> "outsider", requests |-> {"r1"}, outsider |-> TRUE, modes |-> {"online"}, retries |-> 0,
     oldest |-> 1, inventories |-> {{"own", "key"}}],
    [name |-> "scans", requests |-> {"r1", "r2"}, outsider |-> FALSE, modes |-> {"online"}, retries |-> 0,
     oldest |-> 1, inventories |-> {{"own", "key"}}],
    [name |-> "offline", requests |-> {"r1"}, outsider |-> FALSE, modes |-> {"online", "offline"}, retries |-> 0,
     oldest |-> 2, inventories |-> {{"own", "key"}}],
    [name |-> "foreign", requests |-> {"r1"}, outsider |-> FALSE, modes |-> {"online"}, retries |-> 1,
     oldest |-> 1, inventories |-> {{"own", "other"}}] }

(* The first complete report ends the behaviour.                            *)
CveWithin ==
  /\ ~ report.complete /\ oldest' <= scenario.oldest
  /\ \A r \in {"r1", "r2"} : cveTask'[r] # C!Idle => /\ r \in scenario.requests
                                                     /\ cveTask'[r].inventory \in scenario.inventories
  /\ ~ scenario.outsider => \A f \in {"db", "meta"} : file'[f] # Nil => file'[f].by = "hcp"
  /\ mode' \in scenario.modes
  /\ work'.step = "fetching" => refresh.tries <= scenario.retries

(* One snapshot that ages and is tampered with; two that compete.           *)
TrackerScenarios ==
  { [name |-> "age", digests |-> {"d1"}, sessions |-> {"s1"}, time |-> 3, pins |-> BOOLEAN, single |-> TRUE],
    [name |-> "choice", digests |-> {"d1", "d2"}, sessions |-> {"s1", "s2"}, time |-> 0, pins |-> {FALSE},
     single |-> FALSE] }

TrackerWithin ==
  /\ hour' <= scenario.time
  /\ \A d \in {"d1", "d2"} \ scenario.digests : data'[d] = "absent"
  /\ \A s \in {"s1", "s2"} \ scenario.sessions : form'[s] = Nil
  /\ import' # T!Idle => import'.says.pinned \in scenario.pins
  /\ ~ scenario.single => tampered' = {} /\ scan' = Nil

(* Profiles and port sets that change, dates that pass while pages are      *)
(* open, a machine that is bound again.                                     *)
PostureScenarios ==
  { [name |-> "profiles", modes |-> {"openscap"}, outcomes |-> {"complete"}, results |-> P!Result,
     reports |-> 3, time |-> 3, ahead |-> 0, views |-> FALSE, moves |-> FALSE],
    [name |-> "ports", modes |-> {"nmap"}, outcomes |-> {"complete", "partial"}, results |-> {"manual", "absent"},
     reports |-> 3, time |-> 2, ahead |-> 0, views |-> FALSE, moves |-> FALSE],
    [name |-> "dates", modes |-> {"agentless", "openscap"}, outcomes |-> {"complete"}, results |-> {"failed"},
     reports |-> 2, time |-> 3, ahead |-> 1, views |-> TRUE, moves |-> FALSE],
    [name |-> "identity", modes |-> {"agentless", "nmap"}, outcomes |-> {"complete"}, results |-> {"failed", "manual"},
     reports |-> 2, time |-> 1, ahead |-> 0, views |-> TRUE, moves |-> TRUE] }

PublishedWithin(r) ==
  LET worst == IF r.mode = "nmap" THEN "manual" ELSE "failed" IN
    /\ r.scope = Nil \/ scenario.name = "identity" =>
         r.outcome = "complete" /\ \A c \in DOMAIN r.found : r.found[c] = worst
    /\ r.time \in day .. day + scenario.ahead
    /\ scenario.views => r.scope \in {"basic", "profile", "top_100"}
    /\ scenario.name = "ports" /\ published = <<>> => r.found["check"] = worst
    /\ scenario.name # "ports" => \A c, d \in DOMAIN r.found : r.found[c] = r.found[d]
    /\ r.info \in {{}, DOMAIN r.found} /\ (scenario.name # "profiles" => r.info = {})

PostureNext ==
  \/ /\ Cardinality(DOMAIN published) < scenario.reports
     /\ P!Reporting(scenario.modes, scenario.outcomes, scenario.results)
  \/ P!Elsewhere
  \/ scenario.views /\ P!Pages

(* Without the pages only the days between reports matter: the first comes  *)
(* on the first day. Where the machine moves, the first of two reports is   *)
(* from before. A filled cache of the dashboard stays as it is.             *)
PostureWithin ==
  LET n == Cardinality(DOMAIN published') IN
    /\ day' <= scenario.time /\ (day' = day \/ n > 0 \/ scenario.views)
    /\ n > Cardinality(DOMAIN published) => PublishedWithin(published'[n])
    /\ scenario.moves /\ n = 2 => published'[1].of \in {P!Unbound, P!Unreadable}
    /\ scenario.moves /\ binding' # Nil => binding'.generation <= 2
    /\ ~ scenario.moves => /\ hidden' = {} /\ explicit' = explicit
                           /\ binding' # Nil /\ binding'.generation = 1 /\ binding'.asset = "m1"
    /\ ~ scenario.views => \A r \in DOMAIN published' : ~ published'[r].annotated
    /\ summaryCache # Nil => correlationCache' = correlationCache /\ summaryCache' = summaryCache

(* Answers that are late or lost; a session that ends and begins again.     *)
ConsoleScenarios == { [name |-> "answers", leaves |-> FALSE, answers |-> 2],
                      [name |-> "sessions", leaves |-> TRUE, answers |-> 1] }

ConsoleWithin ==
  /\ ~ scenario.leaves => session' /\ path' = "app"
  /\ scenario.leaves => ~ equal'
  /\ revision' <= scenario.answers

(* One launch of every kind while operators edit; two that meet while the   *)
(* machines swap.                                                           *)
RunScenarios == { [name |-> "one", launches |-> {"r1"}], [name |-> "two", launches |-> {"r1", "r2"}] }

Probing == \E r \in {"r1", "r2"} : run[r].step = "probing"

RunWithin ==
  /\ \E r \in scenario.launches : run[r].step # "over"
  /\ \A r \in {"r1", "r2"} \ scenario.launches : run'[r] = R!Asleep
  /\ scenario.name = "one" /\ run["r1"] = R!Asleep => answers' = answers
  /\ scenario.name = "two" =>
       /\ listed' = listed /\ (answers' # answers => Probing)
       /\ \A r \in {"r1", "r2"} : run'[r].step \in {"probing", "executing"} => run'[r].kind = "audit"

RunInit ==
  /\ R!Init
  /\ trusted = [x \in {"x", "y"} |-> {"m1", "m2"}]
  /\ listed["w1"] = "x" /\ (onDemand = {} \/ (part = "runs" /\ scenario.name = "one"))
  /\ part # "runs" => listed["w2"] = Nil /\ answers = [x \in {"x", "y"} |-> "m1"]

(* One page that edits freely; two that meet over one connection.           *)
OnboardingScenarios == { [name |-> "edit", pages |-> {"p1"}, addresses |-> {"x", "root@y"}],
                         [name |-> "meet", pages |-> {"p1", "p2"}, addresses |-> {"x"}] }

OnboardingWithin ==
  \A p \in {"p1", "p2"} :
    /\ p \notin scenario.pages => hostForm'[p] = W!Blank
    /\ hostForm'[p].address \in scenario.addresses \cup {Nil}

(* Two requests and two forms for one transaction; one of each for two.     *)
SagaScenarios == { [name |-> "requests", txns |-> {1}, requests |-> {"r1", "r2"}, pages |-> {"p1"}],
                   [name |-> "pages", txns |-> {1}, requests |-> {"r1"}, pages |-> {"p1", "p2"}],
                   [name |-> "two", txns |-> {1, 2}, requests |-> {"r1"}, pages |-> {"p1"}] }

SagaWithin ==
  /\ \A t \in {1, 2} \ scenario.txns : sagaRow'[t] = S!NoRow
  /\ \A r \in {"r1", "r2"} \ scenario.requests : sagaRequest'[r] = S!Asleep
  /\ \A p \in {"p1", "p2"} \ scenario.pages : recoveryForm'[p] = Nil

ExploredInit ==
  /\ Init
  /\ \/ part = "reports" /\ ScenarioInit
     \/ part = "access"  /\ scenario = [name |-> "access"] /\ used = {}
     \/ part = "cve"     /\ scenario \in CveScenarios /\ used = {}
     \/ part = "tracker" /\ scenario \in TrackerScenarios /\ used = {}
     \/ part = "posture" /\ scenario \in PostureScenarios /\ used = {}
     \/ part = "console" /\ scenario \in ConsoleScenarios /\ used = {}
     \/ part = "runs"    /\ scenario \in RunScenarios /\ used = {}
     \/ part = "onboarding" /\ scenario \in OnboardingScenarios /\ used = {}
     \/ part = "saga"    /\ scenario \in SagaScenarios /\ used = {}
     \/ part = "inventory" /\ scenario = [name |-> "inventory"] /\ used = {}
     \/ part = "verdicts" /\ scenario \in VerdictScenarios /\ used = {}
     \/ part = "playbooks" /\ scenario = [name |-> "playbooks"] /\ used = {}
     \/ part = "scap"    /\ scenario \in ScapScenarios /\ used = {}
     \/ part = "changes" /\ scenario = [name |-> "changes"] /\ used = {}
  /\ H!Init /\ (part = "access" \/ \A s \in DOMAIN known : known[s] = {})
  /\ C!Init
  /\ T!Init /\ (IF part = "tracker" THEN selected \in scenario.digests \cup {Nil} ELSE selected = Nil)
  /\ P!Init /\ (part # "posture" => published = <<>> /\ explicit = Nil)
  /\ (part = "posture" /\ ~ scenario.moves => published = <<>> /\ explicit = "c1")
  /\ A!Init
  /\ RunInit
  /\ W!Init /\ (part # "onboarding" => hostRows["w1"] = Nil)
  /\ (part = "onboarding" /\ hostRows["w1"] # Nil => hostRows["w1"].address \in scenario.addresses)
  /\ S!Init
  /\ IF part = "inventory" THEN I!Init ELSE text = <<>>
  /\ IF part = "verdicts" THEN V!Init /\ (subject.gaps => scenario.name = "coverage")
     ELSE subject = Nil /\ reply = Nil /\ assessment = Nil
  /\ B!Init
  /\ IF part = "scap" THEN O!Init /\ ScapSettings
     ELSE /\ environment = Nil /\ members = Nil /\ policies = Nil /\ exceptions = Nil /\ minute = Nil /\ settled = Nil
          /\ scap = Nil /\ scapReports = Nil /\ chosen = Nil /\ asked = Nil /\ preparation = Nil
  /\ IF part = "changes" THEN G!Init
     ELSE /\ way = Nil /\ changeRow = Nil /\ firewall = Nil /\ denied = Nil /\ bar = Nil /\ change = Nil /\ events = Nil

ExploredNext ==
  /\ UNCHANGED <<part, scenario>>
  /\ \/ part = "reports" /\ Next /\ Within /\ UNCHANGED butReports
     \/ part = "access" /\ H!Next
        /\ UNCHANGED butAccess
     \/ part = "cve" /\ C!Next /\ CveWithin
        /\ UNCHANGED butCve
     \/ part = "tracker" /\ T!Next /\ TrackerWithin
        /\ UNCHANGED butTracker
     \/ part = "posture" /\ PostureNext /\ PostureWithin
        /\ UNCHANGED butPosture
     \/ part = "console" /\ A!Next /\ ConsoleWithin
        /\ UNCHANGED butConsole
     \/ part = "runs" /\ R!Next /\ RunWithin
        /\ UNCHANGED butRuns
     \/ part = "onboarding" /\ W!Next /\ OnboardingWithin
        /\ UNCHANGED butOnboarding
     \/ part = "saga" /\ S!Next /\ SagaWithin
        /\ UNCHANGED butSaga
     \/ part = "inventory" /\ I!Next
        /\ UNCHANGED butInventory
     \/ part = "verdicts" /\ VerdictNext
        /\ UNCHANGED butVerdicts
     \/ part = "playbooks" /\ B!Next
        /\ UNCHANGED butPlaybooks
     \/ part = "scap" /\ (IF scenario.name = "page" THEN O!Page ELSE (O!Settings \/ O!Audits) /\ ScapWithin)
        /\ UNCHANGED butScap
     \/ part = "changes" /\ G!Next
        /\ UNCHANGED butChanges

ExploredSpec == ExploredInit /\ [][ExploredNext]_<<part, scenario, vars, butReports>>
=============================================================================
