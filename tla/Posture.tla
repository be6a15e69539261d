------------------------------- MODULE Posture -------------------------------
(* What the pages say about one host: the latest applicable reports of its  *)
(* present machine, what an earlier report found and the later ones did not *)
(* look at, and the counters of the dashboard. Both computations are        *)
(* cached; reports, bindings and the clock change under the caches.         *)
EXTENDS Integers, FiniteSets

CONSTANTS
  Check,      \* rules, ports, packages: what a finding is about
  Asset,      \* machines
  Connection, \* addresses with their accounts
  MaxAge,     \* oldest observation that counts as fresh
  MaxTime,    \* bound of the clock
  MaxReports, \* bound of the number of reports
  Nil

PostureAssumption ==
  /\ MaxAge \in Nat /\ MaxTime \in Nat \ {0} /\ MaxReports \in Nat \ {0} /\ IsFiniteSet(Check)
  /\ Nil \notin Connection \cup [asset : Asset, generation : 1 .. MaxTime, connection : Connection]

VARIABLES
  now,
  reports,    \* the reports that name the host, by number
  archived,   \* those that are archived or deleted
  binding,    \* the asset binding of its alias
  explicit,   \* the connection its inventory row gives; Nil when it cannot be
              \* resolved
  correlationCache,
  summaryCache

vars == <<now, reports, archived, binding, explicit, correlationCache, summaryCache>>

Time == 1 .. MaxTime
Id == 1 .. MaxReports

(* The scopes of a mode; Nil is a scope that the report does not tell.      *)
Scopes == [openscap |-> {"profile", "other profile", Nil},
           nmap |-> {"top_100", "top_1000", "full_tcp", Nil},
           agentless |-> {"basic"}, facts |-> {"basic"}]
Mode == DOMAIN Scopes

NotAudits == {"facts"}
Kinds == {"openscap", "nmap"}       \* of which a host has one scope at a time

Unbound == [status |-> "none"]
Unreadable == [status |-> "invalid"]
Verified(a) == [status |-> "verified", asset |-> a]
Unverified(g, c) == [status |-> "unknown", generation |-> g, connection |-> c]

Outcome == {"complete", "partial", "unavailable"}
Result == {"failed", "manual", "passed", "absent"}

(* An open port is reported for manual review, never as a failure.          *)
Results == [openscap |-> Result, nmap |-> Result \ {"failed"}, agentless |-> Result, facts |-> Result]

Report ==
  [mode : Mode, scope : UNION {Scopes[m] : m \in Mode}, time : 0 .. MaxTime + 1,
   outcome : Outcome,
   found : [Check -> Result],
   info : SUBSET Check,             \* whose findings have no risk beyond "info"
   of : {Unbound, Unreadable} \cup {Verified(a) : a \in Asset}
        \cup {Unverified(g, c) : g \in 0 .. MaxTime, c \in Connection},
   annotated : BOOLEAN]

TypeOK ==
  /\ now \in Time
  /\ DOMAIN reports = 1 .. Cardinality(DOMAIN reports) /\ DOMAIN reports \subseteq Id
  /\ \A r \in DOMAIN reports : reports[r] \in Report
  /\ archived \subseteq DOMAIN reports
  /\ binding = Nil \/ binding \in [asset : Asset, generation : 1 .. MaxTime, connection : Connection]
  /\ explicit \in Connection \cup {Nil}

-----------------------------------------------------------------------------
(* A report and its place among the others                                  *)

ModeOf(r) == reports[r].mode
Evaluable(r) == ModeOf(r) \notin NotAudits

(* A date that is missing or still to come outranks nothing.                *)
At(r) == IF reports[r].time <= now THEN reports[r].time ELSE 0
Valid(r) == At(r) > 0
Recent(r) == At(r) >= now - MaxAge
Fresh(r) == Valid(r) /\ Recent(r)

ScopeKnown(r) == reports[r].scope # Nil
Partial(r) == reports[r].outcome # "complete" \/ ~ ScopeKnown(r) \/ reports[r].of = Unreadable
Available(r) == reports[r].outcome # "unavailable"

(* Evidence of different machines, profiles or port sets is never compared. *)
Evidence(of) == IF of = Unreadable THEN Unbound ELSE of
Key(r) == [of |-> Evidence(reports[r].of), mode |-> ModeOf(r), scope |-> reports[r].scope,
           id |-> IF ScopeKnown(r) THEN 0 ELSE r]

Listed == DOMAIN reports \ archived

(* Listed reports are sorted by time.                                       *)
Before(r, s) == At(r) > At(s) \/ (At(r) = At(s) /\ r < s)
First(S) == CHOOSE r \in S : \A s \in S \ {r} : Before(r, s)
FirstOfEach(S) == {r \in S : \A s \in S \ {r} : Key(s) = Key(r) => Before(r, s)}

-----------------------------------------------------------------------------
(* Whose evidence it is                                                     *)

ConnectionChanged == binding # Nil /\ explicit # binding.connection

IdentityMatches(r) ==
  LET of == reports[r].of IN
    /\ of.status # "invalid"
    /\ IF binding = Nil THEN of.status = "unknown" => of.connection = explicit
       ELSE \/ of.status = "verified" /\ ~ ConnectionChanged /\ of.asset = binding.asset
            \/ of.status = "unknown" /\ of.generation = binding.generation /\ of.connection = explicit

Matching == {r \in Listed : IdentityMatches(r)}
LatestByKind == FirstOfEach(Matching)
Excluded == FirstOfEach(Listed \ Matching)

-----------------------------------------------------------------------------
(* Coverage                                                                 *)

OfMode(m) == {r \in Matching : ModeOf(r) = m}
Current(r) == ModeOf(r) \in Kinds => r = First(OfMode(ModeOf(r)))

EvaluatedRules(r) == {c \in Check : reports[r].found[c] \in {"passed", "failed"}}
Open(r) == {c \in Check : reports[r].found[c] \in {"failed", "manual"}}

(* Mutant: more ports always include fewer.                                 *)
PortSetsNested(new, old) == Nil \notin {new, old} /\ (new # "top_100" \/ new = old)

(* The list of the top ports changes from one nmap to the next: of those    *)
(* sets, each is known to contain only itself.                              *)
NmapScopeIncludes(new, old) == Nil \notin {new, old} /\ (new = "full_tcp" \/ new = old)

LostBy(r, by, reason, checks) == [report |-> r, by |-> by, key |-> Key(r), reason |-> reason, checks |-> checks]

LostProfiles(by) ==
  { LostBy(r, by, IF ScopeKnown(r) /\ ScopeKnown(by) THEN "scope_changed" ELSE "scope_unknown", {}) :
      r \in {r \in LatestByKind \ {by} : ModeOf(r) = "openscap" /\ Valid(r)} }

LostRules(by) ==
  IF ~ ScopeKnown(by) THEN {}
  ELSE { LostBy(r, by, "rules_missing", EvaluatedRules(r) \ EvaluatedRules(by)) :
           r \in {r \in Matching \ {by} : /\ Key(r) = Key(by) /\ Fresh(r)
                                          /\ EvaluatedRules(r) \ EvaluatedRules(by) # {}} }

LostPorts(by) ==
  { LostBy(r, by,
           IF ~ ScopeKnown(r) \/ ~ ScopeKnown(by) THEN "scope_unknown"
           ELSE IF Partial(by) THEN "ports_unverified"
           ELSE IF reports[r].scope = "top_100" /\ reports[by].scope = "top_1000" THEN "port_set_unknown"
           ELSE "ports_not_checked",
           Open(r)) :
      r \in {r \in LatestByKind \ {by} :
               /\ ModeOf(r) = "nmap" /\ Valid(r)
               /\ ~ (~ Partial(by) /\ NmapScopeIncludes(reports[by].scope, reports[r].scope))} }

LostCoverage ==
  (UNION { LostProfiles(by) \cup LostRules(by) : by \in {r \in OfMode("openscap") : Current(r)} })
  \cup (UNION { LostPorts(by) : by \in {r \in OfMode("nmap") : Current(r)} })

(* Mutant: gaps do not make the row of the newest report partial.           *)
PartialAlone(r, lost) == Partial(r) \/ ~ Current(r)

PartialRow(r, lost) ==
  \/ Partial(r) \/ ~ Current(r)
  \/ \E l \in lost : l.by = r /\ (l.reason = "rules_missing" \/ ModeOf(r) = "nmap")

Row(r, lost) ==
  [report |-> r, fresh |-> Current(r) /\ Fresh(r), partial |-> PartialRow(r, lost), available |-> Available(r),
   audit |-> Current(r) /\ Evaluable(r), current |-> Current(r), excluded |-> FALSE]

ExcludedRow(r) ==
  [report |-> r, fresh |-> FALSE, partial |-> TRUE, available |-> Available(r), audit |-> FALSE,
   current |-> FALSE, excluded |-> TRUE]

(* A complete scan of all ports leaves no gap behind it.                    *)
Shows(r, lost) == ModeOf(r) = "nmap" => Current(r) \/ \E l \in lost : l.report = r

CorrelationNow ==
  LET lost == LostCoverage
      rows == {Row(r, lost) : r \in {r \in LatestByKind : Shows(r, lost)}}
      used == {r \in LatestByKind : Current(r) /\ Fresh(r) /\ Evaluable(r)}
  IN [coverage |-> rows \cup {ExcludedRow(r) : r \in Excluded},
      lost |-> lost,
      findings |-> UNION { {[report |-> r, check |-> c, status |-> reports[r].found[c],
                             info |-> c \in reports[r].info,
                             annotated |-> reports[r].annotated] : c \in Open(r)} : r \in used }]

-----------------------------------------------------------------------------
(* The caches                                                               *)

File(r) == <<r, reports[r].annotated>>

(* Mutant: only what the files say.                                         *)
FileSignature ==
  [binding |-> binding, connection |-> explicit,
   files |-> {<<File(r), Valid(r)>> : r \in Listed}]

CorrelationSignature ==
  [binding |-> binding, connection |-> explicit,
   files |-> {<<File(r), Valid(r), Recent(r)>> : r \in Listed}]

BuildHostCorrelation ==
  IF correlationCache # Nil /\ correlationCache.signature = CorrelationSignature
  THEN correlationCache.result ELSE CorrelationNow

RiskSignature ==
  [binding |-> binding, explicit |-> explicit,
   files |-> {<<File(r), Valid(r), Recent(r)>> : r \in {r \in Listed : Evaluable(r)}}]

Latest(S) == IF S = {} THEN 0 ELSE CHOOSE t \in S : \A u \in S : u <= t
Count(S) == Cardinality(S)

(* The findings of one machine about one thing are one.                     *)
Groups(findings) == {<<Evidence(reports[f.report].of), ModeOf(f.report), f.check>> : f \in findings}

(* `observed` is the sum of all bands but "info".                           *)
SummaryOf(correlation) ==
  LET audits == {row \in correlation.coverage : row.audit} IN
    [total |-> Count(Groups(correlation.findings)),
     observed |-> Count(Groups({f \in correlation.findings : ~ f.info})),
     auditCount |-> Count(audits),
     freshCount |-> Count({row \in audits : row.fresh /\ row.available}),
     partialCount |-> Count({row \in audits : row.partial \/ ~ row.available}),
     staleCount |-> Count({row \in audits : ~ row.fresh}),
     identityExcludedCount |-> Count({row \in correlation.coverage : row.excluded}),
     lastSecurityAuditAt |-> Latest({At(row.report) : row \in {row \in audits : row.available}})]

(* The hour at which the first of its fresh reports ceases to be fresh.     *)
ExpiresAt(correlation) ==
  {reports[row.report].time + MaxAge : row \in {row \in correlation.coverage : row.audit /\ row.fresh}}

SummaryCached ==
  /\ summaryCache # Nil /\ summaryCache.signature = RiskSignature
  /\ \A t \in summaryCache.expires : now < t

BuildHostRiskSummary == IF SummaryCached THEN summaryCache.summary ELSE SummaryOf(BuildHostCorrelation)

-----------------------------------------------------------------------------
(* The dashboard and the next step it proposes                              *)

Contradictory(s) ==
  \/ s.freshCount + s.staleCount > s.auditCount \/ s.partialCount > s.auditCount
  \/ s.freshCount < s.auditCount /\ s.partialCount = 0 /\ s.staleCount = 0

EvidenceState(s) ==
  IF Contradictory(s) THEN "contradictory"
  ELSE IF s.identityExcludedCount > 0 /\ s.freshCount = 0 THEN "needs_review"
  ELSE IF s.auditCount = 0 THEN "no_audit"
  ELSE IF s.freshCount = 0 THEN "stale"
  ELSE IF s.partialCount + s.staleCount + s.identityExcludedCount > 0 THEN "needs_review"
  ELSE "has_fresh_evidence"

NextStep(s) ==
  IF s.auditCount = 0 /\ s.identityExcludedCount > 0 THEN "identity"
  ELSE IF EvidenceState(s) = "no_audit" THEN "first_audit"
  ELSE IF EvidenceState(s) = "stale" THEN "repeat"
  ELSE IF EvidenceState(s) \in {"needs_review", "contradictory"} THEN "coverage"
  ELSE IF s.observed > 0 THEN "triage" ELSE "report"

-----------------------------------------------------------------------------
(* What changes                                                             *)

(* A run stores a report under the verified machine or, of a scan without   *)
(* a login, under the generation and the connection; an import may be older *)
(* than its publication, or bear a date of a clock that is ahead.           *)
OfRun(mode) ==
  IF explicit = Nil THEN {}
  ELSE IF mode = "nmap" THEN {Unverified(IF binding = Nil THEN 0 ELSE binding.generation, explicit)}
  ELSE IF binding = Nil \/ ConnectionChanged THEN {} ELSE {Verified(binding.asset)}

(* The tool says what risk a finding has; a rule that OpenSCAP could not    *)
(* decide has none.                                                         *)
Bands(mode, found) ==
  {info \in SUBSET {c \in Check : found[c] \in {"failed", "manual"}} :
     mode = "openscap" => {c \in Check : found[c] = "manual"} \subseteq info}

Publish(mode, scope, time, outcome, found, info, of) ==
  /\ reports' = [r \in DOMAIN reports \cup {Cardinality(DOMAIN reports) + 1} |->
                   IF r \in DOMAIN reports THEN reports[r]
                   ELSE [mode |-> mode, scope |-> scope, time |-> time, outcome |-> outcome,
                         found |-> found, info |-> info, of |-> of, annotated |-> FALSE]]
  /\ UNCHANGED <<now, archived, binding, explicit, correlationCache, summaryCache>>

(* The accepted exceptions are written into an OpenSCAP report; its results *)
(* and risks stay.                                                          *)
ApplyOpenScapExceptions(r) ==
  /\ ModeOf(r) = "openscap" /\ ~ reports[r].annotated
  /\ reports' = [reports EXCEPT ![r].annotated = TRUE]
  /\ UNCHANGED <<now, archived, binding, explicit, correlationCache, summaryCache>>

Archive(r) ==
  /\ archived' = IF r \in archived THEN archived \ {r} ELSE archived \cup {r}
  /\ UNCHANGED <<now, reports, binding, explicit, correlationCache, summaryCache>>

(* An observation over SSH binds the alias to the machine that answered.    *)
RecordObservation(a) ==
  /\ explicit # Nil
  /\ binding # Nil => /\ binding.generation < MaxTime
                      /\ <<binding.asset, binding.connection>> # <<a, explicit>>
  /\ binding' = [asset |-> a, generation |-> IF binding = Nil THEN 1 ELSE binding.generation + 1,
                 connection |-> explicit]
  /\ UNCHANGED <<now, reports, archived, explicit, correlationCache, summaryCache>>

EditInventory(c) ==
  /\ explicit' = c
  /\ UNCHANGED <<now, reports, archived, binding, correlationCache, summaryCache>>

(* A result is kept while it is small and no other host displaces it.       *)
OpenCorrelation ==
  /\ correlationCache' = [signature |-> CorrelationSignature, result |-> BuildHostCorrelation]
  /\ UNCHANGED <<now, reports, archived, binding, explicit, summaryCache>>

OpenHosts ==
  /\ ~ SummaryCached
  /\ LET result == BuildHostCorrelation IN
       /\ correlationCache' = [signature |-> CorrelationSignature, result |-> result]
       /\ summaryCache' = [signature |-> RiskSignature, summary |-> SummaryOf(result), expires |-> ExpiresAt(result)]
  /\ UNCHANGED <<now, reports, archived, binding, explicit>>

Displace ==
  /\ correlationCache' = Nil
  /\ UNCHANGED <<now, reports, archived, binding, explicit, summaryCache>>

Tick ==
  /\ now < MaxTime /\ now' = now + 1
  /\ UNCHANGED <<reports, archived, binding, explicit, correlationCache, summaryCache>>

-----------------------------------------------------------------------------
(* Specification                                                            *)

(* At first there may be reports from before bindings existed.              *)
Old(mode, of) == [mode |-> mode, scope |-> "basic", time |-> 1, outcome |-> "complete",
                  found |-> [c \in Check |-> "failed"], info |-> {}, of |-> of, annotated |-> FALSE]

Init ==
  /\ now = 1 /\ archived = {}
  /\ binding = Nil /\ explicit \in Connection \cup {Nil}
  /\ reports \in {<<>>} \cup {<<Old(m, of)>> : m \in {"agentless", "facts"}, of \in {Unbound, Unreadable}}
  /\ correlationCache = Nil /\ summaryCache = Nil

Reporting(modes, outcomes, results) ==
  /\ Cardinality(DOMAIN reports) < MaxReports
  /\ \E mode \in modes : \E scope \in Scopes[mode], time \in 0 .. now + 1, outcome \in outcomes,
        found \in [Check -> results \cap Results[mode]], of \in OfRun(mode) :
          \E info \in Bands(mode, found) : Publish(mode, scope, time, outcome, found, info, of)

Elsewhere ==
  \/ \E r \in DOMAIN reports : ApplyOpenScapExceptions(r) \/ Archive(r)
  \/ \E a \in Asset : RecordObservation(a)
  \/ \E c \in Connection \cup {Nil} : EditInventory(c)
  \/ Tick

Pages == OpenCorrelation \/ OpenHosts \/ Displace

Next == Reporting(Mode, Outcome, Result) \/ Elsewhere \/ Pages

Spec == Init /\ [][Next]_vars

-----------------------------------------------------------------------------
(* Properties                                                               *)

Applicable == {r \in Matching : Fresh(r) /\ Evaluable(r)}

(* What a report holds against the machine: a failed check, an open port.   *)
Failed(r) == {c \in Check : reports[r].found[c] = "failed" \/ (ModeOf(r) = "nmap" /\ reports[r].found[c] = "manual")}

(* A later look at the same thing: at a rule of the same profile, at the    *)
(* same ports in full, at the same checks.                                  *)
LookedAgain(r, c) ==
  \E s \in Matching \ {r} :
    /\ Before(s, r) /\ ModeOf(s) = ModeOf(r) /\ Evidence(reports[s].of) = Evidence(reports[r].of)
    /\ CASE ModeOf(r) = "openscap" -> Key(s) = Key(r) /\ c \in EvaluatedRules(s)
         [] ModeOf(r) = "nmap" -> ~ Partial(s) /\ reports[s].scope \in {"full_tcp", reports[r].scope}
         [] OTHER -> ~ Partial(s)

(* A recent failure on the present machine never just vanishes from the  *)
(* summary: it is listed; or a later report looked at the same thing; or    *)
(* the row of a later, incomplete report says so; or the lost coverage      *)
(* names it, or its scope: lost as a whole, or not looked at to the end     *)
(* (audit-correlation.ts:179-306).                                          *)
FindingsAccounted ==
  LET view == CorrelationNow IN
    \A r \in Applicable : \A c \in Failed(r) :
      \/ \E f \in view.findings : f.check = c /\ f.report = r
      \/ LookedAgain(r, c)
      \/ \E row \in view.coverage : /\ row.partial /\ row.audit /\ Key(row.report) = Key(r)
                                    /\ row.report # r
      \/ \E l \in view.lost : l.key = Key(r) /\ (l.checks = {} \/ c \in l.checks \/ Partial(l.report))

(* When the dashboard proposes nothing but to read the report, every recent *)
(* finding was looked at again, or belongs to a profile that the host no    *)
(* longer has, or has no risk beyond "info": those the code does not count, *)
(* although they may be failed rules whose severity nobody stated. And its  *)
(* counters never contradict one another (host-audit-workflow.ts:86-102,    *)
(* dashboard-evidence-status.ts:54-57).                                     *)
CalmIsEarned ==
  LET s == SummaryOf(CorrelationNow) IN
    /\ ~ Contradictory(s)
    /\ NextStep(s) = "report" =>
         \A r \in Applicable : \A c \in Failed(r) \ reports[r].info :
           \/ LookedAgain(r, c)
           \/ ModeOf(r) = "openscap" /\ Key(r) # Key(First(OfMode("openscap")))

(* What a page takes from its cache is what it would compute now, but for   *)
(* the count of excluded reports (host-risk-summary.ts:26-31,               *)
(* audit-correlation.ts:165-171).                                           *)
Compared(s) == [s EXCEPT !.identityExcludedCount = 0]

PagesAreCurrent ==
  correlationCache # Nil \/ summaryCache # Nil =>
    /\ BuildHostCorrelation = CorrelationNow
    /\ Compared(BuildHostRiskSummary) = Compared(SummaryOf(CorrelationNow))
=============================================================================
