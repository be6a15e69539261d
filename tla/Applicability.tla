---------------------------- MODULE Applicability ----------------------------
(* What a CVE report says of a machine: from the installed packages, the     *)
(* exact distribution and what Trivy lists for one CVE, the findings, their  *)
(* verdicts and whether the report is complete. How the database got there,  *)
(* and that it did not change during the scan, is in CveScan.                *)
EXTENDS Naturals, FiniteSets

CONSTANTS
  System,     \* installed systems: what os-release says of them
  Package,    \* records of inventories
  MaxPackages, \* bound: records of an inventory
  Nil

VARIABLES
  subject,    \* the inventory: system, records, and whether its collection has gaps
  reply,      \* Trivy's answer to its SBOM
  assessment  \* the report

VerdictAssumption ==
  /\ IsFiniteSet(Package)
  /\ Nil \notin {"debian", "ubuntu", "centos", "redhat", "alpine", "wolfi", "chainguard"}

(* Collection is by family, advisories by exact distribution; those left out *)
(* are like one of these.                                                    *)
Adapter ==
  [ debian |-> [manager |-> "dpkg", feed |-> "debian"], ubuntu |-> [manager |-> "dpkg", feed |-> "ubuntu"],
    centos |-> [manager |-> "rpm", feed |-> "centos"],  rhel |-> [manager |-> "rpm", feed |-> "redhat"],
    alpine |-> [manager |-> "apk", feed |-> "alpine"],  wolfi |-> [manager |-> "apk", feed |-> "wolfi"],
    fedora |-> [manager |-> "rpm", feed |-> Nil],       astra |-> [manager |-> "dpkg", feed |-> Nil] ]

(* Who signs as maintainer or vendor of a family's packages.                 *)
Makers ==
  [debian |-> {"debian"}, ubuntu |-> {"ubuntu", "debian"}, centos |-> {"centos"}, redhat |-> {"redhat"},
   alpine |-> {"alpine"}, wolfi |-> {"wolfi", "chainguard"}]

(* The ids that the database gives the advisories of a feed.                 *)
AdvisorySources ==
  [debian |-> {"debian"}, ubuntu |-> {"ubuntu"}, centos |-> {"centos"},
   redhat |-> {"redhat", "redhat-oval", "redhat-csaf-vex"}, alpine |-> {"alpine"}, wolfi |-> {"wolfi"}]

Status == {"not_affected", "fixed", "affected", "will_not_fix", "fix_deferred", "end_of_life", "unknown"}

Ref(p) == <<p.manager, p.name, p.version, p.arch>>
IsKey(p) == p.manager = "rpm" /\ p.name = "gpg-pubkey"
Software(packages) == {p \in packages : ~ IsKey(p)}

-----------------------------------------------------------------------------
(* The distribution                                                          *)

(* Mutant: a derivative takes over its parent's feed.                        *)
InheritFeed(os) ==
  LET adapter == IF os.id \in DOMAIN Adapter THEN Adapter[os.id] ELSE Adapter[os.like]
  IN IF os.id = "centos" /\ os.stream THEN [adapter EXCEPT !.feed = Nil] ELSE adapter

Platform(os) ==
  LET adapter == IF os.id \in DOMAIN Adapter THEN Adapter[os.id]
                 ELSE IF os.like \in DOMAIN Adapter THEN [Adapter[os.like] EXCEPT !.feed = Nil]
                 ELSE [manager |-> Nil, feed |-> Nil]
  IN IF os.id = "centos" /\ os.stream THEN [adapter EXCEPT !.feed = Nil] ELSE adapter

Feed == Platform(subject.os).feed
Family == IF Feed = Nil THEN subject.os.id ELSE Feed

PackageProvenance(p) ==
  LET makers == IF Family \in DOMAIN Makers THEN Makers[Family] ELSE {} IN
    CASE p.manager = "rpm"  -> IF p.maker = Nil \/ makers = {} THEN "unknown"
                               ELSE IF p.maker \in makers THEN "maintainer" ELSE "third-party"
      [] p.manager = "apk"  -> IF p.maker \in makers THEN "maintainer" ELSE "unknown"
      [] p.manager = "dpkg" -> IF (p.origin # Nil /\ p.origin \notin makers) \/ p.maker = "vendor" THEN "third-party"
                               ELSE IF p.maker \in makers THEN "maintainer" ELSE "unknown"

AdvisorySourceMatch(id) ==
  CASE Feed = Nil -> "unsupported"
    [] Feed # Nil /\ id = Nil -> "missing"
    [] Feed # Nil /\ id # Nil -> IF id \in AdvisorySources[Feed] THEN "matched" ELSE "mismatch"

-----------------------------------------------------------------------------
(* One entry of the answer: a package, by reference or by name and version   *)

Named(e) ==
  {p \in subject.packages : IF e.ref # Nil THEN Ref(p) = e.ref ELSE p.name = e.name /\ p.version = e.version}

(* Mutant: any copy of the package vouches for the others.                   *)
AnyProvenance(e) ==
  IF Feed # Nil /\ \E p \in Named(e) : PackageProvenance(p) = "maintainer" THEN "maintainer" ELSE "unknown"

FindingProvenance(e) ==
  LET told == {PackageProvenance(p) : p \in Named(e)} IN
    IF Feed = Nil \/ told = {} THEN "unknown"
    ELSE IF "third-party" \in told THEN "third-party"
    ELSE IF told = {"maintainer"} THEN "maintainer" ELSE "unknown"

(* Mutant: the copies of a package are not told apart.                       *)
AmbiguousCandidates(e) ==
  \E p \in Software(Named(e)) : p.name = e.name /\ p.version = e.version /\ PackageProvenance(p) = "maintainer"

(* The entry is about one installed package, the distribution's own.         *)
Identified(e) ==
  /\ Cardinality(Software(Named(e))) = 1
  /\ \A p \in Software(Named(e)) : p.name = e.name /\ p.version = e.version /\ PackageProvenance(p) = "maintainer"

AssessCveApplicability(e) ==
  IF Feed # Nil /\ Identified(e) /\ AdvisorySourceMatch(reply.source) = "matched" /\ reply.fresh
  THEN CASE reply.status = "not_affected" -> "not_affected"
         [] reply.status \in {"affected", "fixed", "will_not_fix", "fix_deferred"} -> "affected"
         [] reply.status = "end_of_life" -> "under_investigation"
         [] reply.status = "unknown" -> "unknown"
  ELSE "unknown"

StatusForVendor ==
  CASE reply.status = "not_affected" -> "passed"
    [] reply.status \in {"end_of_life", "unknown"} -> "manual"
    [] reply.status \in {"fixed", "affected", "will_not_fix", "fix_deferred"} -> "failed"

TrivyFinding(e) ==
  [entry |-> e, verdict |-> AssessCveApplicability(e),
   status |-> IF FindingProvenance(e) # "maintainer" \/ AdvisorySourceMatch(reply.source) = "mismatch"
              THEN "manual" ELSE StatusForVendor]

(* Mutant: the records that Trivy never matches count as scanned packages.   *)
CountedCoverage ==
  /\ ~ subject.gaps /\ reply.detected /\ Feed # Nil
  /\ \A p \in Software(subject.packages) : PackageProvenance(p) = "maintainer"
  /\ reply.decoded # {}

(* Every package of software was looked up under the right distribution.     *)
ScanCoverage ==
  LET scanned == reply.decoded \cap {Ref(p) : p \in Software(subject.packages)} IN
    /\ ~ subject.gaps /\ reply.detected /\ Feed # Nil
    /\ \A p \in Software(subject.packages) : PackageProvenance(p) = "maintainer"
    /\ scanned # {} /\ Cardinality(scanned) = Cardinality({Ref(p) : p \in Software(subject.packages)})

-----------------------------------------------------------------------------
Init ==
  /\ subject \in [os : System, packages : {s \in SUBSET Package : Cardinality(s) \in 1 .. MaxPackages}, gaps : BOOLEAN]
  /\ \A p \in subject.packages : p.manager = Platform(subject.os).manager
  /\ reply = Nil /\ assessment = Nil

Entry(p, named) == [ref |-> IF named THEN Nil ELSE Ref(p), name |-> p.name, version |-> p.version]

(* Trivy names packages of the SBOM, all by reference or all by name; at     *)
(* worst one that is not there or that it took for another.                  *)
Entries ==
  LET software == Software(subject.packages) IN
    UNION {{ {Entry(p, named) : p \in s} : s \in SUBSET software } : named \in BOOLEAN}
    \cup { {[Entry(p, FALSE) EXCEPT !.version = "none"]} : p \in software }
    \cup { {[Entry(p, TRUE) EXCEPT !.version = "none"]} : p \in software }

Answer(about, status, source, detected, decoded, fresh) ==
  /\ reply = Nil
  /\ reply' = [about |-> about, status |-> status, source |-> source, detected |-> detected, decoded |-> decoded,
               fresh |-> fresh]
  /\ UNCHANGED <<subject, assessment>>

(* A mismatch of sources makes the report partial, too.                      *)
Assess ==
  LET findings == {TrivyFinding(e) : e \in reply.about}
      partial == ~ ScanCoverage \/ ~ reply.fresh
                 \/ (findings # {} /\ AdvisorySourceMatch(reply.source) = "mismatch")
  IN /\ reply # Nil /\ assessment = Nil
     /\ assessment' = [findings |-> findings, partial |-> partial, clean |-> findings = {} /\ ~ partial]
     /\ UNCHANGED <<subject, reply>>

Answers ==
  \E about \in Entries, status \in Status, source \in (UNION {AdvisorySources[f] : f \in DOMAIN AdvisorySources}) \cup {Nil},
     detected, fresh \in BOOLEAN, decoded \in SUBSET {Ref(p) : p \in subject.packages} :
    Answer(about, status, source, detected, decoded, fresh)

Next == Answers \/ Assess

TypeOK ==
  /\ subject.os \in System /\ subject.packages \subseteq Package /\ subject.gaps \in BOOLEAN
  /\ reply # Nil => reply.status \in Status /\ {reply.detected, reply.fresh} \subseteq BOOLEAN
  /\ assessment # Nil =>
       /\ {assessment.partial, assessment.clean} \subseteq BOOLEAN
       /\ \A f \in assessment.findings :
            /\ f.verdict \in {"not_affected", "affected", "under_investigation", "unknown"}
            /\ f.status \in {"passed", "failed", "manual"}

-----------------------------------------------------------------------------
(* Properties                                                                *)

(* The database has advisories for this very distribution.                   *)
OwnAdvisories ==
  /\ subject.os.id \in DOMAIN Adapter /\ Adapter[subject.os.id].feed # Nil
  /\ ~ (subject.os.id = "centos" /\ subject.os.stream)

(* Somebody else made it, or nobody knows who.                               *)
Foreign(p) == p.maker = Nil \/ p.maker \notin Makers[Adapter[subject.os.id].feed]

(* Finding and verdict are computed by two definitions of the packages that  *)
(* an entry is about; they never contradict each other, neither is ever      *)
(* given on advisories of another distribution or for packages of others,    *)
(* and a report without findings claims to be clean only if every package of *)
(* software was looked up in a fresh database                                *)
(* (vulnerability-scan.ts:793-807, 1005-1049, 1087-1094, 1365).              *)
VerdictsAreEarned ==
  assessment # Nil =>
    /\ \A f \in assessment.findings :
         /\ f.verdict # "unknown" =>
              f.status = [not_affected |-> "passed", affected |-> "failed", under_investigation |-> "manual"][f.verdict]
         /\ f.status # "manual" \/ f.verdict # "unknown" =>
              /\ OwnAdvisories /\ reply.source \in AdvisorySources[Adapter[subject.os.id].feed] \cup {Nil}
              /\ Named(f.entry) # {} /\ \A p \in Named(f.entry) : ~ Foreign(p)
    /\ assessment.clean =>
         /\ OwnAdvisories /\ reply.fresh /\ reply.about = {}
         /\ \A p \in Software(subject.packages) : ~ Foreign(p) /\ Ref(p) \in reply.decoded
=============================================================================
