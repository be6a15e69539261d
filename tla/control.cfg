SPECIFICATION ExploredSpec
CONSTANTS
  a1 = a1  a2 = a2  p1 = p1  p2 = p2  v1 = v1  v2 = v2  v3 = v3  g1 = g1  q1 = q1  q2 = q2
  Audit = {a1, a2}
  Packages = {p1, p2}
  Cve = {v1, v2, v3}
  Item = {i1}
  Export = {g1}
  Request = {q1, q2}
  Shared = {v2, v3}
  Nil = Nil
  MaxTime = 7
  MaxUploads = 2
  Host = {"web"}
  Server = {"10.0.0.1:22"}
  Location <- Servers
  AccessKey = {"k1", "k2"}
  ServerKey = {"x1", "x2"}
  AccessRequest = {"r1", "r2"}
  Stale = "stale"
  CveRequest = {"r1", "r2"}
  Publication = {1, 2}
  Record = {"own", "key", "other"}
  KeyRecord = {"key"}
  ForeignRecord = {"other"}
  Vulnerable <- KnownVulnerable
  Registries = 2
  Digest = {"d1", "d2"}
  Session = {"s1", "s2"}
  SnapshotAge = 1
  LastHour = 3
  Check = {"check", "other"}
  Asset = {"m1", "m2"}
  HostConnection = {"c1"}
  ReportAge = 1
  LastDay = 3
  MaxReports = 3
  MaxJobs = 2
  MaxListed = 1
  MaxAnswers = 2
  Alias = {"w1", "w2"}
  Address = {"x", "y"}
  Machine = {"m1", "m2"}
  Supports <- SupportedBy
  Launch = {"r1", "r2"}
  All = "all"
  MaxGeneration = 2
  WizardAlias = {"w1"}
  WizardAddress = {"x", "root@y"}
  Root = {"root@y"}
  WizardPage = {"p1", "p2"}
  MaxTxn = 2
  SagaRequest = {"r1", "r2"}
  RecoveryPage = {"p1", "p2"}
  Transient = FALSE
  InventoryAlias = {"w1", "w2"}
  InventoryGroup = {"linux_hosts", "web"}
  InventoryAddress = {"x", "y"}
  None = "none"
  Variable = {"k"}
  Handwritten <- InventoryTexts
  MaxLength = 7
  System <- Systems
  Package <- Copies
  MaxPackages = 2
  OwnScript = {"s1", "s2"}
  Builtin = "ping"
  MaxText = 1
  MaxCalls = 2
  MaxOpens = 4
  ChangeAttempt = {"r1", "r2"}
  Own = {"o1", "o2"}
  Way <- Ways
  Standard = "22"
  Thing <- Things
  MaxEvents = 1
  FleetAlias = {"w1", "w2"}
  FleetGroup = {"web", "db"}
  Config = {"c1", "c2"}
  FleetRule = {"r1"}
  FleetMembership <- Memberships
  LastMinute = 1
  MaxEdits = 2
INVARIANTS
  ControlTypeOK
  EvidenceKept
  ConfirmedByLaterObservation
  NoStrandedAccess
  KeysMatchTheirRecords
  VerdictsAreEarned
  CleanMeansClean
  FindingsAccounted
  PagesAreCurrent
  RepeatsAreAskedFor
  FormsKeepTheirSubject
  ReportsOfTheirLaunch
  CallsAsPromised
  TargetIsRecoverable
  EditsOneHost
PROPERTIES
  DecisionsStay
  DoneAsShown
  PageKeepsUp
CHECK_DEADLOCK FALSE
