SPECIFICATION Spec
CONSTANTS
  Txn = {t1, t2}
  Helper = {h1, h2}
  Admin = Admin
  None = None
  Partial = Partial
  Edits = TRUE
  TornOwner = TRUE
  MaxMishaps = 2
SYMMETRY Symmetry
INVARIANTS
  TypeOK
  ConfigurationKept
  MarkerKept
  SettledAgree
PROPERTIES
  ChangesDoNotOverlap
  DefiniteMeansQuiet
  RollbackRestores
  ImplementsSaveRestore
