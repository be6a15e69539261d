SPECIFICATION FairSpec
CONSTANTS
  Txn = {t1}
  Helper = {h1, h2}
  Admin = Admin
  None = None
  Partial = Partial
  Edits = FALSE
  TornOwner = FALSE
  MaxMishaps = 3
PROPERTIES
  RollbackResumes
