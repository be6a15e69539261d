SPECIFICATION Spec
CONSTANTS
  Txn = {t1, t2}
  Helper = {h1}
  Admin = Admin
  None = None
  Partial = Partial
  Edits = FALSE
  TornOwner = FALSE
  MaxMishaps = 1
PROPERTIES
  NewTransactionWaits
