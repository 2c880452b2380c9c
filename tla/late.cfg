\* A redemption carried out after its Invitation expired, beside another Invitation of the same Person.
SPECIFICATION Spec
SYMMETRY Alike
CONSTANTS
  amira = amira
  bruno = bruno
  ann = ann
  bob = bob
  r1 = r1
  r2 = r2
  r3 = r3
  None = None
  Persons <- TwoPersons
  Accounts <- TwoAccounts
  Requests <- ThreeRequests
  Life = 1
  MaxTime = 2
  SlowStatements = TRUE
INVARIANTS RedeemedAttaches
CHECK_DEADLOCK FALSE
