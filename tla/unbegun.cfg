\* A Roster membership moved to begin later, after a session has captured it.
CONSTANTS
  ada = ada  ben = ben  sue = sue  tom = tom  m1 = m1  m2 = m2  r1 = r1  r2 = r2  t1 = t1  t2 = t2
  None = None
  Students = {sue}
  Memberships = {m1, m2}
  StudentOf <- SueTwice
  LastDay = 2
  MaxRosterMoves = 2
  EndLag = 1
  Persons = {ada}
  Assigned <- AdaAlone
  InstructionalDays = {1,2}
  Window = 0
  Statuses = {"present", "pending_review"}
  Present = "present"
  AbsentPendingReview = "pending_review"
  Requests = {r1}
  Txns = {t1}
  FirstAdmins = {ada}
  MaxAdminMoves = 1
SPECIFICATION Spec
INVARIANTS NotBegunHoldsNothing
