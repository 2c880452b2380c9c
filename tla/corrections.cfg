\* One request raised and decided among saves of its session, and whether every transaction ends.
CONSTANTS
  ada = ada  ben = ben  sue = sue  tom = tom  m1 = m1  m2 = m2  r1 = r1  r2 = r2  t1 = t1  t2 = t2
  None = None
  Students = {sue}
  Memberships = {m1}
  StudentOf <- JustSue
  LastDay = 1
  MaxRosterMoves = 0
  EndLag = 0
  Persons = {ada, ben}
  Assigned <- AdaTeaches
  InstructionalDays = {1}
  Window = 0
  Statuses = {"present", "pending_review"}
  Present = "present"
  AbsentPendingReview = "pending_review"
  Requests = {r1}
  Txns = {t1, t2}
  FirstAdmins = {ben}
  MaxAdminMoves = 0
SPECIFICATION FairSpec
INVARIANTS AuditLeadsToTheMark
PROPERTIES ApprovalAppliesItsChange ImplementsLedger SavedOverLoaded EveryTransactionEnds
