\* An Administrator's own request, approved after their role was revoked: the one Administrator counted is another.
CONSTANTS
  ada = ada  ben = ben  sue = sue  tom = tom  m1 = m1  m2 = m2  r1 = r1  r2 = r2  t1 = t1  t2 = t2
  None = None
  Students = {sue}
  Memberships = {m1}
  StudentOf <- JustSue
  LastDay = 1
  MaxRosterMoves = 0
  EndLag = 0
  Persons = {ada, ben}
  Assigned <- AdaTeaches
  InstructionalDays = {1}
  Window = 0
  Statuses = {"present", "pending_review"}
  Present = "present"
  AbsentPendingReview = "pending_review"
  Requests = {r1}
  Txns = {t1, t2}
  FirstAdmins = {ada, ben}
  MaxAdminMoves = 1
SPECIFICATION Spec
PROPERTIES SelfApprovalBySoleAdministrator
