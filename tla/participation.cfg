SPECIFICATION Spec
SYMMETRY Alike
CONSTANTS
  sara = sara
  farid = farid
  gil = gil
  r1 = r1
  r2 = r2
  r3 = r3
  None = None
  Students <- OneStudent
  Faculty <- OneFaculty
  Guardians <- OneGuardian
  Requests <- TwoRequests
  Kinds <- All
  FirstDates <- SpreadDates
  LastDates <- SomeLasts
  TermEnds <- LateEnds
  MemberStarts <- SomeStarts
  MemberEnds <- SomeEnds
  Profiles <- SomeProfiles
  LastDay = 4
  MaxTime = 1
INVARIANTS NothingOutlivesItsGround TrailLeadsToTheRow OnlyEndingsDeadlock
PROPERTIES OutsideOnlyAsWritten
CHECK_DEADLOCK FALSE
