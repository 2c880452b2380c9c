SPECIFICATION Spec
SYMMETRY Alike
CONSTANTS
  sara = sara
  farid = farid
  gil = gil
  r1 = r1
  r2 = r2
  r3 = r3
  None = None
  Students <- OneStudent
  Faculty <- OneFaculty
  Guardians <- OneGuardian
  Requests <- TwoRequests
  Kinds <- OfRosters
  FirstDates <- AllDates
  LastDates <- SomeLasts
  TermEnds <- EarlyEnds
  MemberStarts <- SomeStarts
  MemberEnds <- SomeEnds
  Profiles <- SomeProfiles
  LastDay = 4
  MaxTime = 1
INVARIANTS InsideItsTerm
CHECK_DEADLOCK FALSE
