SPECIFICATION Spec
CONSTANTS
  a1 = a1  a2 = a2  y1 = y1  y2 = y2  c = c  None = None
  Administrators <- TwoAdministrators
  Years <- TwoYears
  Courses <- OneCourse
  Timezones <- TwoTimezones
  Situations <- ThreeSituations
  LastDate = 3
  MaxTerms = 4
  MaxRequests = 2
  MaxEdits = 2
SYMMETRY Interchangeable
INVARIANTS EveryDateInOneTerm OnlyNamedConflicts OnlyOverlapsDeadlock JoinedTermsCover
CHECK_DEADLOCK FALSE
