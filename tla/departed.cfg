\* A listing of the date left, answered after that of the date moved to.
SPECIFICATION Spec
CONSTANTS
  None = None
  monday = monday
  tuesday = tuesday
  sam = sam
  present = present
  absent = absent
  Kinds = {"attendance", "results"}
  Dates = {monday, tuesday}
  Students = {sam}
  Statuses = {present}
  Present = present
  MaxTasks = 4
  MaxOthers = 1
  MaxFailures = 1
INVARIANTS ShownIsAsked
CHECK_DEADLOCK FALSE
