\* A choice kept over a newer listing, and saved.
SPECIFICATION Spec
CONSTANTS
  None = None
  monday = monday
  tuesday = tuesday
  sam = sam
  present = present
  absent = absent
  Kinds = {"attendance", "results"}
  Dates = {monday, tuesday}
  Students = {sam}
  Statuses = {present}
  Present = present
  MaxTasks = 4
  MaxOthers = 1
  MaxFailures = 1
INVARIANTS SavesWhatWasSeen
CHECK_DEADLOCK FALSE
