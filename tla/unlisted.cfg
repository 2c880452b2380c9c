\* An Administrator who is a Student too, and raises a Correction request.
SPECIFICATION Spec
CONSTANTS
  None = None
  Starts <- Raiser
  Profiles <- Apart
  Opened <- Places
INVARIANTS RaisersListTheirOwn
CHECK_DEADLOCK FALSE
