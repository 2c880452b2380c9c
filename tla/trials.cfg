SPECIFICATION Spec
CONSTANTS
  b1 = b1  b2 = b2  v1 = v1  v2 = v2  g = g
  None = None  Start = Start  Busy = Busy
  Browsers <- TwoBrowsers
  Visitors <- TwoVisitors
  Guests = {g}
  ROLES <- TwoRoles
  Caps = {1, 2}
  TRIAL_LIFETIME = 1
  SESSION_LIFETIME = 3
  FLOW_LIFETIME = 1
  MaxTime = 2
  MaxSchools = 2
  MaxFlows = 2
  MaxSessions = 3
SYMMETRY Interchangeable
INVARIANTS WithinTheCap OneTrialEach SessionsNeverFork
CHECK_DEADLOCK FALSE
