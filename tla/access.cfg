SPECIFICATION Spec
CONSTANTS
  None = None
  Starts <- Small
  Profiles <- Apart
  Opened <- Places
INVARIANTS GroundsWereHeld NavigationMirrors NeverLedIntoARefusal OffersStand
CHECK_DEADLOCK FALSE
