SPECIFICATION Spec
CONSTANTS
  MaxWalks = 2
  MaxSteps = 1
  Key = {k1}
  MaxRequests = 1
  MaxCrashes = 1
  MaxDbErrors = 1
INVARIANTS InfraNeverScored
CHECK_DEADLOCK FALSE
