SPECIFICATION Spec
CONSTANTS
  MaxWalks = 2
  MaxSteps = 2
  Key = {k1}
  MaxRequests = 2
  MaxCrashes = 1
  MaxDbErrors = 1
INVARIANTS TypeOK BaselineObserved MaterializedOnce RunIsWholeTrace DiffIsOfSettledRows
PROPERTIES BaselineFrozen
CHECK_DEADLOCK FALSE
