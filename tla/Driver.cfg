SPECIFICATION FairSpec
CONSTANTS
  MaxSteps = 5
  Url = {u1}
  Act = {a}
  MaxRequests = 1
INVARIANTS TypeOK ReportsObserved DryRunWritesNothing InTimeBlockFails StuckWasSpinning
PROPERTIES SuccessIsSeen DriveReturns
CHECK_DEADLOCK FALSE
