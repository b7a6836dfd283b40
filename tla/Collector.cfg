SPECIFICATION Spec
CONSTANTS
  Captures = 2
  q1 = q1
  q2 = q2
  Request <- MCRequest
  PageURL <- MCPage
  Url <- MCUrl
  Own <- MCOwn
  MaxBytes = 1
  MaxLag = 1
SYMMETRY Symmetric
INVARIANT Attribution
CHECK_DEADLOCK FALSE
