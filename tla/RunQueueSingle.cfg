SPECIFICATION Spec
CONSTANTS
  p1 = p1  p2 = p2  w1 = w1  w2 = w2  h1 = h1  h2 = h2
  Proc = {p1}
  Worker = {w1}
  Handler = {h1, h2}
  Host <- AllOnOne
  Target = {t1}
  Page = {home, about}
  MaxRuns = 3
  MaxCrashes = 1
  MaxDbErrors = 1
SYMMETRY Symmetry
INVARIANTS TypeOK BaselineIsDoneAudit DiffMatchesRows
PROPERTIES ImplementsLifecycle
CHECK_DEADLOCK FALSE
