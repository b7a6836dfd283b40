SPECIFICATION FairSpec
CONSTANTS
  p1 = p1  p2 = p2  w1 = w1  w2 = w2  h1 = h1  h2 = h2
  Proc = {p1, p2}
  Worker = {w1, w2}
  Handler = {h1}
  Host <- TwoWorkers
  Target = {t1}
  Page = {home}
  MaxRuns = 3
  MaxCrashes = 2
  MaxDbErrors = 0
INVARIANTS ClaimExclusive
PROPERTIES DoneIsFrozen EveryRunSettles
CHECK_DEADLOCK FALSE
