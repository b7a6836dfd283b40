SPECIFICATION Spec
CONSTANTS
  p1 = p1  p2 = p2  w1 = w1  w2 = w2  h1 = h1  h2 = h2
  Proc = {p1, p2}
  Worker = {w1}
  Handler = {h1}
  Host <- WebAndWorker
  Target = {t1}
  Page = {home}
  MaxRuns = 1
  MaxCrashes = 0
  MaxDbErrors = 0
PROPERTIES SweepHitsOrphansOnly
CHECK_DEADLOCK FALSE
