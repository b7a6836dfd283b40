SPECIFICATION FairSpec
CONSTANTS
  Label = {sonnet}
  MaxPages = 3
  Concurrency = 2
  MaxSynthCells = 2
  MaxPasses = 2
  MaxCrashes = 1
  MaxDbErrors = 1
INVARIANTS TypeOK OnePass ProgressHonest CostIsThisPass StoryMatchesRows
PROPERTIES SettledIsQuiet EveryPassSettles
CHECK_DEADLOCK FALSE
