SPECIFICATION FairSpec
CONSTANTS
  Proc = {"web", "worker"}
  Last = 3
  Alter = {3}
  MaxCrashes = 1
PROPERTY BootsInTheEnd
CHECK_DEADLOCK FALSE
