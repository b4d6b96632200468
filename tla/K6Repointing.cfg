SPECIFICATION FairSpec
CONSTANTS
  Tests = {t1, t2}
  Schedules = {s1}
  NoTest = NoTest
  MaxLevel = 2
  Repointing = TRUE
  MaxEdits = 1
  MaxFaults = 0
PROPERTIES RequestSettles
CHECK_DEADLOCK FALSE
