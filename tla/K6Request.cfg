SPECIFICATION FairSpec
CONSTANTS
  Tests = {t1, t2}
  Schedules = {s1}
  NoTest = NoTest
  MaxLevel = 2
  Repointing = FALSE
  MaxEdits = 1
  MaxFaults = 1
INVARIANTS KeptUnlessDropped SchedulesTargetIDs
PROPERTIES CapsBeforeWorkloads RequestSettles
CHECK_DEADLOCK FALSE
