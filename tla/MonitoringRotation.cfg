SPECIFICATION FairSpec
CONSTANTS
  Checks = {c1, c2}
  Budget = 2
  MaxCost = 2
  MaxRotations = 1
  MaxEdits = 0
  MaxFaults = 0
PROPERTIES RotationRetires
CHECK_DEADLOCK FALSE
