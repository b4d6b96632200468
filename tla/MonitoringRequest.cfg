SPECIFICATION FairSpec
CONSTANTS
  Checks = {c1}
  Budget = 2
  MaxCost = 3
  MaxRotations = 1
  MaxEdits = 2
  MaxFaults = 2
INVARIANTS KeptUnlessDropped AlertsNameIDs
PROPERTIES ChecksAfterVerification RequestSettles
CHECK_DEADLOCK FALSE
