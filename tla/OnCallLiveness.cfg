SPECIFICATION FairSpec
CONSTANTS
  Stages = 2
  MaxEdits = 2
  MaxFaults = 0
PROPERTIES
  TransitionSettles
CHECK_DEADLOCK FALSE
