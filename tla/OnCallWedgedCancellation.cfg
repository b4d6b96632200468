SPECIFICATION Spec
CONSTANTS
  Stages = 2
  MaxEdits = 2
  MaxFaults = 1
INVARIANT
  JournalDecodes
CHECK_DEADLOCK FALSE
