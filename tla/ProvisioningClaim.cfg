SPECIFICATION FairSpec
CONSTANTS
  MaxEdits = 1
  MaxFaults = 1
  MaxTampers = 1
INVARIANTS UnprovenDisarms
PROPERTIES
  SecurevalueLast
  WitnessedWithdrawal
  ExternalOutlivesClaim
  DecommissionCompletes
CHECK_DEADLOCK FALSE
