SPECIFICATION FairSpec
CONSTANTS
  Chains <- SmallestRequest
  MaxEdits = 1
  MaxFaults = 1
INVARIANTS RemovalComplete KeptWhileRequested ContentAfterCredentials
PROPERTIES ImplementsContract VendCompletes IntentSettles
CHECK_DEADLOCK FALSE
