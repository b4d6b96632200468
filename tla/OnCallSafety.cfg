SPECIFICATION Spec
CONSTANTS
  Stages = 2
  MaxEdits = 2
  MaxFaults = 2
INVARIANTS
  WriteAhead
  RouteRestsOnIntegration
  IdentityAdopted
  ReceiverServed
PROPERTIES
  WithdrawalAuthorised
  CommittedIsFinal
  ImplementsHandover
CONSTRAINT
  ThreeDisturbances
CHECK_DEADLOCK FALSE
