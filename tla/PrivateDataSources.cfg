SPECIFICATION FairSpec
CONSTANTS
  n1 = n1
  n2 = n2
  d1 = d1
  Networks <- TwoNetworks
  Sources <- OneSource
  NoNetwork = NoNetwork
  LastWindow = 2
  MaxEdits = 1
  MaxFaults = 2
INVARIANTS AccessContinuous KeptUnlessOver
PROPERTY RequestSettles
CHECK_DEADLOCK FALSE
