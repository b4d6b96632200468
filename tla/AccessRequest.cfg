SPECIFICATION FairSpec
CONSTANTS
  l1 = l1
  l2 = l2
  Leaves <- TwoLeaves
  MaxEdits = 2
  MaxFaults = 2
INVARIANTS TypeOK CredentialsBehind ConsentBehind KeptUnlessOver OneCopy
PROPERTIES ClaimSettles
CHECK_DEADLOCK FALSE
