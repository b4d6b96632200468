SPECIFICATION FairSpec
CONSTANTS
  c1 = c1
  c2 = c2
  Content <- TwoContents
  MaxFaults = 3
INVARIANTS NothingWithdrawn OneIdentity
PROPERTIES PolicyKept ClaimSettles
CHECK_DEADLOCK FALSE
