CONSTANTS
  MaxAddresses = 2
  MaxRedirects = 2
  MaxReads = 3
SPECIFICATION FairSpec
INVARIANTS ConnectionsReleased ChainComplete
PROPERTY RequestEnds
CHECK_DEADLOCK FALSE
