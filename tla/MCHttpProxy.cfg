CONSTANTS
  MaxAddresses = 1
  MaxRedirects = 1
  MaxReads = 2
SPECIFICATION FairSpec
PROPERTY TimeoutEndsRequest
CHECK_DEADLOCK FALSE
