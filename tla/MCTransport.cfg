CONSTANTS
  MaxBytes = 4
  MaxRead = 3
  MaxOps = 4
SPECIFICATION FairSpec
INVARIANTS EofIsLast OneOutcome
PROPERTIES StreamImplemented OperationsEnd CloseCallsBack
CHECK_DEADLOCK FALSE
