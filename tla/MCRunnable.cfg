CONSTANTS
  Parallelism = {0, 1, 2, 3}
  MaxInputs = 4
SPECIFICATION FairSpec
INVARIANTS QuietAtEnd EventsOfOneMeasurement InputsExhausted
PROPERTY RunnableEnds
CHECK_DEADLOCK FALSE
