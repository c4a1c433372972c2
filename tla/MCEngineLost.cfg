CONSTANTS
  Task = {t1}
  NoTask = NoTask
  MaxExtra = 1
  Mutable = {}
  Perturbed = {t1}
  Faulty = {}
SPECIFICATION FairSpec
PROPERTY WaitReturns
CHECK_DEADLOCK FALSE
