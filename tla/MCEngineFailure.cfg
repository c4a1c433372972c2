CONSTANTS
  Task = {t1}
  NoTask = NoTask
  MaxExtra = 1
  Mutable = {}
  Perturbed = {t1}
  Faulty = {t1}
SPECIFICATION Spec
INVARIANT EndReportsFailure
CHECK_DEADLOCK FALSE
