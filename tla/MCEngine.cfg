CONSTANTS
  Task = {t1, t2}
  NoTask = NoTask
  MaxExtra = 1
  Mutable = {"status.end"}
  Perturbed = {t1}
  Faulty = {}
SPECIFICATION FairSpec
INVARIANTS OneTaskAtATime DeliveredInOrder DrainedBeforeEof EventOrder
PROPERTIES TasksComplete EventsReachController
CHECK_DEADLOCK FALSE
