CONSTANTS
  Soon = {s1, s2}
  Io = {io1}
  Call = {c1, c2}
  NoCall = NoCall
  Thread = {t1, t2, t3}
  MinParallelism = 2
  MaxParallelism = 2
  Noop = Noop
  MaxStops = 2
SPECIFICATION LoopFairSpec
INVARIANT ReturnsWhenIdle
PROPERTIES Answered DrainsAndReturns
CHECK_DEADLOCK FALSE
