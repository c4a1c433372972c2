CONSTANTS
  Call = {c1, c2, c3, c4}
  NoCall = NoCall
  Thread = {t1, t2, t3, t4}
  MinParallelism = 2
  MaxParallelism = 3
SPECIFICATION FairSpec
INVARIANTS BoundedThreads WorkConserving StartsInOrder
PROPERTY PoolFairSpec
CHECK_DEADLOCK FALSE
