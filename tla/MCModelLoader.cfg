SPECIFICATION FairSpec
CONSTANTS
  Threads = {t1, t2, t3}
  MaxCalls = 2
INVARIANT OneModel
PROPERTY EveryLoadEnds
CHECK_DEADLOCK FALSE
