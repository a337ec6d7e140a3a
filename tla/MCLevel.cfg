SPECIFICATION FairSpec
CONSTANTS
  d1 = d1
  d2 = d2
  d3 = d3
  x1 = x1
  Docs <- Docs3
  Strangers <- Strangers3
  Corpus <- Corpus3
  Arms = {"rr_stepped", "lg_stepped", "rr_burst", "lg_burst"}
  Level = 2
  Timeout = 1
  Stale = 2
  Unreadable = {d2}
  Truth = {d1, d2}
  Leftovers <- Leftovers3
  Baselines <- Baselines3
INVARIANTS
  ClosedLoop
  ValidMeansProven
PROPERTIES
  WatchdogHonest
  LedgerSpec
  LevelEnds
CHECK_DEADLOCK FALSE
