SPECIFICATION FairSpec
CONSTANTS
  d1 = d1
  d2 = d2
  d3 = d3
  x1 = x1
  Docs <- Docs3
  Strangers <- Strangers3
  Corpus <- Corpus3
  Arms = {"rr_burst"}
  Level = 2
  Timeout = 1
  Stale = 2
  Unreadable = {}
  Truth = {d1, d2}
  Leftovers <- Leftovers3
  Baselines <- Baselines3
PROPERTY BaselineFromValidRep
CHECK_DEADLOCK FALSE
