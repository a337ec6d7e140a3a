SPECIFICATION Spec
CONSTANTS
  d1 = d1
  d2 = d2
  d3 = d3
  Docs <- Docs3
  Corpus <- Corpus3
  BatchSize = 2
  RaiseDocs = {}
  LaunchFaults = TRUE
  MaxLives = 1
INVARIANT ExactlyOneRecord
CHECK_DEADLOCK FALSE
