SPECIFICATION FairSpec
CONSTANTS
  d1 = d1
  d2 = d2
  d3 = d3
  Docs <- Docs3
  Corpus <- Corpus3
  BatchSize = 2
  RaiseDocs = {d1, d2}
  LaunchFaults = TRUE
  MaxLives = 3
INVARIANTS
  NoSendOnSuspectPipe
  ResumeExact
PROPERTIES
  RunEnds
  LedgerSpec
CHECK_DEADLOCK FALSE
