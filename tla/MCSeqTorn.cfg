SPECIFICATION Spec
CONSTANTS
  d1 = d1
  d2 = d2
  d3 = d3
  d4 = d4
  Docs <- Docs4
  Corpus <- Corpus4
  Arms = {"lg"}
  RawFaults = {d2}
  MaxLives = 3
INVARIANT MergeIsResumeSafe
CHECK_DEADLOCK FALSE
