SPECIFICATION Spec
CONSTANTS
  d1 = d1
  d2 = d2
  d3 = d3
  d4 = d4
  Docs <- Docs4
  Corpus <- Corpus4
  Arms = {"rr", "lg"}
  RawFaults = {d2}
  MaxLives = 3
INVARIANTS
  AtMostOneRecord
  LossBounded
  SendOnFreshPipe
  OkHasRaw
CHECK_DEADLOCK FALSE
