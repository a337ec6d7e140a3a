SPECIFICATION Spec
CONSTANTS
  Corpus <- TwoDocs
  ExpectedEmpty = {"d2"}
  Contents = {"A", "B"}
  NoText = "empty"
  REPS = 3
  BatchItems = 2
INVARIANTS
  PassMeansProven
  EvidenceOfThisRun
  OkIsOwn
PROPERTIES
  RepResolves
CHECK_DEADLOCK FALSE
