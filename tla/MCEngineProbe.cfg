SPECIFICATION Spec
CONSTANTS
  Contents = {"A", "B"}
INVARIANTS
  TornDown
  GatesHonest
CHECK_DEADLOCK FALSE
