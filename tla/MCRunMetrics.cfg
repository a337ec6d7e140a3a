SPECIFICATION Inputs
CONSTANTS
  Expected <- MCExpected
  Empty = {"d2"}
  FirstRecords <- MCFirstRecords
  SecondRecords <- MCSecondRecords
  TimedDocs <- MCExpected
  Faults = {"d2", "d4"}
  Horizon = 2
  Window = 1
  MaxWarm = 2
  LeastTimeout = 4
  Tick = 2
  MaxGap = 2
  Cpus = 2
  Figures = {0, 9, 10, 11, 13}
  Letters = {"x", "y"}
  MaxRecords = 3
  MaxBoth = 5
  MaxSamples = 4
  MaxReps = 5
  MaxText = 5
INVARIANTS
  GateSound
  ComparisonsAgree
  WindowExact
  ConcurrencyExact
  WedgesSeen
  SliceTight
  PointValue
  OffsetsIncrease
CHECK_DEADLOCK FALSE
