SPECIFICATION FairSpec
CONSTANTS
  Requests = {r1, r2}
  Inputs <- AllInputs
  Configs <- AllConfigs
  MaxUpload = 3
  Chunk = 2
  Workers = 1
  DiskFaults = TRUE
INVARIANTS
  TempFileLifetime
  ExecutorSound
  ReadyMeansWarm
PROPERTIES
  EveryRequestAnswered
  ContractSpec
CHECK_DEADLOCK FALSE
