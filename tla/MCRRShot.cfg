SPECIFICATION FairSpec
CONSTANTS
  Docs = {d1, d2, d3}
  TimeoutPolls = 3
  StallPolls = 2
  ReadFaults = {d1}
  RawFaults = {d2}
INVARIANTS
  CensusExact
  WedgeIsRealStall
  WedgeProtocol
PROPERTIES
  NoResubmission
  LedgerSpec
  ShotEnds
