SPECIFICATION MFairSpec
CONSTANTS
  c1 = c1
  a1 = a1
  a2 = a2
  a3 = a3
  None = None
  Junk = Junk
  Client <- Commands
  App <- Apps
  Payload <- Payloads
  CacheTtl = 1
  ErrorRetry = 1
  MetadataTtl = 2
  ResultLimit = 2
  Slots = 2
  MaxJobs = 3
  MaxTime = 3
INVARIANTS
  MTypeOK
  SlotsAccounted
  ChartWellFormed
PROPERTIES
  NameKept
  FreshMetadata
  ServesChart
