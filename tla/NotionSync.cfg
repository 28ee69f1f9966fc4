SPECIFICATION FairSpec
CONSTANTS
  intro = intro
  detail = detail
  Doc <- MCDoc
  Exact <- MCExact
  MAX_ATTEMPTS = 2
  MaxRevision = 2
  MaxRun = 2
INVARIANTS
  TypeOK
  WrittenIfCleared
  ReportedShown
PROPERTY
  RunEnds
CHECK_DEADLOCK FALSE
