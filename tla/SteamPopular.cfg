SPECIFICATION FairSpec
CONSTANTS
  c1 = c1
  c2 = c2
  None = None
  Client <- Commands
  CacheTtl = 3
  ErrorRetry = 2
  MaxTime = 6
INVARIANTS
  TypeOK
  SingleFlight
  FreshMeansFresh
PROPERTIES
  StaleOnlyAfterFailure
  ChartNeverGoesBack
  AskedSparingly
  EveryAskAnswered
