SPECIFICATION FairSpec
CONSTANTS
  h1 = h1
  h2 = h2
  Main = Main
  Nobody = Nobody
  Handler <- Handlers
  MaxBots = 3
  KillHangs = TRUE
INVARIANTS
  TypeOK
  OneKnownBot
  LogFollowsProcess
PROPERTIES
  RequestsAnswered
  CloseEnds
CHECK_DEADLOCK FALSE
