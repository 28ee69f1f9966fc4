SPECIFICATION FairSpec
CONSTANTS
  g1 = g1
  g2 = g2
  r1 = r1
  r2 = r2
  NoGuild = NoGuild
  Guild <- JustOne
  Ready <- Handlers
  Modes = {TRUE, FALSE}
  Faults = {"sync"}
  MaxRestarts = 1
PROPERTIES
  ReadyShown
