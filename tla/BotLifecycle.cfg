SPECIFICATION Spec
SYMMETRY Interchangeable
CONSTANTS
  g1 = g1
  g2 = g2
  r1 = r1
  r2 = r2
  NoGuild = NoGuild
  Guild <- Guilds
  Ready <- Handlers
  Modes = {FALSE}
  Faults = {"info", "sync"}
  MaxRestarts = 1
INVARIANTS
  TypeOK
  
  MigratedUsesGlobal
