SPECIFICATION FairSpec
CONSTANTS
  g1 = g1
  f1 = f1
  f2 = f2
  old = old
  new = new
  ch1 = ch1
  ch2 = ch2
  Unset = Unset
  None = None
  Guild <- Guilds
  Form <- Forms
  Text <- Texts
  Channel <- Channels
  Legacy <- File
  MaxCrash = 2
INVARIANTS
  TypeOK
  SavedTogether
  ChannelKept
PROPERTIES
  MigrationAtomic
  MarkMeansMigrated
  StartsAgain
