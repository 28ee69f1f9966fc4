SPECIFICATION Spec
CONSTANTS
  ch1 = ch1
  ch1b = ch1b
  ch2 = ch2
  short = short
  long = long
  setup = setup
  setup2 = setup2
  Loop = Loop
  NoChannel = NoChannel
  NoDigest = NoDigest
  NoGuild = NoGuild
  Command = {setup}
  Faults = {"http"}
  Flaky = {}
  MaxRestarts = 0
  Guild <- MCGuild
  Channel <- OneEach
  Owner <- MCOwner
  Digest <- OnlyShort
  Messages <- MCMessages
PROPERTIES
  RetryPromiseKept
