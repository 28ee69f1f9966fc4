SPECIFICATION FairSpec
CONSTANTS
  ch1 = ch1
  ch1b = ch1b
  ch2 = ch2
  short = short
  long = long
  setup = setup
  setup2 = setup2
  Loop = Loop
  NoChannel = NoChannel
  NoDigest = NoDigest
  NoGuild = NoGuild
  Command = {setup}
  Faults = {"fetch", "http"}
  Flaky = {1}
  MaxRestarts = 0
  Guild <- MCGuild
  Channel <- OneEach
  Owner <- MCOwner
  Digest <- OnlyLong
  Messages <- MCMessages
PROPERTIES
  CommandServed
  EventualDelivery
  RemovalTakesEffect
  OneCourier
