SPECIFICATION Spec
CONSTANTS
  ch1 = ch1
  ch1b = ch1b
  ch2 = ch2
  short = short
  long = long
  setup = setup
  setup2 = setup2
  Loop = Loop
  NoChannel = NoChannel
  NoDigest = NoDigest
  NoGuild = NoGuild
  Command = {setup, setup2}
  Faults = {"fetch", "http", "transport", "storage"}
  Flaky = {}
  MaxRestarts = 1
  Guild <- JustOne
  Channel <- TwoOfOne
  Owner <- MCOwner
  Digest <- BothDigests
  Messages <- MCMessages
INVARIANTS
  TypeOK
  DigestNeverAhead
  PollExclusion
  NoUnchangedRepeat
