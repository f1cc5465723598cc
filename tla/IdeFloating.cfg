\* A channel with no controller behind it.
SPECIFICATION FairSpec
CONSTANTS
  a = a
  Junk = Junk
  Channels = {0}
  SectorWords = 2
  Sectors = {0}
  Data <- MCData
  Kinds = {"none", "floating"}
  Leftover <- MCAfterReset
  OldDisks = {}
  SlowPacket = {}
  MayFail = {}
  NameOf <- MCNames
CHECK_DEADLOCK FALSE
PROPERTIES
  DetectionEnds
