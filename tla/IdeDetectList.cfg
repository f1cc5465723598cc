\* Two channels, every combination of drives, slow and failing ones among them,
\* and registers the firmware has used.  Detection stops when it is done.
SPECIFICATION FairSpec
CONSTANTS
  a = a
  Junk = Junk
  Channels = {0, 1}
  SectorWords = 2
  Sectors = {0}
  Data <- MCData
  Kinds = {"none", "ata", "atapi"}
  Leftover <- MCAfterBoot
  OldDisks <- MCOldDisk
  SlowPacket <- MCSlow
  MayFail <- MCFails
  NameOf <- MCNames
CHECK_DEADLOCK FALSE
INVARIANTS
  TypeOK
  ListedAreAttached
  ListedIdentity
  ListComplete
  DrivesLeftIdle
PROPERTIES
  DetectionEnds
