\* Healthy disks.
SPECIFICATION Spec
CONSTANTS
  a = a
  Junk = Junk
  Channels = {0, 1}
  SectorWords = 2
  Sectors = {0}
  Data <- MCData
  Kinds = {"none", "ata"}
  Leftover <- MCAfterReset
  OldDisks = {}
  SlowPacket = {}
  MayFail = {}
  NameOf <- MCNames
CHECK_DEADLOCK FALSE
INVARIANTS
  InterruptsDisabled
