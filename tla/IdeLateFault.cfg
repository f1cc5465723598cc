\* A drive that fails to store the data it has taken.
SPECIFICATION Spec
CONSTANTS
  a = a
  b = b
  Junk = Junk
  Channels <- MCChannels
  SectorWords = 2
  Sectors <- MCSectors
  Lbas <- MCLbas
  Data <- MCData
  Written <- MCWritten
  InitialBlock <- MCInitial
  Kinds = {"ata"}
  MayFail <- MCMayFail
INVARIANTS
  WriteSuccessStored
