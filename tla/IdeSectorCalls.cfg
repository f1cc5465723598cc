\* One channel, two positions, every combination of drives, every stage of a
\* command able to fail.
SPECIFICATION FairSpec
CONSTANTS
  a = a
  b = b
  Junk = Junk
  Channels <- MCChannels
  SectorWords = 2
  Sectors <- MCSectors
  Lbas <- MCLbas
  Data <- MCData
  Written <- MCWritten
  InitialBlock <- MCInitial
  Kinds = {"none", "ata", "atapi"}
  MayFail <- MCMayFail
INVARIANTS
  TypeOK
  DataPortDiscipline
  IdleBetweenCalls
  ReadsAreTrue
PROPERTIES
  OnlyTheNamedSector
  ImplementsStore
  CallsReturn
