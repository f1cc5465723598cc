\* Four slots with anything in them, tables of two controllers and three devices, a
\* listing of two of three buses.  The scan stops when it is done.
SPECIFICATION FairSpec
CONSTANTS
  Configurations <- MCConfigurations
  Buses = 3
  SlotsPerBus = 2
  FunctionsPerSlot = 3
  ListedBuses = 2
  BusLogic <- MCBusLogic
  SCSI_MAX_CONTROLLERS = 2
  SCSI_MAX_DEVICES = 3
  TargetsScanned = 2
  Texts <- MCTexts
CHECK_DEADLOCK FALSE
INVARIANTS
  TypeOK
  CountsAgree
  ListIsScanOrder
  ReadyAdaptersRegistered
  DevicesAsTold
  ListingAgrees
PROPERTIES
  ScanEnds
