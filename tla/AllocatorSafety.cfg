\* Every memory map, requests of which several, or one alone, wrap the counter
\* around.  Callers stop.
SPECIFICATION Spec
CONSTANTS
  WordMod = 64
  PageSize = 8
  Kilo = 4
  PlacementStart = 16
  KernelEnd = 24
  Maps <- MCMaps
  Uppers = {2, 6, 13}
  Sizes = {0, 3, 6, 40, 63}
  MaxGranted = 4
CHECK_DEADLOCK FALSE
INVARIANTS
  TypeOK
  NoOverlap
  WithinMemory
  MemoryEndIsTop
PROPERTIES
  ExhaustionIsFinal
  ImplementsRegions
