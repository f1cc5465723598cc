\* A kernel image that ends 8 bytes above its load address.
SPECIFICATION Spec
CONSTANTS
  WordMod = 64
  PageSize = 8
  Kilo = 4
  PlacementStart = 16
  KernelEnd = 24
  Maps <- MCMaps
  Uppers = {6}
  Sizes = {4}
  MaxGranted = 2
CHECK_DEADLOCK FALSE
INVARIANTS
  HeapAboveKernel
