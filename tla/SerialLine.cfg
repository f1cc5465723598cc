\* Texts with and without line ends, a chip that may be faulty.  Callers stop at MaxAsked bytes.
SPECIFICATION FairSpec
CONSTANTS
  Texts <- MCTexts
  FifoDepth = 1
  Faulty = TRUE
  MaxAsked = 8
CHECK_DEADLOCK FALSE
INVARIANTS
  TypeOK
  Lossless
PROPERTIES
  WritesReturn
