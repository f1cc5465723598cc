\* One text screen, every request.
SPECIFICATION Spec
CONSTANTS
  Lines <- MCLines
  Screens <- MCOneScreen
  Pictures = {}
  Glyphs <- MCGlyphs
  font_8x8 <- MCFont
  Machines <- MCMachines
CHECK_DEADLOCK FALSE
INVARIANTS
  RequestedSizeUsed
