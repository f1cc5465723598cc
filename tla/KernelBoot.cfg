\* Every request, every mode left by the loader, every kind of multiboot information
\* and of processor.  The kernel halts.
SPECIFICATION Spec
CONSTANTS
  Lines <- MCLines
  Screens <- MCScreens
  Pictures <- MCPictures
  Glyphs <- MCGlyphs
  font_8x8 <- MCFont
  Machines <- MCMachines
CHECK_DEADLOCK FALSE
INVARIANTS
  TerminalFitsWindow
  DetectedIsShown
  RequestDecidesTerminal
  GlyphsFillCells
  TextSurvivesFontLoad
  NoTripleFault
  CpuReport
