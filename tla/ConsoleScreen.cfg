\* A 3 by 2 text screen that changes its dimensions at any time, or a framebuffer of
\* two rows of three columns with a spare pixel row and column.  The text stops
\* at MaxRows, or MaxRowsDrawn.
SPECIFICATION Spec
CONSTANTS
  VGA_WIDTH_0 = 3
  VGA_HEIGHT_0 = 2
  Dimensions <- MCDimensions
  Window = 9
  Chars = {"x"}
  Colors = {"grey", "red"}
  DefaultColor = "grey"
  Leftover <- MCRemnants
  MaxRows = 4
  FONT_HEIGHT = 2
  fb_height = 5
  fb_columns = 3
  margin = 1
  fb_bpp = 32
  TabStop = 2
  MaxRowsDrawn = 3
  Pixels <- MCPixels
CHECK_DEADLOCK FALSE
INVARIANTS
  TypeOK
  CursorOnScreen
  ScreenShowsPaper
PROPERTIES
  NoWriteBeyondScreen
