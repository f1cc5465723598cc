---------------------------- MODULE TextTerminal ----------------------------
(***************************************************************************)
(* src/kernel/terminal.c without a framebuffer: the console in VGA text    *)
(* memory.  Console adds the framebuffer.  The hardware mode is not        *)
(* modelled: the screen is taken to have the dimensions the terminal       *)
(* believes in.                                                            *)
(***************************************************************************)
EXTENDS Teletype

CONSTANTS VGA_WIDTH_0, VGA_HEIGHT_0,   \* 80 and 25
          Dimensions,   \* <<width, height>> pairs terminal_set_dimensions gets
          Window,       \* cells in the VGA text window (16384)
          Chars,        \* printable characters
          Colors,       \* DefaultColor and others
          DefaultColor,
          Leftover,     \* what the text window may hold at power-on
          MaxRows       \* a bound: rows of paper printed

ASSUME TerminalAssumption ==
    /\ VGA_WIDTH_0 \in Nat \ {0} /\ VGA_HEIGHT_0 \in Nat \ {0}
    /\ Window \in Nat /\ VGA_WIDTH_0 * VGA_HEIGHT_0 <= Window
    /\ \A d \in Dimensions : d[1] \in Nat \ {0} /\ d[2] \in Nat \ {0} /\ d[1] * d[2] <= Window
    /\ DefaultColor \in Colors

VARIABLES up,              \* terminal_initialize has run
          vga,             \* VGA_MEMORY; the cell Window stands for all beyond
          VGA_WIDTH, VGA_HEIGHT,
          terminal_row, terminal_column, terminal_color,
          paper,           \* history: what was printed
          intact           \* history: every change of dimensions came before
                           \* anything was printed, to a screen that is no larger

terminal == <<up, vga, VGA_WIDTH, VGA_HEIGHT, terminal_row, terminal_column,
              terminal_color, paper, intact>>

Cells == 0 .. Window
Cell == [char : Chars \cup {Space}, color : Colors]

vga_entry(c, color) == [char |-> c, color |-> color]
Index(x, y) == LET k == y * VGA_WIDTH + x IN IF k < Window THEN k ELSE Window

TerminalInit ==
    /\ up = FALSE
    /\ vga \in [Cells -> Leftover]
    /\ VGA_WIDTH = VGA_WIDTH_0 /\ VGA_HEIGHT = VGA_HEIGHT_0
    /\ terminal_row = 0 /\ terminal_column = 0 /\ terminal_color = DefaultColor
    /\ paper = FreshPaper(VGA_WIDTH_0)
    /\ intact = TRUE

\* terminal_initialize: the cells of the screen are cleared.
InitializeText ==
    /\ ~up
    /\ up' = TRUE
    /\ terminal_row' = 0 /\ terminal_column' = 0 /\ terminal_color' = DefaultColor
    /\ vga' = [k \in Cells |-> IF k < VGA_WIDTH * VGA_HEIGHT
                               THEN vga_entry(Space, DefaultColor) ELSE vga[k]]
    /\ paper' = FreshPaper(VGA_WIDTH)
    /\ UNCHANGED <<VGA_WIDTH, VGA_HEIGHT, intact>>

terminal_setcolor ==
    /\ up
    /\ terminal_color' \in Colors
    /\ UNCHANGED <<up, vga, VGA_WIDTH, VGA_HEIGHT, terminal_row, terminal_column,
                   paper, intact>>

\* terminal_putentryat
PutEntryAt(mem, c, x, y) == [mem EXCEPT ![Index(x, y)] = vga_entry(c, terminal_color)]

\* Mutant of Scrolled: clears the row after the last one.
ScrolledTooFar(mem) ==
    [k \in Cells |->
       IF k < (VGA_HEIGHT - 1) * VGA_WIDTH THEN mem[k + VGA_WIDTH]
       ELSE IF k < (VGA_HEIGHT + 1) * VGA_WIDTH THEN vga_entry(Space, terminal_color)
       ELSE mem[k]]

\* terminal_scroll: every row moves up, the last one is cleared.
Scrolled(mem) ==
    [k \in Cells |->
       IF k < (VGA_HEIGHT - 1) * VGA_WIDTH THEN mem[k + VGA_WIDTH]
       ELSE IF k < VGA_HEIGHT * VGA_WIDTH THEN vga_entry(Space, terminal_color)
       ELSE mem[k]]

\* Mutant of NextRow: a scroll moves the cursor up with the text.
NextRowScrolledAway(mem) ==
    /\ terminal_column' = 0
    /\ IF terminal_row + 1 = VGA_HEIGHT
       THEN terminal_row' = VGA_HEIGHT - 2 /\ vga' = Scrolled(mem)
       ELSE terminal_row' = terminal_row + 1 /\ vga' = mem

\* The cursor goes to the start of the next row, and mem scrolls under it if
\* that was the last one.
NextRow(mem) ==
    /\ terminal_column' = 0
    /\ IF terminal_row + 1 = VGA_HEIGHT
       THEN terminal_row' = VGA_HEIGHT - 1 /\ vga' = Scrolled(mem)
       ELSE terminal_row' = terminal_row + 1 /\ vga' = mem

\* terminal_putchar('\n')
PutNewline ==
    /\ up /\ LastRow(paper) < MaxRows
    /\ NextRow(vga)
    /\ paper' = Feed(paper, VGA_WIDTH)
    /\ UNCHANGED <<up, VGA_WIDTH, VGA_HEIGHT, terminal_color, intact>>

\* terminal_putchar(c), c any other character: it has no special meaning.
PutChar(c) ==
    /\ up /\ LastRow(paper) < MaxRows
    /\ LET mem == PutEntryAt(vga, c, terminal_column, terminal_row) IN
         IF terminal_column + 1 = VGA_WIDTH
         THEN NextRow(mem)
         ELSE /\ terminal_column' = terminal_column + 1
              /\ vga' = mem
              /\ UNCHANGED terminal_row
    /\ paper' = Type(paper, vga_entry(c, terminal_color), VGA_WIDTH)
    /\ UNCHANGED <<up, VGA_WIDTH, VGA_HEIGHT, terminal_color, intact>>

\* Mutant of terminal_set_dimensions: the cursor stays where it is.
set_dimensions_only(width, height) ==
    /\ up
    /\ VGA_WIDTH' = width /\ VGA_HEIGHT' = height
    /\ intact' = (intact /\ paper = FreshPaper(VGA_WIDTH)
                         /\ width * height <= VGA_WIDTH * VGA_HEIGHT)
    /\ paper' = FreshPaper(width)
    /\ UNCHANGED <<up, vga, terminal_color, terminal_row, terminal_column>>

\* The cursor is pulled back inside, nothing is cleared or moved.
terminal_set_dimensions(width, height) ==
    /\ up
    /\ VGA_WIDTH' = width /\ VGA_HEIGHT' = height
    /\ LET row == IF terminal_row >= height THEN height - 1 ELSE terminal_row IN
         IF terminal_column >= width
         THEN /\ terminal_column' = 0
              /\ terminal_row' = IF row < height - 1 THEN row + 1 ELSE row
         ELSE /\ UNCHANGED terminal_column
              /\ terminal_row' = row
    /\ intact' = (intact /\ paper = FreshPaper(VGA_WIDTH)
                         /\ width * height <= VGA_WIDTH * VGA_HEIGHT)
    /\ paper' = FreshPaper(width)
    /\ UNCHANGED <<up, vga, terminal_color>>

(***************************************************************************)
(* Properties.                                                             *)
(***************************************************************************)

\* Type correctness of the terminal.
TerminalTypeOK ==
    /\ up \in BOOLEAN /\ intact \in BOOLEAN
    /\ DOMAIN vga = Cells
    /\ VGA_WIDTH \in Nat \ {0} /\ VGA_HEIGHT \in Nat \ {0}
    /\ terminal_row \in Nat /\ terminal_column \in Nat
    /\ terminal_color \in Colors

\* The screen shows the last rows of what was printed, and nothing else, and the
\* cursor is where the paper says the next character goes: every
\* character in the color it was printed with, in its place after wrapping and
\* scrolling, blanks elsewhere.  terminal_set_dimensions neither moves nor clears
\* cells, so this ends when the screen changes under text or grows beyond the
\* cells that were cleared.
TextShowsPaper ==
    up /\ intact =>
      /\ \A r \in 0 .. VGA_HEIGHT - 1, c \in 0 .. VGA_WIDTH - 1 :
           Agrees(vga[Index(c, r)], ShownAt(paper, VGA_HEIGHT, r, c))
      /\ terminal_row = LastRow(paper) - 1 - Gone(paper, VGA_HEIGHT)
      /\ terminal_column = paper.col
=============================================================================
