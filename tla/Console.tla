------------------------------ MODULE Console -------------------------------
(***************************************************************************)
(* The console the kernel prints on: src/kernel/terminal.c over text cells *)
(* or, when the boot loader gave the kernel an RGB framebuffer, over the   *)
(* pixels of src/kernel/framebuffer.c.  The functions that write strings   *)
(* are sequences of putchar.                                               *)
(***************************************************************************)
EXTENDS TextTerminal

CONSTANTS FONT_HEIGHT, fb_height, fb_columns, margin, fb_bpp, TabStop,
          Pixels,        \* what the framebuffer may hold at power-on
          MaxRowsDrawn   \* a bound: rows of paper printed on the framebuffer

VARIABLES rgb,        \* the loader gave an RGB framebuffer
          active, pixels, cursor_x, cursor_y, text_color,
          fb_paper    \* history: what was printed on the framebuffer

F == INSTANCE FramebufferConsole WITH Leftover <- Pixels, paper <- fb_paper,
                                       MaxRows <- MaxRowsDrawn

framebuffer == <<active, pixels, cursor_x, cursor_y, text_color, fb_paper>>

vars == <<rgb, terminal, framebuffer>>

ASSUME ConsoleAssumption == F!FramebufferAssumption

Init ==
    /\ rgb \in BOOLEAN
    /\ TerminalInit
    /\ F!FramebufferInit

framebuffer_init ==
    /\ rgb /\ ~up
    /\ F!framebuffer_init
    /\ UNCHANGED <<rgb, terminal>>

\* With a framebuffer, its color is set and it is cleared; the cells are not.
InitializeGraphics ==
    /\ ~up
    /\ up' = TRUE
    /\ terminal_row' = 0 /\ terminal_column' = 0 /\ terminal_color' = DefaultColor
    /\ text_color' = DefaultColor
    /\ F!Restart(DefaultColor)
    /\ UNCHANGED <<active, vga, VGA_WIDTH, VGA_HEIGHT, paper, intact>>

\* framebuffer_init has run before, so that the framebuffer is active if there is one.
terminal_initialize ==
    /\ active = rgb
    /\ \/ ~active /\ InitializeText /\ UNCHANGED framebuffer
       \/ active /\ InitializeGraphics
    /\ UNCHANGED rgb

\* Either console gets the character, never both.
terminal_putchar ==
    /\ \/ /\ ~active
          /\ PutNewline \/ \E c \in Chars : PutChar(c)
          /\ UNCHANGED framebuffer
       \/ /\ up /\ F!framebuffer_putchar
          /\ UNCHANGED terminal
    /\ UNCHANGED rgb

\* These change the terminal's own variables, whichever console is in use.
SetTerminal ==
    /\ \/ terminal_setcolor
       \/ \E d \in Dimensions : terminal_set_dimensions(d[1], d[2])
    /\ UNCHANGED <<rgb, framebuffer>>

SetFramebuffer ==
    /\ up
    /\ F!framebuffer_set_color \/ F!framebuffer_clear
    /\ UNCHANGED <<rgb, terminal>>

Next ==
    \/ framebuffer_init \/ terminal_initialize \/ terminal_putchar
    \/ SetTerminal \/ SetFramebuffer

Spec == Init /\ [][Next]_vars

(***************************************************************************)
(* Properties.                                                             *)
(***************************************************************************)

\* Type correctness of both consoles.
TypeOK == TerminalTypeOK /\ F!FramebufferTypeOK

\* Both cursors are on their screens whenever a character can come, after any mix of
\* text, wraps, tabs, scrolls and changes of dimensions: putchar writes where
\* the cursor is without a check of its own, and terminal.c tests for the end
\* of the screen with "==".
CursorOnScreen ==
    /\ terminal_row < VGA_HEIGHT /\ terminal_column < VGA_WIDTH
    /\ cursor_x < F!text_cols /\ cursor_y < F!text_rows

\* No write goes past the cells of the screen, and none at all while the framebuffer
\* is in use, when the card's text window need not even be mapped.
NoWriteBeyondScreen ==
    [][\A k \in Cells : vga'[k] # vga[k] => ~active /\ k < VGA_WIDTH * VGA_HEIGHT]_vars

\* The screen in use shows the last rows of what was printed, and nothing else: see
\* TextShowsPaper and PixelsShowPaper.  No part of a character is visible in the
\* pixels that belong to no row or column.
ScreenShowsPaper ==
    /\ ~active => TextShowsPaper
    /\ F!PixelsShowPaper /\ F!MarginsBlank
=============================================================================
