------------------------- MODULE FramebufferConsole -------------------------
(***************************************************************************)
(* src/kernel/framebuffer.c: the text console drawn into a graphics        *)
(* framebuffer.  Every terminal_putchar comes here when the boot loader    *)
(* gave the kernel an RGB framebuffer.  A column of the model stands for   *)
(* FONT_WIDTH pixels; pixel rows are kept one by one, because the height   *)
(* of the framebuffer need not be a multiple of FONT_HEIGHT and scrolling  *)
(* moves whole pixel rows.                                                 *)
(***************************************************************************)
EXTENDS Teletype

CONSTANTS FONT_HEIGHT,   \* pixel rows of a character
          fb_height,     \* pixel rows of the framebuffer
          fb_columns,    \* columns of the framebuffer
          margin,        \* 1 if there are pixels right of the last column
          fb_bpp,        \* bits per pixel
          TabStop,       \* 8
          Chars,         \* printable characters
          Colors,        \* text colors, DefaultColor and others
          DefaultColor,
          Leftover,      \* what the framebuffer may hold at power-on
          MaxRows        \* a bound: rows of paper printed

\* What the boot loader's framebuffer is taken to be like: Console assumes it.
FramebufferAssumption ==
    /\ FONT_HEIGHT \in Nat \ {0}
    /\ fb_height \in Nat /\ fb_height >= FONT_HEIGHT
    /\ fb_columns \in Nat \ {0}
    /\ margin \in {0, 1}
    /\ TabStop \in Nat \ {0}
    /\ DefaultColor \in Colors

VARIABLES active,              \* framebuffer_is_active()
          pixels,              \* pixel row -> column -> what is drawn there
          cursor_x, cursor_y, text_color,
          paper                \* history: what was printed

framebuffer == <<active, pixels, cursor_x, cursor_y, text_color, paper>>

text_cols == fb_columns
text_rows == fb_height \div FONT_HEIGHT

PixelRows == 0 .. fb_height - 1
Columns == 0 .. fb_columns + margin - 1

\* One pixel row of a character, and the background of a color.
Glyph(c, color, line) == [char |-> c, color |-> color, line |-> line]
Background(color) == Glyph(Space, color, 0)

\* framebuffer_put_pixel knows two pixel formats and ignores the others.
Drawable == fb_bpp \in {16, 32}

\* The pixels with those of area redrawn: what(y, x) gives the new ones.
Redraw(px, area, what(_, _)) ==
    IF Drawable
    THEN [y \in PixelRows |-> [x \in Columns |->
            IF <<y, x>> \in area THEN what(y, x) ELSE px[y][x]]]
    ELSE px

Cleared(px, color) == Redraw(px, PixelRows \X Columns, LAMBDA y, x : Background(color))

\* framebuffer_draw_char
DrawChar(px, c, col, row, color) ==
    IF col >= text_cols \/ row >= text_rows THEN px
    ELSE Redraw(px, (row * FONT_HEIGHT .. (row + 1) * FONT_HEIGHT - 1) \X {col},
                LAMBDA y, x : Glyph(c, color, y - row * FONT_HEIGHT))

\* Mutant of Scrolled: only the rows of text move, not the strip below them.
ScrolledText(px) ==
    Redraw(px, PixelRows \X Columns,
           LAMBDA y, x : IF y + FONT_HEIGHT < text_rows * FONT_HEIGHT THEN px[y + FONT_HEIGHT][x]
                         ELSE IF y + FONT_HEIGHT < fb_height THEN px[y][x]
                         ELSE Background(text_color))

\* framebuffer_scroll: all pixel rows move up by FONT_HEIGHT, and the last
\* FONT_HEIGHT of them are cleared.
Scrolled(px) ==
    Redraw(px, PixelRows \X Columns,
           LAMBDA y, x : IF y + FONT_HEIGHT < fb_height THEN px[y + FONT_HEIGHT][x]
                                                        ELSE Background(text_color))

(***************************************************************************)
(* Operations.                                                             *)
(***************************************************************************)

FramebufferInit ==
    /\ active = FALSE
    /\ pixels \in [PixelRows -> [Columns -> Leftover]]
    /\ cursor_x = 0 /\ cursor_y = 0 /\ text_color = DefaultColor
    /\ paper = FreshPaper(text_cols)

\* framebuffer_clear: all pixels, in the background of the color.
Restart(color) ==
    /\ pixels' = Cleared(pixels, color)
    /\ cursor_x' = 0 /\ cursor_y' = 0
    /\ paper' = FreshPaper(text_cols)

\* framebuffer_init, with an RGB framebuffer.
framebuffer_init ==
    /\ ~active
    /\ active' = TRUE
    /\ Restart(text_color)
    /\ UNCHANGED text_color

framebuffer_set_color ==
    /\ active
    /\ text_color' \in Colors
    /\ UNCHANGED <<active, pixels, cursor_x, cursor_y, paper>>

framebuffer_clear ==
    /\ active
    /\ Restart(text_color)
    /\ UNCHANGED <<active, text_color>>

\* The end of framebuffer_putchar: the cursor is to go to (x, y); wrap at the
\* end of the row, then scroll at the end of the screen.
Settle(px, x, y) ==
    LET wrap == x >= text_cols
        row == IF wrap THEN y + 1 ELSE y
    IN  /\ cursor_x' = IF wrap THEN 0 ELSE x
        /\ IF row >= text_rows
           THEN cursor_y' = text_rows - 1 /\ pixels' = Scrolled(px)
           ELSE cursor_y' = row /\ pixels' = px

PutNewline ==
    /\ Settle(pixels, 0, cursor_y + 1)
    /\ paper' = Feed(paper, text_cols)

PutReturn ==
    /\ Settle(pixels, 0, cursor_y)
    /\ paper' = GoTo(paper, 0, text_cols)

\* (cursor_x + 8) & ~7
NextStop(x) == (x + TabStop) - ((x + TabStop) % TabStop)

PutTab ==
    /\ Settle(pixels, NextStop(cursor_x), cursor_y)
    /\ paper' = GoTo(paper, ((paper.col \div TabStop) + 1) * TabStop, text_cols)

PutBackspace ==
    /\ Settle(pixels, IF cursor_x > 0 THEN cursor_x - 1 ELSE 0, cursor_y)
    /\ paper' = GoTo(paper, IF paper.col > 0 THEN paper.col - 1 ELSE 0, text_cols)

PutChar(c) ==
    /\ Settle(DrawChar(pixels, c, cursor_x, cursor_y, text_color), cursor_x + 1, cursor_y)
    /\ paper' = Type(paper, [char |-> c, color |-> text_color], text_cols)

framebuffer_putchar ==
    /\ active /\ LastRow(paper) < MaxRows
    /\ \/ PutNewline \/ PutReturn \/ PutTab \/ PutBackspace
       \/ \E c \in Chars : PutChar(c)
    /\ UNCHANGED <<active, text_color>>

(***************************************************************************)
(* Properties.                                                             *)
(***************************************************************************)

\* Type correctness of the framebuffer console.
FramebufferTypeOK ==
    /\ active \in BOOLEAN
    /\ DOMAIN pixels = PixelRows /\ \A y \in PixelRows : DOMAIN pixels[y] = Columns
    /\ cursor_x \in Nat /\ cursor_y \in Nat
    /\ text_color \in Colors

\* The screen shows the last rows of what was printed: every pixel row of every
\* character, after wraps, tabs, overwriting and scrolls; blanks elsewhere.
PixelsShowPaper ==
    active =>
      \A y \in 0 .. text_rows * FONT_HEIGHT - 1, x \in 0 .. text_cols - 1 :
        LET shown == ShownAt(paper, text_rows, y \div FONT_HEIGHT, x) IN
        IF shown = Blank THEN pixels[y][x].char = Space
        ELSE pixels[y][x] = Glyph(shown.char, shown.color, y % FONT_HEIGHT)

\* No part of a character is ever visible in the pixels that belong to no row or
\* column of text.  The scroll relies on it: it moves the strip below the last
\* row into that row and clears only the last FONT_HEIGHT pixel rows.
MarginsBlank ==
    active =>
      \A y \in PixelRows, x \in Columns :
        y >= text_rows * FONT_HEIGHT \/ x >= text_cols => pixels[y][x].char = Space
=============================================================================
