------------------------------ MODULE Teletype ------------------------------
(***************************************************************************)
(* What a text console of the kernel promises: what is printed goes onto a *)
(* roll of paper of a fixed width, and the screen shows its last rows.     *)
(* Constant-level operators, used by TextTerminal (src/kernel/terminal.c)  *)
(* and FramebufferConsole (src/kernel/framebuffer.c).                      *)
(*                                                                         *)
(* A paper is [rows, col]: the rows printed so far, each a function from   *)
(* columns to what was printed there, and the column of the next character *)
(* in the last row.                                                        *)
(***************************************************************************)
EXTENDS Integers, Sequences

Space == " "
Blank == [char |-> Space, color |-> "any"]
BlankRow(width) == [c \in 0 .. width - 1 |-> Blank]
FreshPaper(width) == [rows |-> <<BlankRow(width)>>, col |-> 0]

LastRow(paper) == Len(paper.rows)

\* The next row.
Feed(paper, width) ==
    [rows |-> Append(paper.rows, BlankRow(width)), col |-> 0]

\* Put the next character at column c, on the next row if there is no such column.
GoTo(paper, c, width) ==
    IF c >= width THEN Feed(paper, width) ELSE [paper EXCEPT !.col = c]

\* Print a character (with its color) and move on.
Type(paper, cell, width) ==
    GoTo([paper EXCEPT !.rows[LastRow(paper)][paper.col] = cell], paper.col + 1, width)

\* How many rows have left a screen of the given height.
Gone(paper, height) == IF LastRow(paper) > height THEN LastRow(paper) - height ELSE 0

\* What such a screen shows at row r, column c.
ShownAt(paper, height, r, c) ==
    LET k == Gone(paper, height) + r + 1 IN
    IF k <= LastRow(paper) THEN paper.rows[k][c] ELSE Blank

\* A cell of a screen agrees with what should be shown there; the color of a
\* place where nothing was printed is free.
Agrees(cell, shown) ==
    IF shown = Blank THEN cell.char = Space ELSE cell = shown
=============================================================================
