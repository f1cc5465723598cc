--------------------------- MODULE ConsoleProofs ---------------------------
(***************************************************************************)
(* Theorems about Console, for every size of both screens, every set of    *)
(* dimensions that fit the text window, and every text: nothing is written *)
(* outside the screen, and the screen shows what was printed.              *)
(***************************************************************************)
EXTENDS Console, TLAPS

\* The invariant: types, both cursors on their screens, and a text screen that lies
\* inside the text window.  Scrolling and PutEntryAt need all three.
FitInv == VGA_WIDTH * VGA_HEIGHT <= Window
TInv == TerminalTypeOK /\ FitInv /\ terminal_row < VGA_HEIGHT /\ terminal_column < VGA_WIDTH
FInv == F!FramebufferTypeOK /\ cursor_x < F!text_cols /\ cursor_y < F!text_rows
IInv == TInv /\ FInv

(***************************************************************************)
(* Arithmetic.                                                             *)
(***************************************************************************)

\* A framebuffer of at least one character has a row and a column of text.
LEMMA HasText ==
    /\ F!text_cols \in Nat \ {0} /\ F!text_rows \in Nat \ {0}
<1>1. fb_columns \in Nat \ {0}
  BY ConsoleAssumption DEF F!FramebufferAssumption
<1>2. fb_height \div FONT_HEIGHT \in Nat \ {0}
  <2>1. FONT_HEIGHT \in Nat \ {0} /\ fb_height \in Nat /\ fb_height >= FONT_HEIGHT
    BY ConsoleAssumption DEF F!FramebufferAssumption
  <2>2. QED BY <2>1, SMTT(30)
<1>3. QED BY <1>1, <1>2 DEF F!text_cols, F!text_rows

\* The cell at a column and row of the screen lies before the end of the screen.
LEMMA CellInside ==
    ASSUME NEW w \in Nat, NEW h \in Nat, NEW x \in Nat, NEW y \in Nat, x < w, y < h
    PROVE  y * w + x \in Nat /\ y * w + x < w * h
<1>1. y + 1 <= h
  OBVIOUS
<1>2. (y + 1) * w <= h * w
  BY <1>1, SMTT(30)
<1>3. (y + 1) * w = y * w + w /\ h * w = w * h /\ y * w \in Nat
  BY SMTT(30)
<1>4. w * h \in Nat
  OBVIOUS
<1>5. QED BY <1>2, <1>3, <1>4, SMTT(30)

\* Quotient and remainder, with one of each.
LEMMA Division ==
    ASSUME NEW a \in Nat, NEW b \in Nat \ {0}
    PROVE  a \div b \in Nat /\ a % b \in 0 .. b - 1 /\ a = (a \div b) * b + (a % b)
<1>1. a \div b \in Nat
  BY SMTT(30)
<1>2. a % b \in 0 .. b - 1
  BY SMTT(30)
<1>3. a = b * (a \div b) + (a % b)
  BY SMTT(30)
<1>4. b * (a \div b) = (a \div b) * b
  BY <1>1, SMTT(30)
<1>5. a = (a \div b) * b + (a % b)
  BY <1>3, <1>4
<1>6. QED BY <1>1, <1>2, <1>5

\* More of a factor is more of the product.
LEMMA Products ==
    ASSUME NEW a \in Nat, NEW c \in Nat, NEW b \in Nat, a <= c
    PROVE  a * b \in Nat /\ a * b <= c * b
<1> DEFINE k == c - a
<1>1. k \in Nat /\ c = a + k
  OBVIOUS
<1> HIDE DEF k
<1>2. a * b \in Nat /\ k * b \in Nat
  BY <1>1, SMTT(30)
<1>3. (a + k) * b = a * b + k * b
  BY <1>1, SMTT(30)
<1>4. a * b <= a * b + k * b
  BY <1>2
<1>5. QED BY <1>1, <1>2, <1>3, <1>4

\* And whatever is such a quotient and remainder is the one.
LEMMA DivisionIs ==
    ASSUME NEW q \in Nat, NEW b \in Nat \ {0}, NEW r \in Nat, r < b, NEW a, a = q * b + r
    PROVE  a \div b = q /\ a % b = r
<1>1. q * b \in Nat /\ a \in Nat
  BY SMTT(30)
<1> DEFINE p == a \div b
<1>2. p \in Nat /\ a % b \in 0 .. b - 1 /\ a = p * b + (a % b)
  BY <1>1, Division
<1>3. p * b \in Nat
  BY <1>2, SMTT(30)
<1>4. PICK m \in Nat : m = a % b /\ m < b
  BY <1>2
<1>5. PICK x \in Nat, y \in Nat : x = q * b /\ y = p * b
  BY <1>1, <1>3
<1>6. x + r = y + m
  BY <1>2, <1>4, <1>5
<1> HIDE DEF p
<1>7. ~(p < q)
  <2> SUFFICES ASSUME p < q PROVE FALSE
    OBVIOUS
  <2>1. (p + 1) * b <= q * b
    BY <1>2, Products
  <2>2. (p + 1) * b = p * b + b
    BY <1>2, SMTT(30)
  <2>3. y + b <= x
    BY <1>5, <2>1, <2>2
  <2>4. QED BY <1>4, <1>5, <1>6, <2>3
<1>8. ~(q < p)
  <2> SUFFICES ASSUME q < p PROVE FALSE
    OBVIOUS
  <2>1. (q + 1) * b <= p * b
    BY <1>2, Products
  <2>2. (q + 1) * b = q * b + b
    BY SMTT(30)
  <2>3. x + b <= y
    BY <1>5, <2>1, <2>2
  <2>4. QED BY <1>4, <1>5, <1>6, <2>3
<1>9. p = q
  BY <1>2, <1>7, <1>8
<1>10. x = y
  BY <1>5, <1>9, Zenon
<1>11. m = r
  BY <1>4, <1>5, <1>6, <1>10
<1>12. QED BY <1>4, <1>9, <1>11 DEF p
(***************************************************************************)
(* Paper.                                                                  *)
(***************************************************************************)

\* What there can be on a roll of paper, and the roll itself.
Sorts == {Blank} \cup [char : Chars, color : Colors]
PaperOK(p, w) ==
    /\ p = [rows |-> p.rows, col |-> p.col]
    /\ p.rows \in Seq([0 .. w - 1 -> Sorts]) /\ Len(p.rows) > 0
    /\ p.col \in 0 .. w - 1

\* The screen's row that the last row of the paper is on.
Row(p, h) == LastRow(p) - 1 - Gone(p, h)

\* On fresh paper there is nothing.
LEMMA FreshIs ==
    ASSUME NEW w \in Nat \ {0}, NEW h \in Nat \ {0}
    PROVE  LET p == FreshPaper(w) IN
           /\ PaperOK(p, w) /\ p.col = 0 /\ LastRow(p) = 1 /\ Row(p, h) = 0
           /\ \A r \in 0 .. h - 1, c \in 0 .. w - 1 : ShownAt(p, h, r, c) = Blank
<1> DEFINE p == FreshPaper(w)
<1>1. p = [rows |-> <<BlankRow(w)>>, col |-> 0]
  BY DEF FreshPaper
<1>2. BlankRow(w) \in [0 .. w - 1 -> Sorts] /\ \A c \in 0 .. w - 1 : BlankRow(w)[c] = Blank
  BY DEF BlankRow, Sorts
<1> HIDE DEF p
<1>3. p.rows = <<BlankRow(w)>> /\ p.col = 0
  BY <1>1
<1>4. /\ p.rows \in Seq([0 .. w - 1 -> Sorts]) /\ Len(p.rows) = 1
      /\ p.rows[1] = BlankRow(w)
  BY <1>2, <1>3
<1>5. PaperOK(p, w)
  BY <1>1, <1>3, <1>4 DEF PaperOK
<1>6. LastRow(p) = 1
  BY <1>4 DEF LastRow
<1>7. Gone(p, h) = 0
  BY <1>6 DEF Gone
<1>8. Row(p, h) = 0
  BY <1>6, <1>7 DEF Row
<1>9. ASSUME NEW r \in 0 .. h - 1, NEW c \in 0 .. w - 1
      PROVE  ShownAt(p, h, r, c) = Blank
  <2>1. CASE r = 0
    BY <1>2, <1>4, <1>6, <1>7, <2>1 DEF ShownAt
  <2>2. CASE r # 0
    BY <1>6, <1>7, <2>2 DEF ShownAt
  <2>3. QED BY <2>1, <2>2
<1>10. QED BY <1>3, <1>5, <1>6, <1>8, <1>9 DEF p

\* The next row of paper: the screen moves up if it is full.
LEMMA FeedIs ==
    ASSUME NEW w \in Nat \ {0}, NEW h \in Nat \ {0}, NEW p, PaperOK(p, w)
    PROVE  LET q == Feed(p, w) IN
           /\ PaperOK(q, w) /\ q.col = 0
           /\ Row(p, h) \in 0 .. h - 1
           /\ Row(p, h) + 1 # h =>
                /\ Row(q, h) = Row(p, h) + 1
                /\ \A r \in 0 .. h - 1, c \in 0 .. w - 1 :
                     ShownAt(q, h, r, c) = ShownAt(p, h, r, c)
           /\ Row(p, h) + 1 = h =>
                /\ Row(q, h) = h - 1
                /\ \A r \in 0 .. h - 1, c \in 0 .. w - 1 :
                     ShownAt(q, h, r, c) = IF r < h - 1 THEN ShownAt(p, h, r + 1, c) ELSE Blank
<1> DEFINE q == Feed(p, w)
<1>1. q = [rows |-> Append(p.rows, BlankRow(w)), col |-> 0]
  BY DEF Feed
<1>2. BlankRow(w) \in [0 .. w - 1 -> Sorts] /\ \A c \in 0 .. w - 1 : BlankRow(w)[c] = Blank
  BY DEF BlankRow, Sorts
<1>3. p.rows \in Seq([0 .. w - 1 -> Sorts]) /\ Len(p.rows) > 0 /\ Len(p.rows) \in Nat
  BY DEF PaperOK
<1> HIDE DEF q
<1>4. q.rows = Append(p.rows, BlankRow(w)) /\ q.col = 0
  BY <1>1
<1> PICK n \in Nat : n = LastRow(p) /\ n > 0
  BY <1>3 DEF LastRow
<1>5. n \in Nat /\ n > 0 /\ LastRow(p) = n /\ Len(p.rows) = n
  BY DEF LastRow
<1>6. /\ q.rows \in Seq([0 .. w - 1 -> Sorts]) /\ Len(q.rows) = n + 1
      /\ \A k \in 1 .. n : q.rows[k] = p.rows[k]
      /\ q.rows[n + 1] = BlankRow(w)
  BY <1>2, <1>3, <1>4, <1>5
<1>7. PaperOK(q, w)
  BY <1>1, <1>4, <1>5, <1>6 DEF PaperOK
<1>8. LastRow(q) = n + 1
  BY <1>6 DEF LastRow
<1>9. CASE n < h
  <2>1. Gone(p, h) = 0 /\ Gone(q, h) = 0
    BY <1>5, <1>8, <1>9 DEF Gone
  <2>2. Row(p, h) = n - 1 /\ Row(q, h) = n
    BY <1>5, <1>8, <2>1 DEF Row
  <2>3. ASSUME NEW r \in 0 .. h - 1, NEW c \in 0 .. w - 1
        PROVE  ShownAt(q, h, r, c) = ShownAt(p, h, r, c)
    <3>1. ShownAt(q, h, r, c) = IF r + 1 <= n + 1 THEN q.rows[r + 1][c] ELSE Blank
      BY <1>8, <2>1 DEF ShownAt
    <3>2. ShownAt(p, h, r, c) = IF r + 1 <= n THEN p.rows[r + 1][c] ELSE Blank
      BY <1>5, <2>1 DEF ShownAt
    <3>3. QED BY <1>2, <1>6, <3>1, <3>2
  <2>4. QED BY <1>4, <1>5, <1>7, <1>9, <2>2, <2>3 DEF q
<1>10. CASE n >= h
  <2>1. Gone(p, h) = n - h /\ Gone(q, h) = n + 1 - h
    BY <1>5, <1>8, <1>10 DEF Gone
  <2>2. Row(p, h) = h - 1 /\ Row(q, h) = h - 1
    BY <1>5, <1>8, <2>1 DEF Row
  <2>3. ASSUME NEW r \in 0 .. h - 1, NEW c \in 0 .. w - 1
        PROVE  ShownAt(q, h, r, c) = IF r < h - 1 THEN ShownAt(p, h, r + 1, c) ELSE Blank
    <3>1. ShownAt(q, h, r, c) = q.rows[(n + 1 - h) + r + 1][c]
      BY <1>8, <2>1 DEF ShownAt
    <3>2. ASSUME r < h - 1 PROVE ShownAt(p, h, r + 1, c) = p.rows[(n - h) + (r + 1) + 1][c]
      BY <1>5, <2>1, <3>2 DEF ShownAt
    <3>3. CASE r < h - 1
      <4>1. (n + 1 - h) + r + 1 = (n - h) + (r + 1) + 1 /\ (n + 1 - h) + r + 1 \in 1 .. n
        BY <1>10, <3>3
      <4>2. QED BY <1>6, <3>1, <3>2, <3>3, <4>1
    <3>4. CASE r = h - 1
      <4>1. (n + 1 - h) + r + 1 = n + 1
        BY <3>4
      <4>2. QED BY <1>2, <1>6, <3>1, <3>4, <4>1
    <3>5. QED BY <3>3, <3>4
  <2>4. QED BY <1>4, <1>7, <2>2, <2>3 DEF q
<1>11. QED BY <1>9, <1>10

\* A character goes to the place where the paper stands, and nowhere else.
LEMMA TypedIs ==
    ASSUME NEW w \in Nat \ {0}, NEW h \in Nat \ {0}, NEW p, PaperOK(p, w), NEW cell \in Sorts
    PROVE  LET q == [p EXCEPT !.rows[LastRow(p)][p.col] = cell] IN
           /\ PaperOK(q, w) /\ q.col = p.col /\ Row(q, h) = Row(p, h)
           /\ \A r \in 0 .. h - 1, c \in 0 .. w - 1 :
                ShownAt(q, h, r, c) = IF r = Row(p, h) /\ c = p.col THEN cell
                                      ELSE ShownAt(p, h, r, c)
<1> DEFINE q == [p EXCEPT !.rows[LastRow(p)][p.col] = cell]
<1> PICK n \in Nat : n = LastRow(p) /\ n > 0
  BY DEF PaperOK, LastRow
<1>1. /\ n \in Nat /\ n > 0 /\ LastRow(p) = n /\ Len(p.rows) = n
      /\ p = [rows |-> p.rows, col |-> p.col]
      /\ p.rows \in Seq([0 .. w - 1 -> Sorts]) /\ p.col \in 0 .. w - 1
  BY DEF LastRow, PaperOK
<1>2. q = [rows |-> [p.rows EXCEPT ![n] = [p.rows[n] EXCEPT ![p.col] = cell]], col |-> p.col]
  <2> DEFINE R == [p.rows EXCEPT ![n] = [p.rows[n] EXCEPT ![p.col] = cell]]
  <2>1. q = [p EXCEPT !.rows = R]
    BY <1>1, Zenon
  <2> HIDE DEF q, R
  <2>2. q = [rows |-> R, col |-> p.col]
    BY <1>1, <2>1
  <2>3. QED BY <2>2 DEF R
<1> HIDE DEF q
<1>3. q.rows = [p.rows EXCEPT ![n] = [p.rows[n] EXCEPT ![p.col] = cell]] /\ q.col = p.col
  BY <1>2
<1>4. [p.rows[n] EXCEPT ![p.col] = cell] \in [0 .. w - 1 -> Sorts]
  BY <1>1
<1>5. /\ q.rows \in Seq([0 .. w - 1 -> Sorts]) /\ Len(q.rows) = n
      /\ \A k \in 1 .. n : q.rows[k] = IF k = n THEN [p.rows[n] EXCEPT ![p.col] = cell]
                                       ELSE p.rows[k]
  BY <1>1, <1>3, <1>4
<1>6. PaperOK(q, w)
  BY <1>1, <1>2, <1>3, <1>5 DEF PaperOK
<1>7. LastRow(q) = n
  BY <1>5 DEF LastRow
<1>8. Gone(q, h) = Gone(p, h) /\ Gone(p, h) \in Nat /\ Gone(p, h) < n
  BY <1>1, <1>7 DEF Gone
<1>9. Row(q, h) = Row(p, h) /\ Row(p, h) = n - 1 - Gone(p, h)
  BY <1>1, <1>7, <1>8 DEF Row
<1>10. ASSUME NEW r \in 0 .. h - 1, NEW c \in 0 .. w - 1
       PROVE  ShownAt(q, h, r, c) = IF r = Row(p, h) /\ c = p.col THEN cell
                                    ELSE ShownAt(p, h, r, c)
  <2>1. PICK g \in Nat : g = Gone(p, h) /\ g < n
    BY <1>8
  <2>2. ShownAt(q, h, r, c) = IF g + r + 1 <= n THEN q.rows[g + r + 1][c] ELSE Blank
    BY <1>7, <1>8, <2>1 DEF ShownAt
  <2>3. ShownAt(p, h, r, c) = IF g + r + 1 <= n THEN p.rows[g + r + 1][c] ELSE Blank
    BY <1>1, <2>1 DEF ShownAt
  <2>4. r = Row(p, h) <=> g + r + 1 = n
    BY <1>9, <2>1
  <2>5. CASE r = Row(p, h)
    <3>1. q.rows[n][c] = IF c = p.col THEN cell ELSE p.rows[n][c]
      <4>1. q.rows[n] = [p.rows[n] EXCEPT ![p.col] = cell]
        <5>1. n \in 1 .. n
          BY <1>1
        <5>2. QED BY <1>5, <5>1, Zenon
      <4>2. p.rows[n] \in [0 .. w - 1 -> Sorts]
        BY <1>1
      <4>3. QED BY <4>1, <4>2
    <3>2. QED BY <2>2, <2>3, <2>4, <2>5, <3>1
  <2>6. CASE r # Row(p, h)
    <3>1. g + r + 1 <= n => g + r + 1 \in 1 .. n /\ g + r + 1 # n
      BY <2>4, <2>6
    <3>2. QED BY <1>5, <2>2, <2>3, <2>6, <3>1
  <2>7. QED BY <2>5, <2>6
<1>11. QED BY <1>3, <1>6, <1>9, <1>10 DEF q

\* The paper goes to another column of the same row.
LEMMA MovedIs ==
    ASSUME NEW w \in Nat \ {0}, NEW h \in Nat \ {0}, NEW p, PaperOK(p, w), NEW x \in 0 .. w - 1
    PROVE  LET q == [p EXCEPT !.col = x] IN
           /\ PaperOK(q, w) /\ q.col = x /\ Row(q, h) = Row(p, h)
           /\ \A r, c : ShownAt(q, h, r, c) = ShownAt(p, h, r, c)
<1> DEFINE q == [p EXCEPT !.col = x]
<1>1. p = [rows |-> p.rows, col |-> p.col]
  BY DEF PaperOK
<1>2. q = [rows |-> p.rows, col |-> x]
  BY <1>1
<1> HIDE DEF q
<1>3. q.rows = p.rows /\ q.col = x
  BY <1>2
<1>4. PaperOK(q, w)
  BY <1>2, <1>3 DEF PaperOK
<1>5. LastRow(q) = LastRow(p)
  BY <1>3 DEF LastRow
<1>6. Row(q, h) = Row(p, h) /\ \A r, c : ShownAt(q, h, r, c) = ShownAt(p, h, r, c)
  BY <1>3, <1>5 DEF Row, Gone, ShownAt
<1>7. QED BY <1>3, <1>4, <1>6 DEF q

(***************************************************************************)
(* The framebuffer console.                                                *)
(***************************************************************************)

\* Whatever is redrawn, the pixels keep their shape.
ShapeOK(px) == DOMAIN px = F!PixelRows /\ \A y \in F!PixelRows : DOMAIN px[y] = F!Columns

LEMMA ClearedShape ==
    ASSUME NEW px, NEW color, ShapeOK(px)
    PROVE  ShapeOK(F!Cleared(px, color))
BY DEF ShapeOK, F!Cleared, F!Redraw

LEMMA ScrolledShape ==
    ASSUME NEW px, ShapeOK(px)
    PROVE  ShapeOK(F!Scrolled(px))
BY DEF ShapeOK, F!Scrolled, F!Redraw

LEMMA DrawCharShape ==
    ASSUME NEW px, NEW c, NEW col, NEW row, NEW color, ShapeOK(px)
    PROVE  ShapeOK(F!DrawChar(px, c, col, row, color))
BY DEF ShapeOK, F!DrawChar, F!Redraw

\* The end of every framebuffer_putchar: the cursor is on the screen again.
LEMMA SettleFits ==
    ASSUME FInv, NEW px, ShapeOK(px), NEW x \in Nat, NEW y \in Nat,
           F!Settle(px, x, y), active' = active, text_color' = text_color
    PROVE  FInv'
<1>1. F!text_cols \in Nat \ {0} /\ F!text_rows \in Nat \ {0}
  BY HasText
<1>2. ShapeOK(F!Scrolled(px))
  BY ScrolledShape
<1>3. ShapeOK(pixels')
  BY <1>2 DEF F!Settle
<1>4. /\ cursor_x' \in Nat /\ cursor_x' < F!text_cols
      /\ cursor_y' \in Nat /\ cursor_y' < F!text_rows
  BY <1>1 DEF F!Settle
<1>5. F!text_cols' = F!text_cols /\ F!text_rows' = F!text_rows
  BY DEF F!text_cols, F!text_rows
<1>6. F!FramebufferTypeOK'
  BY <1>3, <1>4 DEF FInv, F!FramebufferTypeOK, ShapeOK, F!PixelRows, F!Columns
<1>7. QED BY <1>4, <1>5, <1>6 DEF FInv

\* The cursor starts in the corner of a cleared screen.
LEMMA RestartFits ==
    ASSUME FInv, NEW color, F!Restart(color), active' \in BOOLEAN, text_color' \in Colors
    PROVE  FInv'
<1>1. ShapeOK(F!Cleared(pixels, color))
  BY ClearedShape DEF FInv, F!FramebufferTypeOK, ShapeOK
<1>2. ShapeOK(pixels') /\ cursor_x' = 0 /\ cursor_y' = 0
  BY <1>1 DEF F!Restart
<1>3. F!FramebufferTypeOK'
  BY <1>2 DEF F!FramebufferTypeOK, ShapeOK, F!PixelRows, F!Columns
<1>4. 0 < F!text_cols' /\ 0 < F!text_rows'
  BY HasText DEF F!text_cols, F!text_rows
<1>5. QED BY <1>2, <1>3, <1>4 DEF FInv

LEMMA PutcharFits ==
    ASSUME FInv, F!framebuffer_putchar
    PROVE  FInv'
<1>1. ShapeOK(pixels) /\ cursor_x \in Nat /\ cursor_y \in Nat
  BY DEF FInv, F!FramebufferTypeOK, ShapeOK
<1>2. active' = active /\ text_color' = text_color
  BY DEF F!framebuffer_putchar
<1>3. CASE F!PutNewline
  <2>1. F!Settle(pixels, 0, cursor_y + 1)
    BY <1>3 DEF F!PutNewline
  <2>2. QED BY <1>1, <1>2, <2>1, SettleFits
<1>4. CASE F!PutReturn
  <2>1. F!Settle(pixels, 0, cursor_y)
    BY <1>4 DEF F!PutReturn
  <2>2. QED BY <1>1, <1>2, <2>1, SettleFits
<1>5. CASE F!PutTab
  <2>1. F!Settle(pixels, F!NextStop(cursor_x), cursor_y)
    BY <1>5 DEF F!PutTab
  <2>2. F!NextStop(cursor_x) \in Nat
    <3>1. TabStop \in Nat \ {0}
      BY ConsoleAssumption DEF F!FramebufferAssumption
    <3>2. QED BY <1>1, <3>1, SMTT(30) DEF F!NextStop
  <2>3. QED BY <1>1, <1>2, <2>1, <2>2, SettleFits
<1>6. CASE F!PutBackspace
  <2>1. F!Settle(pixels, IF cursor_x > 0 THEN cursor_x - 1 ELSE 0, cursor_y)
    BY <1>6 DEF F!PutBackspace
  <2>2. (IF cursor_x > 0 THEN cursor_x - 1 ELSE 0) \in Nat
    BY <1>1
  <2>3. QED BY <1>1, <1>2, <2>1, <2>2, SettleFits
<1>7. CASE \E c \in Chars : F!PutChar(c)
  <2>1. PICK c \in Chars : F!PutChar(c)
    BY <1>7
  <2>2. F!Settle(F!DrawChar(pixels, c, cursor_x, cursor_y, text_color), cursor_x + 1, cursor_y)
    BY <2>1 DEF F!PutChar
  <2>3. ShapeOK(F!DrawChar(pixels, c, cursor_x, cursor_y, text_color))
    BY <1>1, DrawCharShape
  <2>4. QED BY <1>1, <1>2, <2>2, <2>3, SettleFits
<1>8. QED BY <1>3, <1>4, <1>5, <1>6, <1>7 DEF F!framebuffer_putchar

LEMMA FramebufferSame ==
    ASSUME FInv, UNCHANGED framebuffer
    PROVE  FInv'
BY DEF FInv, framebuffer, F!FramebufferTypeOK, F!PixelRows, F!Columns, F!text_cols, F!text_rows

(***************************************************************************)
(* The terminal.                                                           *)
(***************************************************************************)

\* A cell of the screen is one of the window, and inside the screen.
LEMMA CursorCell ==
    ASSUME TInv
    PROVE  /\ Index(terminal_column, terminal_row) = terminal_row * VGA_WIDTH + terminal_column
           /\ Index(terminal_column, terminal_row) < VGA_WIDTH * VGA_HEIGHT
<1> DEFINE k == terminal_row * VGA_WIDTH + terminal_column
<1>1. k \in Nat /\ k < VGA_WIDTH * VGA_HEIGHT
  BY CellInside DEF TInv, TerminalTypeOK
<1>2. VGA_WIDTH * VGA_HEIGHT \in Nat
  BY DEF TInv, TerminalTypeOK
<1>3. k < Window
  BY <1>1, <1>2, TerminalAssumption DEF TInv, FitInv, TerminalAssumption
<1>4. Index(terminal_column, terminal_row) = k
  BY <1>3 DEF Index
<1>5. QED BY <1>1, <1>4

\* What a scroll changes is inside the screen.
LEMMA ScrollInside ==
    ASSUME TInv, NEW mem, NEW k \in Cells, Scrolled(mem)[k] # mem[k]
    PROVE  k < VGA_WIDTH * VGA_HEIGHT
<1>1. k \in Nat
  BY TerminalAssumption DEF Cells, TerminalAssumption
<1>2. k < VGA_HEIGHT * VGA_WIDTH \/ k < (VGA_HEIGHT - 1) * VGA_WIDTH
  BY DEF Scrolled
<1>3. VGA_WIDTH \in Nat /\ VGA_HEIGHT \in Nat \ {0}
  BY DEF TInv, TerminalTypeOK
<1>4. (VGA_HEIGHT - 1) * VGA_WIDTH <= VGA_HEIGHT * VGA_WIDTH
      /\ VGA_HEIGHT * VGA_WIDTH = VGA_WIDTH * VGA_HEIGHT
      /\ (VGA_HEIGHT - 1) * VGA_WIDTH \in Nat /\ VGA_HEIGHT * VGA_WIDTH \in Nat
  BY <1>3, SMTT(30)
<1>5. QED BY <1>1, <1>2, <1>4

\* The next row is on the screen, with or without a scroll, and what is written is too.
LEMMA NextRowFits ==
    ASSUME TInv, NEW mem, DOMAIN mem = Cells, NextRow(mem)
    PROVE  /\ DOMAIN vga' = Cells
           /\ terminal_row' \in Nat /\ terminal_row' < VGA_HEIGHT
           /\ terminal_column' = 0
           /\ \A k \in Cells : vga'[k] # mem[k] => k < VGA_WIDTH * VGA_HEIGHT
<1>1. CASE terminal_row + 1 = VGA_HEIGHT
  <2>1. terminal_row' = VGA_HEIGHT - 1 /\ vga' = Scrolled(mem) /\ terminal_column' = 0
    BY <1>1 DEF NextRow
  <2>2. DOMAIN Scrolled(mem) = Cells
    BY DEF Scrolled
  <2>3. VGA_HEIGHT \in Nat \ {0}
    BY DEF TInv, TerminalTypeOK
  <2>4. \A k \in Cells : vga'[k] # mem[k] => k < VGA_WIDTH * VGA_HEIGHT
    BY <2>1, ScrollInside
  <2>5. QED BY <2>1, <2>2, <2>3, <2>4
<1>2. CASE terminal_row + 1 # VGA_HEIGHT
  <2>1. terminal_row' = terminal_row + 1 /\ vga' = mem /\ terminal_column' = 0
    BY <1>2 DEF NextRow
  <2>2. terminal_row + 1 \in Nat /\ terminal_row + 1 < VGA_HEIGHT
    BY <1>2 DEF TInv, TerminalTypeOK
  <2>3. QED BY <2>1, <2>2
<1>3. QED BY <1>1, <1>2

\* A character: the cursor is on the screen again, and what is written is inside it.
LEMMA PutCharFits ==
    ASSUME TInv, NEW c \in Chars, PutChar(c)
    PROVE  TInv' /\ \A k \in Cells : vga'[k] # vga[k] => k < VGA_WIDTH * VGA_HEIGHT
<1> DEFINE mem == PutEntryAt(vga, c, terminal_column, terminal_row)
<1>1. /\ up' = up /\ VGA_WIDTH' = VGA_WIDTH /\ VGA_HEIGHT' = VGA_HEIGHT
      /\ terminal_color' = terminal_color /\ intact' = intact
  BY DEF PutChar
<1>2. DOMAIN mem = Cells
  BY DEF PutEntryAt, TInv, TerminalTypeOK
<1>3. \A k \in Cells : mem[k] # vga[k] => k < VGA_WIDTH * VGA_HEIGHT
  <2>1. \A k \in Cells : mem[k] # vga[k] => k = Index(terminal_column, terminal_row)
    BY DEF PutEntryAt, TInv, TerminalTypeOK
  <2>2. QED BY <2>1, CursorCell
<1>4. /\ DOMAIN vga' = Cells
      /\ terminal_row' \in Nat /\ terminal_row' < VGA_HEIGHT
      /\ terminal_column' \in Nat /\ terminal_column' < VGA_WIDTH
      /\ \A k \in Cells : vga'[k] # mem[k] => k < VGA_WIDTH * VGA_HEIGHT
  <2>1. CASE terminal_column + 1 = VGA_WIDTH
    <3>1. NextRow(mem)
      BY <2>1 DEF PutChar
    <3>2. VGA_WIDTH \in Nat \ {0}
      BY DEF TInv, TerminalTypeOK
    <3> HIDE DEF mem
    <3>3. QED BY <1>2, <3>1, <3>2, NextRowFits
  <2>2. CASE terminal_column + 1 # VGA_WIDTH
    <3>1. terminal_column' = terminal_column + 1 /\ vga' = mem /\ terminal_row' = terminal_row
      BY <2>2 DEF PutChar
    <3>2. terminal_column + 1 \in Nat /\ terminal_column + 1 < VGA_WIDTH
      BY <2>2 DEF TInv, TerminalTypeOK
    <3> HIDE DEF mem
    <3>3. QED BY <1>2, <3>1, <3>2 DEF TInv, TerminalTypeOK
  <2>3. QED BY <2>1, <2>2
<1> HIDE DEF mem
<1>5. TInv'
  BY <1>1, <1>4 DEF TInv, FitInv, TerminalTypeOK, Cells
<1>6. QED BY <1>3, <1>4, <1>5

LEMMA PutNewlineFits ==
    ASSUME TInv, PutNewline
    PROVE  TInv' /\ \A k \in Cells : vga'[k] # vga[k] => k < VGA_WIDTH * VGA_HEIGHT
<1>1. /\ up' = up /\ VGA_WIDTH' = VGA_WIDTH /\ VGA_HEIGHT' = VGA_HEIGHT
      /\ terminal_color' = terminal_color /\ intact' = intact /\ NextRow(vga)
  BY DEF PutNewline
<1>2. DOMAIN vga = Cells /\ VGA_WIDTH \in Nat \ {0}
  BY DEF TInv, TerminalTypeOK
<1>3. /\ DOMAIN vga' = Cells
      /\ terminal_row' \in Nat /\ terminal_row' < VGA_HEIGHT
      /\ terminal_column' = 0
      /\ \A k \in Cells : vga'[k] # vga[k] => k < VGA_WIDTH * VGA_HEIGHT
  BY <1>1, <1>2, NextRowFits
<1>4. TInv'
  BY <1>1, <1>2, <1>3 DEF TInv, FitInv, TerminalTypeOK, Cells
<1>5. QED BY <1>3, <1>4

LEMMA InitializeFits ==
    ASSUME TInv, InitializeText
    PROVE  TInv' /\ \A k \in Cells : vga'[k] # vga[k] => k < VGA_WIDTH * VGA_HEIGHT
<1>1. /\ up' = TRUE /\ terminal_row' = 0 /\ terminal_column' = 0
      /\ terminal_color' = DefaultColor
      /\ VGA_WIDTH' = VGA_WIDTH /\ VGA_HEIGHT' = VGA_HEIGHT /\ intact' = intact
      /\ vga' = [k \in Cells |-> IF k < VGA_WIDTH * VGA_HEIGHT
                                 THEN vga_entry(Space, DefaultColor) ELSE vga[k]]
  BY DEF InitializeText
<1>2. DOMAIN vga' = Cells
  BY <1>1
<1>3. /\ VGA_WIDTH' \in Nat \ {0} /\ VGA_HEIGHT' \in Nat \ {0}
      /\ VGA_WIDTH' * VGA_HEIGHT' <= Window /\ intact' \in BOOLEAN /\ up' \in BOOLEAN
  BY <1>1 DEF TInv, FitInv, TerminalTypeOK
<1>4. terminal_color' \in Colors
  BY <1>1, TerminalAssumption DEF TerminalAssumption
<1>5. terminal_row' = 0 /\ terminal_column' = 0
  BY <1>1
<1>6. TInv'
  BY <1>2, <1>3, <1>4, <1>5 DEF TInv, FitInv, TerminalTypeOK, Cells
<1>7. QED BY <1>1, <1>6

\* With a framebuffer the cells stay as they are.
LEMMA InitializeGraphicsFits ==
    ASSUME IInv, InitializeGraphics
    PROVE  IInv' /\ vga' = vga
<1>1. /\ up' = TRUE /\ terminal_row' = 0 /\ terminal_column' = 0
      /\ terminal_color' = DefaultColor /\ text_color' = DefaultColor
      /\ VGA_WIDTH' = VGA_WIDTH /\ VGA_HEIGHT' = VGA_HEIGHT /\ intact' = intact
      /\ vga' = vga /\ active' = active /\ F!Restart(DefaultColor)
  BY DEF InitializeGraphics
<1>2. TInv'
  BY <1>1, TerminalAssumption DEF IInv, TInv, FitInv, TerminalTypeOK, Cells, TerminalAssumption
<1>3. active' \in BOOLEAN /\ text_color' \in Colors
  BY <1>1, TerminalAssumption DEF IInv, FInv, F!FramebufferTypeOK, TerminalAssumption
<1>4. FInv'
  BY <1>1, <1>3, RestartFits DEF IInv
<1>5. QED BY <1>1, <1>2, <1>4 DEF IInv

\* New dimensions pull the cursor back inside: it may have to leave the last column
\* for the next row, which must then be there.
LEMMA SetDimensionsFits ==
    ASSUME TInv, NEW d \in Dimensions, terminal_set_dimensions(d[1], d[2])
    PROVE  TInv' /\ vga' = vga
<1>1. d[1] \in Nat \ {0} /\ d[2] \in Nat \ {0} /\ d[1] * d[2] <= Window
  BY TerminalAssumption DEF TerminalAssumption
<1>2. /\ up' = up /\ vga' = vga /\ terminal_color' = terminal_color
      /\ VGA_WIDTH' = d[1] /\ VGA_HEIGHT' = d[2]
  BY DEF terminal_set_dimensions
<1>3. intact' \in BOOLEAN
  BY DEF terminal_set_dimensions, TInv, TerminalTypeOK
<1>4. /\ terminal_row' \in Nat /\ terminal_row' < d[2]
      /\ terminal_column' \in Nat /\ terminal_column' < d[1]
  <2>1. terminal_row \in Nat /\ terminal_column \in Nat
    BY DEF TInv, TerminalTypeOK
  <2>2. CASE terminal_column >= d[1]
    BY <1>1, <2>1, <2>2 DEF terminal_set_dimensions
  <2>3. CASE ~(terminal_column >= d[1])
    BY <1>1, <2>1, <2>3 DEF terminal_set_dimensions
  <2>4. QED BY <2>2, <2>3
<1>5. TInv'
  BY <1>1, <1>2, <1>3, <1>4 DEF TInv, FitInv, TerminalTypeOK, Cells
<1>6. QED BY <1>2, <1>5

LEMMA TerminalSame ==
    ASSUME TInv, UNCHANGED terminal
    PROVE  TInv' /\ vga' = vga
BY DEF TInv, terminal, FitInv, TerminalTypeOK, Cells

(***************************************************************************)
(* The text screen and its paper.                                          *)
(***************************************************************************)

\* The first cells of mem, as h rows of w, show what they should of paper p.
Shows(mem, p, w, h) ==
    \A r \in 0 .. h - 1, c \in 0 .. w - 1 : Agrees(mem[r * w + c], ShownAt(p, h, r, c))

\* The text screen shows its paper, and the cursor is where the paper stands.
TextInv ==
    ~active /\ up /\ intact =>
      /\ PaperOK(paper, VGA_WIDTH)
      /\ terminal_row = Row(paper, VGA_HEIGHT) /\ terminal_column = paper.col
      /\ Shows(vga, paper, VGA_WIDTH, VGA_HEIGHT)

\* A space agrees with a place where nothing was printed.
LEMMA SpaceAgrees ==
    ASSUME NEW color
    PROVE  Agrees(vga_entry(Space, color), Blank)
<1>1. vga_entry(Space, color).char = Space
  BY DEF vga_entry
<1>2. QED BY <1>1, Zenon DEF Agrees

\* What was typed agrees with itself.
LEMMA TypedAgrees ==
    ASSUME NEW c, NEW color
    PROVE  Agrees(vga_entry(c, color), vga_entry(c, color))
<1>1. vga_entry(c, color) = Blank => vga_entry(c, color).char = Space
  BY DEF Blank
<1>2. QED BY <1>1, Zenon DEF Agrees

\* Two places of a screen are different cells.
LEMMA CellsDiffer ==
    ASSUME NEW w \in Nat, NEW x \in Nat, NEW y \in Nat, NEW u \in Nat, NEW v \in Nat,
           x < w, u < w, y * w + x = v * w + u
    PROVE  x = u /\ y = v
<1>1. y * w + x \in Nat /\ v * w + u \in Nat /\ y * w \in Nat /\ v * w \in Nat
  BY SMTT(30)
<1>2. ~(y < v)
  <2> SUFFICES ASSUME y < v PROVE FALSE
    OBVIOUS
  <2>1. y * w + x < w * v
    BY CellInside
  <2>2. w * v = v * w
    BY SMTT(30)
  <2>3. QED BY <1>1, <2>1, <2>2
<1>3. ~(v < y)
  <2> SUFFICES ASSUME v < y PROVE FALSE
    OBVIOUS
  <2>1. v * w + u < w * y
    BY CellInside
  <2>2. w * y = y * w
    BY SMTT(30)
  <2>3. QED BY <1>1, <2>1, <2>2
<1>4. y = v
  BY <1>2, <1>3
<1>5. QED BY <1>1, <1>4

\* A row further is w cells further.
LEMMA NextRowCell ==
    ASSUME NEW w \in Nat, NEW r \in Nat, NEW c \in Nat
    PROVE  r * w + c + w = (r + 1) * w + c /\ r * w + c \in Nat
<1>1. r * w \in Nat /\ (r + 1) * w = r * w + w
  BY SMTT(30)
<1>2. QED BY <1>1

\* A place of the screen as a cell of the window.
LEMMA CellOf ==
    ASSUME TInv, NEW r \in 0 .. VGA_HEIGHT - 1, NEW c \in 0 .. VGA_WIDTH - 1
    PROVE  /\ Index(c, r) = r * VGA_WIDTH + c /\ r * VGA_WIDTH + c \in Cells
           /\ r * VGA_WIDTH + c \in Nat /\ r * VGA_WIDTH + c < VGA_HEIGHT * VGA_WIDTH
<1>1. VGA_WIDTH \in Nat \ {0} /\ VGA_HEIGHT \in Nat \ {0} /\ VGA_WIDTH * VGA_HEIGHT <= Window
  BY DEF TInv, TerminalTypeOK, FitInv
<1>2. PICK k, m, n : k = r * VGA_WIDTH + c /\ m = VGA_WIDTH * VGA_HEIGHT
                       /\ n = VGA_HEIGHT * VGA_WIDTH
  OBVIOUS
<1>3. k \in Nat /\ k < m
  <2>1. r \in Nat /\ r < VGA_HEIGHT /\ c \in Nat /\ c < VGA_WIDTH
    BY <1>1
  <2>2. QED BY <1>1, <1>2, <2>1, CellInside
<1>4. m = n /\ m \in Nat
  BY <1>1, <1>2, SMTT(30)
<1>5. Window \in Nat /\ m <= Window
  BY <1>1, <1>2, TerminalAssumption DEF TerminalAssumption
<1>6. k < Window /\ k \in Cells
  BY <1>3, <1>4, <1>5 DEF Cells
<1>7. Index(c, r) = k
  BY <1>2, <1>6 DEF Index
<1>8. QED BY <1>2, <1>3, <1>4, <1>6, <1>7

\* Feeding the paper, with the scroll where the screen is full.
LEMMA NextRowShows ==
    ASSUME TInv, NEW mem, NEW p, PaperOK(p, VGA_WIDTH),
           Shows(mem, p, VGA_WIDTH, VGA_HEIGHT), terminal_row = Row(p, VGA_HEIGHT),
           NextRow(mem)
    PROVE  LET q == Feed(p, VGA_WIDTH) IN
           /\ PaperOK(q, VGA_WIDTH)
           /\ terminal_row' = Row(q, VGA_HEIGHT) /\ terminal_column' = q.col
           /\ Shows(vga', q, VGA_WIDTH, VGA_HEIGHT)
<1> PICK w, h : w = VGA_WIDTH /\ h = VGA_HEIGHT
  OBVIOUS
<1>1. w = VGA_WIDTH /\ h = VGA_HEIGHT /\ w \in Nat \ {0} /\ h \in Nat \ {0}
  BY DEF TInv, TerminalTypeOK
<1> DEFINE q == Feed(p, w)
<1>2. /\ PaperOK(q, w) /\ q.col = 0
      /\ Row(p, h) + 1 # h =>
           /\ Row(q, h) = Row(p, h) + 1
           /\ \A r \in 0 .. h - 1, c \in 0 .. w - 1 : ShownAt(q, h, r, c) = ShownAt(p, h, r, c)
      /\ Row(p, h) + 1 = h =>
           /\ Row(q, h) = h - 1
           /\ \A r \in 0 .. h - 1, c \in 0 .. w - 1 :
                ShownAt(q, h, r, c) = IF r < h - 1 THEN ShownAt(p, h, r + 1, c) ELSE Blank
  BY <1>1, FeedIs
<1> HIDE DEF q
<1>3. CASE terminal_row + 1 # h
  <2>1. terminal_row' = terminal_row + 1 /\ vga' = mem /\ terminal_column' = 0
    BY <1>1, <1>3 DEF NextRow
  <2>2. Shows(vga', q, w, h)
    BY <1>1, <1>2, <1>3, <2>1 DEF Shows
  <2>3. QED BY <1>1, <1>2, <1>3, <2>1, <2>2 DEF q
<1>4. CASE terminal_row + 1 = h
  <2>1. terminal_row' = h - 1 /\ vga' = Scrolled(mem) /\ terminal_column' = 0
    BY <1>1, <1>4 DEF NextRow
  <2>2. ASSUME NEW r \in 0 .. h - 1, NEW c \in 0 .. w - 1
        PROVE  Agrees(vga'[r * w + c], ShownAt(q, h, r, c))
    <3>1. PICK k, m, n : k = r * w + c /\ m = (h - 1) * w /\ n = h * w
      OBVIOUS
    <3>2. k \in Cells /\ k \in Nat /\ k < n
      BY <1>1, <2>2, <3>1, CellOf
    <3>3. Scrolled(mem)[k] = IF k < m THEN mem[k + w]
                             ELSE IF k < n THEN vga_entry(Space, terminal_color) ELSE mem[k]
      BY <1>1, <3>1, <3>2 DEF Scrolled
    <3>4. m \in Nat /\ n \in Nat
      BY <1>1, <3>1, SMTT(30)
    <3>5. r \in Nat /\ c \in Nat /\ c < w
      BY <1>1
    <3>6. CASE r < h - 1
      <4>1. k < m
        <5>1. k < w * (h - 1)
          BY <1>1, <3>1, <3>5, <3>6, CellInside
        <5>2. w * (h - 1) = (h - 1) * w
          BY <1>1, SMTT(30)
        <5>3. QED BY <3>1, <5>1, <5>2
      <4>2. k + w = (r + 1) * w + c
        BY <1>1, <3>1, <3>5, NextRowCell
      <4>3. r + 1 \in 0 .. h - 1
        BY <1>1, <3>5, <3>6
      <4>4. Agrees(mem[(r + 1) * w + c], ShownAt(p, h, r + 1, c))
        BY <1>1, <4>3, Zenon DEF Shows
      <4>5. ShownAt(q, h, r, c) = ShownAt(p, h, r + 1, c)
        BY <1>1, <1>2, <1>4, <3>6
      <4>6. QED BY <2>1, <3>1, <3>3, <4>1, <4>2, <4>4, <4>5
    <3>7. CASE ~(r < h - 1)
      <4>1. r = h - 1
        BY <1>1, <3>5, <3>7
      <4>2. ~(k < m)
        BY <3>1, <3>4, <3>5, <4>1
      <4>3. ShownAt(q, h, r, c) = Blank
        BY <1>1, <1>2, <1>4, <3>7
      <4>4. vga'[k] = vga_entry(Space, terminal_color)
        BY <2>1, <3>2, <3>3, <4>2
      <4>5. QED BY <3>1, <4>3, <4>4, SpaceAgrees
    <3>8. QED BY <3>6, <3>7
  <2>3. Shows(vga', q, w, h)
    BY <2>2 DEF Shows
  <2>4. QED BY <1>1, <1>2, <1>4, <2>1, <2>3 DEF q
<1>5. QED BY <1>3, <1>4

\* A cleared screen shows fresh paper.
AllBlank(mem, w, h) ==
    \A r \in 0 .. h - 1, c \in 0 .. w - 1 : Agrees(mem[r * w + c], Blank)

LEMMA ClearShows ==
    ASSUME NEW w \in Nat \ {0}, NEW h \in Nat \ {0}, NEW mem, NEW p, p = FreshPaper(w),
           AllBlank(mem, w, h)
    PROVE  PaperOK(p, w) /\ Row(p, h) = 0 /\ p.col = 0 /\ Shows(mem, p, w, h)
<1>1. /\ PaperOK(p, w) /\ p.col = 0 /\ Row(p, h) = 0
      /\ \A r \in 0 .. h - 1, c \in 0 .. w - 1 : ShownAt(p, h, r, c) = Blank
  BY FreshIs
<1>2. QED BY <1>1 DEF Shows, AllBlank

LEMMA InitializeShows ==
    ASSUME TInv, InitializeText
    PROVE  TextInv'
<1> PICK w, h : w = VGA_WIDTH /\ h = VGA_HEIGHT
  OBVIOUS
<1>1. w = VGA_WIDTH /\ h = VGA_HEIGHT /\ w \in Nat \ {0} /\ h \in Nat \ {0}
  BY DEF TInv, TerminalTypeOK
<1>2. /\ terminal_row' = 0 /\ terminal_column' = 0
      /\ VGA_WIDTH' = w /\ VGA_HEIGHT' = h /\ paper' = FreshPaper(w)
      /\ vga' = [k \in Cells |-> IF k < VGA_WIDTH * VGA_HEIGHT
                                 THEN vga_entry(Space, DefaultColor) ELSE vga[k]]
  BY <1>1 DEF InitializeText
<1>3. ASSUME NEW r \in 0 .. h - 1, NEW c \in 0 .. w - 1
      PROVE  Agrees(vga'[r * w + c], Blank)
  <2>1. PICK k, n : k = r * w + c /\ n = VGA_WIDTH * VGA_HEIGHT
    OBVIOUS
  <2>2. k \in Cells /\ k < n
    <3>1. r * w + c \in Cells /\ r * w + c < h * w
      BY <1>1, CellOf
    <3>2. w * h = h * w
      BY <1>1, SMTT(30)
    <3>3. QED BY <1>1, <2>1, <3>1, <3>2
  <2>3. vga'[k] = vga_entry(Space, DefaultColor)
    BY <1>2, <2>1, <2>2
  <2>4. QED BY <2>1, <2>3, SpaceAgrees
<1>4. AllBlank(vga', w, h)
  BY <1>3 DEF AllBlank
<1>5. /\ PaperOK(paper', w) /\ Row(paper', h) = 0 /\ paper'.col = 0
      /\ Shows(vga', paper', w, h)
  BY <1>1, <1>2, <1>4, ClearShows
<1>6. /\ PaperOK(paper', VGA_WIDTH') /\ terminal_row' = Row(paper', VGA_HEIGHT')
      /\ terminal_column' = paper'.col /\ Shows(vga', paper', VGA_WIDTH', VGA_HEIGHT')
  BY <1>2, <1>5
<1>7. QED BY <1>6 DEF TextInv, Row, LastRow, Gone, Shows, PaperOK, Sorts, ShownAt, Agrees

LEMMA PutNewlineShows ==
    ASSUME TInv, TextInv, PutNewline, active' = active, ~active
    PROVE  TextInv'
<1>1. /\ up /\ up' = up /\ VGA_WIDTH' = VGA_WIDTH /\ VGA_HEIGHT' = VGA_HEIGHT
      /\ intact' = intact /\ NextRow(vga) /\ paper' = Feed(paper, VGA_WIDTH)
  BY DEF PutNewline
<1>2. SUFFICES ASSUME intact
               PROVE  /\ PaperOK(paper', VGA_WIDTH)
                      /\ terminal_row' = Row(paper', VGA_HEIGHT) /\ terminal_column' = paper'.col
                      /\ Shows(vga', paper', VGA_WIDTH, VGA_HEIGHT)
  BY <1>1 DEF TextInv, Row, LastRow, Gone, Shows, PaperOK, Sorts, ShownAt, Agrees
<1>3. /\ PaperOK(paper, VGA_WIDTH) /\ terminal_row = Row(paper, VGA_HEIGHT)
      /\ Shows(vga, paper, VGA_WIDTH, VGA_HEIGHT)
  BY <1>1, <1>2 DEF TextInv
<1>4. QED BY <1>1, <1>3, NextRowShows

\* Writing a character where the paper stands.
LEMMA EntryShows ==
    ASSUME TInv, NEW c \in Chars, PaperOK(paper, VGA_WIDTH),
           terminal_row = Row(paper, VGA_HEIGHT), terminal_column = paper.col,
           Shows(vga, paper, VGA_WIDTH, VGA_HEIGHT),
           NEW mem, mem = PutEntryAt(vga, c, terminal_column, terminal_row),
           NEW q, q = [paper EXCEPT !.rows[LastRow(paper)][paper.col]
                                      = vga_entry(c, terminal_color)]
    PROVE  /\ PaperOK(q, VGA_WIDTH) /\ q.col = paper.col
           /\ Row(q, VGA_HEIGHT) = Row(paper, VGA_HEIGHT)
           /\ Shows(mem, q, VGA_WIDTH, VGA_HEIGHT)
<1> PICK w, h, cell : w = VGA_WIDTH /\ h = VGA_HEIGHT /\ cell = vga_entry(c, terminal_color)
  OBVIOUS
<1>1. w = VGA_WIDTH /\ h = VGA_HEIGHT /\ w \in Nat \ {0} /\ h \in Nat \ {0}
  BY DEF TInv, TerminalTypeOK
<1>2. cell = vga_entry(c, terminal_color) /\ cell \in Sorts
  BY DEF vga_entry, Sorts, TInv, TerminalTypeOK
<1>3. q = [paper EXCEPT !.rows[LastRow(paper)][paper.col] = cell]
  BY <1>2
<1>4. /\ PaperOK(q, w) /\ q.col = paper.col /\ Row(q, h) = Row(paper, h)
      /\ \A r \in 0 .. h - 1, x \in 0 .. w - 1 :
           ShownAt(q, h, r, x) = IF r = Row(paper, h) /\ x = paper.col THEN cell
                                 ELSE ShownAt(paper, h, r, x)
  BY <1>1, <1>2, <1>3, TypedIs
<1>5. Index(terminal_column, terminal_row) = terminal_row * w + terminal_column
  BY <1>1, CursorCell
<1>6. ASSUME NEW r \in 0 .. h - 1, NEW x \in 0 .. w - 1
      PROVE  Agrees(mem[r * w + x], ShownAt(q, h, r, x))
  <2>1. PICK k, l : k = r * w + x /\ l = terminal_row * w + terminal_column
    OBVIOUS
  <2>2. k \in Cells
    BY <1>1, <2>1, CellOf
  <2>3. mem[k] = IF k = l THEN cell ELSE vga[k]
    BY <1>2, <1>5, <2>1, <2>2 DEF PutEntryAt, TInv, TerminalTypeOK
  <2>4. CASE r = terminal_row /\ x = terminal_column
    <3>1. ShownAt(q, h, r, x) = cell
      BY <1>1, <1>4, <2>4
    <3>2. mem[k] = cell
      BY <2>1, <2>3, <2>4
    <3>3. QED BY <1>2, <2>1, <3>1, <3>2, TypedAgrees
  <2>5. CASE ~(r = terminal_row /\ x = terminal_column)
    <3>1. k # l
      <4>1. /\ r \in Nat /\ x \in Nat /\ x < w /\ terminal_row \in Nat
            /\ terminal_column \in Nat /\ terminal_column < w
        BY <1>1 DEF TInv, TerminalTypeOK
      <4>2. QED BY <1>1, <2>1, <2>5, <4>1, CellsDiffer
    <3>2. ShownAt(q, h, r, x) = ShownAt(paper, h, r, x)
      BY <1>1, <1>4, <2>5
    <3>3. Agrees(vga[r * w + x], ShownAt(paper, h, r, x))
      BY <1>1, Zenon DEF Shows
    <3>4. QED BY <2>1, <2>3, <3>1, <3>2, <3>3
  <2>6. QED BY <2>4, <2>5
<1>7. Shows(mem, q, w, h)
  BY <1>6 DEF Shows
<1>8. QED BY <1>1, <1>4, <1>7

LEMMA PutCharShows ==
    ASSUME TInv, TextInv, NEW c \in Chars, PutChar(c), active' = active, ~active
    PROVE  TextInv'
<1> DEFINE mem == PutEntryAt(vga, c, terminal_column, terminal_row)
           q == [paper EXCEPT !.rows[LastRow(paper)][paper.col] = vga_entry(c, terminal_color)]
<1>1. /\ up /\ up' = up /\ VGA_WIDTH' = VGA_WIDTH /\ VGA_HEIGHT' = VGA_HEIGHT
      /\ intact' = intact /\ paper' = GoTo(q, paper.col + 1, VGA_WIDTH)
      /\ terminal_column + 1 = VGA_WIDTH => NextRow(mem)
      /\ terminal_column + 1 # VGA_WIDTH =>
           /\ terminal_column' = terminal_column + 1 /\ vga' = mem
           /\ terminal_row' = terminal_row
  BY DEF PutChar, Type
<1>2. SUFFICES ASSUME intact
               PROVE  /\ PaperOK(paper', VGA_WIDTH)
                      /\ terminal_row' = Row(paper', VGA_HEIGHT) /\ terminal_column' = paper'.col
                      /\ Shows(vga', paper', VGA_WIDTH, VGA_HEIGHT)
  <2> HIDE DEF mem, q
  <2>1. QED BY <1>1 DEF TextInv, Row, LastRow, Gone, Shows, PaperOK, Sorts, ShownAt, Agrees
<1>3. /\ PaperOK(paper, VGA_WIDTH) /\ terminal_row = Row(paper, VGA_HEIGHT)
      /\ terminal_column = paper.col /\ Shows(vga, paper, VGA_WIDTH, VGA_HEIGHT)
  BY <1>1, <1>2 DEF TextInv
<1>4. /\ PaperOK(q, VGA_WIDTH) /\ q.col = paper.col
      /\ Row(q, VGA_HEIGHT) = Row(paper, VGA_HEIGHT) /\ Shows(mem, q, VGA_WIDTH, VGA_HEIGHT)
  BY <1>3, EntryShows
<1> HIDE DEF mem, q
<1>5. VGA_WIDTH \in Nat \ {0} /\ VGA_HEIGHT \in Nat \ {0} /\ terminal_column \in Nat
      /\ terminal_column < VGA_WIDTH
  BY DEF TInv, TerminalTypeOK
<1>6. CASE terminal_column + 1 = VGA_WIDTH
  <2>1. paper' = Feed(q, VGA_WIDTH)
    BY <1>1, <1>3, <1>5, <1>6 DEF GoTo
  <2>2. NextRow(mem) /\ terminal_row = Row(q, VGA_HEIGHT)
    BY <1>1, <1>3, <1>4, <1>6
  <2>3. QED BY <1>4, <2>1, <2>2, NextRowShows
<1>7. CASE terminal_column + 1 # VGA_WIDTH
  <2>1. PICK x : x = terminal_column + 1 /\ x \in 0 .. VGA_WIDTH - 1
    BY <1>5, <1>7
  <2>2. paper' = [q EXCEPT !.col = x]
    BY <1>1, <1>3, <1>5, <2>1 DEF GoTo
  <2>3. /\ PaperOK(paper', VGA_WIDTH) /\ paper'.col = x
        /\ Row(paper', VGA_HEIGHT) = Row(q, VGA_HEIGHT)
        /\ \A r, y : ShownAt(paper', VGA_HEIGHT, r, y) = ShownAt(q, VGA_HEIGHT, r, y)
    BY <1>4, <1>5, <2>1, <2>2, MovedIs
  <2>4. Shows(mem, paper', VGA_WIDTH, VGA_HEIGHT)
    BY <1>4, <2>3 DEF Shows
  <2>5. QED BY <1>1, <1>3, <1>4, <1>7, <2>1, <2>3, <2>4
<1>8. QED BY <1>6, <1>7

\* A smaller screen that replaces one with nothing on it shows nothing.
LEMMA SetDimensionsShows ==
    ASSUME TInv, TextInv, NEW d \in Dimensions, terminal_set_dimensions(d[1], d[2]),
           active' = active
    PROVE  TextInv'
<1> PICK w, h, v, g : w = VGA_WIDTH /\ h = VGA_HEIGHT /\ v = d[1] /\ g = d[2]
  OBVIOUS
<1>1. /\ w = VGA_WIDTH /\ h = VGA_HEIGHT /\ w \in Nat \ {0} /\ h \in Nat \ {0}
      /\ v = d[1] /\ g = d[2] /\ v \in Nat \ {0} /\ g \in Nat \ {0}
  BY TerminalAssumption DEF TInv, TerminalTypeOK, TerminalAssumption
<1>2. /\ up /\ up' = up /\ vga' = vga /\ VGA_WIDTH' = v /\ VGA_HEIGHT' = g
      /\ intact' = (intact /\ paper = FreshPaper(w) /\ v * g <= w * h)
      /\ paper' = FreshPaper(v)
  BY <1>1 DEF terminal_set_dimensions
<1>3. SUFFICES ASSUME ~active, intact, paper = FreshPaper(w), v * g <= w * h
               PROVE  /\ PaperOK(paper', VGA_WIDTH')
                      /\ terminal_row' = Row(paper', VGA_HEIGHT')
                      /\ terminal_column' = paper'.col
                      /\ Shows(vga', paper', VGA_WIDTH', VGA_HEIGHT')
  BY <1>2 DEF TextInv, Row, LastRow, Gone, Shows, PaperOK, Sorts, ShownAt, Agrees
<1>4. /\ terminal_row = Row(paper, h) /\ terminal_column = paper.col
      /\ Shows(vga, paper, w, h)
  BY <1>1, <1>2, <1>3 DEF TextInv
<1>5. /\ paper.col = 0 /\ Row(paper, h) = 0
      /\ \A r \in 0 .. h - 1, c \in 0 .. w - 1 : ShownAt(paper, h, r, c) = Blank
  BY <1>1, <1>3, FreshIs
<1>6. terminal_row' = 0 /\ terminal_column' = 0
  BY <1>1, <1>4, <1>5 DEF terminal_set_dimensions
<1>7. ASSUME NEW r \in 0 .. g - 1, NEW c \in 0 .. v - 1
      PROVE  Agrees(vga'[r * v + c], Blank)
  <2>1. PICK k, m, n : k = r * v + c /\ m = v * g /\ n = w * h
    OBVIOUS
  <2>2. k \in Nat /\ k < m
    BY <1>1, <2>1, CellInside
  <2>3. m \in Nat /\ n \in Nat /\ k < n
    <3>1. m \in Nat /\ n \in Nat
      BY <1>1, <2>1, SMTT(30)
    <3>2. QED BY <1>3, <2>1, <2>2, <3>1
  <2>4. PICK y, x : y = k \div w /\ x = k % w
    OBVIOUS
  <2>5. y \in Nat /\ x \in 0 .. w - 1 /\ k = y * w + x
    BY <1>1, <2>2, <2>4, Division
  <2>6. y < h
    <3> SUFFICES ASSUME h <= y PROVE FALSE
      BY <1>1, <2>5
    <3>1. h * w <= y * w /\ h * w \in Nat
      BY <1>1, <2>5, Products
    <3>2. w * h = h * w
      BY <1>1, SMTT(30)
    <3>3. PICK a, b : a = h * w /\ b = y * w
      OBVIOUS
    <3>4. b \in Nat
      BY <1>1, <2>5, <3>3, SMTT(30)
    <3>5. QED BY <2>1, <2>3, <2>5, <3>1, <3>2, <3>3, <3>4
  <2>7. y \in 0 .. h - 1
    BY <1>1, <2>5, <2>6
  <2>8. Agrees(vga[y * w + x], ShownAt(paper, h, y, x))
    BY <1>4, <2>5, <2>7, Zenon DEF Shows
  <2>9. ShownAt(paper, h, y, x) = Blank
    BY <1>5, <2>5, <2>7
  <2>10. QED BY <1>2, <2>1, <2>5, <2>8, <2>9
<1>8. AllBlank(vga', v, g)
  BY <1>7 DEF AllBlank
<1>9. PaperOK(paper', v) /\ Row(paper', g) = 0 /\ paper'.col = 0 /\ Shows(vga', paper', v, g)
  BY <1>1, <1>2, <1>8, ClearShows
<1>10. QED BY <1>2, <1>6, <1>9

\* A step that leaves the cells and the paper alone.
LEMMA TextKept ==
    ASSUME TextInv, UNCHANGED <<active, up, intact, vga, VGA_WIDTH, VGA_HEIGHT,
                                terminal_row, terminal_column, paper>>
    PROVE  TextInv'
BY DEF TextInv, Row, LastRow, Gone, Shows, PaperOK, Sorts, ShownAt, Agrees

(***************************************************************************)
(* The pixels and their paper.  They show it only where the framebuffer    *)
(* has a pixel format framebuffer_put_pixel writes: with any other it      *)
(* returns without drawing and whatever was there at power-on stays.       *)
(***************************************************************************)

\* A pixel shows its line of what is to be shown.
PixelShows(pixel, shown, line) ==
    IF shown = Blank THEN pixel.char = Space
    ELSE pixel = F!Glyph(shown.char, shown.color, line)

\* Every line of every row shows what it should of paper p.
Draws(px, p) ==
    \A r \in 0 .. F!text_rows - 1, c \in 0 .. F!text_cols - 1, l \in 0 .. FONT_HEIGHT - 1 :
        PixelShows(px[r * FONT_HEIGHT + l][c], ShownAt(p, F!text_rows, r, c), l)

\* Nothing is drawn right of the last column or below the last row.
Margins(px) ==
    \A y \in F!PixelRows, x \in F!Columns :
        y >= F!text_rows * FONT_HEIGHT \/ x >= F!text_cols => px[y][x].char = Space

\* The framebuffer shows its paper, and the cursor is where the paper stands.
DrawnOK(px, p, x, y) ==
    /\ PaperOK(p, F!text_cols) /\ x = p.col /\ y = Row(p, F!text_rows)
    /\ Draws(px, p) /\ Margins(px)

DrawnInv == active => DrawnOK(pixels, fb_paper, cursor_x, cursor_y)

\* Both consoles are measured against the same paper.
LEMMA SamePaper ==
    /\ F!Space = Space /\ F!Blank = Blank
    /\ \A w : F!FreshPaper(w) = FreshPaper(w)
    /\ \A p, w : F!Feed(p, w) = Feed(p, w)
    /\ \A p, c, w : F!GoTo(p, c, w) = GoTo(p, c, w)
    /\ \A p, cell, w : F!Type(p, cell, w) = Type(p, cell, w)
    /\ \A p, h, r, c : F!ShownAt(p, h, r, c) = ShownAt(p, h, r, c)
<1>1. F!Space = Space
  BY Zenon DEF F!Space, Space
<1>2. F!Blank = Blank
  BY <1>1 DEF F!Blank, Blank
<1>3. \A w : F!BlankRow(w) = BlankRow(w)
  BY <1>2 DEF F!BlankRow, BlankRow
<1>4. \A p : F!LastRow(p) = LastRow(p)
  BY DEF F!LastRow, LastRow
<1>5. \A w : F!FreshPaper(w) = FreshPaper(w)
  BY <1>3 DEF F!FreshPaper, FreshPaper
<1>6. \A p, w : F!Feed(p, w) = Feed(p, w)
  BY <1>3 DEF F!Feed, Feed
<1>7. \A p, c, w : F!GoTo(p, c, w) = GoTo(p, c, w)
  BY <1>6 DEF F!GoTo, GoTo
<1>8. \A p, cell, w : F!Type(p, cell, w) = Type(p, cell, w)
  BY <1>4, <1>7 DEF F!Type, Type
<1>9. \A p, h : F!Gone(p, h) = Gone(p, h)
  BY <1>4 DEF F!Gone, Gone
<1>10. \A p, h, r, c : F!ShownAt(p, h, r, c) = ShownAt(p, h, r, c)
  BY <1>2, <1>4, <1>9 DEF F!ShownAt, ShownAt
<1>11. QED BY <1>1, <1>2, <1>5, <1>6, <1>7, <1>8, <1>10

\* The rows of text fill the framebuffer but for less than a row.
LEMMA Strip ==
    /\ FONT_HEIGHT \in Nat \ {0} /\ fb_height \in Nat
    /\ F!text_rows * FONT_HEIGHT \in Nat
    /\ F!text_rows * FONT_HEIGHT <= fb_height
    /\ fb_height < F!text_rows * FONT_HEIGHT + FONT_HEIGHT
<1>1. FONT_HEIGHT \in Nat \ {0} /\ fb_height \in Nat
  BY ConsoleAssumption DEF F!FramebufferAssumption
<1>2. /\ fb_height \div FONT_HEIGHT \in Nat /\ fb_height % FONT_HEIGHT \in 0 .. FONT_HEIGHT - 1
      /\ fb_height = (fb_height \div FONT_HEIGHT) * FONT_HEIGHT + (fb_height % FONT_HEIGHT)
  BY <1>1, Division
<1>3. (fb_height \div FONT_HEIGHT) * FONT_HEIGHT \in Nat
  BY <1>1, <1>2, SMTT(30)
<1>4. PICK k, m : k = (fb_height \div FONT_HEIGHT) * FONT_HEIGHT /\ m = fb_height % FONT_HEIGHT
  OBVIOUS
<1>5. k <= fb_height /\ fb_height < k + FONT_HEIGHT
  BY <1>1, <1>2, <1>3, <1>4
<1>6. QED BY <1>1, <1>3, <1>4, <1>5 DEF F!text_rows

\* A line of a row, as a row of pixels.
LEMMA LineOf ==
    ASSUME NEW r \in 0 .. F!text_rows - 1, NEW l \in 0 .. FONT_HEIGHT - 1
    PROVE  /\ r * FONT_HEIGHT + l \in F!PixelRows
           /\ r * FONT_HEIGHT + l < F!text_rows * FONT_HEIGHT
           /\ r * FONT_HEIGHT \in Nat
           /\ (r + 1) * FONT_HEIGHT = r * FONT_HEIGHT + FONT_HEIGHT
<1>1. F!text_rows \in Nat \ {0} /\ FONT_HEIGHT \in Nat \ {0}
  BY HasText, Strip
<1>2. r \in Nat /\ r < F!text_rows /\ l \in Nat /\ l < FONT_HEIGHT
  BY <1>1
<1>3. r * FONT_HEIGHT + l \in Nat /\ r * FONT_HEIGHT + l < FONT_HEIGHT * F!text_rows
  BY <1>1, <1>2, CellInside
<1>4. FONT_HEIGHT * F!text_rows = F!text_rows * FONT_HEIGHT
  BY <1>1, SMTT(30)
<1>5. r * FONT_HEIGHT \in Nat /\ (r + 1) * FONT_HEIGHT = r * FONT_HEIGHT + FONT_HEIGHT
  BY <1>1, <1>2, SMTT(30)
<1>6. PICK k, m : k = r * FONT_HEIGHT + l /\ m = F!text_rows * FONT_HEIGHT
  OBVIOUS
<1>7. k \in Nat /\ k < m /\ m \in Nat /\ m <= fb_height /\ fb_height \in Nat
  BY <1>3, <1>4, <1>6, Strip
<1>8. k \in F!PixelRows
  BY <1>7 DEF F!PixelRows
<1>9. QED BY <1>5, <1>6, <1>7, <1>8

\* A column of text is one of the columns of pixels.
LEMMA ColumnOf ==
    ASSUME NEW c \in 0 .. F!text_cols - 1
    PROVE  c \in F!Columns
BY ConsoleAssumption DEF F!FramebufferAssumption, F!text_cols, F!Columns

\* The background shows nothing.
LEMMA BackgroundIs ==
    ASSUME NEW color
    PROVE  F!Background(color).char = Space
BY SamePaper DEF F!Background, F!Glyph

\* What the drawing functions leave in a pixel.
LEMMA ClearedIs ==
    ASSUME F!Drawable, NEW px, NEW color, NEW y \in F!PixelRows, NEW x \in F!Columns
    PROVE  F!Cleared(px, color)[y][x] = F!Background(color)
BY DEF F!Cleared, F!Redraw

LEMMA ScrolledIs ==
    ASSUME F!Drawable, NEW px, NEW y \in F!PixelRows, NEW x \in F!Columns
    PROVE  F!Scrolled(px)[y][x] = IF y + FONT_HEIGHT < fb_height THEN px[y + FONT_HEIGHT][x]
                                  ELSE F!Background(text_color)
BY DEF F!Scrolled, F!Redraw

LEMMA DrawnIs ==
    ASSUME F!Drawable, NEW px, NEW c, NEW color, NEW col \in 0 .. F!text_cols - 1,
           NEW row \in 0 .. F!text_rows - 1, NEW y \in F!PixelRows, NEW x \in F!Columns
    PROVE  F!DrawChar(px, c, col, row, color)[y][x] =
             IF x = col /\ y \in row * FONT_HEIGHT .. (row + 1) * FONT_HEIGHT - 1
             THEN F!Glyph(c, color, y - row * FONT_HEIGHT) ELSE px[y][x]
<1>1. ~(col >= F!text_cols \/ row >= F!text_rows)
  BY HasText
<1>2. F!DrawChar(px, c, col, row, color) =
        F!Redraw(px, (row * FONT_HEIGHT .. (row + 1) * FONT_HEIGHT - 1) \X {col},
                 LAMBDA v, u : F!Glyph(c, color, v - row * FONT_HEIGHT))
  BY <1>1, Zenon DEF F!DrawChar
<1>3. <<y, x>> \in (row * FONT_HEIGHT .. (row + 1) * FONT_HEIGHT - 1) \X {col}
        <=> x = col /\ y \in row * FONT_HEIGHT .. (row + 1) * FONT_HEIGHT - 1
  OBVIOUS
<1>4. QED BY <1>2, <1>3 DEF F!Redraw

\* A cleared framebuffer shows fresh paper.
LEMMA ClearedDraws ==
    ASSUME F!Drawable, NEW px, NEW color, NEW p, p = FreshPaper(F!text_cols)
    PROVE  DrawnOK(F!Cleared(px, color), p, 0, 0)
<1> DEFINE new == F!Cleared(px, color)
<1>1. \A y \in F!PixelRows, x \in F!Columns : new[y][x].char = Space
  BY ClearedIs, BackgroundIs
<1> HIDE DEF new
<1>2. /\ PaperOK(p, F!text_cols) /\ p.col = 0 /\ Row(p, F!text_rows) = 0
      /\ \A r \in 0 .. F!text_rows - 1, c \in 0 .. F!text_cols - 1 :
           ShownAt(p, F!text_rows, r, c) = Blank
  BY HasText, FreshIs
<1>3. ASSUME NEW r \in 0 .. F!text_rows - 1, NEW c \in 0 .. F!text_cols - 1,
             NEW l \in 0 .. FONT_HEIGHT - 1
      PROVE  PixelShows(new[r * FONT_HEIGHT + l][c], ShownAt(p, F!text_rows, r, c), l)
  <2>1. r * FONT_HEIGHT + l \in F!PixelRows /\ c \in F!Columns
    BY LineOf, ColumnOf
  <2>2. new[r * FONT_HEIGHT + l][c].char = Space
    BY <1>1, <2>1
  <2>3. QED BY <1>2, <2>2 DEF PixelShows
<1>4. Draws(new, p)
  BY <1>3 DEF Draws
<1>5. Margins(new)
  BY <1>1 DEF Margins
<1>6. QED BY <1>2, <1>4, <1>5 DEF DrawnOK, new

\* A scroll, or none where there is a row left, shows the paper with its next row: the
\* strip below the last row moves into it, and is blank.
LEMMA FeedDraws ==
    ASSUME F!Drawable, NEW px, NEW p, PaperOK(p, F!text_cols), Draws(px, p), Margins(px),
           NEW q, q = Feed(p, F!text_cols), NEW new,
           new = IF Row(p, F!text_rows) + 1 >= F!text_rows THEN F!Scrolled(px) ELSE px,
           NEW y, y = IF Row(p, F!text_rows) + 1 >= F!text_rows THEN F!text_rows - 1
                      ELSE Row(p, F!text_rows) + 1
    PROVE  DrawnOK(new, q, 0, y)
<1> PICK w, h : w = F!text_cols /\ h = F!text_rows
  OBVIOUS
<1>1. w = F!text_cols /\ h = F!text_rows /\ w \in Nat \ {0} /\ h \in Nat \ {0}
  BY HasText
<1>2. /\ PaperOK(q, w) /\ q.col = 0 /\ Row(p, h) \in 0 .. h - 1
      /\ Row(p, h) + 1 # h =>
           /\ Row(q, h) = Row(p, h) + 1
           /\ \A r \in 0 .. h - 1, c \in 0 .. w - 1 : ShownAt(q, h, r, c) = ShownAt(p, h, r, c)
      /\ Row(p, h) + 1 = h =>
           /\ Row(q, h) = h - 1
           /\ \A r \in 0 .. h - 1, c \in 0 .. w - 1 :
                ShownAt(q, h, r, c) = IF r < h - 1 THEN ShownAt(p, h, r + 1, c) ELSE Blank
  BY <1>1, FeedIs
<1>3. CASE Row(p, h) + 1 # h
  <2>1. new = px /\ y = Row(q, h)
    BY <1>1, <1>2, <1>3
  <2>2. Draws(new, q)
    BY <1>1, <1>2, <1>3, <2>1 DEF Draws
  <2>3. QED BY <1>1, <1>2, <2>1, <2>2 DEF DrawnOK
<1>4. CASE Row(p, h) + 1 = h
  <2>1. new = F!Scrolled(px) /\ y = Row(q, h)
    BY <1>1, <1>2, <1>4
  <2>2. PICK m : m = F!text_rows * FONT_HEIGHT
    OBVIOUS
  <2>3. /\ FONT_HEIGHT \in Nat \ {0} /\ fb_height \in Nat /\ m \in Nat
        /\ m <= fb_height /\ fb_height < m + FONT_HEIGHT
    BY <2>2, Strip
  <2>4. \A v \in F!PixelRows, x \in F!Columns :
          new[v][x] = IF v + FONT_HEIGHT < fb_height THEN px[v + FONT_HEIGHT][x]
                      ELSE F!Background(text_color)
    BY <2>1, ScrolledIs
  <2>5. ASSUME NEW v \in F!PixelRows, NEW x \in F!Columns,
               v + FONT_HEIGHT >= m \/ x >= w
        PROVE  new[v][x].char = Space
    <3>1. CASE v + FONT_HEIGHT < fb_height
      <4>1. v + FONT_HEIGHT \in F!PixelRows
        BY <2>3, <3>1 DEF F!PixelRows
      <4>2. px[v + FONT_HEIGHT][x].char = Space
        BY <1>1, <2>2, <2>5, <4>1 DEF Margins
      <4>3. QED BY <2>4, <3>1, <4>2
    <3>2. CASE ~(v + FONT_HEIGHT < fb_height)
      BY <2>4, <3>2, BackgroundIs
    <3>3. QED BY <3>1, <3>2
  <2>6. Margins(new)
    <3> SUFFICES ASSUME NEW v \in F!PixelRows, NEW x \in F!Columns, v >= m \/ x >= w
                 PROVE  new[v][x].char = Space
      BY <1>1, <2>2 DEF Margins
    <3>1. v + FONT_HEIGHT >= m \/ x >= w
      BY <2>3 DEF F!PixelRows
    <3>2. QED BY <2>5, <3>1
  <2>7. ASSUME NEW r \in 0 .. h - 1, NEW c \in 0 .. w - 1, NEW l \in 0 .. FONT_HEIGHT - 1
        PROVE  PixelShows(new[r * FONT_HEIGHT + l][c], ShownAt(q, h, r, c), l)
    <3>1. PICK k, b : k = r * FONT_HEIGHT + l /\ b = r * FONT_HEIGHT
      OBVIOUS
    <3>2. k \in F!PixelRows /\ k < m /\ c \in F!Columns /\ b \in Nat /\ k = b + l
          /\ (r + 1) * FONT_HEIGHT = b + FONT_HEIGHT
      BY <1>1, <2>2, <3>1, LineOf, ColumnOf
    <3>3. CASE r < h - 1
      <4>1. r + 1 \in 0 .. h - 1
        BY <1>1, <3>3
      <4>2. (r + 1) * FONT_HEIGHT + l = k + FONT_HEIGHT
        BY <2>3, <3>2
      <4>3. (r + 1) * FONT_HEIGHT + l < m
        BY <1>1, <2>2, <4>1, LineOf
      <4>4. k + FONT_HEIGHT < fb_height
        BY <2>3, <3>2, <4>2, <4>3 DEF F!PixelRows
      <4>5. new[k][c] = px[(r + 1) * FONT_HEIGHT + l][c]
        BY <2>4, <3>2, <4>2, <4>4
      <4>6. PixelShows(px[(r + 1) * FONT_HEIGHT + l][c], ShownAt(p, h, r + 1, c), l)
        BY <1>1, <4>1, Zenon DEF Draws
      <4>7. ShownAt(q, h, r, c) = ShownAt(p, h, r + 1, c)
        BY <1>2, <1>4, <3>3
      <4>8. QED BY <3>1, <4>5, <4>6, <4>7
    <3>4. CASE ~(r < h - 1)
      <4>1. r + 1 = h
        BY <1>1, <3>4
      <4>2. m = b + FONT_HEIGHT
        BY <1>1, <2>2, <3>2, <4>1
      <4>3. k + FONT_HEIGHT >= m
        BY <2>3, <3>2, <4>2
      <4>4. new[k][c].char = Space
        BY <2>5, <3>2, <4>3
      <4>5. ShownAt(q, h, r, c) = Blank
        BY <1>2, <1>4, <3>4
      <4>6. QED BY <3>1, <4>4, <4>5 DEF PixelShows
    <3>5. QED BY <3>3, <3>4
  <2>8. Draws(new, q)
    BY <1>1, <2>7 DEF Draws
  <2>9. QED BY <1>1, <1>2, <2>1, <2>6, <2>8 DEF DrawnOK
<1>5. QED BY <1>3, <1>4

\* A character drawn where the paper stands.
LEMMA CharDraws ==
    ASSUME F!Drawable, NEW px, NEW p, NEW x, NEW y, DrawnOK(px, p, x, y),
           NEW c \in Chars, NEW color \in Colors, NEW cell, cell = [char |-> c, color |-> color],
           NEW q, q = [p EXCEPT !.rows[LastRow(p)][p.col] = cell]
    PROVE  DrawnOK(F!DrawChar(px, c, x, y, color), q, x, y)
<1> PICK w, h, new : w = F!text_cols /\ h = F!text_rows /\ new = F!DrawChar(px, c, x, y, color)
  OBVIOUS
<1>1. /\ w = F!text_cols /\ h = F!text_rows /\ w \in Nat \ {0} /\ h \in Nat \ {0}
      /\ new = F!DrawChar(px, c, x, y, color)
  BY HasText
<1>2. /\ PaperOK(p, w) /\ x = p.col /\ y = Row(p, h) /\ Draws(px, p) /\ Margins(px)
  BY <1>1 DEF DrawnOK
<1>3. cell \in Sorts
  BY DEF Sorts
<1>4. /\ PaperOK(q, w) /\ q.col = p.col /\ Row(q, h) = Row(p, h)
      /\ \A r \in 0 .. h - 1, u \in 0 .. w - 1 :
           ShownAt(q, h, r, u) = IF r = Row(p, h) /\ u = p.col THEN cell
                                 ELSE ShownAt(p, h, r, u)
  <2>1. PICK e : e = [p EXCEPT !.rows[LastRow(p)][p.col] = cell]
    OBVIOUS
  <2>2. q = e
    BY <2>1, Zenon
  <2>3. /\ PaperOK(e, w) /\ e.col = p.col /\ Row(e, h) = Row(p, h)
        /\ \A r \in 0 .. h - 1, u \in 0 .. w - 1 :
             ShownAt(e, h, r, u) = IF r = Row(p, h) /\ u = p.col THEN cell
                                   ELSE ShownAt(p, h, r, u)
    BY <1>1, <1>2, <1>3, <2>1, TypedIs
  <2>4. QED BY <2>2, <2>3
<1>5. x \in 0 .. w - 1 /\ y \in 0 .. h - 1
  BY <1>1, <1>2, FeedIs DEF PaperOK
<1>6. \A v \in F!PixelRows, u \in F!Columns :
        new[v][u] = IF u = x /\ v \in y * FONT_HEIGHT .. (y + 1) * FONT_HEIGHT - 1
                    THEN F!Glyph(c, color, v - y * FONT_HEIGHT) ELSE px[v][u]
  BY <1>1, <1>5, DrawnIs
<1>7. FONT_HEIGHT \in Nat \ {0}
  BY Strip
<1>8. PICK b : b = y * FONT_HEIGHT /\ b \in Nat /\ (y + 1) * FONT_HEIGHT = b + FONT_HEIGHT
               /\ b + FONT_HEIGHT <= F!text_rows * FONT_HEIGHT
  <2>1. FONT_HEIGHT - 1 \in 0 .. FONT_HEIGHT - 1
    BY <1>7
  <2>2. /\ y * FONT_HEIGHT + (FONT_HEIGHT - 1) < F!text_rows * FONT_HEIGHT
        /\ y * FONT_HEIGHT \in Nat /\ (y + 1) * FONT_HEIGHT = y * FONT_HEIGHT + FONT_HEIGHT
    BY <1>1, <1>5, <2>1, LineOf
  <2>3. PICK a, m : a = y * FONT_HEIGHT /\ m = F!text_rows * FONT_HEIGHT
    OBVIOUS
  <2>4. a \in Nat /\ m \in Nat /\ a + (FONT_HEIGHT - 1) < m
    BY <2>2, <2>3, Strip
  <2>5. a + FONT_HEIGHT <= m
    BY <1>7, <2>4
  <2>6. QED BY <2>2, <2>3, <2>4, <2>5
<1> PICK lines : lines = y * FONT_HEIGHT .. (y + 1) * FONT_HEIGHT - 1
  OBVIOUS
<1>9. lines = b .. b + FONT_HEIGHT - 1
  <2>1. PICK d : d = (y + 1) * FONT_HEIGHT /\ d = b + FONT_HEIGHT
    BY <1>8
  <2>2. lines = b .. d - 1
    BY <1>8, <2>1, Zenon
  <2>3. QED BY <1>7, <1>8, <2>1, <2>2
<1>10. \A v \in F!PixelRows, u \in F!Columns :
        new[v][u] = IF u = x /\ v \in lines THEN F!Glyph(c, color, v - b) ELSE px[v][u]
  BY <1>6, <1>8
<1>11. Margins(new)
  <2> SUFFICES ASSUME NEW v \in F!PixelRows, NEW u \in F!Columns,
                      v >= F!text_rows * FONT_HEIGHT \/ u >= w
               PROVE  new[v][u].char = Space
    BY <1>1 DEF Margins
  <2>1. PICK m : m = F!text_rows * FONT_HEIGHT /\ m \in Nat
    BY Strip
  <2>2. v \in lines => ~(v >= m)
    BY <1>7, <1>8, <1>9, <2>1 DEF F!PixelRows
  <2>3. u = x => ~(u >= w)
    BY <1>1, <1>5
  <2>4. new[v][u] = px[v][u]
    BY <1>10, <2>1, <2>2, <2>3
  <2>5. px[v][u].char = Space
    BY <1>1, <1>2 DEF Margins
  <2>6. QED BY <2>5, <2>4
<1>12. ASSUME NEW r \in 0 .. h - 1, NEW u \in 0 .. w - 1, NEW l \in 0 .. FONT_HEIGHT - 1
       PROVE  PixelShows(new[r * FONT_HEIGHT + l][u], ShownAt(q, h, r, u), l)
  <2>1. PICK k, a : k = r * FONT_HEIGHT + l /\ a = r * FONT_HEIGHT
    OBVIOUS
  <2>2. k \in F!PixelRows /\ u \in F!Columns /\ a \in Nat /\ k = a + l
    BY <1>1, <2>1, LineOf, ColumnOf
  <2>3. CASE r = y /\ u = x
    <3>1. a = b
      BY <1>8, <2>1, <2>3
    <3>2. k \in lines /\ k - b = l
      BY <1>7, <1>8, <1>9, <2>2, <3>1
    <3>3. new[k][u] = F!Glyph(c, color, l)
      BY <1>10, <2>2, <2>3, <3>2
    <3>4. ShownAt(q, h, r, u) = cell
      BY <1>2, <1>4, <2>3
    <3>5. cell = Blank => c = Space
      BY DEF Blank
    <3>6. F!Glyph(c, color, l).char = c /\ cell.char = c /\ cell.color = color
      BY DEF F!Glyph
    <3>7. QED BY <2>1, <3>3, <3>4, <3>5, <3>6 DEF PixelShows
  <2>4. CASE ~(r = y /\ u = x)
    <3>1. ~(u = x /\ k \in lines)
      <4> SUFFICES ASSUME u = x, k \in lines PROVE FALSE
        OBVIOUS
      <4>1. PICK j : j = k - b /\ j \in Nat /\ j < FONT_HEIGHT
        BY <1>7, <1>8, <1>9, <2>2
      <4>2. y * FONT_HEIGHT + j = r * FONT_HEIGHT + l
        BY <1>8, <2>1, <2>2, <4>1 DEF F!PixelRows
      <4>3. y \in Nat /\ r \in Nat /\ l \in Nat /\ l < FONT_HEIGHT
        BY <1>1, <1>5, <1>7
      <4>4. y = r
        BY <1>7, <4>1, <4>2, <4>3, CellsDiffer
      <4>5. QED BY <2>4, <4>4
    <3>2. new[k][u] = px[k][u]
      BY <1>10, <2>2, <3>1
    <3>3. ShownAt(q, h, r, u) = ShownAt(p, h, r, u)
      BY <1>2, <1>4, <2>4
    <3>4. PixelShows(px[r * FONT_HEIGHT + l][u], ShownAt(p, h, r, u), l)
      BY <1>1, <1>2, Zenon DEF Draws
    <3>5. QED BY <2>1, <3>2, <3>3, <3>4
  <2>5. QED BY <2>3, <2>4
<1>13. Draws(new, q)
  BY <1>1, <1>12 DEF Draws
<1>14. QED BY <1>1, <1>2, <1>4, <1>11, <1>13 DEF DrawnOK

\* Settle, where it is asked for another column of the same row.
LEMMA SettleDraws ==
    ASSUME F!Drawable, NEW px, NEW p, NEW u, NEW y, DrawnOK(px, p, u, y), NEW x \in Nat,
           F!Settle(px, x, y), fb_paper' = GoTo(p, x, F!text_cols)
    PROVE  DrawnOK(pixels', fb_paper', cursor_x', cursor_y')
<1> PICK w, h : w = F!text_cols /\ h = F!text_rows
  OBVIOUS
<1>1. w = F!text_cols /\ h = F!text_rows /\ w \in Nat \ {0} /\ h \in Nat \ {0}
  BY HasText
<1>2. PaperOK(p, w) /\ y = Row(p, h) /\ Draws(px, p) /\ Margins(px)
  BY <1>1 DEF DrawnOK
<1>3. y \in 0 .. h - 1
  BY <1>1, <1>2, FeedIs
<1>4. CASE x >= w
  <2>1. /\ cursor_x' = 0 /\ fb_paper' = Feed(p, w)
        /\ pixels' = IF y + 1 >= h THEN F!Scrolled(px) ELSE px
        /\ cursor_y' = IF y + 1 >= h THEN h - 1 ELSE y + 1
    BY <1>1, <1>4 DEF F!Settle, GoTo
  <2>2. QED BY <1>1, <1>2, <2>1, FeedDraws
<1>5. CASE ~(x >= w)
  <2>1. /\ cursor_x' = x /\ fb_paper' = [p EXCEPT !.col = x]
        /\ pixels' = px /\ cursor_y' = y
    BY <1>1, <1>3, <1>5 DEF F!Settle, GoTo
  <2>2. x \in 0 .. w - 1
    BY <1>1, <1>5
  <2>3. /\ PaperOK(fb_paper', w) /\ fb_paper'.col = x /\ Row(fb_paper', h) = Row(p, h)
        /\ \A r, c : ShownAt(fb_paper', h, r, c) = ShownAt(p, h, r, c)
    BY <1>1, <1>2, <2>1, <2>2, MovedIs
  <2>4. Draws(px, fb_paper')
    BY <1>1, <1>2, <2>3 DEF Draws
  <2>5. QED BY <1>1, <1>2, <2>1, <2>3, <2>4 DEF DrawnOK
<1>6. QED BY <1>4, <1>5

\* The next stop of the cursor is that of the paper.
LEMMA SameStop ==
    ASSUME NEW x \in Nat
    PROVE  F!NextStop(x) = ((x \div TabStop) + 1) * TabStop /\ F!NextStop(x) \in Nat
<1>1. TabStop \in Nat \ {0}
  BY ConsoleAssumption DEF F!FramebufferAssumption
<1>2. PICK q, r : q = x \div TabStop /\ r = x % TabStop
  OBVIOUS
<1>3. q \in Nat /\ r \in Nat /\ r < TabStop /\ x = q * TabStop + r
  BY <1>1, <1>2, Division
<1>4. (q + 1) * TabStop \in Nat /\ (q + 1) * TabStop = q * TabStop + TabStop
      /\ q * TabStop \in Nat
  BY <1>1, <1>3, SMTT(30)
<1>5. x + TabStop = (q + 1) * TabStop + r
  BY <1>1, <1>3, <1>4
<1>6. (x + TabStop) % TabStop = r
  BY <1>1, <1>3, <1>5, DivisionIs
<1>7. F!NextStop(x) = (x + TabStop) - r
  BY <1>6 DEF F!NextStop
<1>8. QED BY <1>1, <1>2, <1>3, <1>4, <1>5, <1>7

LEMMA PutcharDraws ==
    ASSUME F!Drawable, FInv, DrawnInv, F!framebuffer_putchar
    PROVE  DrawnOK(pixels', fb_paper', cursor_x', cursor_y')
<1>1. DrawnOK(pixels, fb_paper, cursor_x, cursor_y)
  BY DEF F!framebuffer_putchar, DrawnInv
<1>2. /\ cursor_x = fb_paper.col /\ cursor_x \in Nat /\ cursor_y \in Nat
      /\ cursor_y = Row(fb_paper, F!text_rows) /\ text_color \in Colors
  BY <1>1 DEF DrawnOK, FInv, F!FramebufferTypeOK
<1>3. CASE F!PutNewline
  <2>1. F!Settle(pixels, 0, cursor_y + 1) /\ fb_paper' = Feed(fb_paper, F!text_cols)
    BY <1>3, SamePaper DEF F!PutNewline
  <2>2. /\ cursor_x' = 0
        /\ pixels' = IF cursor_y + 1 >= F!text_rows THEN F!Scrolled(pixels) ELSE pixels
        /\ cursor_y' = IF cursor_y + 1 >= F!text_rows THEN F!text_rows - 1 ELSE cursor_y + 1
    BY <2>1, HasText DEF F!Settle
  <2>3. PaperOK(fb_paper, F!text_cols) /\ Draws(pixels, fb_paper) /\ Margins(pixels)
    BY <1>1 DEF DrawnOK
  <2>4. QED BY <1>2, <2>1, <2>2, <2>3, FeedDraws
<1>4. CASE F!PutReturn
  <2>1. F!Settle(pixels, 0, cursor_y) /\ fb_paper' = GoTo(fb_paper, 0, F!text_cols)
    BY <1>4, SamePaper DEF F!PutReturn
  <2>2. QED BY <1>1, <2>1, SettleDraws
<1>5. CASE F!PutTab
  <2>1. /\ F!Settle(pixels, F!NextStop(cursor_x), cursor_y)
        /\ fb_paper' = GoTo(fb_paper, ((fb_paper.col \div TabStop) + 1) * TabStop, F!text_cols)
    BY <1>5, SamePaper DEF F!PutTab
  <2>2. PICK x \in Nat : x = F!NextStop(cursor_x)
                         /\ x = ((fb_paper.col \div TabStop) + 1) * TabStop
    BY <1>2, SameStop
  <2>3. F!Settle(pixels, x, cursor_y) /\ fb_paper' = GoTo(fb_paper, x, F!text_cols)
    BY <2>1, <2>2
  <2>4. QED BY <1>1, <2>2, <2>3, SettleDraws
<1>6. CASE F!PutBackspace
  <2>1. /\ F!Settle(pixels, IF cursor_x > 0 THEN cursor_x - 1 ELSE 0, cursor_y)
        /\ fb_paper' = GoTo(fb_paper, IF fb_paper.col > 0 THEN fb_paper.col - 1 ELSE 0,
                            F!text_cols)
    BY <1>6, SamePaper DEF F!PutBackspace
  <2>2. PICK x \in Nat : x = IF cursor_x > 0 THEN cursor_x - 1 ELSE 0
    BY <1>2
  <2>3. F!Settle(pixels, x, cursor_y) /\ fb_paper' = GoTo(fb_paper, x, F!text_cols)
    BY <1>2, <2>1, <2>2
  <2>4. QED BY <1>1, <2>2, <2>3, SettleDraws
<1>7. CASE \E c \in Chars : F!PutChar(c)
  <2>1. PICK c \in Chars : F!PutChar(c)
    BY <1>7
  <2>2. PICK px, cell, q :
          /\ px = F!DrawChar(pixels, c, cursor_x, cursor_y, text_color)
          /\ cell = [char |-> c, color |-> text_color]
          /\ q = [fb_paper EXCEPT !.rows[LastRow(fb_paper)][fb_paper.col] = cell]
    OBVIOUS
  <2>3. /\ F!Settle(px, cursor_x + 1, cursor_y)
        /\ fb_paper' = Type(fb_paper, cell, F!text_cols)
    BY <2>1, <2>2, SamePaper DEF F!PutChar
  <2>4. fb_paper' = GoTo(q, cursor_x + 1, F!text_cols)
    BY <1>2, <2>2, <2>3 DEF Type
  <2>5. DrawnOK(px, q, cursor_x, cursor_y)
    BY <1>1, <1>2, <2>2, CharDraws
  <2>6. cursor_x + 1 \in Nat
    BY <1>2
  <2>7. QED BY <2>3, <2>4, <2>5, <2>6, SettleDraws
<1>8. QED BY <1>3, <1>4, <1>5, <1>6, <1>7 DEF F!framebuffer_putchar

LEMMA RestartDraws ==
    ASSUME F!Drawable, NEW color, F!Restart(color)
    PROVE  DrawnOK(pixels', fb_paper', cursor_x', cursor_y')
<1>1. /\ pixels' = F!Cleared(pixels, color) /\ cursor_x' = 0 /\ cursor_y' = 0
      /\ fb_paper' = FreshPaper(F!text_cols)
  BY SamePaper DEF F!Restart
<1>2. QED BY <1>1, ClearedDraws

\* The invariant after a step that draws, and after one that does not.
LEMMA DrawnNext ==
    ASSUME DrawnOK(pixels', fb_paper', cursor_x', cursor_y')
    PROVE  DrawnInv'
BY DEF DrawnInv, DrawnOK, Draws, Margins, PixelShows, PaperOK, Sorts, Row, LastRow, Gone,
       ShownAt, F!text_cols, F!text_rows, F!PixelRows, F!Columns

LEMMA DrawnKept ==
    ASSUME DrawnInv, UNCHANGED <<active, pixels, fb_paper, cursor_x, cursor_y>>
    PROVE  DrawnInv'
<1>1. CASE active
  <2>1. DrawnOK(pixels', fb_paper', cursor_x', cursor_y')
    BY <1>1 DEF DrawnInv
  <2>2. QED BY <2>1, DrawnNext
<1>2. CASE ~active
  BY <1>2 DEF DrawnInv
<1>3. QED BY <1>1, <1>2

(***************************************************************************)
(* The invariant.                                                          *)
(***************************************************************************)

LEMMA InitFits == Init => IInv
<1> SUFFICES ASSUME Init PROVE IInv
  OBVIOUS
<1>1. TInv
  <2>1. VGA_WIDTH * VGA_HEIGHT <= Window
    BY TerminalAssumption DEF Init, TerminalInit, TerminalAssumption
  <2>2. VGA_WIDTH \in Nat \ {0} /\ VGA_HEIGHT \in Nat \ {0}
    BY TerminalAssumption DEF Init, TerminalInit, TerminalAssumption
  <2>3. terminal_row = 0 /\ terminal_column = 0 /\ terminal_color \in Colors
    BY TerminalAssumption DEF Init, TerminalInit, TerminalAssumption
  <2>4. DOMAIN vga = Cells /\ up \in BOOLEAN /\ intact \in BOOLEAN
    BY DEF Init, TerminalInit
  <2>5. QED BY <2>1, <2>2, <2>3, <2>4 DEF TInv, FitInv, TerminalTypeOK
<1>2. F!FramebufferTypeOK
  BY TerminalAssumption
  DEF Init, F!FramebufferInit, F!FramebufferTypeOK, TerminalAssumption
<1>3. cursor_x < F!text_cols /\ cursor_y < F!text_rows
  BY HasText DEF Init, F!FramebufferInit
<1>4. QED BY <1>1, <1>2, <1>3 DEF IInv, FInv

\* What a step writes into the text window.
WriteInside == \A k \in Cells : vga'[k] # vga[k] => ~active /\ k < VGA_WIDTH * VGA_HEIGHT

LEMMA NextFits == IInv /\ [Next]_vars => IInv' /\ WriteInside
<1> SUFFICES ASSUME IInv, [Next]_vars PROVE IInv' /\ WriteInside
  OBVIOUS
<1>1. TInv /\ FInv
  BY DEF IInv
<1>2. CASE framebuffer_init
  <2>1. F!framebuffer_init /\ UNCHANGED terminal
    BY <1>2 DEF framebuffer_init
  <2>2. active' = TRUE /\ text_color' = text_color /\ F!Restart(text_color)
    BY <2>1 DEF F!framebuffer_init
  <2>3. text_color' \in Colors /\ active' \in BOOLEAN
    BY <1>1, <2>2 DEF FInv, F!FramebufferTypeOK
  <2>4. FInv'
    BY <1>1, <2>2, <2>3, RestartFits
  <2>5. QED BY <1>1, <2>1, <2>4, TerminalSame DEF IInv, WriteInside
<1>3. CASE terminal_initialize
  <2>1. CASE ~active /\ InitializeText /\ UNCHANGED framebuffer
    BY <1>1, <2>1, InitializeFits, FramebufferSame DEF IInv, WriteInside
  <2>2. CASE active /\ InitializeGraphics
    BY <2>2, InitializeGraphicsFits DEF IInv, WriteInside
  <2>3. QED BY <1>3, <2>1, <2>2 DEF terminal_initialize
<1>4. CASE terminal_putchar
  <2>1. CASE ~active /\ PutNewline /\ UNCHANGED framebuffer
    BY <1>1, <2>1, PutNewlineFits, FramebufferSame DEF IInv, WriteInside
  <2>2. CASE ~active /\ (\E c \in Chars : PutChar(c)) /\ UNCHANGED framebuffer
    BY <1>1, <2>2, PutCharFits, FramebufferSame DEF IInv, WriteInside
  <2>3. CASE F!framebuffer_putchar /\ UNCHANGED terminal
    BY <1>1, <2>3, PutcharFits, TerminalSame DEF IInv, WriteInside
  <2>4. QED BY <1>4, <2>1, <2>2, <2>3 DEF terminal_putchar
<1>5. CASE SetTerminal
  <2>1. UNCHANGED framebuffer
    BY <1>5 DEF SetTerminal
  <2>2. CASE terminal_setcolor
    <3>1. TInv' /\ vga' = vga
      BY <1>1, <2>2 DEF terminal_setcolor, TInv, FitInv, TerminalTypeOK, Cells
    <3>2. QED BY <1>1, <2>1, <3>1, FramebufferSame DEF IInv, WriteInside
  <2>3. CASE \E d \in Dimensions : terminal_set_dimensions(d[1], d[2])
    BY <1>1, <2>1, <2>3, SetDimensionsFits, FramebufferSame DEF IInv, WriteInside
  <2>4. QED BY <1>5, <2>2, <2>3 DEF SetTerminal
<1>6. CASE SetFramebuffer
  <2>1. UNCHANGED terminal
    BY <1>6 DEF SetFramebuffer
  <2>2. CASE F!framebuffer_set_color
    <3>1. FInv'
      BY <1>1, <2>2
      DEF F!framebuffer_set_color, FInv, F!FramebufferTypeOK, F!PixelRows, F!Columns,
          F!text_cols, F!text_rows
    <3>2. QED BY <1>1, <2>1, <3>1, TerminalSame DEF IInv, WriteInside
  <2>3. CASE F!framebuffer_clear
    <3>1. /\ F!Restart(text_color) /\ active' = active /\ text_color' = text_color
      BY <2>3 DEF F!framebuffer_clear
    <3>2. active' \in BOOLEAN /\ text_color' \in Colors
      BY <1>1, <3>1 DEF FInv, F!FramebufferTypeOK
    <3>3. FInv'
      BY <1>1, <3>1, <3>2, RestartFits
    <3>4. QED BY <1>1, <2>1, <3>3, TerminalSame DEF IInv, WriteInside
  <2>4. QED BY <1>6, <2>2, <2>3 DEF SetFramebuffer
<1>7. CASE UNCHANGED vars
  BY <1>1, <1>7, TerminalSame, FramebufferSame DEF vars, IInv, WriteInside
<1>8. QED BY <1>2, <1>3, <1>4, <1>5, <1>6, <1>7 DEF Next

LEMMA Invariant == Spec => []IInv
<1>1. QED BY InitFits, NextFits, PTL DEF Spec

(***************************************************************************)
(* What the screens show.                                                  *)
(***************************************************************************)

\* Both consoles show their papers.  framebuffer_init comes before terminal_initialize,
\* so that a text screen in use is never abandoned for the framebuffer.
ShowsInv == TextInv /\ DrawnInv

LEMMA InitShows == Init => ShowsInv
BY DEF Init, TerminalInit, F!FramebufferInit, ShowsInv, TextInv, DrawnInv

\* The framebuffer becomes active once, and is never left.
LEMMA NextShows ==
    ASSUME F!Drawable, IInv, ShowsInv, [Next]_vars
    PROVE  ShowsInv'
<1>1. TInv /\ FInv /\ TextInv /\ DrawnInv
  BY DEF IInv, ShowsInv
<1>2. CASE framebuffer_init
  <2>1. active' = TRUE /\ F!Restart(text_color)
    BY <1>2 DEF framebuffer_init, F!framebuffer_init
  <2>2. TextInv'
    BY <2>1 DEF TextInv
  <2>3. QED BY <2>1, <2>2, RestartDraws, DrawnNext DEF ShowsInv
<1>3. CASE terminal_initialize
  <2>1. CASE ~active /\ InitializeText /\ UNCHANGED framebuffer
    <3>1. UNCHANGED <<active, pixels, fb_paper, cursor_x, cursor_y>>
      BY <2>1 DEF framebuffer
    <3>2. QED BY <1>1, <2>1, <3>1, InitializeShows, DrawnKept DEF ShowsInv
  <2>2. CASE active /\ InitializeGraphics
    <3>1. active' = active /\ F!Restart(DefaultColor)
      BY <2>2 DEF InitializeGraphics
    <3>2. TextInv'
      BY <2>2, <3>1 DEF TextInv
    <3>3. QED BY <3>1, <3>2, RestartDraws, DrawnNext DEF ShowsInv
  <2>3. QED BY <1>3, <2>1, <2>2 DEF terminal_initialize
<1>4. CASE terminal_putchar
  <2>1. ASSUME ~active, PutNewline \/ \E c \in Chars : PutChar(c), UNCHANGED framebuffer
        PROVE  ShowsInv'
    <3>1. UNCHANGED <<active, pixels, fb_paper, cursor_x, cursor_y>>
      BY <2>1 DEF framebuffer
    <3>2. CASE PutNewline
      BY <1>1, <2>1, <3>1, <3>2, PutNewlineShows, DrawnKept DEF ShowsInv
    <3>3. CASE \E c \in Chars : PutChar(c)
      BY <1>1, <2>1, <3>1, <3>3, PutCharShows, DrawnKept DEF ShowsInv
    <3>4. QED BY <2>1, <3>2, <3>3
  <2>2. ASSUME F!framebuffer_putchar PROVE ShowsInv'
    <3>1. active /\ active' = active
      BY <2>2 DEF F!framebuffer_putchar
    <3>2. TextInv'
      BY <3>1 DEF TextInv
    <3>3. QED BY <1>1, <2>2, <3>2, PutcharDraws, DrawnNext DEF ShowsInv
  <2>3. QED BY <1>4, <2>1, <2>2 DEF terminal_putchar
<1>5. CASE SetTerminal
  <2>1. UNCHANGED <<active, pixels, fb_paper, cursor_x, cursor_y>>
    BY <1>5 DEF SetTerminal, framebuffer
  <2>2. CASE terminal_setcolor
    <3>1. UNCHANGED <<active, up, intact, vga, VGA_WIDTH, VGA_HEIGHT,
                      terminal_row, terminal_column, paper>>
      BY <2>1, <2>2 DEF terminal_setcolor
    <3>2. QED BY <1>1, <2>1, <3>1, TextKept, DrawnKept DEF ShowsInv
  <2>3. CASE \E d \in Dimensions : terminal_set_dimensions(d[1], d[2])
    BY <1>1, <2>1, <2>3, SetDimensionsShows, DrawnKept DEF ShowsInv
  <2>4. QED BY <1>5, <2>2, <2>3 DEF SetTerminal
<1>6. CASE SetFramebuffer
  <2>1. UNCHANGED <<up, intact, vga, VGA_WIDTH, VGA_HEIGHT,
                    terminal_row, terminal_column, paper>>
    BY <1>6 DEF SetFramebuffer, terminal
  <2>2. CASE F!framebuffer_set_color
    <3>1. UNCHANGED <<active, pixels, fb_paper, cursor_x, cursor_y>>
      BY <2>2 DEF F!framebuffer_set_color
    <3>2. QED BY <1>1, <2>1, <3>1, TextKept, DrawnKept DEF ShowsInv
  <2>3. CASE F!framebuffer_clear
    <3>1. active' = active /\ F!Restart(text_color)
      BY <2>3 DEF F!framebuffer_clear
    <3>2. QED BY <1>1, <2>1, <3>1, TextKept, RestartDraws, DrawnNext DEF ShowsInv
  <2>4. QED BY <1>6, <2>2, <2>3 DEF SetFramebuffer
<1>7. CASE UNCHANGED vars
  BY <1>1, <1>7, TextKept, DrawnKept DEF vars, terminal, framebuffer, ShowsInv
<1>8. QED BY <1>2, <1>3, <1>4, <1>5, <1>6, <1>7 DEF Next

\* What the invariants say of the cells and of the pixels.
LEMMA PaperIsShown ==
    ASSUME IInv, ShowsInv
    PROVE  ScreenShowsPaper
<1>1. ASSUME ~active PROVE TextShowsPaper
  <2> SUFFICES ASSUME up, intact
               PROVE  /\ \A r \in 0 .. VGA_HEIGHT - 1, c \in 0 .. VGA_WIDTH - 1 :
                           Agrees(vga[Index(c, r)], ShownAt(paper, VGA_HEIGHT, r, c))
                      /\ terminal_row = LastRow(paper) - 1 - Gone(paper, VGA_HEIGHT)
                      /\ terminal_column = paper.col
    BY DEF TextShowsPaper
  <2>1. /\ terminal_row = Row(paper, VGA_HEIGHT) /\ terminal_column = paper.col
        /\ Shows(vga, paper, VGA_WIDTH, VGA_HEIGHT)
    BY <1>1 DEF ShowsInv, TextInv
  <2>2. ASSUME NEW r \in 0 .. VGA_HEIGHT - 1, NEW c \in 0 .. VGA_WIDTH - 1
        PROVE  Agrees(vga[Index(c, r)], ShownAt(paper, VGA_HEIGHT, r, c))
    <3>1. Index(c, r) = r * VGA_WIDTH + c
      BY CellOf DEF IInv
    <3>2. Agrees(vga[r * VGA_WIDTH + c], ShownAt(paper, VGA_HEIGHT, r, c))
      BY <2>1, Zenon DEF Shows
    <3>3. QED BY <3>1, <3>2
  <2>3. QED BY <2>1, <2>2 DEF Row
<1>2. ASSUME active PROVE Draws(pixels, fb_paper) /\ Margins(pixels)
  BY <1>2 DEF ShowsInv, DrawnInv, DrawnOK
<1>3. F!PixelsShowPaper
  <2> SUFFICES ASSUME active, NEW y \in 0 .. F!text_rows * FONT_HEIGHT - 1,
                      NEW x \in 0 .. F!text_cols - 1
               PROVE  LET shown == ShownAt(fb_paper, F!text_rows, y \div FONT_HEIGHT, x) IN
                      IF shown = Blank THEN pixels[y][x].char = Space
                      ELSE pixels[y][x] = F!Glyph(shown.char, shown.color, y % FONT_HEIGHT)
    BY SamePaper DEF F!PixelsShowPaper
  <2>1. PICK m : m = F!text_rows * FONT_HEIGHT
    OBVIOUS
  <2>2. m \in Nat /\ y \in Nat /\ y < m /\ FONT_HEIGHT \in Nat \ {0}
    BY <2>1, Strip
  <2>3. PICK r, l : r = y \div FONT_HEIGHT /\ l = y % FONT_HEIGHT
    OBVIOUS
  <2>4. r \in Nat /\ l \in 0 .. FONT_HEIGHT - 1 /\ y = r * FONT_HEIGHT + l
    BY <2>2, <2>3, Division
  <2>5. r \in 0 .. F!text_rows - 1
    <3>1. F!text_rows \in Nat
      BY HasText
    <3> SUFFICES ASSUME F!text_rows <= r PROVE FALSE
      BY <2>4, <3>1
    <3>2. m <= r * FONT_HEIGHT
      BY <2>1, <2>2, <2>4, <3>1, Products
    <3>3. PICK k : k = r * FONT_HEIGHT /\ k \in Nat
      BY <2>2, <2>4, SMTT(30)
    <3>4. QED BY <2>2, <2>4, <3>2, <3>3
  <2>6. PixelShows(pixels[r * FONT_HEIGHT + l][x], ShownAt(fb_paper, F!text_rows, r, x), l)
    BY <1>2, <2>4, <2>5, Zenon DEF Draws
  <2>7. QED BY <2>3, <2>4, <2>6 DEF PixelShows
<1>4. F!MarginsBlank
  BY <1>2, SamePaper DEF F!MarginsBlank, Margins
<1>5. QED BY <1>1, <1>3, <1>4 DEF ScreenShowsPaper

LEMMA ScreensInvariant ==
    ASSUME F!Drawable
    PROVE  Spec => []ShowsInv
<1>1. IInv /\ ShowsInv /\ [Next]_vars => ShowsInv'
  BY NextShows
<1>2. QED BY <1>1, InitShows, Invariant, PTL DEF Spec

(***************************************************************************)
(* The theorems.                                                           *)
(***************************************************************************)

\* Type correctness of both consoles.
THEOREM ConsoleTypes == Spec => []TypeOK
<1>1. IInv => TypeOK
  BY DEF IInv, TInv, FInv, TypeOK
<1>2. QED BY <1>1, Invariant, PTL

\* Both cursors are on their screens whenever a character can come: terminal_putchar and
\* framebuffer_putchar write where the cursor is.
THEOREM CursorsOnScreen == Spec => []CursorOnScreen
<1>1. IInv => CursorOnScreen
  BY DEF IInv, TInv, FInv, CursorOnScreen
<1>2. QED BY <1>1, Invariant, PTL

\* terminal.c never writes beyond the cells of the screen, nor any cell while the
\* framebuffer is in use.
THEOREM WritesInside == Spec => NoWriteBeyondScreen
<1>1. IInv /\ [Next]_vars
        => [\A k \in Cells : vga'[k] # vga[k] => ~active /\ k < VGA_WIDTH * VGA_HEIGHT]_vars
  BY NextFits DEF WriteInside
<1>2. QED BY <1>1, Invariant, PTL DEF Spec, NoWriteBeyondScreen

\* The screen in use shows the last rows of what was printed, and nothing else, after any
\* mix of text, wraps, tabs, backspaces and scrolls: every cell of the text screen, every
\* line of every character of the framebuffer, and blanks wherever there is no text.  The
\* framebuffer is one of a pixel format that framebuffer_put_pixel draws.
THEOREM ScreenIsTrue ==
    ASSUME F!Drawable
    PROVE  Spec => []ScreenShowsPaper
<1>1. IInv /\ ShowsInv => ScreenShowsPaper
  BY PaperIsShown
<1>2. QED BY <1>1, Invariant, ScreensInvariant, PTL
=============================================================================
