---------------------------- MODULE DisplayModes ----------------------------
(***************************************************************************)
(* How the kernel decides what its console looks like: src/kernel/vesa.c   *)
(* and the sizes kept by framebuffer.c and terminal.c.  Three parties each *)
(* keep a size: the terminal (VGA_WIDTH x VGA_HEIGHT), the framebuffer     *)
(* console (text_cols x text_rows) and the CRT controller of the VGA.      *)
(* KernelBoot runs these steps in the order of kernel_main.                *)
(***************************************************************************)
EXTENDS Integers, Sequences, FiniteSetsExt

CONSTANTS Lines,      \* command lines, each a sequence of characters
          Screens,    \* modes the boot loader may leave the card in: [cols, lines, cell, text]
          Pictures,   \* sizes of a graphics framebuffer, in pixels
          Glyphs,     \* character codes looked at in font memory
          font_8x8    \* character code below 128, row -> byte, leftmost pixel in bit 0

\* Cells in the VGA's text window: 32 KB at B8000h.
TextWindow == 16384

VARIABLES cmdline,    \* the command line, empty where the loader passes none
          video,      \* the framebuffer fields of the multiboot information
          crtc,       \* CRT controller registers
          seq, gc,    \* sequencer and graphics controller registers
          planes,     \* the VGA's memory: plane -> address -> byte
          active, text_cols, text_rows,
          VGA_WIDTH, VGA_HEIGHT

card == <<crtc, seq, gc, planes>>
display == <<cmdline, video, card, active, text_cols, text_rows, VGA_WIDTH, VGA_HEIGHT>>

Bit(v, n) == (v \div 2^n) % 2

(***************************************************************************)
(* The VGA.  CRT controller: 1 horizontal display end, 6 vertical total,   *)
(* 7 overflow, 9 maximum scan line, 17 vertical retrace end (bit 7 locks   *)
(* registers 0 to 7), 18 vertical display end.  Sequencer: 2 map mask,     *)
(* 4 memory mode.  Graphics controller: 5 mode, 6 miscellaneous.           *)
(***************************************************************************)
CrtcRegisters == {1, 6, 7, 9, 17, 18}

WriteCrtc(c, n, v) == IF n < 8 /\ Bit(c[17], 7) = 1 THEN c ELSE [c EXCEPT ![n] = v]

\* The registers of a mode with the given columns, scan lines and cell height.
CrtcOf(s, lock) ==
    LET end == s.lines - 1 IN
    [n \in CrtcRegisters |->
       CASE n = 1  -> s.cols - 1
         [] n = 6  -> 191
         [] n = 7  -> 29 + 2 * Bit(end, 8) + 64 * Bit(end, 9)
         [] n = 9  -> 64 + s.cell - 1
         [] n = 17 -> 14 + lock
         [] n = 18 -> end % 256]

\* What the VGA shows with these registers: rows of cells on the screen.
ScanLines(c) == 1 + c[18] + 256 * Bit(c[7], 1) + 512 * Bit(c[7], 6)
CellHeight(c) == 1 + (c[9] % 32)
ScreenRows(c) == ScanLines(c) \div CellHeight(c)
ScreenCols(c) == 1 + c[1]

\* Font memory keeps a glyph in 32 bytes of plane 2.
GlyphAddress(g, row) == 32 * g + row
Addresses == {GlyphAddress(g, row) : g \in Glyphs, row \in 0 .. 31}

\* A byte written at A0000h + a with registers s and g is stored in plane p at
\* address b.
Lands(s, g, a, p, b) ==
    /\ Bit(s[2], p) = 1
    /\ (g[6] \div 4) % 4 < 2
    /\ IF Bit(s[4], 2) = 1 THEN b = a ELSE p % 2 = a % 2 /\ b = a - (a % 2)

\* Two registers and what is in them.
Pair(m, v, n, w) == [r \in {m, n} |-> IF r = m THEN v ELSE w]

TextSeq == Pair(2, 3, 4, 2)
TextGc == Pair(5, 16, 6, 14)
GraphicsSeq == Pair(2, 15, 4, 14)
GraphicsGc == Pair(5, 64, 6, 5)

(***************************************************************************)
(* vesa.c                                                                  *)
(***************************************************************************)

\* The swaps of nibbles, of pairs and of neighbours, together.
reverse_bits(b) ==
    128 * Bit(b, 0) + 64 * Bit(b, 1) + 32 * Bit(b, 2) + 16 * Bit(b, 3)
      + 8 * Bit(b, 4) + 4 * Bit(b, 5) + 2 * Bit(b, 6) + Bit(b, 7)

\* What load_8x8_font writes for an address: characters from 128 on are blank.
FontByte(a) ==
    LET ch == a \div 32 IN reverse_bits(font_8x8[IF ch < 128 THEN ch ELSE 0][a % 32])

\* Mutant of FontSeq: the memory mode stays odd/even.
FontSeqOddEven == Pair(2, 4, 4, 3)

\* Mutant of FontSeq: every plane is written.
FontSeqAllPlanes == Pair(2, 15, 4, 7)

\* Registers while the font is written: plane 2, sequential, mapped to A0000h.
FontSeq == Pair(2, 4, 4, 7)
FontGc == Pair(5, 0, 6, 0)

\* load_8x8_font saves map mask, mode and miscellaneous registers, writes eight
\* rows of every glyph and puts the registers back, the memory mode to 3.
load_8x8_font ==
    /\ planes' = [p \in 0 .. 3 |-> [b \in Addresses |->
         LET hits == {a \in Addresses : a % 32 < 8 /\ Lands(FontSeq, FontGc, a, p, b)} IN
         IF hits = {} THEN planes[p][b] ELSE FontByte(Max(hits))]]
    /\ seq' = [seq EXCEPT ![4] = 3]
    /\ UNCHANGED gc

\* The registers after set_80x50_mode: unlock, cells of 8 lines, 400 lines.
set_80x50(c) ==
    LET c1 == WriteCrtc(c, 17, c[17] % 128)
        c2 == WriteCrtc(c1, 9, 32 * (c1[9] \div 32) + 7)
        c3 == WriteCrtc(c2, 6, 191)
        c4 == WriteCrtc(c3, 7, 16 * Bit(c3[7], 4) + 35)
        c5 == WriteCrtc(c4, 18, 143)
    IN  WriteCrtc(c5, 17, 142)

set_80x50_mode ==
    /\ load_8x8_font
    /\ crtc' = set_80x50(crtc)
    /\ UNCHANGED <<VGA_WIDTH, VGA_HEIGHT>>

terminal_set_dimensions(w, h) == VGA_WIDTH' = w /\ VGA_HEIGHT' = h

\* Mutant of Reasonable: anything is.
AnySize(w, h) == w > 0 /\ h > 0

\* "Validate dimensions (must be reasonable)".
Reasonable(w, h) == w \in 40 .. 200 /\ h \in 20 .. 100

\* Mutant of DetectedHeight: the overflow register is not read.
DetectedHeightLow(c) == (c[18] + 1) \div ((c[9] % 32) + 1)

\* detect_screen_size: vertical_display_end from register 18 and bits 1 and 6 of
\* the overflow register, divided by the character height.
DetectedHeight(c) ==
    LET vertical_display_end == c[18] + 128 * ((c[7] % 4) - (c[7] % 2))
                                      + 8 * ((c[7] % 128) - (c[7] % 64))
    IN  (vertical_display_end + 1) \div ((c[9] % 32) + 1)

detect_screen_size ==
    LET width  == crtc[1] + 1
        height == DetectedHeight(crtc)
    IN  /\ IF Reasonable(width, height)
           THEN terminal_set_dimensions(width, height)
           ELSE terminal_set_dimensions(80, 25)
        /\ UNCHANGED card

(***************************************************************************)
(* The command line.                                                       *)
(***************************************************************************)
Mode(name, w, h) == [name |-> name, width |-> w, height |-> h]

text_modes ==
    <<Mode(<<"8", "0", "x", "2", "5">>, 80, 25),
      Mode(<<"8", "0", "x", "5", "0">>, 80, 50),
      Mode(<<"1", "0", "0", "x", "3", "7">>, 100, 37),
      Mode(<<"1", "3", "2", "x", "2", "5">>, 132, 25),
      Mode(<<"1", "3", "2", "x", "4", "3">>, 132, 43),
      Mode(<<"1", "3", "2", "x", "5", "0">>, 132, 50)>>

Res == <<"r", "e", "s", "=">>
Resolution == <<"r", "e", "s", "o", "l", "u", "t", "i", "o", "n", "=">>

\* The text has this word at position p.
At(text, p, word) ==
    \A j \in DOMAIN word : p + j - 1 \in DOMAIN text /\ text[p + j - 1] = word[j]

strstr_check(haystack, needle) == \E p \in DOMAIN haystack : At(haystack, p, needle)

\* Mutant of parse_resolution: the value starts after "res=" in any case.
parse_resolution_short(text) ==
    LET hits == {p \in DOMAIN text : At(text, p, Res) \/ At(text, p, Resolution)}
        found == {i \in DOMAIN text_modes : At(text, Min(hits) + 4, text_modes[i].name)}
    IN  IF hits = {} \/ found = {} THEN 0 ELSE Min(found)

\* parse_resolution up to the mode it switches to (0: none): the value of the first
\* "res=" or "resolution=", wherever it is, selects the first mode whose name
\* it begins with.
parse_resolution(text) ==
    LET hits  == {p \in DOMAIN text : At(text, p, Res) \/ At(text, p, Resolution)}
        p     == Min(hits)
        value == p + Len(IF At(text, p, Res) THEN Res ELSE Resolution)
        found == {i \in DOMAIN text_modes : At(text, value, text_modes[i].name)}
    IN  IF hits = {} \/ found = {} THEN 0 ELSE Min(found)

\* parse_resolution with a mode it knows.
TakeRequest(i) ==
    IF text_modes[i].width = 80 /\ text_modes[i].height = 50
    THEN set_80x50_mode
    ELSE /\ terminal_set_dimensions(text_modes[i].width, text_modes[i].height)
         /\ UNCHANGED card

\* init_vesa, the way out for init_vesa_with_mbi: the command line once more, then
\* the registers of the card.
init_vesa ==
    IF parse_resolution(cmdline) # 0 THEN TakeRequest(parse_resolution(cmdline))
    ELSE detect_screen_size

\* Size in characters of the multiboot framebuffer: 8 x 16 cells in graphics,
\* except at 400 lines.
VideoSize ==
    IF video.type = 1
    THEN <<video.width \div 8, video.height \div (IF video.height = 400 THEN 8 ELSE 16)>>
    ELSE <<video.width, video.height>>

\* The multiboot framebuffer decides, unless its size is not reasonable.
TakeVideo ==
    IF video.type = 1 /\ video.width = 640 /\ video.height = 400
    THEN set_80x50_mode
    ELSE IF Reasonable(VideoSize[1], VideoSize[2])
    THEN /\ terminal_set_dimensions(VideoSize[1], VideoSize[2])
         /\ IF VideoSize = <<80, 50>> THEN load_8x8_font ELSE UNCHANGED <<seq, gc, planes>>
         /\ UNCHANGED crtc
    ELSE init_vesa

(***************************************************************************)
(* The steps of kernel_main that set sizes.                                *)
(***************************************************************************)
NoVideo == [type |-> 0, width |-> 0, height |-> 0]

framebuffer_init ==
    /\ active' = (video.type = 1)
    /\ IF video.type = 1
       THEN text_cols' = video.width \div 8 /\ text_rows' = video.height \div 8
       ELSE UNCHANGED <<text_cols, text_rows>>
    /\ UNCHANGED <<cmdline, video, card, VGA_WIDTH, VGA_HEIGHT>>

init_vesa_with_mbi ==
    /\ IF parse_resolution(cmdline) # 0 THEN TakeRequest(parse_resolution(cmdline))
       ELSE IF video.type \in {1, 2} THEN TakeVideo
       ELSE init_vesa
    /\ UNCHANGED <<cmdline, video, active, text_cols, text_rows>>

\* The loader leaves a text mode, and tells its size or nothing; or a graphics
\* framebuffer; or a graphics mode it says nothing of.  A byte of the loader's
\* font is shown as the height of that font, negative.
DisplayInit ==
    /\ cmdline \in Lines
    /\ \E s \in Screens : \E lock \in {0, 128} :
         /\ crtc = CrtcOf(s, lock)
         /\ planes = [p \in 0 .. 3 |-> [a \in Addresses |-> IF p = 2 THEN -s.cell ELSE 0]]
         /\ video \in {NoVideo} \cup
              (IF s.text THEN {[type |-> 2, width |-> s.cols, height |-> s.lines \div s.cell]}
               ELSE {[type |-> 1, width |-> p[1], height |-> p[2]] : p \in Pictures})
         /\ IF s.text THEN seq = TextSeq /\ gc = TextGc ELSE seq = GraphicsSeq /\ gc = GraphicsGc
    /\ active = FALSE /\ text_cols = 80 /\ text_rows = 25
    /\ VGA_WIDTH = 80 /\ VGA_HEIGHT = 25
=============================================================================
