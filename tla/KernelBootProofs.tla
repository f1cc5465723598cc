-------------------------- MODULE KernelBootProofs --------------------------
(***************************************************************************)
(* Theorems about KernelBoot, the processor and the display, for every     *)
(* processor that MachineAssumption allows, every command line, every font *)
(* and every screen that ScreenAssumption allows.                          *)
(***************************************************************************)
EXTENDS KernelBoot, SequenceTheorems, WellFoundedInduction, TLAPS

(***************************************************************************)
(* The invariant.                                                          *)
(***************************************************************************)

\* Where the boot is, and that it has met no fault on the way.
PlaceInv ==
    /\ cpu = "runs" /\ machine \in Machines
    /\ magic \in BOOLEAN /\ kernel_verbose_mode \in BOOLEAN /\ interrupts \in BOOLEAN
    /\ pc \in {"_start", "framebuffer", "vesa", "magic", "gdt", "idt", "hyperv", "hwinfo",
               "report", "halted"}
    /\ pc = "_start" => gdtr = LoaderTable /\ idtr = LoaderTable
    /\ interrupts => pc = "_start"
    /\ pc \in {"gdt", "idt", "hyperv", "hwinfo", "report"} => magic

\* The boot has come past a step, and not over a wrong magic number.
Past(places) == pc \in places \/ (pc = "halted" /\ magic)

\* hyperv.c found Hyper-V where it is, and its services; before, nothing is known.
HypervInv ==
    /\ hyperv_detected \in BOOLEAN
    /\ ~Past({"hwinfo", "report"}) => hyperv_features = {}
    /\ Past({"hwinfo", "report"}) =>
         /\ hyperv_detected <=> machine.osid
         /\ hyperv_features = IF machine.osid THEN machine.services ELSE {}

\* What detect_cpu kept.
InfoInv ==
    /\ ~Past({"report"}) => cpu_info = NoInfo
    /\ Past({"report"}) => InfoIsTrue

\* What print_cpu_info printed of it.
ReportInv == pc = "halted" /\ magic /\ kernel_verbose_mode => PrintIsTrue

IInv == PlaceInv /\ HypervInv /\ InfoInv /\ ReportInv

(***************************************************************************)
(* The processor's answers.                                                *)
(***************************************************************************)

\* What MachineAssumption says of the processor at hand.
LEMMA ThisMachine ==
    ASSUME PlaceInv
    PROVE  /\ machine.leaves \in Nat /\ machine.signature \in Nat
           /\ machine.vendor \in Seq(STRING) /\ Len(machine.vendor) = 3
           /\ machine.hypervisor # <<>> =>
                machine.hypervisor \in Seq(STRING) /\ Len(machine.hypervisor) = 3
           /\ machine.osid = (machine.leaves > 0 /\ 31 \in machine.ecx
                                /\ machine.hypervisor = MicrosoftHv)
BY MachineAssumption DEF PlaceInv

\* Three registers put together again are the text that was cut into them.
LEMMA Triple ==
    ASSUME NEW t \in Seq(STRING), Len(t) = 3
    PROVE  <<t[1], t[2], t[3]>> = t
OBVIOUS

\* detect_hyperv finds Hyper-V exactly where its register is.
LEMMA DetectsHyperv ==
    ASSUME PlaceInv
    PROVE  detect_hyperv <=> machine.osid
<1>1. machine.leaves \in Nat
  BY ThisMachine
<1>2. 31 \in Version.ecx <=> machine.leaves > 0 /\ 31 \in machine.ecx
  BY <1>1 DEF Version, NoBits
<1>3. <<HvVendor.ebx, HvVendor.ecx, HvVendor.edx>> = MicrosoftHv
        <=> machine.hypervisor = MicrosoftHv
  <2>1. CASE machine.hypervisor = <<>>
    BY <2>1 DEF HvVendor, Nothing, MicrosoftHv
  <2>2. CASE machine.hypervisor # <<>>
    <3>1. <<machine.hypervisor[1], machine.hypervisor[2], machine.hypervisor[3]>>
            = machine.hypervisor
      BY <2>2, ThisMachine, Triple
    <3>2. /\ HvVendor.ebx = machine.hypervisor[1] /\ HvVendor.ecx = machine.hypervisor[2]
          /\ HvVendor.edx = machine.hypervisor[3]
      BY <2>2 DEF HvVendor
    <3>3. QED BY <3>1, <3>2
  <2>3. QED BY <2>1, <2>2
<1>4. QED BY <1>2, <1>3, ThisMachine DEF detect_hyperv

\* The processor takes both of the kernel's descriptors as init_gdt encodes them.
LEMMA DescriptorsLoad ==
    /\ Loads(GdtTable, 39, 16, FALSE)
    /\ Loads(GdtTable, 39, 8, TRUE)
<1> DEFINE All == <<65535, 65535>>
           Zero == <<0, 0>>
<1>1. GdtTable[2] = gdt_set_gate(Zero, All, 146, 207)
  BY DEF GdtTable
<1>2. GdtTable[1] = gdt_set_gate(Zero, All, 154, 207)
  BY DEF GdtTable
<1>3. ASSUME NEW a \in Nat
      PROVE  /\ Flat(gdt_set_gate(Zero, All, a, 207))
             /\ gdt_set_gate(Zero, All, a, 207).access = a
  BY SMT DEF Flat, Flag, gdt_set_gate
<1>4. Flag(146, 128) /\ Flag(146, 16) /\ (146 \div 32) % 4 = 0 /\ ~Flag(146, 8) /\ Flag(146, 2)
  BY SMT DEF Flag
<1>5. Flag(154, 128) /\ Flag(154, 16) /\ (154 \div 32) % 4 = 0 /\ Flag(154, 8) /\ Flag(154, 2)
  BY SMT DEF Flag
<1> HIDE DEF All, Zero
<1>6. Flag(146, 8) = FALSE /\ Flag(154, 8) = TRUE
  BY <1>4, <1>5 DEF Flag
<1>7. 16 \div 8 = 2 /\ 8 \div 8 = 1 /\ 16 + 7 <= 39 /\ 8 + 7 <= 39
  BY SMT
<1>8. Loads(GdtTable, 39, 16, FALSE)
  BY <1>1, <1>3, <1>4, <1>6, <1>7 DEF Loads
<1>9. Loads(GdtTable, 39, 8, TRUE)
  BY <1>2, <1>3, <1>5, <1>6, <1>7 DEF Loads
<1>10. QED BY <1>8, <1>9

(***************************************************************************)
(* Registers and fonts.                                                    *)
(***************************************************************************)

\* The powers of two that pick out a bit.
LEMMA Powers ==
    /\ 2^0 = 1 /\ 2^1 = 2 /\ 2^2 = 4 /\ 2^3 = 8 /\ 2^4 = 16 /\ 2^5 = 32 /\ 2^6 = 64 /\ 2^7 = 128
    /\ 2^8 = 256 /\ 2^9 = 512
BY SMT

\* What ScreenAssumption says of one screen.
LEMMA ThisScreen ==
    ASSUME NEW s \in Screens
    PROVE  /\ s.cols \in Nat /\ 1 <= s.cols /\ s.cols <= 256
           /\ s.lines \in Nat /\ 1 <= s.lines /\ s.lines <= 1024
           /\ s.cell \in Nat /\ 1 <= s.cell /\ s.cell <= 32
           /\ s.text => s.cols * (s.lines \div s.cell) <= TextWindow
<1>1. /\ s.cols \in 1 .. 256 /\ s.lines \in 1 .. 1024 /\ s.cell \in 1 .. 32
      /\ s.text => s.cols * (s.lines \div s.cell) <= TextWindow
  BY ScreenAssumption
<1>2. s.cols \in Nat /\ 1 <= s.cols /\ s.cols <= 256
  <2>1. s.cols \in 1 .. 256
    BY <1>1, Zenon
  <2>2. QED BY <2>1
<1>3. s.lines \in Nat /\ 1 <= s.lines /\ s.lines <= 1024
  <2>1. s.lines \in 1 .. 1024
    BY <1>1, Zenon
  <2>2. QED BY <2>1
<1>4. s.cell \in Nat /\ 1 <= s.cell /\ s.cell <= 32
  <2>1. s.cell \in 1 .. 32
    BY <1>1, Zenon
  <2>2. QED BY <2>1
<1>5. QED BY <1>1, <1>2, <1>3, <1>4, Zenon

\* The registers of a screen, one by one.
LEMMA CrtcIs ==
    ASSUME NEW s, NEW lock
    PROVE  LET c == CrtcOf(s, lock)
               end == s.lines - 1
           IN  /\ DOMAIN c = CrtcRegisters
               /\ c[1] = s.cols - 1 /\ c[9] = 64 + s.cell - 1 /\ c[17] = 14 + lock
               /\ c[7] = 29 + 2 * Bit(end, 8) + 64 * Bit(end, 9)
               /\ c[18] = end % 256
BY SMT DEF CrtcOf, CrtcRegisters

\* The number of lines, cut into three registers and put together again.
LEMMA LinesAgain ==
    ASSUME NEW end \in Nat, end < 1024, NEW r, r = 29 + 2 * Bit(end, 8) + 64 * Bit(end, 9)
    PROVE  /\ Bit(r, 1) = Bit(end, 8) /\ Bit(r, 6) = Bit(end, 9)
           /\ (end % 256) + 256 * Bit(end, 8) + 512 * Bit(end, 9) = end
           /\ (end % 256) + 128 * ((r % 4) - (r % 2)) + 8 * ((r % 128) - (r % 64)) = end
<1>1. PICK b, d : b = Bit(end, 8) /\ d = Bit(end, 9)
  OBVIOUS
<1>2. b = (end \div 256) % 2 /\ d = (end \div 512) % 2
  BY <1>1, Powers, SMT DEF Bit
<1>3. b \in {0, 1} /\ d \in {0, 1} /\ (end % 256) + 256 * b + 512 * d = end
  BY <1>2, SMT
<1>4. r = 29 + 2 * b + 64 * d
  BY <1>1
<1>5. (r \div 2) % 2 = b /\ (r \div 64) % 2 = d /\ (r % 4) - (r % 2) = 2 * b
      /\ (r % 128) - (r % 64) = 64 * d
  BY <1>3, <1>4, SMT
<1>6. Bit(r, 1) = b /\ Bit(r, 6) = d
  BY <1>5, Powers, SMT DEF Bit
<1>7. QED BY <1>1, <1>3, <1>5, <1>6, SMT

\* What the card shows with the registers of a screen is that screen, and what the
\* kernel reads out of them is the same.
LEMMA ScreenIsShown ==
    ASSUME NEW s \in Screens, NEW lock \in {0, 128}
    PROVE  LET c == CrtcOf(s, lock)
           IN  /\ CellHeight(c) = s.cell /\ ScreenCols(c) = s.cols
               /\ ScreenRows(c) = s.lines \div s.cell /\ DetectedHeight(c) = s.lines \div s.cell
               /\ c[1] + 1 = s.cols
<1> DEFINE c == CrtcOf(s, lock)
           end == s.lines - 1
<1>1. /\ c[1] = s.cols - 1 /\ c[9] = 64 + s.cell - 1
      /\ c[7] = 29 + 2 * Bit(end, 8) + 64 * Bit(end, 9)
      /\ c[18] = end % 256
  BY CrtcIs
<1>2. /\ s.cols \in Nat /\ s.lines \in Nat /\ 1 <= s.lines /\ s.lines <= 1024
      /\ s.cell \in Nat /\ 1 <= s.cell /\ s.cell <= 32
  BY ThisScreen
<1>3. end \in Nat /\ end < 1024 /\ end + 1 = s.lines
  BY <1>2, SMT
<1> HIDE DEF c, end
<1>4. /\ Bit(c[7], 1) = Bit(end, 8) /\ Bit(c[7], 6) = Bit(end, 9)
      /\ (end % 256) + 256 * Bit(end, 8) + 512 * Bit(end, 9) = end
      /\ (end % 256) + 128 * ((c[7] % 4) - (c[7] % 2)) + 8 * ((c[7] % 128) - (c[7] % 64)) = end
  <2>1. PICK r : r = c[7]
    OBVIOUS
  <2>2. r = 29 + 2 * Bit(end, 8) + 64 * Bit(end, 9)
    BY <1>1, <2>1
  <2>3. QED BY <1>3, <2>1, <2>2, LinesAgain
<1>5. (c[9] % 32) + 1 = s.cell /\ 1 + (c[9] % 32) = s.cell
  BY <1>1, <1>2, SMT
<1>6. ScanLines(c) = s.lines
  BY <1>1, <1>3, <1>4, SMT DEF ScanLines, Bit
<1>7. CellHeight(c) = s.cell
  BY <1>5, Zenon DEF CellHeight
<1>8. ScreenRows(c) = s.lines \div s.cell
  BY <1>6, <1>7, Zenon DEF ScreenRows
<1>9. DetectedHeight(c) = s.lines \div s.cell
  <2>1. DetectedHeight(c) = (c[18] + 128 * ((c[7] % 4) - (c[7] % 2))
                                + 8 * ((c[7] % 128) - (c[7] % 64)) + 1) \div ((c[9] % 32) + 1)
    BY DEF DetectedHeight
  <2>2. c[18] + 128 * ((c[7] % 4) - (c[7] % 2)) + 8 * ((c[7] % 128) - (c[7] % 64)) = end
    BY <1>1, <1>4, SMT
  <2>3. DetectedHeight(c) = (end + 1) \div s.cell
    BY <1>5, <2>1, <2>2, SMT
  <2>4. QED BY <1>3, <2>3, SMT
<1>10. ScreenCols(c) = s.cols /\ c[1] + 1 = s.cols
  BY <1>1, <1>2, SMT DEF ScreenCols
<1>11. QED BY <1>7, <1>8, <1>9, <1>10 DEF c

\* A write reaches its register, if that is not locked, and no other.
LEMMA Written ==
    ASSUME NEW c, DOMAIN c = CrtcRegisters, NEW n \in CrtcRegisters, NEW v
    PROVE  /\ DOMAIN WriteCrtc(c, n, v) = CrtcRegisters
           /\ \A m \in CrtcRegisters : m # n => WriteCrtc(c, n, v)[m] = c[m]
           /\ n >= 8 \/ Bit(c[17], 7) = 0 => WriteCrtc(c, n, v)[n] = v
BY SMT DEF WriteCrtc, CrtcRegisters

\* In the 80x50 mode of the kernel the card shows cells of 8 lines, 50 in a column.
LEMMA FiftyRows ==
    ASSUME NEW s \in Screens, NEW lock \in {0, 128}
    PROVE  LET c == set_80x50(CrtcOf(s, lock)) IN CellHeight(c) = 8 /\ ScreenRows(c) = 50
<1> DEFINE c0 == CrtcOf(s, lock)
           c1 == WriteCrtc(c0, 17, c0[17] % 128)
           c2 == WriteCrtc(c1, 9, 32 * (c1[9] \div 32) + 7)
           c3 == WriteCrtc(c2, 6, 191)
           c4 == WriteCrtc(c3, 7, 16 * Bit(c3[7], 4) + 35)
           c5 == WriteCrtc(c4, 18, 143)
           c6 == WriteCrtc(c5, 17, 142)
<1>1. set_80x50(c0) = c6
  BY Zenon DEF set_80x50
<1>2. /\ DOMAIN c0 = CrtcRegisters /\ c0[17] = 14 + lock /\ c0[9] = 64 + s.cell - 1
      /\ c0[7] = 29 + 2 * Bit(s.lines - 1, 8) + 64 * Bit(s.lines - 1, 9)
  BY CrtcIs
<1>3. {6, 7, 9, 17, 18} \subseteq CrtcRegisters
  BY DEF CrtcRegisters
<1> HIDE DEF c0
<1>4. DOMAIN c1 = CrtcRegisters /\ c1[17] = 14 /\ c1[9] = 64 + s.cell - 1 /\ c1[7] = c0[7]
  <2>1. c1[17] = c0[17] % 128 /\ c1[9] = c0[9] /\ c1[7] = c0[7] /\ DOMAIN c1 = CrtcRegisters
    BY <1>2, <1>3, Written, SMT
  <2>2. (14 + lock) % 128 = 14
    BY SMT
  <2>3. QED BY <1>2, <2>1, <2>2
<1> HIDE DEF c1
<1>5. DOMAIN c2 = CrtcRegisters /\ c2[17] = 14 /\ c2[9] = 32 * (c1[9] \div 32) + 7
      /\ c2[7] = c0[7]
  BY <1>3, <1>4, Written, SMT
<1> HIDE DEF c2
<1>6. Bit(14, 7) = 0
  BY Powers, SMT DEF Bit
<1>7. DOMAIN c3 = CrtcRegisters /\ c3[17] = 14 /\ c3[9] = c2[9] /\ c3[7] = c0[7]
  BY <1>3, <1>5, Written, SMT
<1> HIDE DEF c3
<1>8. DOMAIN c4 = CrtcRegisters /\ c4[9] = c2[9] /\ c4[7] = 16 * Bit(c3[7], 4) + 35
  <2>1. /\ DOMAIN c4 = CrtcRegisters /\ c4[9] = c3[9]
        /\ Bit(c3[17], 7) = 0 => c4[7] = 16 * Bit(c3[7], 4) + 35
    BY <1>3, <1>7, Written, SMT
  <2>2. QED BY <1>6, <1>7, <2>1
<1> HIDE DEF c4
<1>9. DOMAIN c5 = CrtcRegisters /\ c5[9] = c2[9] /\ c5[7] = c4[7] /\ c5[18] = 143
  BY <1>3, <1>8, Written, SMT
<1> HIDE DEF c5
<1>10. c6[9] = c2[9] /\ c6[7] = c4[7] /\ c6[18] = 143
  BY <1>3, <1>9, Written, SMT
<1> HIDE DEF c6
<1>11. PICK k \in Nat : c6[9] = 32 * k + 7
  <2>1. s.cell \in Nat /\ 1 <= s.cell
    BY ThisScreen
  <2>2. (64 + s.cell - 1) \div 32 \in Nat
    BY <2>1, SMT
  <2>3. c6[9] = 32 * ((64 + s.cell - 1) \div 32) + 7
    BY <1>4, <1>5, <1>10
  <2>4. QED BY <2>2, <2>3
<1>12. CellHeight(c6) = 8
  <2>1. 1 + ((32 * k + 7) % 32) = 8
    BY SMT
  <2>2. QED BY <1>11, <2>1 DEF CellHeight
<1>13. Bit(c6[7], 1) = 1 /\ Bit(c6[7], 6) = 0
  <2>1. PICK e, f : e = s.lines - 1 /\ f = c0[7]
    OBVIOUS
  <2>2. e \in Nat
    BY <2>1, ThisScreen
  <2>3. f = 29 + 2 * ((e \div 256) % 2) + 64 * ((e \div 512) % 2)
    BY <1>2, <2>1, Powers, SMT DEF Bit
  <2>4. f \in Nat
    BY <2>2, <2>3, SMT
  <2>5. PICK b : b = (f \div 16) % 2
    OBVIOUS
  <2>6. b \in {0, 1}
    BY <2>4, <2>5, SMT
  <2>7. c6[7] = 16 * b + 35
    BY <1>7, <1>8, <1>10, <2>1, <2>5, Powers, SMT DEF Bit
  <2>8. ((16 * b + 35) \div 2) % 2 = 1 /\ ((16 * b + 35) \div 64) % 2 = 0
    BY <2>6, SMT
  <2>9. QED BY <2>7, <2>8, Powers, SMT DEF Bit
<1>14. ScanLines(c6) = 400
  BY <1>10, <1>13, SMT DEF ScanLines
<1>15. 400 \div 8 = 50
  BY SMT
<1>16. ScreenRows(c6) = 50
  BY <1>12, <1>14, <1>15 DEF ScreenRows
<1>17. QED BY <1>1, <1>12, <1>16 DEF c0

\* A reversed byte has bit x of the byte at 7 - x.
LEMMA Reversed ==
    ASSUME NEW b \in Nat, NEW x \in 0 .. 7
    PROVE  Bit(reverse_bits(b), 7 - x) = Bit(b, x)
<1>1. PICK b0, b1, b2, b3, b4, b5, b6, b7 :
        /\ b0 = Bit(b, 0) /\ b1 = Bit(b, 1) /\ b2 = Bit(b, 2) /\ b3 = Bit(b, 3)
        /\ b4 = Bit(b, 4) /\ b5 = Bit(b, 5) /\ b6 = Bit(b, 6) /\ b7 = Bit(b, 7)
  OBVIOUS
<1>2. \A v \in Nat : v % 2 \in {0, 1}
  BY SMT
<1>3. /\ b0 \in {0, 1} /\ b1 \in {0, 1} /\ b2 \in {0, 1} /\ b3 \in {0, 1}
      /\ b4 \in {0, 1} /\ b5 \in {0, 1} /\ b6 \in {0, 1} /\ b7 \in {0, 1}
  BY <1>1, <1>2, Powers, SMT DEF Bit
<1>4. PICK r : r = reverse_bits(b)
  OBVIOUS
<1>5. r = 128 * b0 + 64 * b1 + 32 * b2 + 16 * b3 + 8 * b4 + 4 * b5 + 2 * b6 + b7
  BY <1>1, <1>4 DEF reverse_bits
<1>6. /\ (r \div 128) % 2 = b0 /\ (r \div 64) % 2 = b1
      /\ (r \div 32) % 2 = b2 /\ (r \div 16) % 2 = b3
  BY <1>3, <1>5, SMTT(60)
<1>7. /\ (r \div 8) % 2 = b4 /\ (r \div 4) % 2 = b5
      /\ (r \div 2) % 2 = b6 /\ (r \div 1) % 2 = b7
  BY <1>3, <1>5, SMTT(60)
<1>8. /\ Bit(r, 7) = b0 /\ Bit(r, 6) = b1 /\ Bit(r, 5) = b2 /\ Bit(r, 4) = b3
      /\ Bit(r, 3) = b4 /\ Bit(r, 2) = b5 /\ Bit(r, 1) = b6 /\ Bit(r, 0) = b7
  BY <1>6, <1>7, Powers DEF Bit
<1>9. x = 0 \/ x = 1 \/ x = 2 \/ x = 3 \/ x = 4 \/ x = 5 \/ x = 6 \/ x = 7
  BY SMT
<1>10. Bit(r, 7 - x) = Bit(b, x)
  <2>1. /\ 7 - 0 = 7 /\ 7 - 1 = 6 /\ 7 - 2 = 5 /\ 7 - 3 = 4
        /\ 7 - 4 = 3 /\ 7 - 5 = 2 /\ 7 - 6 = 1 /\ 7 - 7 = 0
    BY SMT
  <2>2. CASE x \in {0, 1, 2, 3}
    BY <1>1, <1>8, <2>1, <2>2, Zenon
  <2>3. CASE x \in {4, 5, 6, 7}
    BY <1>1, <1>8, <2>1, <2>3, Zenon
  <2>4. QED BY <1>9, <2>2, <2>3
<1>11. QED BY <1>4, <1>10

\* With the registers of load_8x8_font a byte lands where it was written, in plane 2.
LEMMA FontLands ==
    ASSUME NEW a, NEW b, NEW p \in {0, 1, 2}
    PROVE  Lands(FontSeq, FontGc, a, p, b) <=> p = 2 /\ b = a
<1>1. FontSeq[2] = 4 /\ FontSeq[4] = 7 /\ FontGc[6] = 0
  BY DEF FontSeq, FontGc, Pair
<1>2. Bit(4, 0) = 0 /\ Bit(4, 1) = 0 /\ Bit(4, 2) = 1 /\ Bit(7, 2) = 1
  BY Powers, SMT DEF Bit
<1>3. (0 \div 4) % 4 < 2
  BY SMT
<1>4. QED BY <1>1, <1>2, <1>3 DEF Lands

\* The kernel's glyph for a character.
Letter(g) == font_8x8[IF g < 128 THEN g ELSE 0]

\* load_8x8_font writes the eight rows of every glyph, and nothing into the planes of
\* the characters and their colors.
LEMMA FontLoaded ==
    ASSUME load_8x8_font
    PROVE  /\ \A p \in {0, 1}, a \in Addresses : planes'[p][a] = planes[p][a]
           /\ \A g \in Glyphs, y \in 0 .. 7, x \in 0 .. 7 :
                Bit(planes'[2][GlyphAddress(g, y)], 7 - x) = Bit(Letter(g)[y], x)
<1> DEFINE Hits(p, b) == {a \in Addresses : a % 32 < 8 /\ Lands(FontSeq, FontGc, a, p, b)}
<1>1. \A p \in {0, 1, 2}, b \in Addresses :
        planes'[p][b] = IF Hits(p, b) = {} THEN planes[p][b] ELSE FontByte(Max(Hits(p, b)))
  <2>1. planes' = [p \in 0 .. 3 |-> [b \in Addresses |->
                     IF Hits(p, b) = {} THEN planes[p][b] ELSE FontByte(Max(Hits(p, b)))]]
    BY DEF load_8x8_font
  <2> HIDE DEF Hits
  <2>2. \A p \in {0, 1, 2} : p \in 0 .. 3
    BY SMT
  <2>3. QED BY <2>1, <2>2
<1>2. ASSUME NEW p \in {0, 1}, NEW b \in Addresses
      PROVE  planes'[p][b] = planes[p][b]
  <2>1. Hits(p, b) = {}
    BY FontLands
  <2>2. QED BY <1>1, <2>1
<1>3. ASSUME NEW g \in Glyphs, NEW y \in 0 .. 7, NEW x \in 0 .. 7
      PROVE  Bit(planes'[2][GlyphAddress(g, y)], 7 - x) = Bit(Letter(g)[y], x)
  <2>1. g \in Nat /\ g < 256
    <3>1. g \in 0 .. 255
      BY FontAssumption
    <3>2. QED BY <3>1, SMT
  <2>2. PICK a : a = GlyphAddress(g, y)
    OBVIOUS
  <2>3. a = 32 * g + y /\ a \in Nat /\ a % 32 = y /\ a \div 32 = g
    BY <2>1, <2>2, SMT DEF GlyphAddress
  <2>4. a \in Addresses
    <3>1. y \in 0 .. 31
      BY SMT
    <3>2. QED BY <2>2, <3>1 DEF Addresses
  <2>5. Hits(2, a) = {a}
    <3>1. a % 32 < 8
      BY <2>3
    <3>2. \A b \in Addresses : Lands(FontSeq, FontGc, b, 2, a) <=> a = b
      BY FontLands
    <3>3. QED BY <2>4, <3>1, <3>2
  <2>6. Max({a}) = a
    <3>1. \E m \in {a} : \A n \in {a} : m >= n
      BY <2>3
    <3>2. QED BY <3>1, Zenon DEF Max
  <2>7. planes'[2][a] = FontByte(a)
    BY <1>1, <2>4, <2>5, <2>6
  <2>8. FontByte(a) = reverse_bits(Letter(g)[y])
    <3>1. FontByte(a) = reverse_bits(font_8x8[IF a \div 32 < 128 THEN a \div 32 ELSE 0][a % 32])
      BY Zenon DEF FontByte
    <3>2. QED BY <2>3, <3>1, Zenon DEF Letter
  <2>9. Letter(g)[y] \in Nat
    <3>1. \A v \in 0 .. 255 : v \in Nat
      BY SMT
    <3>2. (IF g < 128 THEN g ELSE 0) \in 0 .. 127
      BY <2>1, SMT
    <3>3. font_8x8 \in [0 .. 127 -> [0 .. 7 -> 0 .. 255]]
      BY FontAssumption
    <3>4. Letter(g)[y] \in 0 .. 255
      <4>1. Letter(g) \in [0 .. 7 -> 0 .. 255]
        BY <3>2, <3>3, Zenon DEF Letter
      <4>2. QED BY <4>1, Zenon
    <3>5. QED BY <3>1, <3>4, Zenon
  <2>10. Bit(reverse_bits(Letter(g)[y]), 7 - x) = Bit(Letter(g)[y], x)
    BY <2>9, Reversed
  <2>11. QED BY <2>2, <2>7, <2>8, <2>10
<1>4. QED BY <1>2, <1>3

(***************************************************************************)
(* The command line.                                                       *)
(***************************************************************************)

\* Text without a blank.
Solid(word) == \A j \in DOMAIN word : word[j] # Blank

\* A non-empty set of numbers has a least one, and Min is it.
LEMMA Least ==
    ASSUME NEW S, S \subseteq Nat, S # {}
    PROVE  Min(S) \in S /\ \A y \in S : Min(S) <= y
<1>1. PICK m \in S : \A y \in S : <<y, m>> \notin OpToRel(<, Nat)
  BY NatLessThanWellFounded, WFMin, Zenon
<1>2. \A y \in S : m <= y
  <2> TAKE y \in S
  <2>1. y \in Nat /\ m \in Nat
    BY <1>1
  <2>2. <<y, m>> \notin OpToRel(<, Nat)
    BY <1>1
  <2>3. ~(y < m)
    BY <2>1, <2>2 DEF OpToRel
  <2>4. QED BY <2>1, <2>3
<1>3. QED BY <1>2, Zenon DEF Min

\* From a position that holds no blank back to where its word starts.
LEMMA BackToStart ==
    ASSUME cmdline \in Seq(STRING), NEW p \in DOMAIN cmdline, cmdline[p] # Blank
    PROVE  \E a \in WordStarts : a <= p /\ \A q \in a .. p : cmdline[q] # Blank
<1> DEFINE S == {a \in 1 .. p : \A q \in a .. p : cmdline[q] # Blank}
<1>1. DOMAIN cmdline = 1 .. Len(cmdline) /\ Len(cmdline) \in Nat /\ p \in Nat /\ 1 <= p
  OBVIOUS
<1>2. p \in S
  BY <1>1
<1>3. S \subseteq Nat
  OBVIOUS
<1>4. PICK a \in S : \A y \in S : a <= y
  BY <1>2, <1>3, Least, Zenon
<1>5. a \in 1 .. p /\ (\A q \in a .. p : cmdline[q] # Blank) /\ a \in DOMAIN cmdline
  BY <1>1, <1>4
<1>6. cmdline[a] # Blank
  BY <1>1, <1>5
<1>7. a = 1 \/ cmdline[a - 1] = Blank
  <2> SUFFICES ASSUME a # 1, cmdline[a - 1] # Blank PROVE FALSE
    OBVIOUS
  <2>1. a - 1 \in 1 .. p /\ \A q \in a - 1 .. p : q = a - 1 \/ q \in a .. p
    BY <1>5
  <2>2. \A q \in a - 1 .. p : cmdline[q] # Blank
    BY <1>5, <2>1
  <2>3. a - 1 \in S
    BY <2>1, <2>2
  <2>4. QED BY <1>4, <1>5, <2>3
<1>8. a \in WordStarts
  BY <1>5, <1>6, <1>7, Zenon DEF WordStarts
<1>9. QED BY <1>1, <1>5, <1>8

\* A word is the text from its start to the last position before a blank.
LEMMA WordIs ==
    ASSUME cmdline \in Seq(STRING), NEW a \in WordStarts
    PROVE  \E e \in a .. Len(cmdline) :
             /\ WordFrom(a) = SubSeq(cmdline, a, e)
             /\ \A q \in a .. e : cmdline[q] # Blank
             /\ e = Len(cmdline) \/ cmdline[e + 1] = Blank
<1> DEFINE E == {q \in a .. Len(cmdline) : q = Len(cmdline) \/ cmdline[q + 1] = Blank}
           e == Min(E)
<1>1. DOMAIN cmdline = 1 .. Len(cmdline) /\ Len(cmdline) \in Nat
  OBVIOUS
<1>2. a \in DOMAIN cmdline /\ cmdline[a] # Blank
  BY Zenon DEF WordStarts
<1>3. a \in Nat /\ 1 <= a /\ a <= Len(cmdline)
  BY <1>1, <1>2
<1>4. E \subseteq Nat /\ Len(cmdline) \in E
  BY <1>1, <1>3
<1>5. e \in E /\ \A y \in E : e <= y
  BY <1>4, Least, Zenon
<1>6. WordFrom(a) = SubSeq(cmdline, a, e)
  BY Zenon DEF WordFrom
<1> HIDE DEF e
<1>7. e \in a .. Len(cmdline) /\ (e = Len(cmdline) \/ cmdline[e + 1] = Blank)
  BY <1>5
<1>8. ASSUME NEW q \in a .. e PROVE cmdline[q] # Blank
  <2>1. CASE q = a
    BY <1>2, <2>1
  <2>2. CASE q # a
    <3>1. q - 1 \in a .. Len(cmdline) /\ q - 1 < e /\ (q - 1) + 1 = q /\ q - 1 # Len(cmdline)
      BY <1>3, <1>7, <2>2
    <3>2. q - 1 \notin E
      <4>1. e \in Nat /\ q - 1 \in Nat /\ ~(e <= q - 1)
        BY <1>3, <1>7, <3>1
      <4>2. QED BY <1>5, <4>1
    <3>3. QED BY <3>1, <3>2
  <2>3. QED BY <2>1, <2>2
<1>9. QED BY <1>6, <1>7, <1>8

\* A word's characters are those of the command line.
LEMMA WordText ==
    ASSUME cmdline \in Seq(STRING), NEW a \in WordStarts,
           NEW e \in a .. Len(cmdline), WordFrom(a) = SubSeq(cmdline, a, e)
    PROVE  /\ DOMAIN WordFrom(a) = 1 .. e - a + 1 /\ Len(WordFrom(a)) = e - a + 1
           /\ \A j \in 1 .. e - a + 1 : WordFrom(a)[j] = cmdline[a + j - 1]
           /\ a \in Nat /\ 1 <= a
<1>1. a \in DOMAIN cmdline
  BY Zenon DEF WordStarts
<1>2. a \in Nat /\ 1 <= a
  BY <1>1
<1>3. QED BY <1>2

\* Solid text that stands on the command line stands in one of its words.
LEMMA InAWord ==
    ASSUME cmdline \in Seq(STRING), NEW word, Solid(word),
           NEW n \in Nat \ {0}, DOMAIN word = 1 .. n,
           NEW p \in DOMAIN cmdline, At(cmdline, p, word)
    PROVE  \E a \in WordStarts : a <= p /\ strstr_check(WordFrom(a), word)
<1>1. DOMAIN cmdline = 1 .. Len(cmdline) /\ Len(cmdline) \in Nat /\ p \in Nat /\ 1 <= p
  OBVIOUS
<1>2. \A j \in 1 .. n : p + j - 1 \in 1 .. Len(cmdline) /\ cmdline[p + j - 1] = word[j]
                          /\ word[j] # Blank
  BY <1>1 DEF At, Solid
<1>3. cmdline[p] # Blank
  <2>1. 1 \in 1 .. n /\ p + 1 - 1 = p
    BY <1>1
  <2>2. QED BY <1>2, <2>1
<1>4. PICK a \in WordStarts : a <= p /\ \A q \in a .. p : cmdline[q] # Blank
  BY <1>3, BackToStart
<1>5. PICK e :
        /\ e \in a .. Len(cmdline) /\ WordFrom(a) = SubSeq(cmdline, a, e)
        /\ e = Len(cmdline) \/ cmdline[e + 1] = Blank
  BY <1>4, WordIs
<1>6. /\ DOMAIN WordFrom(a) = 1 .. e - a + 1
      /\ \A j \in 1 .. e - a + 1 : WordFrom(a)[j] = cmdline[a + j - 1]
      /\ a \in Nat /\ 1 <= a
  BY <1>4, <1>5, WordText
<1>7. PICK l \in Nat : l = Len(cmdline)
  BY <1>1
<1>8. a \in Nat /\ 1 <= a /\ a <= p /\ e \in Nat /\ a <= e /\ e <= l
  BY <1>4, <1>5, <1>6, <1>7
<1>9. p + n - 1 <= e
  <2> SUFFICES ASSUME e < p + n - 1 PROVE FALSE
    BY <1>1, <1>8
  <2>1. p + n - 1 <= l
    <3>1. n \in 1 .. n
      OBVIOUS
    <3>2. p + n - 1 \in 1 .. l
      BY <1>2, <1>7, <3>1
    <3>3. QED BY <3>2
  <2>2. e # l
    BY <1>1, <1>8, <2>1
  <2>3. cmdline[e + 1] = Blank
    BY <1>5, <1>7, <2>2
  <2>4. CASE e + 1 <= p
    <3>1. e + 1 \in a .. p
      BY <1>1, <1>8, <2>4
    <3>2. QED BY <1>4, <2>3, <3>1
  <2>5. CASE ~(e + 1 <= p)
    <3>1. e + 2 - p \in 1 .. n /\ p + (e + 2 - p) - 1 = e + 1
      BY <1>1, <1>8, <2>5
    <3>2. QED BY <1>2, <2>3, <3>1
  <2>6. QED BY <2>4, <2>5
<1>10. PICK k : k = p - a + 1 /\ k \in 1 .. e - a + 1
  BY <1>1, <1>8, <1>9
<1>11. ASSUME NEW j \in DOMAIN word
       PROVE  k + j - 1 \in DOMAIN WordFrom(a) /\ WordFrom(a)[k + j - 1] = word[j]
  <2>1. k + j - 1 \in 1 .. e - a + 1 /\ a + (k + j - 1) - 1 = p + j - 1
    <3>1. /\ n \in Nat /\ a \in Nat /\ p \in Nat /\ e \in Nat /\ a <= p /\ p + n - 1 <= e
          /\ k = p - a + 1 /\ j \in 1 .. n
      BY <1>1, <1>8, <1>9, <1>10
    <3>2. QED BY <3>1, SMTT(120)
  <2>2. QED BY <1>2, <1>6, <2>1
<1>12. At(WordFrom(a), k, word)
  BY <1>11 DEF At
<1>13. strstr_check(WordFrom(a), word)
  BY <1>6, <1>10, <1>12 DEF strstr_check
<1>14. QED BY <1>4, <1>13

\* The characters of keys and names, none of them a blank.
Letters == {"r", "e", "s", "o", "l", "u", "t", "i", "n", "=", "v", "b",
            "0", "1", "2", "3", "4", "5", "7", "8", "x"}

LEMMA NoBlank == \A ch \in Letters : ch # Blank
BY Zenon DEF Letters, Blank

\* The two keys, and the word for a verbose boot.
LEMMA KeyIs ==
    /\ Res \in Seq(Letters) /\ Len(Res) = 4
    /\ Resolution \in Seq(Letters) /\ Len(Resolution) = 11
    /\ Verbose \in Seq(Letters) /\ Len(Verbose) = 7
    /\ Res[4] = "=" /\ Resolution[4] = "o"
BY DEF Res, Resolution, Verbose, Letters

\* Text of these characters is solid.
LEMMA LettersSolid ==
    ASSUME NEW word \in Seq(Letters)
    PROVE  Solid(word) /\ DOMAIN word = 1 .. Len(word) /\ Len(word) \in Nat
<1>1. DOMAIN word = 1 .. Len(word) /\ Len(word) \in Nat /\ \A j \in DOMAIN word : word[j] \in Letters
  OBVIOUS
<1>2. QED BY <1>1, NoBlank DEF Solid

\* Either key is solid text.
LEMMA EitherKey ==
    ASSUME NEW key \in {Res, Resolution}
    PROVE  /\ key \in Seq(Letters) /\ Solid(key)
           /\ DOMAIN key = 1 .. Len(key) /\ Len(key) \in Nat \ {0} /\ Len(key) > 0
<1>1. CASE key = Res
  <2>1. Solid(Res) /\ DOMAIN Res = 1 .. Len(Res)
    BY KeyIs, LettersSolid
  <2>2. QED BY <1>1, <2>1, KeyIs
<1>2. CASE key = Resolution
  <2>1. Solid(Resolution) /\ DOMAIN Resolution = 1 .. Len(Resolution)
    BY KeyIs, LettersSolid
  <2>2. QED BY <1>2, <2>1, KeyIs
<1>3. QED BY <1>1, <1>2

\* The modes by name.
LEMMA NameIs ==
    /\ DOMAIN text_modes = 1 .. 6
    /\ text_modes[1].name = <<"8", "0", "x", "2", "5">>
    /\ text_modes[2].name = <<"8", "0", "x", "5", "0">>
    /\ text_modes[3].name = <<"1", "0", "0", "x", "3", "7">>
    /\ text_modes[4].name = <<"1", "3", "2", "x", "2", "5">>
    /\ text_modes[5].name = <<"1", "3", "2", "x", "4", "3">>
    /\ text_modes[6].name = <<"1", "3", "2", "x", "5", "0">>
BY DEF text_modes, Mode

LEMMA NameLetters ==
    ASSUME NEW i \in DOMAIN text_modes
    PROVE  text_modes[i].name \in Seq(Letters)
<1>1. i = 1 \/ i = 2 \/ i = 3 \/ i = 4 \/ i = 5 \/ i = 6
  BY NameIs
<1>2. /\ <<"8", "0", "x", "2", "5">> \in Seq(Letters)
      /\ <<"8", "0", "x", "5", "0">> \in Seq(Letters)
      /\ <<"1", "0", "0", "x", "3", "7">> \in Seq(Letters)
      /\ <<"1", "3", "2", "x", "2", "5">> \in Seq(Letters)
      /\ <<"1", "3", "2", "x", "4", "3">> \in Seq(Letters)
      /\ <<"1", "3", "2", "x", "5", "0">> \in Seq(Letters)
  BY DEF Letters
<1>3. QED BY <1>1, <1>2, NameIs, Zenon

\* No name is the beginning of another.
LEMMA NamesDiffer ==
    ASSUME NEW i \in DOMAIN text_modes, NEW j \in DOMAIN text_modes, i # j
    PROVE  \E k \in DOMAIN text_modes[i].name \cap DOMAIN text_modes[j].name :
             text_modes[i].name[k] # text_modes[j].name[k]
<1> DEFINE N(m) == text_modes[m].name
<1>1. \A m \in {1, 2} : {1, 2, 4, 5} \subseteq DOMAIN N(m) /\ N(m)[1] = "8"
  BY NameIs
<1>2. \A m \in {3, 4, 5, 6} : {1, 2, 4, 5} \subseteq DOMAIN N(m) /\ N(m)[1] = "1"
  BY NameIs
<1>3. N(1)[4] = "2" /\ N(2)[4] = "5"
  BY NameIs
<1>4. N(3)[2] = "0" /\ N(4)[2] = "3" /\ N(5)[2] = "3" /\ N(6)[2] = "3"
  BY NameIs
<1>5. N(4)[5] = "2" /\ N(5)[5] = "4" /\ N(6)[5] = "5"
  BY NameIs
<1>6. i \in {1, 2, 3, 4, 5, 6} /\ j \in {1, 2, 3, 4, 5, 6}
  BY NameIs
<1> HIDE DEF N
<1>7. \E k \in {1, 2, 4, 5} : N(i)[k] # N(j)[k]
  <2>1. CASE i \in {1, 2} /\ j \in {3, 4, 5, 6}
    BY <1>1, <1>2, <2>1
  <2>2. CASE j \in {1, 2} /\ i \in {3, 4, 5, 6}
    BY <1>1, <1>2, <2>2
  <2>3. CASE i \in {1, 2} /\ j \in {1, 2}
    BY <1>3, <2>3
  <2>4. CASE (i = 3 /\ j \in {4, 5, 6}) \/ (j = 3 /\ i \in {4, 5, 6})
    BY <1>4, <2>4
  <2>5. CASE i \in {4, 5, 6} /\ j \in {4, 5, 6}
    BY <1>5, <2>5
  <2>6. QED BY <1>6, <2>1, <2>2, <2>3, <2>4, <2>5
<1>8. \A m \in {1, 2, 3, 4, 5, 6} : {1, 2, 4, 5} \subseteq DOMAIN N(m)
  BY <1>1, <1>2
<1>9. QED BY <1>6, <1>7, <1>8 DEF N

\* A word made of two texts has the second where the first ends.
LEMMA TwoTexts ==
    ASSUME cmdline \in Seq(STRING), NEW p \in WordStarts,
           NEW s \in Seq(Letters), NEW t \in Seq(Letters), Len(s) > 0,
           WordFrom(p) = s \o t
    PROVE  p \in DOMAIN cmdline /\ At(cmdline, p, s) /\ At(cmdline, p + Len(s), t)
<1>1. PICK e \in p .. Len(cmdline) : WordFrom(p) = SubSeq(cmdline, p, e)
  BY WordIs
<1>2. /\ DOMAIN WordFrom(p) = 1 .. e - p + 1 /\ Len(WordFrom(p)) = e - p + 1
      /\ \A j \in 1 .. e - p + 1 : WordFrom(p)[j] = cmdline[p + j - 1]
      /\ p \in Nat /\ 1 <= p
  BY <1>1, WordText
<1>3. DOMAIN cmdline = 1 .. Len(cmdline) /\ Len(cmdline) \in Nat /\ Len(s) \in Nat /\ Len(t) \in Nat
  OBVIOUS
<1> PICK l, m, w, h : l = Len(s) /\ m = Len(t) /\ w = WordFrom(p) /\ h = Len(cmdline)
  OBVIOUS
<1>4. /\ l = Len(s) /\ m = Len(t) /\ w = WordFrom(p) /\ h = Len(cmdline)
      /\ l \in Nat /\ m \in Nat /\ h \in Nat
  BY <1>3
<1>5. /\ Len(w) = l + m
      /\ \A j \in 1 .. l + m : w[j] = IF j <= l THEN s[j] ELSE t[j - l]
  BY <1>4, ConcatProperties
<1>6. e - p + 1 = l + m /\ e \in Nat /\ p <= e /\ e <= h
  BY <1>1, <1>2, <1>4, <1>5
<1>7. DOMAIN s = 1 .. l /\ DOMAIN t = 1 .. m
  BY <1>4
<1>8. ASSUME NEW j \in 1 .. l PROVE p + j - 1 \in 1 .. h /\ cmdline[p + j - 1] = s[j]
  <2>1. j \in 1 .. l + m /\ j \in 1 .. e - p + 1 /\ j <= l /\ p + j - 1 \in 1 .. h
    BY <1>2, <1>6
  <2>2. QED BY <1>2, <1>4, <1>5, <2>1
<1>9. ASSUME NEW j \in 1 .. m PROVE (p + l) + j - 1 \in 1 .. h /\ cmdline[(p + l) + j - 1] = t[j]
  <2>1. l + j \in 1 .. l + m /\ l + j \in 1 .. e - p + 1 /\ ~(l + j <= l) /\ (l + j) - l = j
        /\ (p + l) + j - 1 \in 1 .. h /\ p + (l + j) - 1 = (p + l) + j - 1
    BY <1>2, <1>6
  <2>2. w[l + j] = cmdline[p + (l + j) - 1] /\ w[l + j] = t[(l + j) - l]
    BY <1>2, <1>4, <1>5, <2>1
  <2>3. QED BY <2>1, <2>2
<1>10. At(cmdline, p, s)
  BY <1>3, <1>4, <1>7, <1>8 DEF At
<1>11. At(cmdline, p + l, t)
  BY <1>3, <1>4, <1>7, <1>9 DEF At
<1>12. p \in DOMAIN cmdline
  BY Zenon DEF WordStarts
<1>13. QED BY <1>4, <1>10, <1>11, <1>12

\* A line none of whose words asks for a resolution requests none.
LEMMA NoRequest ==
    ASSUME cmdline \in Seq(STRING), \A p \in WordStarts : ~Asks(WordFrom(p))
    PROVE  parse_resolution(cmdline) = 0
<1> DEFINE hits == {p \in DOMAIN cmdline : At(cmdline, p, Res) \/ At(cmdline, p, Resolution)}
<1>1. ASSUME NEW p \in DOMAIN cmdline, NEW word \in {Res, Resolution}, At(cmdline, p, word)
      PROVE  FALSE
  <2>1. /\ Solid(word) /\ DOMAIN word = 1 .. Len(word) /\ Len(word) \in Nat \ {0}
    BY EitherKey, Zenon
  <2>2. PICK a \in WordStarts : strstr_check(WordFrom(a), word)
    BY <1>1, <2>1, InAWord
  <2>3. Asks(WordFrom(a))
    BY <2>2 DEF Asks
  <2>4. QED BY <2>3
<1>2. hits = {}
  BY <1>1
<1> HIDE DEF hits
<1>3. parse_resolution(cmdline)
        = LET p     == Min(hits)
              value == p + Len(IF At(cmdline, p, Res) THEN Res ELSE Resolution)
              found == {i \in DOMAIN text_modes : At(cmdline, value, text_modes[i].name)}
          IN  IF hits = {} \/ found = {} THEN 0 ELSE Min(found)
  BY Zenon DEF parse_resolution, hits
<1>4. QED BY <1>2, <1>3, Zenon

\* A request that is taken is for one of the modes.
LEMMA AMode ==
    ASSUME NEW text, parse_resolution(text) # 0
    PROVE  parse_resolution(text) \in DOMAIN text_modes
<1>1. PICK hits, value :
        LET found == {i \in DOMAIN text_modes : At(text, value, text_modes[i].name)}
        IN  parse_resolution(text) = IF hits = {} \/ found = {} THEN 0 ELSE Min(found)
  BY Zenon DEF parse_resolution
<1> DEFINE found == {i \in DOMAIN text_modes : At(text, value, text_modes[i].name)}
<1>2. found \subseteq DOMAIN text_modes
  OBVIOUS
<1> HIDE DEF found
<1>3. parse_resolution(text) = IF hits = {} \/ found = {} THEN 0 ELSE Min(found)
  BY <1>1, Zenon DEF found
<1>4. found # {} /\ parse_resolution(text) = Min(found)
  BY <1>3
<1>5. found \subseteq Nat
  BY <1>2, NameIs
<1>6. Min(found) \in found
  BY <1>4, <1>5, Least
<1>7. QED BY <1>2, <1>4, <1>6

\* The key of the first request is the first one on the line.
LEMMA FirstKey ==
    ASSUME cmdline \in Seq(STRING), NEW p \in WordStarts, NEW key \in {Res, Resolution},
           At(cmdline, p, key), p \in DOMAIN cmdline,
           \A m \in WordStarts : m < p => ~Asks(WordFrom(m))
    PROVE  LET hits == {q \in DOMAIN cmdline : At(cmdline, q, Res) \/ At(cmdline, q, Resolution)}
           IN  hits # {} /\ Min(hits) = p
<1> DEFINE hits == {q \in DOMAIN cmdline : At(cmdline, q, Res) \/ At(cmdline, q, Resolution)}
<1>1. p \in hits /\ hits \subseteq Nat /\ p \in Nat
  OBVIOUS
<1>2. ASSUME NEW q \in hits, q < p PROVE FALSE
  <2>1. PICK word \in {Res, Resolution} : At(cmdline, q, word)
    OBVIOUS
  <2>3. Solid(word) /\ DOMAIN word = 1 .. Len(word) /\ Len(word) \in Nat \ {0}
    BY <2>1, EitherKey, Zenon
  <2>4. PICK a \in WordStarts : a <= q /\ strstr_check(WordFrom(a), word)
    BY <2>1, <2>3, InAWord
  <2>5. Asks(WordFrom(a))
    BY <2>1, <2>4 DEF Asks
  <2>6. a \in Nat
    <3>1. a \in DOMAIN cmdline
      BY Zenon DEF WordStarts
    <3>2. QED BY <3>1
  <2>7. a < p
    BY <1>1, <1>2, <2>4, <2>6
  <2>8. QED BY <2>5, <2>7
<1> HIDE DEF hits
<1>3. Min(hits) \in hits /\ \A y \in hits : Min(hits) <= y
  BY <1>1, Least, Zenon
<1>4. PICK m : m = Min(hits)
  OBVIOUS
<1>5. m \in Nat /\ m <= p /\ ~(m < p)
  BY <1>1, <1>2, <1>3, <1>4
<1>6. m = p
  BY <1>1, <1>5
<1>7. QED BY <1>1, <1>4, <1>6 DEF hits

\* The two keys are not the same text, nor is one the beginning of the other.
LEMMA KeysDiffer ==
    ASSUME NEW text, NEW p, At(text, p, Resolution)
    PROVE  ~At(text, p, Res)
<1>1. 4 \in DOMAIN Res /\ 4 \in DOMAIN Resolution
  BY KeyIs
<1>2. text[p + 4 - 1] = "o"
  BY <1>1, KeyIs DEF At
<1>3. QED BY <1>1, <1>2, KeyIs DEF At

\* At one place there stands one name.
LEMMA OneName ==
    ASSUME NEW text, NEW v, NEW i \in DOMAIN text_modes, NEW j \in DOMAIN text_modes,
           At(text, v, text_modes[i].name), At(text, v, text_modes[j].name)
    PROVE  i = j
<1> SUFFICES ASSUME i # j PROVE FALSE
  OBVIOUS
<1>1. PICK k \in DOMAIN text_modes[i].name \cap DOMAIN text_modes[j].name :
        text_modes[i].name[k] # text_modes[j].name[k]
  BY NamesDiffer
<1>2. text[v + k - 1] = text_modes[i].name[k] /\ text[v + k - 1] = text_modes[j].name[k]
  BY <1>1, Zenon DEF At
<1>3. QED BY <1>1, <1>2

\* The first request on the line is the one taken.
LEMMA Taken ==
    ASSUME cmdline \in Seq(STRING), NEW i \in DOMAIN text_modes, FirstRequest(i)
    PROVE  parse_resolution(cmdline) = i
<1> DEFINE hits == {q \in DOMAIN cmdline : At(cmdline, q, Res) \/ At(cmdline, q, Resolution)}
           key(p) == IF At(cmdline, p, Res) THEN Res ELSE Resolution
           found(v) == {j \in DOMAIN text_modes : At(cmdline, v, text_modes[j].name)}
<1>1. PICK p \in WordStarts :
        WordFrom(p) \in Request(i) /\ \A m \in WordStarts : m < p => ~Asks(WordFrom(m))
  BY Zenon DEF FirstRequest
<1>2. PICK k \in {Res, Resolution} : WordFrom(p) = k \o text_modes[i].name
  BY <1>1 DEF Request
<1>3. k \in Seq(Letters) /\ Len(k) > 0 /\ text_modes[i].name \in Seq(Letters)
  BY <1>2, EitherKey, NameLetters, Zenon
<1>4. p \in DOMAIN cmdline /\ At(cmdline, p, k) /\ At(cmdline, p + Len(k), text_modes[i].name)
  BY <1>1, <1>2, <1>3, TwoTexts
<1>5. hits # {} /\ Min(hits) = p
  BY <1>1, <1>2, <1>4, FirstKey
<1>6. key(p) = k
  BY <1>2, <1>4, KeysDiffer
<1>7. \A j \in DOMAIN text_modes : At(cmdline, p + Len(k), text_modes[j].name) <=> j = i
  BY <1>4, OneName
<1>8. found(p + Len(k)) = {i}
  BY <1>7
<1>9. Min({i}) = i
  <2>1. i \in Nat
    BY NameIs
  <2>2. Min({i}) \in {i}
    BY <2>1, Least
  <2>3. QED BY <2>2
<1>10. parse_resolution(cmdline)
         = IF hits = {} \/ found(Min(hits) + Len(key(Min(hits)))) = {} THEN 0
           ELSE Min(found(Min(hits) + Len(key(Min(hits)))))
  BY Zenon DEF parse_resolution
<1> HIDE DEF hits, key, found
<1>11. QED BY <1>5, <1>6, <1>8, <1>9, <1>10

\* A word of the line is found on the line.
LEMMA WordFound ==
    ASSUME cmdline \in Seq(STRING), NEW p \in WordStarts, NEW word, WordFrom(p) = word
    PROVE  strstr_check(cmdline, word)
<1>1. PICK e \in p .. Len(cmdline) : WordFrom(p) = SubSeq(cmdline, p, e)
  BY WordIs
<1>2. /\ DOMAIN word = 1 .. e - p + 1
      /\ \A j \in 1 .. e - p + 1 : word[j] = cmdline[p + j - 1]
      /\ p \in Nat /\ 1 <= p
  BY <1>1, WordText
<1>3. p \in DOMAIN cmdline
  BY Zenon DEF WordStarts
<1>4. PICK l \in Nat : DOMAIN cmdline = 1 .. l /\ e \in p .. l
  OBVIOUS
<1>5. \A j \in 1 .. e - p + 1 : p + j - 1 \in 1 .. l
  BY <1>2, <1>4
<1>6. At(cmdline, p, word)
  BY <1>2, <1>4, <1>5 DEF At
<1>7. QED BY <1>3, <1>6 DEF strstr_check

(***************************************************************************)
(* One lemma per action, or kind of action.                                *)
(***************************************************************************)

LEMMA InitInv == Init => IInv
<1> SUFFICES ASSUME Init PROVE IInv
  OBVIOUS
<1>1. PlaceInv
  BY DEF Init, CpuInit, PlaceInv
<1>2. /\ pc = "_start" /\ hyperv_detected = FALSE /\ hyperv_features = {}
      /\ cpu_info = NoInfo
  BY DEF Init, CpuInit
<1>3. ~Past({"hwinfo", "report"}) /\ ~Past({"report"})
  BY <1>2 DEF Past
<1>4. HypervInv /\ InfoInv /\ ReportInv
  BY <1>2, <1>3 DEF HypervInv, InfoInv, ReportInv
<1>5. QED BY <1>1, <1>4 DEF IInv

\* The steps up to the magic number change nothing of the processor but its
\* interrupt flag.
LEMMA EarlyStep ==
    ASSUME IInv, NEW to \in {"framebuffer", "vesa", "magic"},
           pc \in {"_start", "framebuffer", "vesa"},
           pc' = to, magic' = magic, kernel_verbose_mode' = kernel_verbose_mode,
           interrupts' \in BOOLEAN, interrupts' => interrupts /\ pc # "_start",
           UNCHANGED <<machine, cpu, gdtr, idtr, hyperv_detected, hyperv_features,
                       cpu_info, report>>
    PROVE  IInv'
<1>1. PlaceInv'
  BY DEF IInv, PlaceInv
<1>2. /\ ~Past({"hwinfo", "report"})' /\ ~Past({"hwinfo", "report"})
      /\ ~Past({"report"})' /\ ~Past({"report"})
  BY DEF Past
<1>3. HypervInv' /\ InfoInv' /\ ReportInv'
  BY <1>2 DEF IInv, HypervInv, InfoInv, ReportInv
<1>4. QED BY <1>1, <1>3 DEF IInv

LEMMA MagicStep ==
    ASSUME IInv, BadMagic \/ CheckVerbose
    PROVE  IInv'
<1>1. /\ pc = "magic" /\ magic' = magic /\ kernel_verbose_mode' \in BOOLEAN
      /\ (pc' = "gdt" /\ magic) \/ (pc' = "halted" /\ ~magic)
      /\ UNCHANGED processor
  BY DEF BadMagic, CheckVerbose, Quiet, Step, IInv, PlaceInv, strstr_check
<1>2. PlaceInv'
  BY <1>1 DEF IInv, PlaceInv, processor
<1>3. /\ ~Past({"hwinfo", "report"})' /\ ~Past({"hwinfo", "report"})
      /\ ~Past({"report"})' /\ ~Past({"report"})
      /\ ~(pc' = "halted" /\ magic')
  BY <1>1 DEF Past
<1>4. HypervInv' /\ InfoInv' /\ ReportInv'
  BY <1>1, <1>3 DEF IInv, HypervInv, InfoInv, ReportInv, processor
<1>5. QED BY <1>2, <1>4 DEF IInv

LEMMA TableStep ==
    ASSUME IInv, InitGdt \/ InitIdt
    PROVE  IInv'
<1>1. /\ pc \in {"gdt", "idt"} /\ pc' \in {"idt", "hyperv"}
      /\ magic' = magic /\ kernel_verbose_mode' = kernel_verbose_mode
      /\ UNCHANGED <<machine, interrupts, hyperv_detected, hyperv_features, cpu_info, report>>
  BY DEF InitGdt, InitIdt, Quiet, Step, init_gdt, init_idt
<1>2. cpu' = "runs"
  <2>1. CASE InitGdt
    <3>1. 8 * 5 - 1 = 39
      BY SMT
    <3>2. gdt_flush(GdtTable, 39)
      BY <2>1, <3>1 DEF InitGdt, init_gdt
    <3>3. QED BY <3>2, DescriptorsLoad DEF gdt_flush, IInv, PlaceInv
  <2>2. CASE InitIdt
    BY <2>2 DEF InitIdt, init_idt, IInv, PlaceInv
  <2>3. QED BY <2>1, <2>2
<1>3. PlaceInv'
  BY <1>1, <1>2 DEF IInv, PlaceInv
<1>4. /\ ~Past({"hwinfo", "report"})' /\ ~Past({"hwinfo", "report"})
      /\ ~Past({"report"})' /\ ~Past({"report"})
      /\ pc' # "halted"
  BY <1>1 DEF Past
<1>5. HypervInv' /\ InfoInv' /\ ReportInv'
  BY <1>1, <1>4 DEF IInv, HypervInv, InfoInv, ReportInv
<1>6. QED BY <1>3, <1>5 DEF IInv

\* The guest's id is written where there is a register for it.
LEMMA HypervStep ==
    ASSUME IInv, InitHyperv
    PROVE  IInv'
<1>1. /\ pc = "hyperv" /\ pc' = "hwinfo"
      /\ magic' = magic /\ kernel_verbose_mode' = kernel_verbose_mode
      /\ UNCHANGED <<machine, interrupts, gdtr, idtr, cpu_info>>
  BY DEF InitHyperv, Quiet, Step, init_hyperv
<1>2. PlaceInv /\ (detect_hyperv <=> machine.osid)
  BY DetectsHyperv DEF IInv
<1>3. /\ hyperv_detected' = detect_hyperv
      /\ hyperv_features' = IF hyperv_detected' THEN HvFeatures.eax ELSE hyperv_features
      /\ cpu' = IF hyperv_detected' /\ ~machine.osid THEN "reset" ELSE cpu
  BY DEF InitHyperv, init_hyperv
<1>4. detect_hyperv \in BOOLEAN
  BY DEF detect_hyperv
<1>5. PlaceInv'
  BY <1>1, <1>2, <1>3 DEF PlaceInv
<1>6. HypervInv'
  <2>1. HvFeatures.eax = machine.services
    BY DEF HvFeatures, NoBits
  <2>2. hyperv_features = {}
    BY <1>1 DEF IInv, HypervInv, Past
  <2>3. Past({"hwinfo", "report"})'
    BY <1>1 DEF Past
  <2>4. QED BY <1>1, <1>2, <1>3, <1>4, <2>1, <2>2, <2>3 DEF HypervInv
<1>7. ~Past({"report"})' /\ ~Past({"report"}) /\ pc' # "halted"
  BY <1>1 DEF Past
<1>8. InfoInv' /\ ReportInv'
  BY <1>1, <1>7 DEF IInv, InfoInv, ReportInv
<1>9. QED BY <1>5, <1>6, <1>8 DEF IInv

\* The three last hexadecimal digits of a number, put together again.
LEMMA ThreeDigits ==
    ASSUME NEW n \in Nat
    PROVE  /\ {(n \div 256) % 16, (n \div 16) % 16, n % 16} \subseteq 0 .. 15
           /\ 256 * ((n \div 256) % 16) + 16 * ((n \div 16) % 16) + (n % 16) = n % 4096
<1>1. (n \div 256) % 16 \in 0 .. 15 /\ (n \div 16) % 16 \in 0 .. 15 /\ n % 16 \in 0 .. 15
  BY SMT
<1>2. 256 * ((n \div 256) % 16) + 16 * ((n \div 16) % 16) + (n % 16) = n % 4096
  BY SMT
<1>3. QED BY <1>1, <1>2

\* hwinfo.c keeps what the processor tells of itself.
LEMMA HwinfoStep ==
    ASSUME IInv, InitHwinfo
    PROVE  IInv'
<1> DEFINE named == [cpu_info EXCEPT !.vendor = <<Vendor.ebx, Vendor.edx, Vendor.ecx>>]
<1>1. /\ pc = "hwinfo" /\ pc' = "report"
      /\ magic' = magic /\ kernel_verbose_mode' = kernel_verbose_mode
      /\ UNCHANGED <<machine, cpu, interrupts, gdtr, idtr, hyperv_detected, hyperv_features>>
  BY DEF InitHwinfo, Quiet, Step, detect_cpu
<1>2. PlaceInv'
  BY <1>1 DEF IInv, PlaceInv
<1>3. Past({"hwinfo", "report"}) /\ ~Past({"report"}) /\ pc' # "halted"
  BY <1>1 DEF Past
<1>4. HypervInv'
  BY <1>1, <1>3 DEF IInv, HypervInv, Past
<1>5. cpu_info = NoInfo
  BY <1>3 DEF IInv, InfoInv
<1>6. <<Vendor.ebx, Vendor.edx, Vendor.ecx>> = machine.vendor
  <2>1. <<machine.vendor[1], machine.vendor[2], machine.vendor[3]>> = machine.vendor
    BY ThisMachine, Triple DEF IInv
  <2>2. QED BY <2>1 DEF Vendor
<1>7. named = [vendor |-> machine.vendor, stepping |-> 0, model |-> 0, family |-> 0,
               features_edx |-> {}, features_ecx |-> {}]
  <2>1. named = [NoInfo EXCEPT !.vendor = machine.vendor]
    BY <1>5, <1>6
  <2> HIDE DEF named
  <2>2. QED BY <2>1 DEF NoInfo
<1>8. machine.leaves \in Nat
  BY ThisMachine DEF IInv
<1>9. InfoIsTrue'
  <2>1. CASE machine.leaves # 0
    <3>1. cpu_info' = [named EXCEPT !.stepping = Version.eax % 16,
                                    !.model = (Version.eax \div 16) % 16,
                                    !.family = (Version.eax \div 256) % 16,
                                    !.features_edx = Version.edx,
                                    !.features_ecx = Version.ecx]
      BY <1>8, <2>1 DEF InitHwinfo, detect_cpu, Vendor
    <3>2. PICK n \in Nat : n = machine.signature
      BY ThisMachine DEF IInv
    <3>3. Version.eax = n /\ Version.edx = machine.edx /\ Version.ecx = machine.ecx
      BY <2>1, <3>2 DEF Version
    <3> HIDE DEF named
    <3>4. /\ cpu_info'.vendor = machine.vendor
          /\ cpu_info'.stepping = n % 16
          /\ cpu_info'.model = (n \div 16) % 16
          /\ cpu_info'.family = (n \div 256) % 16
          /\ cpu_info'.features_edx = machine.edx /\ cpu_info'.features_ecx = machine.ecx
      BY <1>7, <3>1, <3>3
    <3>5. QED BY <1>1, <2>1, <3>2, <3>4, ThreeDigits DEF InfoIsTrue
  <2>2. CASE machine.leaves = 0
    <3>1. cpu_info' = named
      BY <2>2 DEF InitHwinfo, detect_cpu, Vendor
    <3>2. named = [NoInfo EXCEPT !.vendor = machine.vendor]
      BY <1>5, <1>6
    <3> HIDE DEF named
    <3>3. QED BY <1>1, <2>2, <3>1, <3>2 DEF InfoIsTrue
  <2>3. QED BY <2>1, <2>2
<1>10. InfoInv'
  BY <1>1, <1>9 DEF InfoInv, Past
<1>11. ReportInv'
  BY <1>1 DEF ReportInv
<1>12. QED BY <1>2, <1>4, <1>10, <1>11 DEF IInv

LEMMA ReportStep ==
    ASSUME IInv, Report
    PROVE  IInv'
<1>1. /\ pc = "report" /\ pc' = "halted"
      /\ magic' = magic /\ kernel_verbose_mode' = kernel_verbose_mode
      /\ UNCHANGED <<machine, cpu, interrupts, gdtr, idtr, hyperv_detected, hyperv_features,
                     cpu_info>>
  BY DEF Report, Quiet, Step, print_cpu_info, processor
<1>2. PlaceInv'
  BY <1>1 DEF IInv, PlaceInv
<1>3. Past({"hwinfo", "report"}) /\ Past({"report"})
  BY <1>1 DEF Past
<1>4. HypervInv'
  BY <1>1, <1>3 DEF IInv, PlaceInv, HypervInv, Past
<1>5. InfoInv'
  <2>1. InfoIsTrue'
    BY <1>1, <1>3 DEF IInv, InfoInv, InfoIsTrue
  <2>2. CASE magic
    BY <1>1, <2>1, <2>2 DEF InfoInv, Past
  <2>3. CASE ~magic
    BY <1>1, <2>3 DEF IInv, PlaceInv
  <2>4. QED BY <2>2, <2>3
<1>6. ReportInv'
  <2>1. InfoIsTrue
    BY <1>3 DEF IInv, InfoInv
  <2>2. CASE kernel_verbose_mode
    <3>1. cpu_info.family \in 0 .. 15 /\ cpu_info.model \in 0 .. 15
      <4>1. CASE machine.leaves = 0
        <5>1. cpu_info = [NoInfo EXCEPT !.vendor = machine.vendor]
          BY <2>1, <4>1 DEF InfoIsTrue
        <5>2. cpu_info.family = 0 /\ cpu_info.model = 0
          BY <5>1 DEF NoInfo
        <5>3. QED BY <5>2
      <4>2. CASE machine.leaves # 0
        <5>1. {cpu_info.family, cpu_info.model, cpu_info.stepping} \subseteq 0 .. 15
          BY <2>1, <4>2 DEF InfoIsTrue
        <5>2. QED BY <5>1
      <4>3. QED BY <4>1, <4>2
    <3>2. cpu_info.family % 100 = cpu_info.family /\ cpu_info.model % 100 = cpu_info.model
      BY <3>1
    <3>3. print_cpu_info
      BY <2>2 DEF Report
    <3>4. PrintIsTrue'
      BY <1>1, <3>2, <3>3 DEF print_cpu_info, PrintIsTrue
    <3>5. QED BY <3>4 DEF ReportInv
  <2>3. CASE ~kernel_verbose_mode
    BY <1>1, <2>3 DEF ReportInv
  <2>4. QED BY <2>2, <2>3
<1>7. QED BY <1>2, <1>4, <1>5, <1>6 DEF IInv

(***************************************************************************)
(* The invariant of every reachable state.                                 *)
(***************************************************************************)

LEMMA NextInv == IInv /\ [Next]_vars => IInv'
<1> SUFFICES ASSUME IInv, [Next]_vars PROVE IInv'
  OBVIOUS
<1>1. CASE _start
  <2>1. /\ pc = "_start" /\ pc' = "framebuffer" /\ interrupts' = FALSE
        /\ magic' = magic /\ kernel_verbose_mode' = kernel_verbose_mode
        /\ UNCHANGED <<machine, cpu, gdtr, idtr, hyperv_detected, hyperv_features,
                       cpu_info, report>>
    BY <1>1 DEF _start, Quiet, Step
  <2>2. QED BY <2>1, EarlyStep
<1>2. CASE InitFramebuffer
  <2>1. /\ pc = "framebuffer" /\ pc' = "vesa"
        /\ magic' = magic /\ kernel_verbose_mode' = kernel_verbose_mode
        /\ UNCHANGED processor
    BY <1>2 DEF InitFramebuffer, Quiet, Step
  <2>2. interrupts \in BOOLEAN
    BY DEF IInv, PlaceInv
  <2>3. QED BY <2>1, <2>2, EarlyStep DEF processor
<1>3. CASE InitVesa
  <2>1. /\ pc = "vesa" /\ pc' = "magic"
        /\ magic' = magic /\ kernel_verbose_mode' = kernel_verbose_mode
        /\ UNCHANGED processor
    BY <1>3 DEF InitVesa, Quiet, Step
  <2>2. interrupts \in BOOLEAN
    BY DEF IInv, PlaceInv
  <2>3. QED BY <2>1, <2>2, EarlyStep DEF processor
<1>4. CASE UNCHANGED vars
  BY <1>4 DEF vars, processor, IInv, PlaceInv, HypervInv, InfoInv, ReportInv, Past,
                     InfoIsTrue, PrintIsTrue
<1>5. QED
  BY <1>1, <1>2, <1>3, <1>4, MagicStep, TableStep, HypervStep, HwinfoStep, ReportStep DEF Next

LEMMA Invariant == Spec => []IInv
<1>1. QED BY InitInv, NextInv, PTL DEF Spec

(***************************************************************************)
(* The display.                                                            *)
(***************************************************************************)

\* The card and the multiboot information as the loader leaves them with a screen.
Left(s, lock) ==
    /\ crtc = CrtcOf(s, lock)
    /\ \A p \in {0, 1, 2}, a \in Addresses : planes[p][a] = IF p = 2 THEN -s.cell ELSE 0
    /\ IF s.text THEN seq = TextSeq /\ gc = TextGc ELSE gc = GraphicsGc
    /\ s.text => \/ video.type = 0
                 \/ video.type = 2 /\ video.width = s.cols /\ video.height = s.lines \div s.cell
    /\ ~s.text => video.type \in {0, 1}

\* Until the modes are set nothing has changed but the console that goes with a
\* framebuffer.
BeforeVesa ==
    ~Shown =>
      /\ \E s \in Screens, lock \in {0, 128} : Left(s, lock)
      /\ VGA_WIDTH = 80 /\ VGA_HEIGHT = 25
      /\ active <=> pc = "vesa" /\ video.type = 1

\* A verbose boot is recognised.
VerboseSeen ==
    pc = "gdt" /\ (\E p \in WordStarts : WordFrom(p) = Verbose) => kernel_verbose_mode

DisplayInv ==
    /\ cmdline \in Seq(STRING)
    /\ BeforeVesa
    /\ TextSurvivesFontLoad
    /\ DetectedIsShown
    /\ RequestDecidesTerminal
    /\ TerminalFitsWindow
    /\ GlyphsFillCells

\* The words and the request stay as they are while the command line does.
LEMMA SameLine ==
    ASSUME cmdline' = cmdline
    PROVE  /\ \A i : FirstRequest(i)' <=> FirstRequest(i)
           /\ WordStarts' = WordStarts
           /\ \A p : WordFrom(p)' = WordFrom(p)
<1>1. WordStarts' = WordStarts
  BY DEF WordStarts
<1>2. ASSUME NEW p PROVE WordFrom(p)' = WordFrom(p)
  BY DEF WordFrom
<1>3. ASSUME NEW i PROVE FirstRequest(i)' <=> FirstRequest(i)
  BY <1>1, <1>2, Zenon DEF FirstRequest
<1>4. QED BY <1>1, <1>2, <1>3

\* What depends on the display only stays as it is.
LEMMA SameDisplay ==
    ASSUME UNCHANGED display
    PROVE  /\ \A i : FirstRequest(i)' <=> FirstRequest(i)
           /\ WordStarts' = WordStarts
           /\ \A p : WordFrom(p)' = WordFrom(p)
           /\ TextCard' <=> TextCard
           /\ \A g, y : Shape(g, y)' = Shape(g, y)
<1>1. cmdline' = cmdline /\ planes' = planes /\ gc' = gc
  BY DEF display, card
<1>2. TextCard' <=> TextCard
  BY <1>1 DEF TextCard
<1>3. \A g, y : Shape(g, y)' = Shape(g, y)
  BY <1>1 DEF Shape
<1>4. QED BY <1>1, <1>2, <1>3, SameLine

\* A step that leaves the display alone and shows no more than before keeps what is
\* said of the display.
LEMMA DisplayKept ==
    ASSUME DisplayInv, UNCHANGED display, Shown' <=> Shown, BeforeVesa', VerboseSeen'
    PROVE  DisplayInv'
<1>1. /\ cmdline' = cmdline /\ crtc' = crtc /\ planes' = planes /\ gc' = gc /\ seq' = seq
      /\ active' = active /\ VGA_WIDTH' = VGA_WIDTH /\ VGA_HEIGHT' = VGA_HEIGHT
  BY DEF display, card
<1>2. cmdline' \in Seq(STRING)
  BY <1>1 DEF DisplayInv
<1>3. TextSurvivesFontLoad'
  BY <1>1, SameDisplay DEF DisplayInv, TextSurvivesFontLoad
<1>4. DetectedIsShown'
  BY <1>1, SameDisplay DEF DisplayInv, DetectedIsShown
<1>5. RequestDecidesTerminal'
  BY <1>1, SameDisplay DEF DisplayInv, RequestDecidesTerminal, VerboseSeen
<1>6. TerminalFitsWindow'
  BY <1>1, SameDisplay DEF DisplayInv, TerminalFitsWindow
<1>7. GlyphsFillCells'
  BY <1>1, SameDisplay DEF DisplayInv, GlyphsFillCells, FiftyHigh
<1>8. QED BY <1>2, <1>3, <1>4, <1>5, <1>6, <1>7 DEF DisplayInv

LEMMA DisplayStart == Init => DisplayInv
<1> SUFFICES ASSUME Init PROVE DisplayInv
  OBVIOUS
<1>1. ~Shown /\ pc = "_start"
  BY DEF Init, Shown
<1>2. cmdline \in Seq(STRING)
  <2>1. cmdline \in Lines
    BY DEF Init, DisplayInit
  <2>2. Lines \subseteq Seq(STRING)
    BY LineAssumption
  <2>3. QED BY <2>1, <2>2
<1>3. active = FALSE /\ VGA_WIDTH = 80 /\ VGA_HEIGHT = 25
  BY DEF Init, DisplayInit
<1>4. PICK s \in Screens, lock \in {0, 128} :
        /\ crtc = CrtcOf(s, lock)
        /\ planes = [p \in 0 .. 3 |-> [a \in Addresses |-> IF p = 2 THEN -s.cell ELSE 0]]
        /\ video \in {NoVideo} \cup
             (IF s.text THEN {[type |-> 2, width |-> s.cols, height |-> s.lines \div s.cell]}
              ELSE {[type |-> 1, width |-> p[1], height |-> p[2]] : p \in Pictures})
        /\ IF s.text THEN seq = TextSeq /\ gc = TextGc ELSE seq = GraphicsSeq /\ gc = GraphicsGc
  BY DEF Init, DisplayInit
<1>5. \A p \in {0, 1, 2}, a \in Addresses : planes[p][a] = IF p = 2 THEN -s.cell ELSE 0
  <2>1. \A p \in {0, 1, 2} : p \in 0 .. 3
    BY SMT
  <2>2. QED BY <1>4, <2>1
<1>6. /\ s.text => \/ video.type = 0
                   \/ video.type = 2 /\ video.width = s.cols /\ video.height = s.lines \div s.cell
      /\ ~s.text => video.type \in {0, 1}
  BY <1>4 DEF NoVideo
<1>7. Left(s, lock)
  BY <1>4, <1>5, <1>6 DEF Left
<1>8. BeforeVesa
  BY <1>1, <1>3, <1>4, <1>7 DEF BeforeVesa
<1>9. TextSurvivesFontLoad
  BY <1>1, <1>5 DEF TextSurvivesFontLoad
<1>10. VGA_WIDTH * VGA_HEIGHT <= TextWindow
  BY <1>3, SMT DEF TextWindow
<1>11. TerminalFitsWindow
  BY <1>10, Zenon DEF TerminalFitsWindow
<1>12. DetectedIsShown /\ GlyphsFillCells /\ RequestDecidesTerminal
  BY <1>1 DEF DetectedIsShown, GlyphsFillCells, RequestDecidesTerminal
<1>13. QED BY <1>2, <1>8, <1>9, <1>11, <1>12 DEF DisplayInv

\* The steps before the modes are set.
LEMMA EarlyDisplay ==
    ASSUME DisplayInv, _start \/ InitFramebuffer
    PROVE  DisplayInv'
<1>1. CASE _start
  <2>1. UNCHANGED display /\ pc = "_start" /\ pc' = "framebuffer"
    BY <1>1 DEF _start, Quiet, Step
  <2>2. UNCHANGED <<crtc, planes, seq, gc, video, active, VGA_WIDTH, VGA_HEIGHT>>
    BY <2>1 DEF display, card
  <2>3. ~Shown /\ ~Shown' /\ VerboseSeen'
    BY <2>1 DEF Shown, VerboseSeen
  <2>4. BeforeVesa'
    BY <2>1, <2>2, <2>3 DEF DisplayInv, BeforeVesa, Left
  <2>5. QED BY <2>1, <2>3, <2>4, DisplayKept
<1>2. CASE InitFramebuffer
  <2>1. /\ pc = "framebuffer" /\ pc' = "vesa" /\ active' = (video.type = 1)
        /\ UNCHANGED <<cmdline, video, crtc, planes, seq, gc, VGA_WIDTH, VGA_HEIGHT>>
    BY <1>2 DEF InitFramebuffer, Quiet, Step, framebuffer_init, card
  <2>2. ~Shown /\ ~Shown'
    BY <2>1 DEF Shown
  <2>3. BeforeVesa'
    BY <2>1, <2>2 DEF DisplayInv, BeforeVesa, Left
  <2>4. TextSurvivesFontLoad'
    BY <2>1, <2>2 DEF DisplayInv, TextSurvivesFontLoad
  <2>5. TerminalFitsWindow'
    <3>1. VGA_WIDTH = 80 /\ VGA_HEIGHT = 25
      BY <2>2 DEF DisplayInv, BeforeVesa
    <3>2. VGA_WIDTH' * VGA_HEIGHT' <= TextWindow
      BY <2>1, <3>1, SMT DEF TextWindow
    <3>3. QED BY <3>2, Zenon DEF TerminalFitsWindow
  <2>6. DetectedIsShown' /\ GlyphsFillCells' /\ RequestDecidesTerminal'
    BY <2>1, <2>2 DEF DetectedIsShown, GlyphsFillCells, RequestDecidesTerminal
  <2>7. cmdline' \in Seq(STRING)
    BY <2>1 DEF DisplayInv
  <2>8. QED BY <2>3, <2>4, <2>5, <2>6, <2>7 DEF DisplayInv
<1>3. QED BY <1>1, <1>2

\* The steps after it.
LEMMA LateDisplay ==
    ASSUME DisplayInv,
           \/ BadMagic \/ CheckVerbose \/ InitGdt \/ InitIdt \/ InitHyperv \/ InitHwinfo
           \/ Report
    PROVE  DisplayInv'
<1>1. /\ UNCHANGED display
      /\ pc \in {"magic", "gdt", "idt", "hyperv", "hwinfo", "report"}
      /\ pc' \in {"gdt", "idt", "hyperv", "hwinfo", "report", "halted"}
      /\ pc' = "gdt" => kernel_verbose_mode' = strstr_check(cmdline, Verbose)
  BY DEF BadMagic, CheckVerbose, InitGdt, InitIdt, InitHyperv, InitHwinfo, Report, Quiet, Step
<1>2. Shown /\ Shown'
  BY <1>1 DEF Shown
<1>3. BeforeVesa'
  BY <1>2 DEF BeforeVesa
<1>4. VerboseSeen'
  <2>1. ASSUME pc' = "gdt", NEW p \in WordStarts, WordFrom(p) = Verbose
        PROVE  kernel_verbose_mode'
    BY <1>1, <2>1, WordFound DEF DisplayInv
  <2>2. QED BY <1>1, <2>1, SameDisplay DEF VerboseSeen
<1>5. QED BY <1>1, <1>2, <1>3, <1>4, DisplayKept

\* The size of a mode.
LEMMA ModeSizes ==
    ASSUME NEW i \in DOMAIN text_modes
    PROVE  /\ text_modes[i].width \in Nat /\ text_modes[i].width <= 132
           /\ text_modes[i].height \in Nat /\ text_modes[i].height <= 50
           /\ text_modes[i].width = 80 /\ text_modes[i].height = 50 => i = 2
           /\ text_modes[2].width = 80 /\ text_modes[2].height = 50
<1>1. i = 1 \/ i = 2 \/ i = 3 \/ i = 4 \/ i = 5 \/ i = 6
  BY NameIs
<1>2. /\ text_modes[1].width = 80 /\ text_modes[1].height = 25
      /\ text_modes[2].width = 80 /\ text_modes[2].height = 50
      /\ text_modes[3].width = 100 /\ text_modes[3].height = 37
      /\ text_modes[4].width = 132 /\ text_modes[4].height = 25
      /\ text_modes[5].width = 132 /\ text_modes[5].height = 43
      /\ text_modes[6].width = 132 /\ text_modes[6].height = 50
  BY DEF text_modes, Mode
<1>3. QED BY <1>1, <1>2

\* The ways through init_vesa_with_mbi: the kernel's own 80x50 mode; the mode of the
\* request; what the loader says, with the kernel's font for 80x50 or without;
\* what the registers say.
TakesFifty == set_80x50_mode
TakesRequest ==
    /\ UNCHANGED card
    /\ terminal_set_dimensions(text_modes[parse_resolution(cmdline)].width,
                               text_modes[parse_resolution(cmdline)].height)
TakesSize ==
    /\ UNCHANGED crtc /\ UNCHANGED gc
    /\ terminal_set_dimensions(VideoSize[1], VideoSize[2])
    /\ UNCHANGED card \/ (VideoSize = <<80, 50>> /\ load_8x8_font)

LEMMA VesaWays ==
    ASSUME init_vesa_with_mbi, NEW r, r = parse_resolution(cmdline)
    PROVE  /\ UNCHANGED <<cmdline, video, active, text_cols, text_rows>>
           /\ r # 0 => /\ r = 2 => TakesFifty
                       /\ r # 2 => TakesRequest
           /\ r = 0 => \/ video.type = 1 /\ TakesFifty
                       \/ video.type \in {1, 2} /\ TakesSize
                       \/ /\ detect_screen_size
                          /\ video.type \in {1, 2} => ~Reasonable(VideoSize[1], VideoSize[2])
<1>1. /\ IF r # 0 THEN TakeRequest(r)
         ELSE IF video.type \in {1, 2} THEN TakeVideo ELSE init_vesa
      /\ UNCHANGED <<cmdline, video, active, text_cols, text_rows>>
  BY DEF init_vesa_with_mbi
<1>2. ASSUME r # 0
      PROVE  (r = 2 => TakesFifty) /\ (r # 2 => TakesRequest)
  <2>1. r \in DOMAIN text_modes
    BY <1>2, AMode
  <2>2. text_modes[r].width = 80 /\ text_modes[r].height = 50 <=> r = 2
    BY <2>1, ModeSizes
  <2>3. TakeRequest(r)
    BY <1>1, <1>2
  <2>4. CASE r = 2
    BY <2>2, <2>3, <2>4 DEF TakeRequest, TakesFifty
  <2>5. CASE r # 2
    BY <2>2, <2>3, <2>5 DEF TakeRequest, TakesRequest
  <2>6. QED BY <2>4, <2>5
<1>3. ASSUME r = 0
      PROVE  \/ video.type = 1 /\ TakesFifty
             \/ video.type \in {1, 2} /\ TakesSize
             \/ /\ detect_screen_size
                /\ video.type \in {1, 2} => ~Reasonable(VideoSize[1], VideoSize[2])
  <2>1. init_vesa => detect_screen_size
    BY <1>3 DEF init_vesa
  <2>2. CASE video.type \notin {1, 2}
    BY <1>1, <1>3, <2>1, <2>2
  <2>3. CASE video.type \in {1, 2}
    <3>1. TakeVideo
      BY <1>1, <1>3, <2>3
    <3>2. CASE video.type = 1 /\ video.width = 640 /\ video.height = 400
      BY <3>1, <3>2 DEF TakeVideo, TakesFifty
    <3>3. CASE ~(video.type = 1 /\ video.width = 640 /\ video.height = 400)
      <4>1. CASE Reasonable(VideoSize[1], VideoSize[2])
        <5>1. /\ terminal_set_dimensions(VideoSize[1], VideoSize[2])
              /\ IF VideoSize = <<80, 50>> THEN load_8x8_font ELSE UNCHANGED <<seq, gc, planes>>
              /\ UNCHANGED crtc
          BY <3>1, <3>3, <4>1, Zenon DEF TakeVideo
        <5>2. load_8x8_font => UNCHANGED gc
          BY DEF load_8x8_font
        <5>3. TakesSize
          BY <5>1, <5>2 DEF TakesSize, card
        <5>4. QED BY <2>3, <5>3
      <4>2. CASE ~Reasonable(VideoSize[1], VideoSize[2])
        <5>1. init_vesa
          BY <3>1, <3>3, <4>2, Zenon DEF TakeVideo
        <5>2. QED BY <2>1, <4>2, <5>1
      <4>3. QED BY <4>1, <4>2
    <3>4. QED BY <3>2, <3>3
  <2>4. QED BY <2>2, <2>3
<1>4. QED BY <1>1, <1>2, <1>3

\* Loading the font after the loader left a text or a graphics mode.
LEMMA VesaText ==
    ASSUME NEW s \in Screens, NEW lock \in {0, 128}, Left(s, lock), TextSurvivesFontLoad,
           load_8x8_font \/ UNCHANGED <<seq, gc, planes>>
    PROVE  TextSurvivesFontLoad' /\ (TextCard' <=> s.text)
<1>1. Bit(2, 2) = 0 /\ Bit(3, 2) = 0 /\ Bit(16, 4) = 1 /\ (14 \div 4) % 4 = 3
      /\ Bit(14, 0) = 0 /\ Bit(5, 0) = 1
  BY Powers, SMT DEF Bit
<1>2. gc' = gc
  BY DEF load_8x8_font
<1>3. /\ s.text => seq[2] = 3 /\ seq[4] = 2 /\ 4 \in DOMAIN seq /\ gc[5] = 16 /\ gc[6] = 14
      /\ ~s.text => gc[6] = 5
  BY DEF Left, TextSeq, TextGc, GraphicsGc, Pair
<1>4. TextCard' <=> s.text
  BY <1>1, <1>2, <1>3 DEF TextCard
<1>5. s.text => seq'[2] = 3 /\ seq'[4] \in {2, 3}
  <2>1. CASE load_8x8_font
    <3>1. seq' = [seq EXCEPT ![4] = 3]
      BY <2>1 DEF load_8x8_font
    <3>2. QED BY <1>3, <3>1
  <2>2. CASE UNCHANGED <<seq, gc, planes>>
    BY <1>3, <2>2
  <2>3. QED BY <2>1, <2>2
<1>6. \A p \in {0, 1}, a \in Addresses : planes'[p][a] = 0
  <2>1. \A p \in {0, 1}, a \in Addresses : planes'[p][a] = planes[p][a]
    BY FontLoaded
  <2>2. QED BY <2>1 DEF TextSurvivesFontLoad
<1>7. TextSurvivesFontLoad'
  BY <1>1, <1>2, <1>3, <1>4, <1>5, <1>6 DEF TextSurvivesFontLoad
<1>8. QED BY <1>4, <1>7

\* Cells of 8 lines with the kernel's font are filled.
LEMMA FontFills ==
    ASSUME load_8x8_font, CellHeight(crtc)' = 8
    PROVE  GlyphsFillCells'
<1>1. \A g \in Glyphs, y \in 0 .. 7, x \in 0 .. 7 :
        Bit(planes'[2][GlyphAddress(g, y)], 7 - x) = Bit(Letter(g)[y], x)
  BY FontLoaded
<1>2. \A g \in Glyphs, y \in 0 .. 7, x \in 0 .. 7 :
        Bit(Shape(g, y)', 7 - x) = Bit(font_8x8[IF g < 128 THEN g ELSE 0][y], x)
  BY <1>1, Zenon DEF Shape, Letter
<1>3. QED BY <1>2, Zenon DEF GlyphsFillCells

\* So are those of a screen that is left as it is.
LEMMA CellsLeft ==
    ASSUME NEW s \in Screens, NEW lock \in {0, 128}, Left(s, lock), UNCHANGED card
    PROVE  GlyphsFillCells'
<1>1. crtc' = CrtcOf(s, lock) /\ planes' = planes
  BY DEF card, Left
<1>2. CellHeight(crtc)' = s.cell
  BY <1>1, ScreenIsShown
<1>3. s.cell \in Nat /\ s.cell <= 32
  BY ThisScreen
<1>4. ASSUME NEW g \in Glyphs, NEW y \in 0 .. CellHeight(crtc)' - 1
      PROVE  Shape(g, y)' = -CellHeight(crtc)'
  <2>1. y \in 0 .. 31
    BY <1>2, <1>3
  <2>2. GlyphAddress(g, y) \in Addresses
    BY <2>1 DEF Addresses
  <2>3. planes[2][GlyphAddress(g, y)] = -s.cell
    BY <2>2 DEF Left
  <2>4. QED BY <1>1, <1>2, <2>3 DEF Shape
<1>5. QED BY <1>4, Zenon DEF GlyphsFillCells

\* A rectangle inside another is not larger.
LEMMA Area ==
    ASSUME NEW w \in Nat, NEW h \in Nat, NEW m \in Nat, NEW n \in Nat, w <= m, h <= n
    PROVE  w * h <= m * n
<1>1. w * h <= m * h
  BY SMTT(30)
<1>2. m * h <= m * n
  BY SMTT(30)
<1>3. PICK a, b, c : a = w * h /\ b = m * h /\ c = m * n
  OBVIOUS
<1>4. a \in Int /\ b \in Int /\ c \in Int
  BY <1>3
<1>5. a <= c
  BY <1>1, <1>2, <1>3, <1>4
<1>6. QED BY <1>3, <1>5

\* The way of the boot into init_vesa_with_mbi.
LEMMA AtVesa ==
    ASSUME DisplayInv, InitVesa
    PROVE  /\ \E s \in Screens, lock \in {0, 128} : Left(s, lock)
           /\ VGA_WIDTH = 80 /\ VGA_HEIGHT = 25 /\ (active <=> video.type = 1)
           /\ init_vesa_with_mbi /\ cmdline' = cmdline /\ active' = active /\ pc' = "magic"
<1>1. /\ pc = "vesa" /\ pc' = "magic" /\ init_vesa_with_mbi
      /\ cmdline' = cmdline /\ active' = active
  BY DEF InitVesa, Quiet, Step, init_vesa_with_mbi
<1>2. ~Shown
  BY <1>1 DEF Shown
<1>3. QED BY <1>1, <1>2 DEF DisplayInv, BeforeVesa

\* The size read out of the registers, where it is one the kernel accepts.
LEMMA SizeDetected ==
    ASSUME NEW s \in Screens, NEW lock \in {0, 128}, Left(s, lock), detect_screen_size
    PROVE  LET rows == s.lines \div s.cell
           IN  /\ UNCHANGED card
               /\ Reasonable(s.cols, rows) => VGA_WIDTH' = s.cols /\ VGA_HEIGHT' = rows
               /\ ~Reasonable(s.cols, rows) => VGA_WIDTH' = 80 /\ VGA_HEIGHT' = 25
<1>1. crtc[1] + 1 = s.cols /\ DetectedHeight(crtc) = s.lines \div s.cell
  BY ScreenIsShown DEF Left
<1>2. /\ IF Reasonable(crtc[1] + 1, DetectedHeight(crtc))
         THEN terminal_set_dimensions(crtc[1] + 1, DetectedHeight(crtc))
         ELSE terminal_set_dimensions(80, 25)
      /\ UNCHANGED card
  BY Zenon DEF detect_screen_size
<1>3. QED BY <1>1, <1>2, Zenon DEF terminal_set_dimensions

LEMMA GraphicsCard == Bit(GraphicsGc[6], 0) = 1
BY SMT DEF GraphicsGc, Pair, Bit

\* The terminal's size, by each of the ways.
LEMMA VesaFits ==
    ASSUME DisplayInv, InitVesa
    PROVE  TerminalFitsWindow'
<1>1. PICK s \in Screens, lock \in {0, 128} : Left(s, lock)
  BY AtVesa
<1>2. PICK r : r = parse_resolution(cmdline)
  OBVIOUS
<1>3. SUFFICES ASSUME video.type # 1, TextCard' \/ ScreenCols(crtc)' <= 160
               PROVE  VGA_WIDTH' * VGA_HEIGHT' <= TextWindow
  BY AtVesa DEF TerminalFitsWindow
<1>4. VGA_WIDTH = 80 /\ VGA_HEIGHT = 25 /\ init_vesa_with_mbi
  BY AtVesa
<1>5. PICK rows : rows = s.lines \div s.cell
  OBVIOUS
<1>6. CASE TakesFifty
  <2>1. VGA_WIDTH' = 80 /\ VGA_HEIGHT' = 25
    BY <1>4, <1>6 DEF TakesFifty, set_80x50_mode
  <2>2. QED BY <2>1, SMT DEF TextWindow
<1>7. CASE r # 0 /\ TakesRequest
  <2>1. r \in DOMAIN text_modes
    BY <1>2, <1>7, AMode
  <2>2. VGA_WIDTH' = text_modes[r].width /\ VGA_HEIGHT' = text_modes[r].height
    BY <1>2, <1>7 DEF TakesRequest, terminal_set_dimensions
  <2>3. PICK w \in Nat, h \in Nat : VGA_WIDTH' = w /\ VGA_HEIGHT' = h /\ w <= 132 /\ h <= 50
    BY <2>1, <2>2, ModeSizes
  <2>4. w * h <= 132 * 50
    BY <2>3, Area
  <2>5. QED BY <2>3, <2>4, SMT DEF TextWindow
<1>8. CASE video.type \in {1, 2} /\ TakesSize
  <2>1. s.text /\ VideoSize[1] = s.cols /\ VideoSize[2] = rows
    BY <1>1, <1>3, <1>5, <1>8 DEF Left, VideoSize
  <2>2. VGA_WIDTH' = s.cols /\ VGA_HEIGHT' = rows
    BY <1>8, <2>1 DEF TakesSize, terminal_set_dimensions
  <2>3. s.cols * (s.lines \div s.cell) <= TextWindow
    BY <2>1, ThisScreen
  <2>4. QED BY <1>5, <2>2, <2>3, Zenon
<1>9. CASE detect_screen_size
  <2>1. /\ Reasonable(s.cols, rows) => VGA_WIDTH' = s.cols /\ VGA_HEIGHT' = rows
        /\ ~Reasonable(s.cols, rows) => VGA_WIDTH' = 80 /\ VGA_HEIGHT' = 25
    BY <1>1, <1>5, <1>9, SizeDetected
  <2>2. CASE ~Reasonable(s.cols, rows)
    BY <2>1, <2>2, SMT DEF TextWindow
  <2>3. CASE Reasonable(s.cols, rows) /\ s.text
    <3>1. s.cols * (s.lines \div s.cell) <= TextWindow
      BY <2>3, ThisScreen
    <3>2. QED BY <1>5, <2>1, <2>3, <3>1, Zenon
  <2>4. CASE Reasonable(s.cols, rows) /\ ~s.text
    <3>1. s.cols \in Nat /\ s.cols <= 160
      <4>1. crtc' = crtc /\ gc' = gc
        BY <1>9 DEF detect_screen_size, card
      <4>2. ~TextCard
        BY <1>1, <2>4, GraphicsCard DEF TextCard, Left
      <4>3. ScreenCols(crtc)' <= 160
        BY <1>3, <4>1, <4>2 DEF TextCard
      <4>4. s.cols \in Nat /\ ScreenCols(crtc) = s.cols
        BY <1>1, ScreenIsShown, ThisScreen DEF Left
      <4>5. QED BY <4>1, <4>3, <4>4 DEF ScreenCols
    <3>2. rows \in Nat /\ rows <= 100
      BY <2>4, SMT DEF Reasonable
    <3>3. PICK w \in Nat : w = s.cols /\ w <= 160
      BY <3>1
    <3>4. w * rows <= 160 * 100
      BY <3>2, <3>3, Area
    <3>5. VGA_WIDTH' = w /\ VGA_HEIGHT' = rows
      BY <2>1, <2>4, <3>3
    <3>6. QED BY <3>2, <3>4, <3>5, SMT DEF TextWindow
  <2>5. QED BY <2>2, <2>3, <2>4
<1>10. QED BY <1>2, <1>4, <1>6, <1>7, <1>8, <1>9, VesaWays

\* The font is loaded or the card's memory left alone, on each of the ways.
LEMMA FontOrNot ==
    ASSUME DisplayInv, InitVesa
    PROVE  load_8x8_font \/ UNCHANGED <<seq, gc, planes>>
<1>1. PICK r : r = parse_resolution(cmdline)
  OBVIOUS
<1>2. init_vesa_with_mbi
  BY AtVesa
<1>3. TakesFifty \/ TakesRequest \/ TakesSize \/ detect_screen_size
  BY <1>1, <1>2, VesaWays
<1>4. QED BY <1>3 DEF TakesFifty, set_80x50_mode, TakesRequest, TakesSize, detect_screen_size, card

\* The glyphs, by each of the ways.
LEMMA VesaGlyphs ==
    ASSUME DisplayInv, InitVesa
    PROVE  GlyphsFillCells'
<1>1. PICK s \in Screens, lock \in {0, 128} : Left(s, lock)
  BY AtVesa
<1>2. PICK r : r = parse_resolution(cmdline)
  OBVIOUS
<1>3. init_vesa_with_mbi
  BY AtVesa
<1>4. crtc = CrtcOf(s, lock)
  BY <1>1 DEF Left
<1>5. CASE TakesFifty
  <2>1. crtc' = set_80x50(CrtcOf(s, lock)) /\ load_8x8_font
    BY <1>4, <1>5 DEF TakesFifty, set_80x50_mode
  <2>2. CellHeight(crtc)' = 8
    BY <2>1, FiftyRows
  <2>3. QED BY <2>1, <2>2, FontFills
<1>6. CASE UNCHANGED card
  BY <1>1, <1>6, CellsLeft
<1>7. CASE TakesSize /\ VideoSize = <<80, 50>> /\ load_8x8_font /\ video.type \in {1, 2}
  <2>1. CASE s.text
    <3>1. VideoSize[1] = s.cols /\ VideoSize[2] = s.lines \div s.cell
      BY <1>1, <1>7, <2>1 DEF Left, VideoSize
    <3>2. VideoSize[1] = 80 /\ VideoSize[2] = 50
      BY <1>7
    <3>3. s.cols = 80 /\ s.lines \div s.cell = 50
      BY <3>1, <3>2, Zenon
    <3>4. CellHeight(crtc)' = s.cell /\ ScreenCols(crtc)' = 80 /\ ScreenRows(crtc)' = 50
      BY <1>4, <1>7, <3>3, ScreenIsShown DEF TakesSize
    <3>5. CASE s.cell = 8
      BY <1>7, <3>4, <3>5, FontFills
    <3>6. CASE s.cell # 8
      BY <3>4, <3>6 DEF GlyphsFillCells, FiftyHigh
    <3>7. QED BY <3>5, <3>6
  <2>2. CASE ~s.text
    <3>1. TextSurvivesFontLoad
      BY DEF DisplayInv
    <3>2. ~TextCard'
      BY <1>1, <1>7, <2>2, <3>1, VesaText
    <3>3. QED BY <3>2 DEF GlyphsFillCells
  <2>3. QED BY <2>1, <2>2
<1>8. TakesFifty \/ UNCHANGED card
        \/ (TakesSize /\ VideoSize = <<80, 50>> /\ load_8x8_font /\ video.type \in {1, 2})
  <2>1. detect_screen_size => UNCHANGED card
    BY DEF detect_screen_size
  <2>2. TakesRequest => UNCHANGED card
    BY DEF TakesRequest
  <2>3. TakesSize => UNCHANGED card \/ (VideoSize = <<80, 50>> /\ load_8x8_font)
    BY DEF TakesSize
  <2>4. QED BY <1>2, <1>3, <2>1, <2>2, <2>3, VesaWays
<1>9. QED BY <1>5, <1>6, <1>7, <1>8

\* The size of a text screen is kept where the line asks for nothing.
LEMMA VesaDetected ==
    ASSUME DisplayInv, InitVesa
    PROVE  DetectedIsShown'
<1>1. PICK s \in Screens, lock \in {0, 128} : Left(s, lock)
  BY AtVesa
<1>2. PICK rows : rows = s.lines \div s.cell
  OBVIOUS
<1>3. init_vesa_with_mbi /\ cmdline' = cmdline /\ cmdline \in Seq(STRING)
  BY AtVesa DEF DisplayInv
<1>4. SUFFICES ASSUME TextCard', (\A p \in WordStarts : ~Asks(WordFrom(p)))',
                      Reasonable(ScreenCols(crtc), ScreenRows(crtc))'
               PROVE  VGA_WIDTH' = ScreenCols(crtc)' /\ VGA_HEIGHT' = ScreenRows(crtc)'
  BY DEF DetectedIsShown
<1>5. s.text
  <2>1. TextSurvivesFontLoad
    BY DEF DisplayInv
  <2>2. QED BY <1>1, <1>4, <2>1, FontOrNot, VesaText
<1>6. \A p \in WordStarts : ~Asks(WordFrom(p))
  BY <1>3, <1>4 DEF WordStarts, WordFrom
<1>7. parse_resolution(cmdline) = 0
  BY <1>3, <1>6, NoRequest
<1>8. video.type # 1 /\ (video.type \in {1, 2} => VideoSize[1] = s.cols /\ VideoSize[2] = rows)
  BY <1>1, <1>2, <1>5 DEF Left, VideoSize
<1>9. \/ video.type \in {1, 2} /\ TakesSize
      \/ detect_screen_size
  BY <1>3, <1>7, <1>8, VesaWays
<1>10. crtc' = crtc
  BY <1>9 DEF TakesSize, detect_screen_size, card
<1>11. ScreenCols(crtc)' = s.cols /\ ScreenRows(crtc)' = rows
  BY <1>1, <1>2, <1>10, ScreenIsShown DEF Left
<1>12. Reasonable(s.cols, rows)
  BY <1>4, <1>11
<1>13. VGA_WIDTH' = s.cols /\ VGA_HEIGHT' = rows
  <2>1. CASE video.type \in {1, 2} /\ TakesSize
    BY <1>8, <2>1 DEF TakesSize, terminal_set_dimensions
  <2>2. CASE detect_screen_size
    BY <1>1, <1>2, <1>12, <2>2, SizeDetected
  <2>3. QED BY <1>9, <2>1, <2>2
<1>14. QED BY <1>11, <1>13

\* The first request decides.
LEMMA VesaRequest ==
    ASSUME DisplayInv, InitVesa
    PROVE  RequestDecidesTerminal'
<1>1. PICK s \in Screens, lock \in {0, 128} : Left(s, lock)
  BY AtVesa
<1>2. /\ init_vesa_with_mbi /\ cmdline' = cmdline /\ cmdline \in Seq(STRING)
      /\ pc' # "gdt"
  BY AtVesa DEF DisplayInv
<1>3. ASSUME NEW i \in DOMAIN text_modes, FirstRequest(i)'
      PROVE  IF text_modes[i].width = 80 /\ text_modes[i].height = 50
             THEN ScreenRows(crtc)' = 50
             ELSE VGA_WIDTH' = text_modes[i].width /\ VGA_HEIGHT' = text_modes[i].height
  <2>1. FirstRequest(i)
    BY <1>2, <1>3, SameLine, Zenon
  <2>2. parse_resolution(cmdline) = i
    BY <1>2, <2>1, Taken
  <2>3. i # 0
    BY NameIs
  <2>4. (i = 2 => TakesFifty) /\ (i # 2 => TakesRequest)
    BY <1>2, <2>2, <2>3, VesaWays
  <2>5. CASE i = 2
    <3>1. crtc' = set_80x50(CrtcOf(s, lock))
      BY <1>1, <2>4, <2>5 DEF TakesFifty, set_80x50_mode, Left
    <3>2. ScreenRows(crtc)' = 50
      BY <3>1, FiftyRows
    <3>3. QED BY <2>5, <3>2, ModeSizes
  <2>6. CASE i # 2
    <3>1. ~(text_modes[i].width = 80 /\ text_modes[i].height = 50)
      BY <2>6, ModeSizes
    <3>2. QED BY <2>2, <2>4, <2>6, <3>1 DEF TakesRequest, terminal_set_dimensions
  <2>7. QED BY <2>5, <2>6
<1>4. QED BY <1>2, <1>3, Zenon DEF RequestDecidesTerminal

LEMMA VesaDisplay ==
    ASSUME DisplayInv, InitVesa
    PROVE  DisplayInv'
<1>1. Shown'
  BY AtVesa DEF Shown
<1>2. BeforeVesa'
  BY <1>1 DEF BeforeVesa
<1>3. PICK s \in Screens, lock \in {0, 128} : Left(s, lock)
  BY AtVesa
<1>4. TextSurvivesFontLoad
  BY DEF DisplayInv
<1>5. TextSurvivesFontLoad'
  BY <1>3, <1>4, FontOrNot, VesaText
<1>6. cmdline' \in Seq(STRING)
  BY AtVesa DEF DisplayInv
<1>7. QED
  BY <1>2, <1>5, <1>6, VesaFits, VesaGlyphs, VesaDetected, VesaRequest DEF DisplayInv

LEMMA NextDisplay == DisplayInv /\ [Next]_vars => DisplayInv'
<1> SUFFICES ASSUME DisplayInv, [Next]_vars PROVE DisplayInv'
  OBVIOUS
<1>1. CASE UNCHANGED vars
  <2>1. UNCHANGED display /\ pc' = pc /\ kernel_verbose_mode' = kernel_verbose_mode
    BY <1>1 DEF vars
  <2>2. UNCHANGED <<crtc, planes, seq, gc, video, active, VGA_WIDTH, VGA_HEIGHT>>
    BY <2>1 DEF display, card
  <2>3. Shown' <=> Shown
    BY <2>1 DEF Shown
  <2>4. BeforeVesa'
    BY <2>1, <2>2, <2>3 DEF DisplayInv, BeforeVesa, Left
  <2>5. VerboseSeen
    <3>1. RequestDecidesTerminal
      BY DEF DisplayInv
    <3>2. QED BY <3>1, Zenon DEF RequestDecidesTerminal, VerboseSeen
  <2>6. VerboseSeen'
    BY <2>1, <2>5, SameDisplay DEF VerboseSeen
  <2>7. QED BY <2>1, <2>3, <2>4, <2>6, DisplayKept
<1>2. QED BY <1>1, EarlyDisplay, VesaDisplay, LateDisplay DEF Next

LEMMA DisplayInvariant == Spec => []DisplayInv
<1>1. QED BY DisplayStart, NextDisplay, PTL DEF Spec

(***************************************************************************)
(* The theorems.                                                           *)
(***************************************************************************)

\* The processor never meets a fault on the way through the boot: it takes the kernel's
\* descriptors, no interrupt can come once the loader's tables are gone, and the
\* guest's id goes only to a register that is there.
THEOREM NeverFaults == Spec => []NoTripleFault
<1>1. IInv => NoTripleFault
  BY DEF IInv, PlaceInv, NoTripleFault
<1>2. QED BY <1>1, Invariant, PTL

\* What the boot keeps and prints of the processor is what the processor told, by either
\* of the two components that ask it.
THEOREM ReportIsTrue == Spec => []CpuReport
<1>1. IInv => CpuReport
  BY Zenon DEF IInv, HypervInv, InfoInv, ReportInv, Past, CpuReport
<1>2. QED BY <1>1, Invariant, PTL

\* On every screen, whatever the loader and the command line say, loading a font leaves
\* the characters and colors on the screen alone, and the text window is mapped
\* as text afterwards.
THEOREM FontSparesText == Spec => []TextSurvivesFontLoad
<1>1. DisplayInv => TextSurvivesFontLoad
  BY DEF DisplayInv
<1>2. QED BY <1>1, DisplayInvariant, PTL

\* On a command line that asks for no resolution, with blanks wherever they may be, the
\* terminal takes the size of the text screen the loader left.
THEOREM ScreenIsKept == Spec => []DetectedIsShown
<1>1. DisplayInv => DetectedIsShown
  BY DEF DisplayInv
<1>2. QED BY <1>1, DisplayInvariant, PTL

\* The first request on any command line is the one init_vesa_with_mbi follows, and a
\* verbose boot is recognised.
THEOREM RequestIsFollowed == Spec => []RequestDecidesTerminal
<1>1. DisplayInv => RequestDecidesTerminal
  BY DEF DisplayInv
<1>2. QED BY <1>1, DisplayInvariant, PTL

\* The terminal's cells are in the text window, whatever the loader and the command line
\* say, on a card that shows text or at most 160 characters in a line of graphics.
THEOREM CellsInWindow == Spec => []TerminalFitsWindow
<1>1. DisplayInv => TerminalFitsWindow
  BY DEF DisplayInv
<1>2. QED BY <1>1, DisplayInvariant, PTL

\* On a text card every glyph fills its cell with one font, the right way round, but on
\* a screen of 80 by 50 with cells higher than 8 lines.
THEOREM CellsFilled == Spec => []GlyphsFillCells
<1>1. DisplayInv => GlyphsFillCells
  BY DEF DisplayInv
<1>2. QED BY <1>1, DisplayInvariant, PTL
=============================================================================
