----------------------------- MODULE KernelBoot -----------------------------
(***************************************************************************)
(* _start and kernel_main: src/boot/multiboot.asm and src/kernel/main.c.   *)
(* One action per call that changes the state of the display or of the     *)
(* processor; the calls in between (init_serial, init_memory, init_ide,    *)
(* ide_detect_devices, init_scsi, scsi_scan_devices and what is printed)   *)
(* belong to the modules of those components and leave this state alone.   *)
(***************************************************************************)
EXTENDS DisplayModes, CpuSetup

VARIABLES pc,
          magic,                 \* the loader passed the multiboot magic number
          kernel_verbose_mode

vars == <<pc, magic, kernel_verbose_mode, display, processor>>

\* A screen is one the registers have room for, and a text screen fits the text window.
ASSUME ScreenAssumption ==
    \A s \in Screens :
      /\ s.cols \in 1 .. 256 /\ s.lines \in 1 .. 1024 /\ s.cell \in 1 .. 32
      /\ s.text => s.cols * (s.lines \div s.cell) <= TextWindow

ASSUME FontAssumption ==
    Glyphs \subseteq 0 .. 255 /\ font_8x8 \in [0 .. 127 -> [0 .. 7 -> 0 .. 255]]

ASSUME PictureAssumption == Pictures \subseteq (1 .. 65535) \X (1 .. 65535)

ASSUME LineAssumption == Lines \subseteq Seq(STRING)

Init ==
    /\ pc = "_start"
    /\ magic \in BOOLEAN
    /\ kernel_verbose_mode = FALSE
    /\ DisplayInit /\ CpuInit

Verbose == <<"v", "e", "r", "b", "o", "s", "e">>

\* From one step of the boot to the next.  A processor in reset takes none.
Step(from, to) ==
    /\ cpu = "runs" /\ pc = from
    /\ pc' = to
    /\ UNCHANGED magic

Quiet(from, to) == Step(from, to) /\ UNCHANGED kernel_verbose_mode

_start ==
    /\ Quiet("_start", "framebuffer")
    /\ interrupts' = FALSE
    /\ UNCHANGED <<machine, cpu, gdtr, idtr, gdt_entries, idt_entries, hyperv_detected,
                   hyperv_features, cpu_info, report, display>>

InitFramebuffer ==
    /\ Quiet("framebuffer", "vesa")
    /\ framebuffer_init /\ UNCHANGED processor

\* The multiboot information is used before its magic number is looked at.
InitVesa ==
    /\ Quiet("vesa", "magic")
    /\ init_vesa_with_mbi /\ UNCHANGED processor

\* kernel_main returns to _start, which halts.
BadMagic ==
    /\ ~magic /\ Quiet("magic", "halted")
    /\ UNCHANGED <<display, processor>>

CheckVerbose ==
    /\ magic /\ Step("magic", "gdt")
    /\ kernel_verbose_mode' = strstr_check(cmdline, Verbose)
    /\ UNCHANGED <<display, processor>>

InitGdt == Quiet("gdt", "idt") /\ init_gdt /\ UNCHANGED display
InitIdt == Quiet("idt", "hyperv") /\ init_idt /\ UNCHANGED display
InitHyperv == Quiet("hyperv", "hwinfo") /\ init_hyperv /\ UNCHANGED display
InitHwinfo == Quiet("hwinfo", "report") /\ detect_cpu /\ UNCHANGED display

\* print_detailed_hardware_info, in verbose mode, and the final loop of hlt.
Report ==
    /\ Quiet("report", "halted")
    /\ IF kernel_verbose_mode THEN print_cpu_info ELSE UNCHANGED processor
    /\ UNCHANGED display

Next ==
    \/ _start \/ InitFramebuffer \/ InitVesa \/ BadMagic \/ CheckVerbose
    \/ InitGdt \/ InitIdt \/ InitHyperv \/ InitHwinfo \/ Report

Spec == Init /\ [][Next]_vars

(***************************************************************************)
(* Properties.                                                             *)
(***************************************************************************)

\* The modes are set: from here on the kernel prints.
Shown == pc \notin {"_start", "framebuffer", "vesa"}

\* The card shows text, by its miscellaneous register.
TextCard == Bit(gc[6], 0) = 0

\* Where the words of the command line start, and the word from there to the next
\* blank.
Blank == " "
WordStarts == {p \in DOMAIN cmdline : cmdline[p] # Blank /\ (p = 1 \/ cmdline[p - 1] = Blank)}
WordFrom(p) ==
    SubSeq(cmdline, p, Min({q \in p .. Len(cmdline) : q = Len(cmdline) \/ cmdline[q + 1] = Blank}))

\* A request, as the documents describe it: a word of its own that names a mode.
Request(i) == {Res \o text_modes[i].name, Resolution \o text_modes[i].name}
Asks(w) == strstr_check(w, Res) \/ strstr_check(w, Resolution)

\* The first word with a value for the resolution is a request for mode i.
FirstRequest(i) ==
    \E p \in WordStarts :
      WordFrom(p) \in Request(i) /\ \A m \in WordStarts : m < p => ~Asks(WordFrom(m))

\* The terminal never uses more cells than the text window has, whatever the loader's
\* information and the command line say, on a card that shows text or that counts
\* at most 160 characters in a line of graphics.  Registers that count 200 by 100
\* pass the validation (vesa.c:267) and give the terminal 20000 cells.  With a
\* framebuffer the terminal writes no cells (Console).
TerminalFitsWindow ==
    ~active /\ (TextCard \/ ScreenCols(crtc) <= 160) => VGA_WIDTH * VGA_HEIGHT <= TextWindow

\* Without a request the terminal has the size of the text screen the loader left,
\* whether the loader tells it or the card's registers are read, if that is a
\* size the kernel accepts.
DetectedIsShown ==
    Shown /\ TextCard /\ (\A p \in WordStarts : ~Asks(WordFrom(p)))
          /\ Reasonable(ScreenCols(crtc), ScreenRows(crtc))
      => VGA_WIDTH = ScreenCols(crtc) /\ VGA_HEIGHT = ScreenRows(crtc)

\* A request decides wherever it stands on the command line and whatever the loader
\* says of the screen: the terminal gets the size asked for or, where the mode
\* is one the kernel can set, a text card shows it.  A verbose boot is
\* recognised on the same line.
RequestDecidesTerminal ==
    /\ \A i \in DOMAIN text_modes : Shown /\ FirstRequest(i) =>
         IF text_modes[i].width = 80 /\ text_modes[i].height = 50
         THEN TextCard => ScreenRows(crtc) = 50
         ELSE VGA_WIDTH = text_modes[i].width /\ VGA_HEIGHT = text_modes[i].height
    /\ pc = "gdt" /\ (\E p \in WordStarts : WordFrom(p) = Verbose) => kernel_verbose_mode

\* The glyph the card shows at line y of a cell for g, left to right.
Shape(g, y) == planes[2][GlyphAddress(g, y)]

\* A screen of 80 by 50 with cells higher than the 8 lines of the kernel's font, which is
\* loaded all the same if the loader tells the size (vesa.c:510).
FiftyHigh == ScreenCols(crtc) = 80 /\ ScreenRows(crtc) = 50 /\ CellHeight(crtc) # 8

\* On a text card every glyph fills its cell with one font, after any switch: lines of
\* the loader's font where that is as high as the cell, or lines of the kernel's
\* own, the right way round.  Not so with 80 by 50 cells that are higher than 8.
GlyphsFillCells ==
    Shown /\ TextCard /\ ~FiftyHigh => \A g \in Glyphs :
      \/ \A y \in 0 .. CellHeight(crtc) - 1 : Shape(g, y) = -CellHeight(crtc)
      \/ /\ CellHeight(crtc) = 8
         /\ \A y \in 0 .. 7, x \in 0 .. 7 :
              Bit(Shape(g, y), 7 - x) = Bit(font_8x8[IF g < 128 THEN g ELSE 0][y], x)

\* Loading a font touches neither characters nor colors on the screen, and afterwards
\* the text window is mapped as text again.
TextSurvivesFontLoad ==
    /\ \A p \in {0, 1}, a \in Addresses : planes[p][a] = 0
    /\ Shown /\ TextCard => /\ seq[2] = 3 /\ Bit(seq[4], 2) = 0
                            /\ Bit(gc[5], 4) = 1 /\ (gc[6] \div 4) % 4 = 3

\* The processor meets no fault, there being no gate to take one, and interrupts
\* are off from the first instruction for which the loader's own tables are
\* no longer in use.
NoTripleFault ==
    /\ cpu = "runs"
    /\ interrupts => gdtr = LoaderTable /\ idtr = LoaderTable

\* What was kept of a processor that tells its version and its features, and of one
\* that tells nothing but its vendor: family, model and stepping are the three
\* last hexadecimal digits of the signature.
InfoIsTrue ==
    IF machine.leaves = 0 THEN cpu_info = [NoInfo EXCEPT !.vendor = machine.vendor]
    ELSE /\ cpu_info.vendor = machine.vendor
         /\ {cpu_info.family, cpu_info.model, cpu_info.stepping} \subseteq 0 .. 15
         /\ 256 * cpu_info.family + 16 * cpu_info.model + cpu_info.stepping
              = machine.signature % 4096
         /\ cpu_info.features_edx = machine.edx
         /\ cpu_info.features_ecx = machine.ecx

\* What was printed is what was kept, but for the last digit of a stepping above 9 and
\* for features without a name.
PrintIsTrue ==
    /\ report.vendor = cpu_info.vendor
    /\ report.family = cpu_info.family /\ report.model = cpu_info.model
    /\ report.stepping = cpu_info.stepping % 10
    /\ report.features_edx = cpu_info.features_edx \cap KnownEdx
    /\ report.features_ecx = cpu_info.features_ecx \cap KnownEcx

\* What the boot knows and prints of the processor is what the processor is, although
\* hyperv.c and hwinfo.c ask it separately, each in its own order of
\* registers: the vendor, the version, every feature, and Hyper-V with its
\* services exactly where it is.
CpuReport ==
    pc = "halted" /\ magic =>
      /\ InfoIsTrue
      /\ hyperv_detected <=> machine.osid
      /\ hyperv_features = IF machine.osid THEN machine.services ELSE {}
      /\ kernel_verbose_mode => PrintIsTrue

\* "High resolution - double the lines": the terminal uses the size that was requested.
RequestedSizeUsed ==
    \A i \in DOMAIN text_modes : Shown /\ TextCard /\ FirstRequest(i) =>
      VGA_WIDTH = text_modes[i].width /\ VGA_HEIGHT = text_modes[i].height
=============================================================================
