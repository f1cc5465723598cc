# HueOS: TLA+ models, checks and proofs

A verification development for the HueOS kernel (`src/`): TLA+ modules for its
stateful components, TLC configurations that check them on small instances, and
proofs checked by TLAPS. `PROJECT.json` is the machine-readable index: which
definition models which lines, what every run checks, one mutant per property,
the disagreements found, the hazards, and the theorems.

    tlc -workers 2 -config IdeSectorCalls.cfg IdeSectorMC.tla   # a run
    tlapm IdeSectorProofs.tla                                    # a proof module

## 1. The system

HueOS is a 32-bit multiboot kernel of about 3000 lines of C. It has one thread;
`boot/multiboot.asm` disables interrupts and nothing enables them. The hard
behaviour is therefore not between threads but between the processor and
devices that take steps of their own while it polls them, between components
that share a device or keep a copy of the same fact (three ideas of the screen
size, two readers of the PCI bus, two users of CPUID), in 32-bit arithmetic, in
registers that mean something only together, and in tables and loops with limits.

| Component (source) | State | Operations | Interacts with | What makes it correct |
|---|---|---|---|---|
| Sector transfers (`kernel/ide.c` 188-267) | none of its own; the drives' registers and data phases | `ide_read_sector`, `ide_write_sector`, `ide_polling` | two drives per channel that share registers and work concurrently | driver and drive agree on every word; a read that succeeds is the sector; only the named sector changes; every call returns |
| Detection (`kernel/ide.c` 87-186) | `ide_devices[4]`, `device_count` | `init_ide`, `ide_detect_devices`, `ide_string_copy` | the same drives, in whatever state the firmware left them | lists exactly the drives that are there, each with its own data, and leaves them usable |
| Memory (`kernel/memory.c`) | `placement_address`, `memory_end` | `init_memory`, `allocate_frame`, `kmalloc` | multiboot memory map, kernel image | disjoint, aligned, inside memory, up to the wrap-around of the counter; exhaustion reported and, as far, final |
| Text terminal (`kernel/terminal.c`) | cell buffer, dimensions, cursor, color | `terminal_initialize`, `terminal_putchar`, `terminal_scroll`, `terminal_set_dimensions`, ... | framebuffer console (takes over when active), display modes | the screen is the end of what was printed; nothing is written outside it |
| Framebuffer console (`kernel/framebuffer.c`) | pixels, cursor, color | `framebuffer_init`, `framebuffer_putchar`, `framebuffer_clear`, ... | boot loader's framebuffer, terminal | the same, pixel row by pixel row |
| Display modes (`kernel/vesa.c`) | the card's CRT controller, sequencer, graphics controller and planes; the sizes the two consoles believe in | `init_vesa_with_mbi`, `parse_resolution`, `detect_screen_size`, `set_80x50_mode`, `load_8x8_font` | terminal, framebuffer console, command line, multiboot information | the consoles and the card agree, and glyphs fill their cells |
| Serial log (`kernel/serial.c`) | `serial_initialized`, the chip | `init_serial`, `serial_write` | UART | every byte, once, in order; never stuck |
| SCSI scan (`kernel/scsi.c`) | `controllers[4]`, `scsi_devices[16]` | `init_scsi`, `scsi_scan_devices`, bounded waits, `scsi_string_copy` | PCI configuration space, host adapters | tables bounded, consistent, in scan order, as complete as they can be; devices listed as they told |
| Boot sequence (`boot/multiboot.asm`, `kernel/main.c`) | `kernel_verbose_mode` | `_start`, `kernel_main` | calls everything here in order | each step finds what the earlier ones left |
| Descriptor tables (`kernel/gdt.c`, `gdt_asm.asm`) | GDT, IDT and their registers | `init_gdt`, `init_idt` | processor | the processor accepts what is loaded |
| Hyper-V detection (`kernel/hyperv.c`) | `hyperv_detected`, `hyperv_features` | `init_hyperv` | CPUID, model-specific registers | found exactly where it is |
| Hardware information (`kernel/hwinfo.c`) | `cpu_info` | `detect_cpu`, `print_cpu_info`, `scan_pci_bus` | CPUID, PCI | reports the machine as it is, and as the other components see it |

**Not modelled**, and why: formatting and wording of what is printed
(`ide_print_devices`, `scsi_print_devices`, `print_memory_map`, the number
formatters): the consoles print any text, so the models of the consoles cover
it, and no state depends on it. Functions nothing calls (`print_available_modes`,
`buslogic_send_command`, `buslogic_read_data`, `buslogic_write_data`,
`scsi_execute_simple_command`, `strcmp` of main.c). The SCSI transfer stubs
(`scsi_read_sector`, `scsi_write_sector`, `scsi_read_blocks`, `scsi_write_blocks`),
which change no state. What a dereference of a wrong multiboot pointer
does (`KernelBoot` has the order in which it is used, not the memory behind
it), and the stack. The build has no run-time state; `kernel_end` of `linker.ld`
and the GRUB menu of the Makefile appear as constants.

## 2. The modules

**AtaBus** is the environment of the IDE driver: channels, the task file that a
write reaches on both drives, and drives that go idle -> accepted -> busy ->
idle or a data phase, in their own time and with failures where `MayFail`
allows. It is external: nothing of it is in `src/`. It contains what the driver
relies on, in these assumptions: an absent drive reads as status 0; a channel
without controller floats to all ones; a busy drive or one in a data phase
ignores commands; a drive that fails a command does not offer data; a drive
shows BSY within 400 ns of taking a command.

**IdeSector** EXTENDS it with one action per port access (or per loop of them)
of `ide_read_sector` and `ide_write_sector`; `pc` is the program point, and
`Begin` takes any call with any arguments. A loop that spins on a status bit is
an action guarded by the bit, so a loop that cannot end is a deadlock, and
deadlock is checked. **SectorStore** is the abstract specification: a call is
invoked, takes effect at one moment between invocation and return, and replies;
where a drive may lose a block it has taken, a write may report success in vain.
`IdeSector!Store` instantiates it with a refinement mapping in which a write
takes effect when the drive stores the sector. **IdeSectorProofs** has the theorems
about IdeSector, **IdeSectorRefinementProofs** that of the refinement.

**IdeDetect** EXTENDS AtaBus with `init_ide` and `ide_detect_devices`, including
the port arithmetic of `ide_write`. IDENTIFY data are words that say which drive
and which command they came from and which word of the 256 they are, so that
"the right identity" and a shift by a word can be stated; `ide_string_copy` turns
the bytes of the words round, ends the model name and trims it.

**PlacementAllocator** models `memory.c` with addresses modulo `WordMod` (2^32 in
the code), the walk over the memory map one entry at a time, and as history the list of
everything handed out (`granted`), the last request and its answer (`last`), and whether
the requests, refused ones included, have added up to the address space (`wrapped`).
**RegionAllocator** is the abstract specification: memory between a start and a limit
learned once; a request is given a region that is aligned and apart from the
others, or it is refused because this very request does not fit above them with
a byte to spare, or because one was refused before; and nothing is promised once
the requests add up to more than the address space has. `PlacementAllocator!Regions`
instantiates it; the limit is unknown until init_memory is over. **PlacementAllocatorProofs**
has the theorems, that of the refinement among them.

**Teletype** says what a console promises: text goes onto a roll of paper of the
screen's width, and the screen shows the last rows. **TextTerminal** has the
operations of `terminal.c` cell by cell, **FramebufferConsole** those of
`framebuffer.c` with one model column per eight pixels and every pixel row; both
carry the paper as history and are compared with it. **Console** composes them: the
loader gave an RGB framebuffer or not (`rgb`), `terminal_initialize` and
`terminal_putchar` go to one of the two, `terminal_setcolor` and
`terminal_set_dimensions` change the terminal's variables in either case.

**SerialPort** models the loopback test, the wait for the transmitter, the
carriage returns, and a chip that sends at its own pace.

**PciBus** has configuration space as a function from bus, slot, function and
register, devices that ignore the function number and slots with holes, the two
sets of access functions (of `scsi.c` and of `hwinfo.c`) and `scan_pci_bus`.
**ScsiScan** EXTENDS it with the walk of `init_scsi`, the two waits for an adapter,
the target walk and the listing of a verbose boot, with the sizes of both tables
as constants. The inquiry record is a function from offsets to characters, because
each of its texts is written with a terminator that lands in the next field.

**DisplayModes** and **CpuSetup** have the steps of the boot that change the display
and the processor, **KernelBoot** runs them in the order of `_start` and
`kernel_main`. DisplayModes: for any command line (a text, with blanks wherever they
may be), any mode
the loader may leave and any multiboot framebuffer information, the registers
written and the bytes of the font that reach each plane. The VGA is external: six
registers of the CRT controller and the lock on registers 0-7; which planes and
addresses a write reaches with the sequencer and graphics controller as they
are. CpuSetup: the descriptors byte by byte, the loads of the segment registers,
the CPUID leaves of `hyperv.c` and of `hwinfo.c`. The processor is external: it
goes into reset when a descriptor does not allow its load or an unknown
model-specific register is written, because `init_idt` leaves no gate present;
a processor in reset takes no step.

Modules ending in MC hold the instances, those ending in Proofs the theorems of
section 4. Operators marked "Mutant of" are
plausible slips in the code; each is used to show that a property notices.

## 3. The runs

Runs that pass:

| Run | Shows | Instance, and why it is enough |
|---|---|---|
| IdeSectorCalls | `DataPortDiscipline`, `IdleBetweenCalls`, `ReadsAreTrue`, `OnlyTheNamedSector`, `ImplementsStore`, `CallsReturn` | One channel (the channels share nothing), two positions with every combination of disk, ATAPI drive and nothing, sectors of two words (first and last), addresses that differ only above bit 24 or lie beyond the disk, every stage of every command able to fail, the storing of a block on one drive only so that the other shows the full promise. Calls repeat without bound. |
| IdeDetectList | `ListedAreAttached`, `ListedIdentity`, `ListComplete`, `DrivesLeftIdle`, `DetectionEnds` | Both channels with every combination of drives; an old, a failing and a slow position and a sound one; names with blanks at the end and in the middle; registers as after a reset and as the firmware leaves them. |
| AllocatorSafety | `NoOverlap`, `WithinMemory`, `MemoryEndIsTop`, `ExhaustionIsFinal`, `ImplementsRegions` | Memory maps of up to a few entries and `mem_upper`, one of each beyond the address space, 64 bytes of address space; sizes of which one alone, two or several wrap the counter around. Callers with `MaxGranted` regions stop; refused requests are unbounded, so the counter goes round as often as it may. |
| ConsoleScreen | `CursorOnScreen`, `ScreenShowsPaper`, `NoWriteBeyondScreen` | With and without a framebuffer. A 3 by 2 text screen that turns narrower, taller, wider, lower or into a single cell at any time, two colors; or a framebuffer of two rows of three columns with a spare pixel row and column and all control characters. Text until `MaxRows` rows of paper (`MaxRowsDrawn` on the framebuffer), so that both scroll. |
| SerialLine | `Lossless`, `WritesReturn` | Texts with and without line ends up to `MaxAsked` bytes, healthy and faulty chips. |
| ScsiTables | `CountsAgree`, `ListIsScanOrder`, `ReadyAdaptersRegistered`, `DevicesAsTold`, `ListingAgrees`, `ScanEnds` | Three buses of two slots with three functions, two buses listed; anything in four of the slots, a device that answers for every function, a slot with a hole and an adapter that is not function 0 among it; tables of two and three, so that both overflow; texts that fill their field and texts with blanks. |
| KernelBoot | `TerminalFitsWindow`, `DetectedIsShown`, `RequestDecidesTerminal`, `GlyphsFillCells`, `TextSurvivesFontLoad`, `NoTripleFault`, `CpuReport` | The modes of the GRUB menu and of the documents, text modes with more than 256 and 512 lines, graphics modes with and without a framebuffer the loader tells of; requests under both keys for every mode, near misses, words around them that contain a key or are none, two requests; a text screen of 80 by 50 with high cells and graphics registers of 200 by 100; five processors, with Hyper-V, another hypervisor, none, a hypervisor bit without Hyper-V's signature and no leaf 1. All of it in every combination: the code runs once and straight through. |

Each also checks the module's `TypeOK`, except KernelBoot. `CHECK_DEADLOCK FALSE` is set
only where the program or its callers stop: detection, the scans and the boot
end, and callers of the allocator and the consoles stop at a bound.

Runs that find the program at odds with its own comments or documents (quoted,
with the line, in `PROJECT.json`, `findings`):

| Run | What it shows |
|---|---|
| IdeLateFault | `ide_write_sector` returns "Success" without looking at the outcome of the write |
| IdeFloating | without a controller, detection never ends |
| IdeControlPort | "disable interrupts" writes to COM1's and LPT1's data ports |
| AllocatorKernelImage | the heap starts inside the kernel image |
| KernelBootRequest | `res=80x50`, "double the lines", gives the card 50 rows and leaves the terminal with 25 |

### Where a property stops short

These are disagreements that the properties above make room for; each is named in
the property, in an assumption or in a model's comment.

- `ide_write_sector` sends CACHE FLUSH while the drive is still storing the
  sector (`ide.c:263`), and a busy drive ignores it: the refinement promises a
  stored sector, not a flushed one (`dirty` keeps track of it).
- Detection lists a drive that aborts IDENTIFY, because `ide_polling(channel, 0)`
  reports no error (`ide.c:147`), and reads an ATAPI drive's words after a fixed
  1 ms (`ide.c:156`): `ListedIdentity`. It skips a disk whose LBA1/LBA2 registers
  the firmware left non-zero (`ide.c:158`): `ListComplete`. A disk without 48-bit
  addressing gets size 0 (`ide.c:172`): `SizeOf`.
- `placement_address += size` wraps (`memory.c:53`) and then passes the check for
  exhaustion. A refused request moves the counter all the same, so one that is too
  large ends all allocation, and further ones, refused too, bring the counter round
  until a request is granted again, perhaps with memory somebody has.
  `NoOverlap`, `WithinMemory` and `ExhaustionIsFinal` say what holds until then
  (`wrapped`), `ImplementsRegions` where the promise ends (`Lapse`). A request that
  would end exactly at `memory_end` is refused (`memory.c:37`, `memory.c:55`): `Fits`
  asks for a byte to spare. A region that ends above 4 GB is compared in 64 bits
  and stored in 32 (`memory.c:19`): `MemoryEndIsTop`; 4 GB of `mem_upper` make a small
  product (`memory.c:26`), which `WithinMemory` takes as it is. Frames are not page
  aligned after a heap block (`memory.c:34`).
- A terminal that grows shows cells nobody cleared (`terminal.c:124`):
  `intact` in `TextShowsPaper`. A 24-bit framebuffer is accepted and stays
  black (`framebuffer.c:112`): the instance has 32 bits. On one that is lower than a
  character `text_rows - 1` is 2^32 - 1 (`framebuffer.c:63`): `FramebufferAssumption`.
- A healthy UART that needs longer than one port access to loop the test byte back
  is declared faulty (`serial.c:17`): `ReadTestByte`.
- INQUIRY goes to targets 0-7 under a comment that says 0-15 (`scsi.c:281`):
  `TargetsScanned`. An LSI controller is announced and not registered
  (`scsi.c:240`), and so is any adapter that is not function 0 of its slot:
  `Adapter`. The early exit from the walk (`scsi.c:251`) is never taken. The
  terminator after the last text of the inquiry record lands one byte behind the
  record (`scsi.c:27`; offset 36 in `scsi_inquiry`). The device count is printed as
  one character, which is no digit from ten on (`scsi.c:337`).
- "All PCI devices" (`docs/IDE_AND_HARDWARE.md:19`) are those on the first eight
  buses, and a device that ignores the function number is listed once for each:
  `ListingAgrees`.
- `res=80x50` changes the card and not the terminal (`vesa.c:355`), which
  `KernelBootRequest` shows; `RequestDecidesTerminal` makes room for it. A request
  is found anywhere in a word and matches a mode that is only its beginning
  (`vesa.c:338`): `bres=1` hides a request after it, and `res=80x250` is taken for
  80x25. `FirstRequest` counts whole words.
- With a graphics framebuffer the framebuffer console has fixed its size before the
  request is read (`vesa.c:409`). For 640x400 the log says "switching to VGA 80x50
  text mode" (`vesa.c:471`), but only the CRT controller is written: the card
  stays in graphics, and the framebuffer console goes on receiving the text.
  `TextCard` restricts the properties about the picture to cards in text mode.
- A mode of 200 by 100 cells passes the kernel's test and is larger than the text
  window: `ScreenAssumption` has text screens that fit it. On a card that shows graphics
  the same test reads a size out of the CRT controller that no text has, of up to 200
  by 100 cells too (`vesa.c:267`): `TerminalFitsWindow` is about cards that show text
  or count at most 160 characters in a line.
- Where the loader tells of a text screen of 80 by 50 the 8x8 font is loaded, whatever
  the height of its cells, which stays as it is (`vesa.c:510`); where the size is read
  out of the registers no font is loaded. Cells higher than 8 lines are then not
  filled in the first case: `FiftyHigh` in `GlyphsFillCells`.
- A stepping of ten or more is printed as its last digit (`hwinfo.c:69`):
  `PrintIsTrue`.
- The multiboot information is used twice before its magic number is checked
  (`main.c:39`, `main.c:46`): `InitFramebuffer` and `InitVesa` come before
  `BadMagic`.

### Fairness

`IdeSector!FairSpec` and `IdeDetect!FairSpec` assume weak fairness of the processor
(it has one thread and executes on) and of each drive (a drive that works on a
command finishes it, well or badly). Nobody is assumed to make a call.
`SerialPort!FairSpec` assumes the same of the processor and of the chip's
transmitter, `ScsiScan!FairSpec` of the processor alone: its waits are bounded
in the code. The code justifies no more: a device that stays silent for ever
does hang it, which `IdeFloating` shows.

### Assumptions of the instances

Callers of the sector functions pass numbers below 2^28; the code drops the bits
above, which the address arithmetic of the model reproduces. `ScreenAssumption` (text
screens fit the text window), `FontAssumption`, `PictureAssumption`, `LineAssumption` (a command line is a text),
`DetectAssumption`, `PciAssumption`, `ScsiAssumption` (the texts have the lengths of
their fields and contain no terminator) and
`ConsoleAssumption` (a framebuffer of at least one character) are checked by the runs. `SlowPacket`, `OldDisks`, `Leftover` and `MayFail`
say which drives deviate from what the code takes for granted.

## 4. The proofs

### Sector transfers

`IdeSectorProofs` and `IdeSectorRefinementProofs` prove, for any channels, words in
a sector, sectors, blocks and drives, and with any stage of any command failing
(`MayFail` is arbitrary), under

    Lba28 == \A lba \in Lbas : lba < 268435456

(callers pass sector numbers of 28 bits; `ide.c:204` drops the others, and reads
would then be of another sector):

| Theorem | Property |
|---|---|
| `SectorTypes` | `TypeOK` |
| `DataPort` | `DataPortDiscipline` |
| `IdleDrives` | `IdleBetweenCalls` |
| `TrueReads` | `ReadsAreTrue` |
| `NamedSectorOnly` | `OnlyTheNamedSector` (an action property) |
| `SectorsRefineStore` | `ImplementsStore` (the refinement of SectorStore) |

None of them is inductive: what a read returns depends on what the drive put into
its buffer, on the address it latched when it took the command, and on the task
file having been written for it. The invariant `IInv` says where the drive of the
call can be at each program point (`Phase`): with nothing to do, started on the
call's own command and address, offering the sector of which the first i words are
already in the caller's buffer, taking a block whose first i words are the
caller's, storing it, or flushing. `QuietInv` adds that every other drive is idle,
and that this one is idle until the command is sent; `CallInv` that the task file
holds the address, first its top four bits and then all of it; `DrivesSound` that
what works is a drive and shows no error of an earlier command. `SplitAddress` is the
arithmetic: a 28-bit number cut into three bytes and four bits is put together
again by the drive. There is one lemma per action.

For the refinement, each action is shown to be a step of the store or unseen by it:
`Begin` invokes, `CommitSector` applies or loses the block (`StoreApplied` changes
nowhere else during a call), `Check`, `EndTransfer` and `FinishWrite` reply.

### The allocator

`PlacementAllocatorProofs` proves, for every word size, page size, memory map,
request and start address allowed by `AllocatorAssumption`, wrap-around included:

| Theorem | Property |
|---|---|
| `TypeCorrect` | `TypeOK` |
| `Disjoint` | `NoOverlap` |
| `Inside` | `WithinMemory` |
| `Aligned` | `GrantedAligned`: heap blocks and frames start at multiples of 4, also after a wrap-around |
| `RefusedForGood` | `ExhaustionIsFinal` (an action property) |
| `AllocatorRefinesRegions` | `ImplementsRegions` (the refinement of RegionAllocator) |
| `TopFound` | `MemoryEndIsTop` |

`NoOverlap` is not inductive: it says nothing of the counter, so a new block
might overlap an old one. The invariant `IInv` adds `AlignInv` (the counter is a
multiple of four, wrapped or not), `WaitInv` (nothing was granted or refused before the
memory size was known) and `CounterInv`: until it wraps around, the counter is at or
above its start, every region handed out ends at or below it, and once a request
was refused it is at or beyond `memory_end`. `Advance`, the step that
`allocate_frame` and `kmalloc` share, has two lemmas, `AdvanceTypes` for what holds
whatever it wraps to and `AdvanceIInv` for what holds before; `RoundedIsWhole` says
when rounding up a word is rounding up a number; the others are arithmetic.

For the refinement `TopInv` adds that, until a
request is refused or the counter wraps around, the counter is exactly the end of some
region rounded up: without it a refusal could not be shown to be justified.
`AdvanceRefines` then maps each call to a `Request` of its size that is granted or
refused, and `AdvanceLapses` the one that wraps the counter around to `Lapse`; what the
calls after it do is not restricted (`Lapsed`). For `TopFound`,
`WalkInv` says that after k entries memory_end is the highest end among the
available ones of them, as long as every end fits into a word.

### The consoles

`ConsoleProofs` proves, for every size of both screens, every set of dimensions that
fits the text window and every text (`ConsoleAssumption`, `TerminalAssumption`):

| Theorem | Property |
|---|---|
| `ConsoleTypes` | `TypeOK` |
| `CursorsOnScreen` | `CursorOnScreen` |
| `WritesInside` | `NoWriteBeyondScreen` (an action property) |
| `ScreenIsTrue` | `ScreenShowsPaper`, where `F!Drawable` |

`CursorOnScreen` needs the types (a row number is compared with an unsigned height)
and each write needs the cursor on the screen and the screen inside the window
(`FitInv`), so `IInv` is the three together. `CellInside` is the arithmetic of
row * width + column; one lemma per operation shows that the cursor it leaves is on
the screen, the scroll and a change of dimensions included.

`F!Drawable` says that the framebuffer has 16 or 32 bits per pixel; with 24 nothing is
ever drawn, and the statement is false. `ScreenShowsPaper` is proved from `ShowsInv`,
inductive together with `IInv`. It has a half for each console, and each half
says that the paper is one of the screen's width (`PaperOK`), that the cursor is where
the paper stands, and that every place of the screen shows what the paper has there;
that of the framebuffer also that the strip below the last row and the columns
right of the last are blank (`Margins`), because a scroll moves the strip into the
text. The paper has lemmas of its own: `FreshIs`, `TypedIs`, `MovedIs` and `FeedIs`
say what each of its operations does to what a screen of any size shows of it, with
the moment when the first row leaves the screen in `FeedIs`. `NextRowShows` and
`FeedDraws` put the two scrolls next to `FeedIs`, `EntryShows` and `CharDraws` a
character next to `TypedIs`; that it changes no other place of the screen is
`CellsDiffer`. `SameStop` shows that the tab of the code, which masks bits, and that
of the paper, which divides, stop at the same column.

### Detection

`IdeDetectProofs` proves, for one channel or two, any words in the identification
data, any drives, failing and late ones among them, and any names, under

    Unsigned == \A left \in Leftover : ~IsPacketSignature(left[1], left[2])

(the firmware left no packet signature in the registers of a disk, which
`ide.c:153` would take for an ATAPI drive):

| Theorem | Property |
|---|---|
| `TypeCorrect` | `TypeOK` |
| `EntriesAttached` | `ListedAreAttached` |
| `EntriesIdentify` | `ListedIdentity` |
| `EveryDriveListed` | `ListComplete` |
| `DrivesIdleAfterwards` | `DrivesLeftIdle` |

`IInv` has the two loops as a walk over positions in order (`Order`, `Turn`). For each
position `PositionsInv` says what its drive can be doing whatever the driver does
(`Sound`: it was asked to identify itself and nothing else, and offers its own words),
that nothing has happened to those ahead, and that those behind are idle and
listed, but for the late and the abandoned ones. `Together` has the drive being
tried and the driver in step at every program point: `Identifying` up to the look at
the registers, `Packing` after the second command, and `Reading`, in which the n words
read so far are the first n of the drive's own, or junk if it failed. `EntriesInv`
says that every entry is true of its drive and that the entries are in the order
of the walk, so that no drive is listed twice. A drive may take a step between any
two of the driver's; each such step has a lemma too.

### The serial log

`SerialPortProofs` proves, for every text, every depth of the transmitter and a chip
that is faulty or not:

| Theorem | Property |
|---|---|
| `SerialTypes` | `TypeOK` |
| `LineIsLossless` | `Lossless` |

What a text becomes on the line is stated without recursion: the character at i goes
to i plus the number of line ends up to it (`PlaceOf`), and what is before a line end
is a carriage return. The invariant adds to `Lossless` where in a call the driver is
(`Place`): a text is left only inside `serial_write`, the carriage return is remembered
only in front of a line end, and nothing is in the transmitter before the port
works. The lemmas are about `PlaceOf`: it grows, by two over a line end, and
sending the first character of a text takes exactly its part off the front.

### The boot

`KernelBootProofs` proves, for every machine `MachineAssumption` allows (any CPUID leaves,
vendor, signature and hypervisor; the guest-id register exists exactly where
Hyper-V announces itself), every screen, command line and font:

| Theorem | Property |
|---|---|
| `NeverFaults` | `NoTripleFault` |
| `ReportIsTrue` | `CpuReport` |
| `FontSparesText` | `TextSurvivesFontLoad` |
| `ScreenIsKept` | `DetectedIsShown` |
| `RequestIsFollowed` | `RequestDecidesTerminal` |
| `CellsInWindow` | `TerminalFitsWindow` |
| `CellsFilled` | `GlyphsFillCells` |

`PlaceInv` says where the boot is, that the processor still runs, that interrupts are off
from `_start` on and which tables are loaded; `HypervInv`, `InfoInv` and
`ReportInv` say what `hyperv.c` and `hwinfo.c` have kept of CPUID and printed so far. The steps
that need work are the loading of the descriptors, computed from the bytes `gdt_set_gate`
writes, `detect_hyperv`, whose signature must be put together in the order
that MicrosoftHv is stored in, and `detect_cpu`, whose shifts and masks cut family,
model and stepping out of the signature (`ThreeDigits`).

The display changes in one step of the boot only, `InitVesa`, and `BeforeVesa` says what it finds:
the card as the loader left it for some screen, the consoles with the sizes they
start with. The work is in what that step does. From the registers,
`detect_screen_size` computes the size the loader's screen has, its height put together
from two registers and divided by what a third one holds (`ScreenIsShown`,
`SizeDetected`); the registers `set_80x50_mode` writes, the lock undone first, make 50
rows of 8 lines (`FiftyRows`); the font's bytes reach plane 2 and not those of characters and colors
(`FontLoaded`, `FontFills`). On the command line,
`parse_resolution` looks for a key anywhere and the property speaks of words between
blanks: `FirstKey`, `InAWord` and `Taken` lead from the first occurrence of the
key to the word that has it, and `KeysDiffer` and `OneName` show that the key and the name
of a mode found there are the only ones that fit.

### The SCSI scan

`ScsiScanProofs` proves, for every bus (`PciAssumption`: any functions with any bytes in
their registers), every number of slots and targets and every size of both tables:

| Theorem | Property |
|---|---|
| `ScanTypes` | `TypeOK` |
| `TablesAgree` | `CountsAgree` |
| `ScanOrder` | `ListIsScanOrder` |
| `AdaptersFound` | `ReadyAdaptersRegistered` |
| `DevicesTold` | `DevicesAsTold` |
| `ListingTold` | `ListingAgrees` |

The invariant has three parts: `TypeInv` (a controller's I/O base is sixteen bits and
not 0, its line eight bits: `PortsAndLine`), `TargetInv` (the targets asked are exactly those the two loops
have passed, the list is in their order, the counts are the sizes of the parts of the
list) and `SlotInv` (an adapter passed by and not registered has a full table in front
of it). `TablesSame` covers every step that changes neither table.
For the texts, the inquiry record is followed through three copies: each terminator
that is written into the next field is overwritten by the copy after it, and what is
shown of a field ends at its last character that is no blank. For the listing,
`ListInv` says that it has the lines of the places looked at so far, in the order of
bus, slot and function, which quotients and remainders of the place give back
(`Division`), and that registered controllers are still adapters at function 0.

### Only model-checked

- liveness under fairness (`CallsReturn`, `DetectionEnds`, `WritesReturn`, `ScanEnds`):
  out of the prover's reach. Every other property of the passing runs is a theorem.
- The hypotheses `Lba28`, `Unsigned` and `F!Drawable` are explained above; the instances
  of the runs satisfy all of them.

## 5. Plan

Done: AtaBus, IdeSector, SectorStore, IdeDetect; PlacementAllocator, RegionAllocator;
Teletype, TextTerminal, FramebufferConsole, Console; SerialPort; PciBus, ScsiScan;
DisplayModes, CpuSetup, KernelBoot; and the proofs of each component.

Left to model:

1. IdeSystem: detection followed by sector calls on the drives it lists
2. the stray byte that `init_ide` puts into the serial log (IdeDetect and SerialPort
   share COM1's data port)

Proofs still worth having: that the loops of detection and of the SCSI scan make
progress, as action properties of a measure, which would leave only the fairness
to TLC.
