----------------------------- MODULE IdeDetect ------------------------------
(***************************************************************************)
(* init_ide and ide_detect_devices of src/kernel/ide.c: the enumeration    *)
(* that fills ide_devices[] at boot, one position after the other, against *)
(* the drives of AtaBus.  One action per port access or loop of the code.  *)
(***************************************************************************)
EXTENDS AtaBus, SequencesExt

CONSTANTS Kinds,        \* what can be attached at a position
          Leftover,     \* <<lba1, lba2>> pairs the firmware may have left in
                        \* the task files
          OldDisks,     \* disks whose IDENTIFY data lacks the LBA48 bit
          SlowPacket,   \* drives that may need more than the 1 ms wait to
                        \* answer IDENTIFY PACKET
          NameOf        \* what each drive calls itself: two printable
                        \* characters for every word, padded with spaces

ASSUME DetectAssumption ==
    /\ Channels # {} /\ Channels \subseteq {0, 1} /\ 0 \in Channels
    /\ Kinds \subseteq {"none", "ata", "atapi", "floating"}
    /\ Leftover \subseteq Byte \X Byte
    /\ OldDisks \subseteq Pos
    /\ SlowPacket \subseteq Pos
    /\ Junk \notin Pos \X {"IDENTIFY", "IDENTIFY_PACKET"} \X Word
    /\ \A p \in Pos : NameOf[p] \in [1 .. 2 * SectorWords -> STRING \ {"NUL"}]

VARIABLES pc,
          channel, number,   \* the loop indices (channel, drive)
          type, cl, ch,      \* locals of the loop body
          identify_buffer,
          n,                 \* words read into it
          ide_devices,       \* the four slots
          device_count,
          nIEN,              \* channels whose device control register has nIEN
          stray              \* ports outside the two channels that were written

detector == <<pc, channel, number, type, cl, ch, identify_buffer, n,
              ide_devices, device_count, nIEN, stray>>
vars == <<bus, detector>>

here == <<channel, number>>

(***************************************************************************)
(* Port numbers.                                                           *)
(***************************************************************************)

Base(c) == IF c = 0 THEN 496 ELSE 368      \* 0x1F0, 0x170
Ctrl(c) == IF c = 0 THEN 1014 ELSE 886     \* 0x3F6, 0x376

ATA_REG_CONTROL == 12

\* The port ide_read and ide_write use for a register.
PortOf(c, reg) ==
    IF reg < 8 THEN Base(c) + reg
    ELSE IF reg < 12 THEN Base(c) + reg - 6
    ELSE IF reg < 14 THEN Ctrl(c) + reg - 10
    ELSE Base(c) + reg - 14

\* An outb of a byte with the nIEN bit: device control is at Ctrl(c).
OutNIEN(port) ==
    IF \E c \in Channels : port = Ctrl(c)
    THEN nIEN' = nIEN \cup {c \in Channels : Ctrl(c) = port} /\ UNCHANGED stray
    ELSE stray' = stray \cup {port} /\ UNCHANGED nIEN

(***************************************************************************)
(* ide_devices[].  An entry keeps where the drive is, its type, the        *)
(* IDENTIFY words the other fields are copied from, its size and its model *)
(* name.                                                                   *)
(***************************************************************************)

Slots == 0 .. 3
Zero == <<>>          \* the size 0: words are kept as where they come from
EmptySlot == [channel |-> 0, drive |-> 0, type |-> "ATA", info |-> JunkBlock,
              size |-> Zero, model |-> <<>>]

\* The word with the LBA48 bit and the capacity: one for words 83 and 60-61 of the
\* code.  A floating read has all bits.
CapacityWord(buf) == buf[SectorWords - 1]
HasLBA48(word) == word = Junk \/ word[1] \notin OldDisks
SizeOf(buf) == IF HasLBA48(CapacityWord(buf)) THEN CapacityWord(buf) ELSE Zero

\* The characters in the two bytes of a word, the first of them in the high byte.
Byte0(word) == IF word = Junk THEN "ff" ELSE NameOf[word[1]][2 * word[3] + 1]
Byte1(word) == IF word = Junk THEN "ff" ELSE NameOf[word[1]][2 * word[3] + 2]

\* The spaces at the end become terminators, like the byte after them.
ide_string_copy(src) ==
    LET chars == [k \in 1 .. 2 * SectorWords |->
                    IF k % 2 = 1 THEN Byte0(src[(k - 1) \div 2]) ELSE Byte1(src[(k - 1) \div 2])]
    IN  [k \in 1 .. 2 * SectorWords + 1 |->
           IF \E j \in k .. 2 * SectorWords : chars[j] # " " THEN chars[k] ELSE "NUL"]

\* Mutant of IsPacketSignature: only the signature of SATA drives.
IsSataPacketSignature(mid, high) == <<mid, high>> = <<105, 150>>

IsPacketSignature(mid, high) == <<mid, high>> \in {<<20, 235>>, <<105, 150>>}

\* Mutant of NextDrive: one channel too many.
NextDriveTooFar ==
    IF number = 0 THEN number' = 1 /\ pc' = "slot" /\ UNCHANGED channel
    ELSE IF channel < 2
         THEN number' = 0 /\ channel' = channel + 1 /\ pc' = "slot"
         ELSE pc' = "done" /\ UNCHANGED <<channel, number>>

\* "continue" and the end of the loop body.
NextDrive ==
    IF number = 0 THEN number' = 1 /\ pc' = "slot" /\ UNCHANGED channel
    ELSE IF channel + 1 \in Channels
         THEN number' = 0 /\ channel' = channel + 1 /\ pc' = "slot"
         ELSE pc' = "done" /\ UNCHANGED <<channel, number>>

(***************************************************************************)
(* The steps of init_ide and ide_detect_devices.                           *)
(***************************************************************************)

loop == <<channel, number>>
locals == <<type, cl, ch, identify_buffer, n>>
listing == <<ide_devices, device_count>>

\* init_ide, "Disable interrupts": ide_write(c, ATA_REG_CONTROL, 2) for each
\* channel c.
DisableInterrupts ==
    /\ pc = "init"
    /\ OutNIEN(PortOf(channel, ATA_REG_CONTROL))
    /\ IF channel + 1 \in Channels
       THEN channel' = channel + 1 /\ UNCHANGED pc
       ELSE channel' = 0 /\ pc' = "slot"
    /\ UNCHANGED <<bus, number, locals, listing>>

\* The slot gets its position before anyone knows whether a drive is there.
PrepareSlot ==
    /\ pc = "slot"
    /\ ide_devices' = [ide_devices EXCEPT ![device_count].channel = channel,
                                          ![device_count].drive = number]
    /\ type' = "ATA"
    /\ pc' = "select"
    /\ UNCHANGED <<bus, loop, cl, ch, identify_buffer, n, device_count, nIEN, stray>>

Select ==
    /\ pc = "select"
    /\ SelectDrive(channel, number, 0)
    /\ pc' = "identify"
    /\ UNCHANGED <<kind, drive, disk, dirty, loop, locals, listing, nIEN, stray>>

SendIdentify ==
    /\ pc = "identify"
    /\ IssueCommand(channel, "IDENTIFY")
    /\ pc' = "wait1ms"
    /\ UNCHANGED <<kind, selected, regs, disk, dirty, loop, locals, listing, nIEN, stray>>

\* Mutant of CheckPresence: the zero status of an absent drive is not checked.
CheckNothing ==
    /\ pc = "wait1ms"
    /\ drive[Selected(channel)].phase # "accepted"
    /\ pc' = "poll"
    /\ UNCHANGED <<bus, loop, locals, listing, nIEN, stray>>

\* The thousand control port reads, and ide_polling's four, are time enough
\* for a drive that took the command to show BSY, but not to finish it.
CheckPresence ==
    /\ pc = "wait1ms"
    /\ drive[Selected(channel)].phase # "accepted"
    /\ IF Status(channel) = {} THEN NextDrive
                               ELSE pc' = "poll" /\ UNCHANGED loop
    /\ UNCHANGED <<bus, locals, listing, nIEN, stray>>

\* Mutant of Poll: waits for DRQ, which an ATAPI drive never sets here.
PollForData ==
    /\ pc = "poll"
    /\ "DRQ" \in Status(channel)
    /\ pc' = "signature"
    /\ UNCHANGED <<bus, loop, locals, listing, nIEN, stray>>

\* ide_polling(channel, 0): err is 0 whatever the status says.
Poll ==
    /\ pc = "poll"
    /\ "BSY" \notin Status(channel)
    /\ pc' = "signature"
    /\ UNCHANGED <<bus, loop, locals, listing, nIEN, stray>>

ReadSignature ==
    /\ pc = "signature"
    /\ cl' = regs[Selected(channel)].lba1
    /\ ch' = regs[Selected(channel)].lba2
    /\ n' = 0
    /\ IF IsPacketSignature(cl', ch')
       THEN type' = "ATAPI" /\ pc' = "packet" /\ UNCHANGED loop
       ELSE /\ UNCHANGED type
            /\ IF cl' # 0 \/ ch' # 0 THEN NextDrive
                                     ELSE pc' = "read" /\ UNCHANGED loop
    /\ UNCHANGED <<bus, identify_buffer, listing, nIEN, stray>>

SendIdentifyPacket ==
    /\ pc = "packet"
    /\ IssueCommand(channel, "IDENTIFY_PACKET")
    /\ pc' = "packetWait"
    /\ UNCHANGED <<kind, selected, regs, disk, dirty, loop, locals, listing, nIEN, stray>>

\* Mutant of WaitPacket: the second 1 ms loop is missing.
NoWaitPacket ==
    /\ pc = "packetWait"
    /\ pc' = "read"
    /\ UNCHANGED <<bus, loop, locals, listing, nIEN, stray>>

\* Another 1 ms, and no look at the status.
WaitPacket ==
    /\ pc = "packetWait"
    /\ drive[Selected(channel)].phase \notin
         {"accepted"} \cup (IF Selected(channel) \in SlowPacket THEN {} ELSE {"busy"})
    /\ pc' = "read"
    /\ UNCHANGED <<bus, loop, locals, listing, nIEN, stray>>

\* ide_read_buffer
ReadIdentifyWord ==
    /\ pc = "read" /\ n < SectorWords
    /\ identify_buffer' = [identify_buffer EXCEPT ![n] = DataWord(channel)]
    /\ ReadDataPort(channel)
    /\ n' = n + 1
    /\ UNCHANGED <<kind, selected, regs, disk, dirty, pc, loop, type, cl, ch,
                   listing, nIEN, stray>>

\* Mutant of FillSlot: one word short.
FillSlotShort ==
    /\ pc = "read" /\ n = SectorWords - 1
    /\ ide_devices' = [ide_devices EXCEPT
                         ![device_count].type = type,
                         ![device_count].info = identify_buffer,
                         ![device_count].size = SizeOf(identify_buffer),
                         ![device_count].model = ide_string_copy(identify_buffer)]
    /\ device_count' = device_count + 1
    /\ NextDrive
    /\ UNCHANGED <<bus, locals, nIEN, stray>>

FillSlot ==
    /\ pc = "read" /\ n = SectorWords
    /\ ide_devices' = [ide_devices EXCEPT
                         ![device_count].type = type,
                         ![device_count].info = identify_buffer,
                         ![device_count].size = SizeOf(identify_buffer),
                         ![device_count].model = ide_string_copy(identify_buffer)]
    /\ device_count' = device_count + 1
    /\ NextDrive
    /\ UNCHANGED <<bus, locals, nIEN, stray>>

Detector ==
    \/ DisableInterrupts \/ PrepareSlot \/ Select \/ SendIdentify
    \/ CheckPresence \/ Poll \/ ReadSignature
    \/ SendIdentifyPacket \/ WaitPacket \/ ReadIdentifyWord \/ FillSlot

Drive(p) == DriveStep(p) /\ UNCHANGED detector

\* A channel floats as a whole.  Drives are idle and their registers hold what the
\* firmware left there.
Init ==
    /\ kind \in [Pos -> Kinds]
    /\ \A c \in Channels : kind[<<c, 0>>] = "floating" <=> kind[<<c, 1>>] = "floating"
    /\ selected = [c \in Channels |-> 0]
    /\ \E left \in Leftover :
         regs = [p \in Pos |-> [count |-> 0, lba0 |-> 0, top |-> 0,
                                lba1 |-> left[1], lba2 |-> left[2]]]
    /\ drive = [p \in Pos |-> IdleDrive]
    /\ disk \in [Pos -> [Sectors -> Block]]
    /\ dirty = {}
    /\ pc = "init"
    /\ channel = 0 /\ number = 0
    /\ type = "ATA" /\ cl = 0 /\ ch = 0
    /\ identify_buffer = JunkBlock /\ n = 0
    /\ ide_devices = [s \in Slots |-> EmptySlot]
    /\ device_count = 0
    /\ nIEN = {} /\ stray = {}

Next == Detector \/ \E p \in Pos : Drive(p)

Spec == Init /\ [][Next]_vars

\* The processor keeps running the detection and a drive that works on a
\* command finishes it.
FairSpec ==
    /\ Spec
    /\ WF_vars(Detector)
    /\ \A p \in Pos : WF_vars(Drive(p))

(***************************************************************************)
(* Properties.                                                             *)
(***************************************************************************)

\* Type correctness of the bus and of the driver's variables.
TypeOK ==
    /\ BusTypeOK
    /\ pc \in {"init", "slot", "select", "identify", "wait1ms", "poll", "signature",
               "packet", "packetWait", "read", "done"}
    /\ here \in Pos
    /\ type \in {"ATA", "ATAPI"} /\ cl \in Byte /\ ch \in Byte
    /\ identify_buffer \in [Word -> Content] /\ n \in 0 .. SectorWords
    /\ ide_devices \in [Slots -> [channel : Channels, drive : Drives,
                                  type : {"ATA", "ATAPI"}, info : [Word -> Content],
                                  size : Content \cup {Zero},
                                  model : Seq({"ff", "NUL"} \cup
                                              UNION {Range(NameOf[p]) : p \in Pos})]]
    /\ device_count \in 0 .. 4
    /\ nIEN \subseteq Channels

Listed == {ide_devices[s] : s \in 0 .. device_count - 1}
PosOf(e) == <<e.channel, e.drive>>
Rank(e) == 2 * e.channel + e.drive
KindOf(e) == IF e.type = "ATA" THEN "ata" ELSE "atapi"
IdentifyCommand(e) == IF e.type = "ATA" THEN "IDENTIFY" ELSE "IDENTIFY_PACKET"

\* Every listed device is attached where its entry says and has its entry's
\* type, and no position is listed twice: the entries are in the order of the
\* positions, all before the one being tried, whose slot is one of the four.  An
\* entry's position was written when its slot was first tried, for a position that
\* may have been skipped since.
ListedAreAttached ==
    /\ \A e \in Listed : kind[PosOf(e)] = KindOf(e)
    /\ \A s, t \in 0 .. device_count - 1 : s < t => Rank(ide_devices[s]) < Rank(ide_devices[t])
    /\ \A e \in Listed : pc # "done" => Rank(e) < 2 * channel + number
    /\ pc # "done" => device_count \in Slots

\* The three cases the code does not handle: it looks at no error bit, waits 1 ms
\* for an ATAPI drive whether or not the drive is ready, and takes a disk whose
\* LBA1 and LBA2 registers the firmware left non-zero for an unknown type.
Fails(p) == <<p, "IDENTIFY">> \in MayFail
Late(p) == kind[p] = "atapi" /\ p \in SlowPacket
Stale(p) == kind[p] = "ata" /\ <<regs[p].lba1, regs[p].lba2>> # <<0, 0>>

\* A name without the spaces that pad it, and what a C string shows.
Unpadded(name) == SubSeq(name, 1, SelectLastInSeq(name, LAMBDA c : c # " "))
Shown(string) == SubSeq(string, 1, SelectInSeq(string, LAMBDA c : c = "NUL") - 1)

\* The identification words of an entry (model, size, capabilities) all come
\* from the drive of the entry, by the command for its type, each in its place,
\* and the model reads as the drive calls itself.  Of a drive that failed IDENTIFY
\* or answered late, some words are what the data port returns while there is
\* nothing to read, and a late drive's own words may come after those, out of
\* place.  No entry mixes the words of two drives, or shows a neighbour's.
ListedIdentity ==
    \A e \in Listed :
      LET p == PosOf(e)
          own == [w \in Word |-> IdentifyWord(p, IdentifyCommand(e), w)]
      IN  \/ e.info = own /\ Shown(e.model) = Unpadded(NameOf[p])
          \/ Fails(p) /\ e.info = JunkBlock
          \/ Late(p) /\ \A w \in Word : e.info[w] \in {Junk} \cup {own[v] : v \in 0 .. w}

\* When detection is over every attached drive is listed, in whatever company it
\* is, and none but the stale disks is missing.
ListComplete ==
    pc = "done" =>
      \A p \in Pos : Present(p) => Stale(p) \/ \E e \in Listed : PosOf(e) = p

\* Detection leaves no drive in the middle of a command: the sector calls rely
\* on it (their first wait is for the drive selected before their own).  Only a
\* late packet drive may still be at work, and a stale disk keeps offering the
\* data nobody read.
DrivesLeftIdle ==
    pc = "done" =>
      \A p \in Pos : drive[p].phase = "idle" \/ Late(p) \/ Stale(p)

\* Detection comes to an end whatever is attached, if there is a controller.
DetectionEnds == <>(pc = "done")

\* "Disable interrupts" (ide.c:106): once init_ide is over, nIEN is set.
InterruptsDisabled == pc # "init" => nIEN = Channels
=============================================================================
