------------------------------- MODULE AtaBus -------------------------------
(***************************************************************************)
(* The ATA channels and drives that src/kernel/ide.c talks to.  This is    *)
(* the environment of the driver: it is not in the repository, and what is *)
(* written here is what the driver relies on: the registers of ide.h, the  *)
(* status bits ide_polling looks at, and the commands the driver sends.    *)
(*                                                                         *)
(* A channel carries two drives.  A host write to a task-file register     *)
(* reaches both of them; the status and data registers are those of the    *)
(* selected one.  A drive that takes a command goes through                *)
(*                                                                         *)
(*    idle -> accepted -> busy -> idle | dataIn | dataOut                  *)
(*                                                                         *)
(* where "accepted" is the time (up to 400 ns) in which the status         *)
(* register still shows the bits of the previous command.                  *)
(***************************************************************************)
EXTENDS Integers, FiniteSets

CONSTANTS Channels,      \* channel numbers ({0, 1} in the code)
          SectorWords,   \* 16-bit words in a block (256 in the code)
          Sectors,       \* the addresses the disks have
          Data,          \* the words a sector can hold
          Junk,          \* a word read when no drive offers one
          MayFail        \* <<p, s>>: the drive at position p may end stage s
                         \* of a command in an error

Stages == {"IDENTIFY", "READ", "WRITE", "COMMIT", "FLUSH"}
Drives == {0, 1}
Pos == Channels \X Drives

ASSUME BusAssumption ==
    /\ SectorWords \in Nat \ {0}
    /\ Sectors \subseteq Nat
    /\ Junk \notin Data
    /\ MayFail \subseteq Pos \X Stages

Word == 0 .. SectorWords - 1
Block == [Word -> Data]

\* What the driver sends to the command register.
Command == {"IDENTIFY", "IDENTIFY_PACKET", "READ", "WRITE", "FLUSH"}

\* Word w of what IDENTIFY (or IDENTIFY PACKET) of drive p returns.
IdentifyWord(p, c, w) == <<p, c, w>>
Content == Data \cup {Junk} \cup (Pos \X {"IDENTIFY", "IDENTIFY_PACKET"} \X Word)
JunkBlock == [w \in Word |-> Junk]

VARIABLES kind,       \* what is attached at each position
          selected,   \* the drive each channel's device register selects
          regs,       \* the task file, as each drive latches it
          drive,      \* the command protocol state of each drive
          disk,       \* the sectors of each disk, its write cache included
          dirty       \* drives whose write cache holds unflushed sectors

bus == <<kind, selected, regs, drive, disk, dirty>>

Byte == 0 .. 255
TaskFile == [count : Byte, lba0 : Byte, lba1 : Byte, lba2 : Byte, top : 0 .. 15]

DriveState == [phase : {"idle", "accepted", "busy", "dataIn", "dataOut"},
               cmd   : Command \cup {"NONE", "COMMIT"},
               fault : SUBSET {"ERR", "DF"},
               left  : 0 .. SectorWords,
               addr  : Nat,
               buf   : [Word -> Content]]

IdleDrive == [phase |-> "idle", cmd |-> "NONE", fault |-> {}, left |-> 0,
              addr |-> 0, buf |-> JunkBlock]

\* The sector a task file addresses (LBA28).
AddressOf(r) == r.lba0 + 256 * r.lba1 + 65536 * r.lba2 + 16777216 * r.top

BusTypeOK ==
    /\ kind \in [Pos -> {"none", "ata", "atapi", "floating"}]
    /\ selected \in [Channels -> Drives]
    /\ regs \in [Pos -> TaskFile]
    /\ drive \in [Pos -> DriveState]
    /\ disk \in [Pos -> [Sectors -> Block]]
    /\ dirty \in SUBSET Pos

Selected(ch) == <<ch, selected[ch]>>
Present(p) == kind[p] \in {"ata", "atapi"}

(***************************************************************************)
(* Host side: what a port access sees and does.                            *)
(***************************************************************************)

AllBits == {"BSY", "DRDY", "DF", "DRQ", "ERR"}

\* The status register of the selected drive of channel ch.  A channel with
\* no controller behind it floats to all ones; an absent drive reads as 0.
Status(ch) ==
    LET p == Selected(ch) IN
    IF kind[p] = "floating" THEN AllBits
    ELSE IF kind[p] = "none" THEN {}
    ELSE IF drive[p].phase = "busy" THEN {"BSY"}
    ELSE {"DRDY"} \cup drive[p].fault
           \cup (IF drive[p].phase \in {"dataIn", "dataOut"} THEN {"DRQ"} ELSE {})

\* Writing the device/head register: the select bit and LBA bits 24-27.
SelectDrive(ch, d, top) ==
    /\ selected' = [selected EXCEPT ![ch] = d]
    /\ regs' = [p \in Pos |-> IF p[1] = ch THEN [regs[p] EXCEPT !.top = top]
                                           ELSE regs[p]]

\* Writing the sector count and LBA low/mid/high registers.
WriteTaskFile(ch, n, l0, l1, l2) ==
    regs' = [p \in Pos |->
               IF p[1] = ch
               THEN [regs[p] EXCEPT !.count = n, !.lba0 = l0, !.lba1 = l1, !.lba2 = l2]
               ELSE regs[p]]

\* Writing the command register: the selected drive takes the command if it
\* is idle, and ignores it while it is busy or in a data phase.
IssueCommand(ch, c) ==
    LET p == Selected(ch) IN
    IF Present(p) /\ drive[p].phase = "idle"
    THEN drive' = [drive EXCEPT ![p].phase = "accepted", ![p].cmd = c,
                                ![p].addr = AddressOf(regs[p])]
    ELSE UNCHANGED drive

\* The word an inw of the data port returns, and what it does to the drive.
DataWord(ch) ==
    LET p == Selected(ch) IN
    IF drive[p].phase = "dataIn" THEN drive[p].buf[SectorWords - drive[p].left]
                                 ELSE Junk

ReadDataPort(ch) ==
    LET p == Selected(ch)
        d == drive[p]
    IN  IF d.phase # "dataIn" THEN UNCHANGED drive
        ELSE drive' = [drive EXCEPT ![p] =
               IF d.left = 1 THEN [IdleDrive EXCEPT !.fault = d.fault]
                             ELSE [d EXCEPT !.left = d.left - 1]]

\* An outw to the data port; after the last word the drive is busy storing
\* the sector.
WriteDataPort(ch, word) ==
    LET p == Selected(ch)
        d == drive[p]
        filled == [d.buf EXCEPT ![SectorWords - d.left] = word]
    IN  IF d.phase # "dataOut" THEN UNCHANGED drive
        ELSE drive' = [drive EXCEPT ![p] =
               IF d.left = 1
               THEN [d EXCEPT !.buf = filled, !.left = 0, !.phase = "busy", !.cmd = "COMMIT"]
               ELSE [d EXCEPT !.buf = filled, !.left = d.left - 1]]

(***************************************************************************)
(* Drive side: what a drive does on its own, in its own time.              *)
(***************************************************************************)

\* Within 400 ns a drive that took a command shows BSY.
AssertBusy(p) ==
    /\ drive[p].phase = "accepted"
    /\ drive' = [drive EXCEPT ![p].phase = "busy", ![p].fault = {}]
    /\ UNCHANGED <<kind, selected, regs, disk, dirty>>

Working(p, c) == drive[p].phase = "busy" /\ drive[p].cmd = c

\* The command ends without (more) data, with the given error bits.
Stop(p, f) == drive' = [drive EXCEPT ![p] = [IdleDrive EXCEPT !.fault = f]]

\* The command goes on to a data phase.
Offer(p, ph, b) ==
    drive' = [drive EXCEPT ![p].phase = ph, ![p].left = SectorWords, ![p].buf = b]

Faults == {{"ERR"}, {"DF"}}

\* Commands of the other command set are aborted.
Supported(p) == \/ kind[p] = "ata"   /\ drive[p].cmd # "IDENTIFY_PACKET"
                \/ kind[p] = "atapi" /\ drive[p].cmd = "IDENTIFY_PACKET"

\* An aborted IDENTIFY leaves the packet signature in the registers of an
\* ATAPI drive: 14h in LBA mid, EBh in LBA high.
Abort(p) ==
    /\ drive[p].phase = "busy" /\ ~Supported(p)
    /\ Stop(p, {"ERR"})
    /\ regs' = IF kind[p] = "atapi" /\ drive[p].cmd = "IDENTIFY"
               THEN [regs EXCEPT ![p].lba1 = 20, ![p].lba2 = 235]
               ELSE regs
    /\ UNCHANGED <<kind, selected, disk, dirty>>

FinishIdentify(p) ==
    /\ Supported(p)
    /\ \E c \in {"IDENTIFY", "IDENTIFY_PACKET"} :
         /\ Working(p, c)
         /\ \/ Offer(p, "dataIn", [w \in Word |-> IdentifyWord(p, c, w)])
            \/ <<p, "IDENTIFY">> \in MayFail /\ Stop(p, {"ERR"})
    /\ UNCHANGED <<kind, selected, regs, disk, dirty>>

FinishRead(p) ==
    /\ Supported(p) /\ Working(p, "READ")
    /\ \/ drive[p].addr \in Sectors /\ Offer(p, "dataIn", disk[p][drive[p].addr])
       \/ drive[p].addr \notin Sectors /\ Stop(p, {"ERR"})
       \/ <<p, "READ">> \in MayFail /\ \E f \in Faults : Stop(p, f)
    /\ UNCHANGED <<kind, selected, regs, disk, dirty>>

\* A WRITE asks for the data (or refuses) ...
RequestData(p) ==
    /\ Supported(p) /\ Working(p, "WRITE")
    /\ \/ drive[p].addr \in Sectors /\ Offer(p, "dataOut", JunkBlock)
       \/ drive[p].addr \notin Sectors /\ Stop(p, {"ERR"})
       \/ <<p, "WRITE">> \in MayFail /\ \E f \in Faults : Stop(p, f)
    /\ UNCHANGED <<kind, selected, regs, disk, dirty>>

\* ... and stores it in its write cache once it has all of it.
CommitSector(p) ==
    /\ Supported(p) /\ Working(p, "COMMIT")
    /\ \/ /\ disk' = [disk EXCEPT ![p][drive[p].addr] = drive[p].buf]
          /\ dirty' = dirty \cup {p}
          /\ Stop(p, {})
       \/ /\ <<p, "COMMIT">> \in MayFail
          /\ \E f \in Faults : Stop(p, f)
          /\ UNCHANGED <<disk, dirty>>
    /\ UNCHANGED <<kind, selected, regs>>

FinishFlush(p) ==
    /\ Supported(p) /\ Working(p, "FLUSH")
    /\ \/ dirty' = dirty \ {p} /\ Stop(p, {})
       \/ <<p, "FLUSH">> \in MayFail /\ UNCHANGED dirty /\ \E f \in Faults : Stop(p, f)
    /\ UNCHANGED <<kind, selected, regs, disk>>

DriveStep(p) ==
    \/ AssertBusy(p)
    \/ Abort(p)
    \/ FinishIdentify(p)
    \/ FinishRead(p)
    \/ RequestData(p)
    \/ CommitSector(p)
    \/ FinishFlush(p)
=============================================================================
