----------------------------- MODULE IdeSector ------------------------------
(***************************************************************************)
(* ide_read_sector and ide_write_sector of src/kernel/ide.c, with the      *)
(* ide_polling they share, running against the drives of AtaBus.  One call *)
(* runs at a time (the kernel has one thread and interrupts off); between  *)
(* any two of its port accesses the drives may take any number of steps.   *)
(*                                                                         *)
(* A loop that spins on a status bit is an action guarded by that bit: a   *)
(* loop that can never end is a deadlock of this specification.            *)
(***************************************************************************)
EXTENDS AtaBus

CONSTANTS Lbas,       \* the sector numbers callers pass
          Written,    \* the blocks callers write
          Kinds,      \* what can be attached at a position
          InitialBlock \* what every sector holds at the start

ASSUME SectorAssumption ==
    /\ Lbas \subseteq Nat
    /\ Written \subseteq Block
    /\ Kinds \subseteq {"none", "ata", "atapi"}
    /\ InitialBlock \in Block

VARIABLES pc,         \* where the call is
          call,       \* its arguments (the last call's, between calls)
          buffer,     \* the caller's buffer
          i,          \* the word the transfer loop is at
          result      \* the returned code, None during a call

driver == <<pc, call, buffer, i, result>>
vars == <<bus, driver>>

None == -1

Calls == [op : {"read", "write"}, ch : Channels, drv : Drives, lba : Lbas]
NoCall == [op |-> "none"]

\* The program points, in the order of the code.
ReadPoints  == {"wait", "select", "params", "command", "settle", "poll", "check", "transfer"}
FlushPoints == {"flush", "flushSettle", "flushPoll"}
Points      == {"idle"} \cup ReadPoints \cup FlushPoints

Target == <<call.ch, call.drv>>

\* lba_io[0], lba_io[1], lba_io[2] and the low nibble of the device register.
LbaLow(lba)  == lba % 256
LbaMid(lba)  == (lba \div 256) % 256
LbaHigh(lba) == (lba \div 65536) % 256
LbaTop(lba)  == (lba \div 16777216) % 16

CommandOf(op) == IF op = "read" THEN "READ" ELSE "WRITE"

Return(code) ==
    /\ pc' = "idle"
    /\ result' = code

(***************************************************************************)
(* The steps of a call.                                                    *)
(***************************************************************************)

Begin ==
    /\ pc = "idle"
    /\ \E c \in Calls :
         /\ call' = c
         /\ buffer' \in IF c.op = "write" THEN Written ELSE {JunkBlock}
    /\ i' = 0
    /\ result' = None
    /\ pc' = "wait"
    /\ UNCHANGED bus

\* while (ide_read(channel, ATA_REG_STATUS) & ATA_SR_BSY): the status read is
\* that of the drive the channel happens to have selected.
WaitForReady ==
    /\ pc = "wait"
    /\ "BSY" \notin Status(call.ch)
    /\ pc' = "select"
    /\ UNCHANGED <<bus, call, buffer, i, result>>

\* Mutant of Select: the drive bit is forgotten.
SelectMaster ==
    /\ pc = "select"
    /\ SelectDrive(call.ch, 0, LbaTop(call.lba))
    /\ pc' = "params"
    /\ UNCHANGED <<kind, drive, disk, dirty, call, buffer, i, result>>

Select ==
    /\ pc = "select"
    /\ SelectDrive(call.ch, call.drv, LbaTop(call.lba))
    /\ pc' = "params"
    /\ UNCHANGED <<kind, drive, disk, dirty, call, buffer, i, result>>

WriteParameters ==
    /\ pc = "params"
    /\ WriteTaskFile(call.ch, 1, LbaLow(call.lba), LbaMid(call.lba), LbaHigh(call.lba))
    /\ pc' = "command"
    /\ UNCHANGED <<kind, selected, drive, disk, dirty, call, buffer, i, result>>

SendCommand ==
    /\ pc = "command"
    /\ IssueCommand(call.ch, CommandOf(call.op))
    /\ pc' = "settle"
    /\ UNCHANGED <<kind, selected, regs, disk, dirty, call, buffer, i, result>>

\* Mutant of Wait400ns: no time passes.
NoWait400ns(from, to) ==
    /\ pc = from
    /\ pc' = to
    /\ UNCHANGED <<bus, call, buffer, i, result>>

\* ide_polling: four dummy reads, "Wait 400ns".  Time enough for a drive that
\* took the command to show BSY.
Wait400ns(from, to) ==
    /\ pc = from
    /\ drive[Selected(call.ch)].phase # "accepted"
    /\ pc' = to
    /\ UNCHANGED <<bus, call, buffer, i, result>>

\* Mutant of Poll: waits for DRQ, which an error never sets.
PollForData ==
    /\ pc = "poll"
    /\ "DRQ" \in Status(call.ch)
    /\ pc' = "check"
    /\ UNCHANGED <<bus, call, buffer, i, result>>

\* ide_polling: "Wait for BSY to be cleared".
Poll ==
    /\ pc = "poll"
    /\ "BSY" \notin Status(call.ch)
    /\ pc' = "check"
    /\ UNCHANGED <<bus, call, buffer, i, result>>

\* Mutant of PollError: DRQ is not looked at.
PollErrorBits(status) ==
    IF "ERR" \in status THEN 2 ELSE IF "DF" \in status THEN 1 ELSE 0

\* ide_polling with advanced_check = 1.
PollError(status) ==
    IF "ERR" \in status THEN 2
    ELSE IF "DF" \in status THEN 1
    ELSE IF "DRQ" \notin status THEN 3
    ELSE 0

\* Mutant of Check: passes the code of ide_polling on.
CheckPassesCode ==
    /\ pc = "check"
    /\ IF PollError(Status(call.ch)) # 0
       THEN Return(PollError(Status(call.ch)))
       ELSE pc' = "transfer" /\ UNCHANGED result
    /\ UNCHANGED <<bus, call, buffer, i>>

\* Any error of the poll makes the call return 1.
Check ==
    /\ pc = "check"
    /\ IF PollError(Status(call.ch)) # 0
       THEN Return(1)
       ELSE pc' = "transfer" /\ UNCHANGED result
    /\ UNCHANGED <<bus, call, buffer, i>>

ReadWord ==
    /\ pc = "transfer" /\ call.op = "read" /\ i < SectorWords
    /\ buffer' = [buffer EXCEPT ![i] = DataWord(call.ch)]
    /\ ReadDataPort(call.ch)
    /\ i' = i + 1
    /\ UNCHANGED <<kind, selected, regs, disk, dirty, pc, call, result>>

WriteWord ==
    /\ pc = "transfer" /\ call.op = "write" /\ i < SectorWords
    /\ WriteDataPort(call.ch, buffer[i])
    /\ i' = i + 1
    /\ UNCHANGED <<kind, selected, regs, disk, dirty, pc, call, buffer, result>>

\* Mutant of EndTransfer: a write returns without the flush and its poll.
EndTransferAtOnce ==
    /\ pc = "transfer" /\ i = SectorWords
    /\ Return(0)
    /\ UNCHANGED <<bus, call, buffer, i>>

EndTransfer ==
    /\ pc = "transfer" /\ i = SectorWords
    /\ IF call.op = "read" THEN Return(0)
                           ELSE pc' = "flush" /\ UNCHANGED result
    /\ UNCHANGED <<bus, call, buffer, i>>

\* "Flush cache", sent without looking at the status.
SendFlush ==
    /\ pc = "flush"
    /\ IssueCommand(call.ch, "FLUSH")
    /\ pc' = "flushSettle"
    /\ UNCHANGED <<kind, selected, regs, disk, dirty, call, buffer, i, result>>

\* Mutant of FinishWrite: the last poll does not wait for BSY.
FinishWriteAtOnce ==
    /\ pc = "flushPoll"
    /\ Return(0)
    /\ UNCHANGED <<bus, call, buffer, i>>

\* ide_polling(channel, 0), whose result is dropped; the call returns 0.
FinishWrite ==
    /\ pc = "flushPoll"
    /\ "BSY" \notin Status(call.ch)
    /\ Return(0)
    /\ UNCHANGED <<bus, call, buffer, i>>

Driver ==
    \/ WaitForReady \/ Select \/ WriteParameters \/ SendCommand
    \/ Wait400ns("settle", "poll") \/ Poll \/ Check
    \/ ReadWord \/ WriteWord \/ EndTransfer
    \/ SendFlush \/ Wait400ns("flushSettle", "flushPoll") \/ FinishWrite

Drive(p) == DriveStep(p) /\ UNCHANGED driver

\* The drives are idle when the first call comes; the task file is zero.
Init ==
    /\ kind \in [Pos -> Kinds]
    /\ selected = [ch \in Channels |-> 0]
    /\ regs = [p \in Pos |-> [count |-> 0, lba0 |-> 0, lba1 |-> 0, lba2 |-> 0, top |-> 0]]
    /\ drive = [p \in Pos |-> IdleDrive]
    /\ disk = [p \in Pos |-> [s \in Sectors |-> InitialBlock]]
    /\ dirty = {}
    /\ pc = "idle"
    /\ call = NoCall
    /\ buffer = JunkBlock
    /\ i = 0
    /\ result = None

Next == Begin \/ Driver \/ \E p \in Pos : Drive(p)

Spec == Init /\ [][Next]_vars

\* The processor keeps executing the call, and a drive that works on a
\* command finishes it.  No caller has to make another call.
FairSpec ==
    /\ Spec
    /\ WF_vars(Driver)
    /\ \A p \in Pos : WF_vars(Drive(p))

(***************************************************************************)
(* Properties.                                                             *)
(***************************************************************************)

\* Type correctness of the bus and of the driver's variables.
TypeOK ==
    /\ BusTypeOK
    /\ pc \in Points
    /\ call \in Calls \cup {NoCall}
    /\ buffer \in [Word -> Content]
    /\ i \in 0 .. SectorWords
    /\ result \in {None, 0, 1}

\* The transfer loop of a sector call touches the data port only while the
\* selected drive is in the data phase of that very command, and the loop and
\* the drive agree on how many words are left: no word is lost, read too early
\* or sent to a drive that is not listening.
DataPortDiscipline ==
    pc = "transfer" =>
      LET d == drive[Selected(call.ch)] IN
      IF i < SectorWords
      THEN /\ d.phase = (IF call.op = "read" THEN "dataIn" ELSE "dataOut")
           /\ d.left = SectorWords - i
           /\ d.cmd = CommandOf(call.op)
      ELSE d.phase \notin {"dataIn", "dataOut", "accepted"}

\* A call leaves every drive idle when it returns, whatever code it returns:
\* the next call waits for BSY on the drive selected before it selects its
\* own, so that wait protects it only because of this.
IdleBetweenCalls ==
    pc \in {"idle", "wait", "select", "params", "command"} =>
      \A p \in Pos : drive[p].phase = "idle"

\* A read that returns 0 filled the caller's buffer with the sector it named, on
\* the drive it named; the sector exists and there is a disk.
ReadsAreTrue ==
    pc = "idle" /\ call.op = "read" /\ result = 0 =>
      /\ kind[Target] = "ata" /\ call.lba \in Sectors
      /\ buffer = disk[Target][call.lba]

\* A disk changes only in a write call, only at the sector of the call on the
\* drive of the call, and to exactly the caller's block.
OnlyTheNamedSector ==
    [][\A p \in Pos : \A s \in Sectors :
         disk'[p][s] # disk[p][s] =>
           /\ pc # "idle" /\ call.op = "write"
           /\ p = Target /\ s = call.lba
           /\ disk'[p][s] = buffer]_vars

\* Every call returns, under the fairness of FairSpec: none of the three status
\* loops spins for ever, because a drive that shows BSY is working on something.
CallsReturn == (pc = "wait") ~> (pc = "idle")

\* What "return 0; // Success" of ide_write_sector says (ide.c:266): the
\* sector holds the caller's block.
WriteSuccessStored ==
    pc = "idle" /\ call.op = "write" /\ result = 0 =>
      disk[Target][call.lba] = buffer

(***************************************************************************)
(* The abstract store the two calls implement.  The positions whose drive  *)
(* may fail to store a block it has taken are the lossy ones.              *)
(***************************************************************************)

LossyPos == {p \in Pos : <<p, "COMMIT">> \in MayFail}

\* A write has taken effect (or was lost) when all its words were sent and the
\* drive no longer works on them.
StoreApplied ==
    /\ call.op = "write"
    /\ pc \in {"transfer"} \cup FlushPoints
    /\ i = SectorWords
    /\ ~Working(Target, "COMMIT")

StoreRequest ==
    IF pc = "idle" THEN [op |-> "none"]
    ELSE [op |-> call.op, pos |-> Target, lba |-> call.lba,
          data |-> IF call.op = "write" THEN buffer ELSE JunkBlock]

StoreReply ==
    IF call = NoCall \/ pc # "idle" THEN [code |-> None, data |-> JunkBlock]
    ELSE [code |-> result,
          data |-> IF call.op = "read" /\ result = 0 THEN buffer ELSE JunkBlock]

Store == INSTANCE SectorStore WITH
           Lossy <- LossyPos, Blocks <- Block, NoBlock <- JunkBlock,
           store <- disk, request <- StoreRequest,
           applied <- StoreApplied, reply <- StoreReply

\* ide_read_sector and ide_write_sector implement SectorStore: a call that
\* returns 0 took effect as a whole at one instant while it ran, a call that
\* returns 1 had no effect, and the disks never change in any other way.
ImplementsStore == Store!Spec
=============================================================================
