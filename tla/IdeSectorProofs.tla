-------------------------- MODULE IdeSectorProofs ---------------------------
(***************************************************************************)
(* Proofs about IdeSector: the driver and the drives stay in step, reads   *)
(* are true, and only the named sector changes, for any number of          *)
(* channels, words in a sector, sectors and blocks, any drives attached    *)
(* and any stage of a command failing.                                     *)
(***************************************************************************)
EXTENDS IdeSector, TLAPS

\* Callers pass sector numbers of 28 bits: the code drops the bits above.
Lba28 == \A lba \in Lbas : lba < 268435456

(***************************************************************************)
(* The invariant.                                                          *)
(***************************************************************************)

\* The points of a call at which its drive has nothing to do yet.
Quiet == {"idle", "wait", "select", "params", "command"}

\* The drive and the sector of the call exist.
Valid == kind[Target] = "ata" /\ call.lba \in Sectors

\* What the drive of the call is doing: nothing,
Idle(d) == d.phase = "idle"

\* the command the call sent,
Started(d) ==
    /\ d.phase \in {"accepted", "busy"}
    /\ d.cmd = CommandOf(call.op) /\ d.addr = call.lba

\* handing out the words of the sector a read named, i of them taken,
Offering(d) ==
    /\ call.op = "read"
    /\ d.phase = "dataIn" /\ d.cmd = "READ" /\ d.left = SectorWords - i
    /\ d.buf = disk[Target][call.lba]
    /\ \A w \in 0 .. i - 1 : buffer[w] = disk[Target][call.lba][w]

\* taking the words of a write, i of them sent,
Taking(d) ==
    /\ call.op = "write"
    /\ d.phase = "dataOut" /\ d.cmd = "WRITE" /\ d.left = SectorWords - i
    /\ d.addr = call.lba
    /\ \A w \in 0 .. i - 1 : d.buf[w] = buffer[w]

\* storing the caller's block,
Committing(d) ==
    /\ call.op = "write"
    /\ d.phase = "busy" /\ d.cmd = "COMMIT"
    /\ d.buf = buffer /\ d.addr = call.lba

\* or flushing its cache.
Flushing(d) == d.phase \in {"accepted", "busy"} /\ d.cmd = "FLUSH"

\* What holds of the drives whatever the driver does.
DrivesSound ==
    \A p \in Pos :
      /\ kind[p] \in Kinds
      /\ drive[p].phase # "idle" => Present(p)
      /\ drive[p].phase \in {"busy", "dataIn", "dataOut"} => drive[p].fault = {}

\* The arguments and the loop counter of the call; the task file of its drive holds
\* the top four address bits once the drive is selected, and the whole address when
\* the command is sent.
CallInv ==
    /\ pc # "idle" => call \in Calls /\ (call.op = "write" => buffer \in Block)
    /\ pc \notin {"idle", "transfer"} \cup FlushPoints => i = 0
    /\ pc \in FlushPoints => i = SectorWords
    /\ pc \notin {"idle", "wait", "select"} => selected[call.ch] = call.drv
    /\ pc = "params" => regs[Target].top = LbaTop(call.lba)
    /\ pc = "command" => AddressOf(regs[Target]) = call.lba

\* Only the drive of the call works, and only once the call has sent its command.
QuietInv == \A p \in Pos : pc \in Quiet \/ p # Target => drive[p].phase = "idle"

\* At each point of the call, what its drive can be doing.  At the last word the
\* drive of a write begins to store the block and may be done with it, or have lost
\* it, at any later point.
Phase(d) ==
    /\ pc \in {"settle", "poll", "check"} =>
         Idle(d) \/ Started(d) \/ (Valid /\ (Offering(d) \/ Taking(d)))
    /\ pc = "transfer" =>
         /\ Valid
         /\ i < SectorWords => Offering(d) \/ Taking(d)
         /\ i = SectorWords =>
              IF call.op = "read" THEN Idle(d) /\ buffer = disk[Target][call.lba]
                                  ELSE Idle(d) \/ Committing(d)
    /\ pc \in FlushPoints => Valid /\ call.op = "write"
    /\ pc = "flush" => Idle(d) \/ Committing(d)
    /\ pc \in {"flushSettle", "flushPoll"} => Idle(d) \/ Committing(d) \/ Flushing(d)
    /\ pc \in {"poll", "check", "flushPoll"} => d.phase # "accepted"
    /\ pc = "check" => d.phase # "busy"

\* The driver and the drive are in step.
Together == pc # "idle" => Phase(drive[Target])

\* The inductive invariant.
IInv == TypeOK /\ DrivesSound /\ CallInv /\ QuietInv /\ Together /\ ReadsAreTrue

(***************************************************************************)
(* Arithmetic: a sector number cut into registers and put together again.  *)
(***************************************************************************)

\* A number is made of its low byte and the rest.
LEMMA SplitByte ==
  ASSUME NEW n \in Nat
  PROVE  n = 256 * (n \div 256) + (n % 256) /\ n % 256 \in Byte /\ n \div 256 \in Nat
  BY SMT DEF Byte

\* Dropping two bytes is dropping one twice.
LEMMA DivTwice == ASSUME NEW n \in Nat PROVE n \div 65536 = (n \div 256) \div 256
  BY SMT

\* Dropping three bytes is dropping two and one.
LEMMA DivThrice == ASSUME NEW n \in Nat PROVE n \div 16777216 = (n \div 65536) \div 256
  BY SMT

\* What remains of a 28-bit number after three bytes is four bits.
LEMMA TopNibble == ASSUME NEW n \in Nat, n < 268435456 PROVE n \div 16777216 < 16
  BY SMT

\* A number is made of its bytes.
LEMMA Join ==
  ASSUME NEW l \in Nat, NEW m \in Nat, NEW h \in Nat, NEW t \in Nat,
         NEW a \in Nat, NEW b \in Nat, NEW c \in Nat,
         l = 256 * m + a, m = 256 * h + b, h = 256 * t + c
  PROVE  a + 256 * b + 65536 * c + 16777216 * t = l
  BY SMT

\* The four parts of a 28-bit sector number, as the code cuts it, are bytes (the last
\* one four bits), and AddressOf puts the same number together from them.
LEMMA SplitAddress ==
  ASSUME NEW lba \in Nat, lba < 268435456
  PROVE  /\ LbaLow(lba) \in Byte /\ LbaMid(lba) \in Byte /\ LbaHigh(lba) \in Byte
         /\ LbaTop(lba) \in 0 .. 15
         /\ LbaLow(lba) + 256 * LbaMid(lba) + 65536 * LbaHigh(lba) + 16777216 * LbaTop(lba) = lba
  <1> DEFINE m == lba \div 256
             h == lba \div 65536
             t == lba \div 16777216
  <1>1. lba = 256 * m + LbaLow(lba) /\ LbaLow(lba) \in Byte /\ m \in Nat
    BY SplitByte DEF LbaLow
  <1>2. m = 256 * h + LbaMid(lba) /\ LbaMid(lba) \in Byte /\ h \in Nat
    <2>1. h = m \div 256
      BY DivTwice
    <2>2. LbaMid(lba) = m % 256
      BY DEF LbaMid
    <2> HIDE DEF m, h
    <2>. QED  BY <1>1, <2>1, <2>2, SplitByte
  <1>3. h = 256 * t + LbaHigh(lba) /\ LbaHigh(lba) \in Byte /\ t \in Nat
    <2>1. t = h \div 256
      BY DivThrice
    <2>2. LbaHigh(lba) = h % 256
      BY DEF LbaHigh
    <2> HIDE DEF m, h, t
    <2>. QED  BY <1>2, <2>1, <2>2, SplitByte
  <1>4. t < 16
    BY TopNibble
  <1>5. LbaTop(lba) = t % 16
    BY DEF LbaTop
  <1> HIDE DEF m, h, t
  <1>6. t = LbaTop(lba) /\ LbaTop(lba) \in 0 .. 15
    BY SMT, <1>3, <1>4, <1>5
  <1>7. LbaLow(lba) \in Nat /\ LbaMid(lba) \in Nat /\ LbaHigh(lba) \in Nat
    BY <1>1, <1>2, <1>3 DEF Byte
  <1>8. LbaLow(lba) + 256 * LbaMid(lba) + 65536 * LbaHigh(lba) + 16777216 * t = lba
    BY <1>1, <1>2, <1>3, <1>7, Join
  <1>. QED  BY <1>1, <1>2, <1>3, <1>6, <1>8

(***************************************************************************)
(* The steps of the driver.                                                *)
(***************************************************************************)

\* During a call, its arguments are well-formed, and from the selection of the drive
\* on, the drive selected on its channel is the drive of the call.
LEMMA Here ==
  ASSUME IInv, pc # "idle"
  PROVE  /\ call \in Calls /\ Target \in Pos /\ call.ch \in Channels /\ call.drv \in Drives
         /\ call.lba \in Lbas /\ call.lba \in Nat /\ call.op \in {"read", "write"}
         /\ pc \notin {"idle", "wait", "select"} => Selected(call.ch) = Target
  <1>1. call \in Calls
    BY DEF IInv, CallInv
  <1>2. /\ call.ch \in Channels /\ call.drv \in Drives
        /\ call.lba \in Lbas /\ call.op \in {"read", "write"}
    BY <1>1 DEF Calls
  <1>. QED  BY <1>1, <1>2, SectorAssumption DEF Target, Pos, Selected, IInv, CallInv

\* The initial states satisfy the invariant.
LEMMA InitIInv == Init => IInv
  <1> SUFFICES ASSUME Init PROVE IInv
    OBVIOUS
  <1>1. BusTypeOK
    <2>1. IdleDrive \in DriveState
      BY BusAssumption DEF IdleDrive, DriveState, JunkBlock, Content
    <2>2. kind \in [Pos -> {"none", "ata", "atapi", "floating"}]
      BY SectorAssumption DEF Init
    <2>3. regs \in [Pos -> TaskFile]
      BY DEF Init, TaskFile, Byte
    <2>. QED  BY <2>1, <2>2, <2>3, SectorAssumption DEF Init, BusTypeOK, Drives
  <1>2. TypeOK
    BY <1>1, BusAssumption DEF Init, TypeOK, Points, JunkBlock, Content, None
  <1>3. DrivesSound /\ CallInv /\ QuietInv /\ Together /\ ReadsAreTrue
    BY DEF Init, DrivesSound, CallInv, QuietInv, Together, ReadsAreTrue, IdleDrive, FlushPoints, Quiet, NoCall
  <1>. QED  BY <1>2, <1>3 DEF IInv

\* What is said of the bus alone holds as long as the bus stays as it is.
LEMMA BusKept ==
  ASSUME IInv, UNCHANGED bus
  PROVE  BusTypeOK' /\ DrivesSound'
  BY DEF IInv, TypeOK, BusTypeOK, DrivesSound, Present, bus

\* A new call finds all drives idle.
LEMMA BeginKeeps == ASSUME IInv, Begin PROVE IInv'
  <1>1. PICK c \in Calls : call' = c /\ buffer' \in IF c.op = "write" THEN Written ELSE {JunkBlock}
    BY DEF Begin
  <1>2. JunkBlock \in [Word -> Content] /\ Written \subseteq [Word -> Content] /\ Written \subseteq Block
    BY SectorAssumption DEF JunkBlock, Block, Content
  <1>3. UNCHANGED bus /\ pc = "idle" /\ pc' = "wait" /\ i' = 0 /\ result' = None
    BY DEF Begin
  <1>4. TypeOK'
    BY <1>1, <1>2, <1>3, BusKept, BusAssumption DEF TypeOK, Points, ReadPoints, None
  <1>5. DrivesSound'
    BY <1>3, BusKept
  <1>6. CallInv'
    BY <1>1, <1>2, <1>3 DEF CallInv, FlushPoints
  <1>7. QuietInv'
    BY <1>3 DEF IInv, QuietInv, Quiet, bus
  <1>8. Together' /\ ReadsAreTrue'
    BY <1>3 DEF Together, Phase, ReadsAreTrue, FlushPoints
  <1>. QED  BY <1>4, <1>5, <1>6, <1>7, <1>8 DEF IInv

\* The wait before the selection preserves the invariant.
LEMMA WaitForReadyKeeps == ASSUME IInv, WaitForReady PROVE IInv'
  <1>1. TypeOK' /\ DrivesSound'
    BY BusKept DEF WaitForReady, IInv, TypeOK, Points, ReadPoints
  <1>2. CallInv' /\ QuietInv'
    BY DEF WaitForReady, IInv, CallInv, QuietInv, Quiet, FlushPoints, bus, Target
  <1>3. Together' /\ ReadsAreTrue'
    BY DEF WaitForReady, Together, Phase, ReadsAreTrue, FlushPoints
  <1>. QED  BY <1>1, <1>2, <1>3 DEF IInv

\* Selecting the drive writes the top address bits to both drives of the channel.
LEMMA SelectKeeps == ASSUME IInv, Lba28, Select PROVE IInv'
  <1>1. /\ call \in Calls /\ Target \in Pos /\ call.ch \in Channels /\ call.drv \in Drives
        /\ call.lba \in Lbas /\ call.lba \in Nat /\ pc = "select"
    BY Here DEF Select
  <1>2. LbaTop(call.lba) \in 0 .. 15
    BY <1>1, SplitAddress DEF Lba28
  <1>3. /\ selected' = [selected EXCEPT ![call.ch] = call.drv]
        /\ regs' = [p \in Pos |-> IF p[1] = call.ch THEN [regs[p] EXCEPT !.top = LbaTop(call.lba)]
                                                   ELSE regs[p]]
        /\ UNCHANGED <<kind, drive, disk, dirty, call, buffer, i, result>>
        /\ pc' = "params"
    BY DEF Select, SelectDrive
  <1>4. BusTypeOK'
    <2>1. regs' \in [Pos -> TaskFile]
      BY <1>2, <1>3 DEF IInv, TypeOK, BusTypeOK, TaskFile
    <2>2. selected' \in [Channels -> Drives]
      BY <1>1, <1>3 DEF IInv, TypeOK, BusTypeOK
    <2>. QED  BY <1>3, <2>1, <2>2 DEF IInv, TypeOK, BusTypeOK
  <1>5. TypeOK' /\ DrivesSound'
    BY <1>3, <1>4 DEF IInv, TypeOK, Points, ReadPoints, DrivesSound, Present
  <1>6. selected'[call.ch] = call.drv /\ regs'[Target].top = LbaTop(call.lba)
    BY <1>1, <1>2, <1>3 DEF IInv, TypeOK, BusTypeOK, TaskFile, Target
  <1>7. CallInv' /\ QuietInv'
    BY <1>1, <1>3, <1>6 DEF IInv, CallInv, QuietInv, Quiet, FlushPoints, Target
  <1>8. Together' /\ ReadsAreTrue'
    BY <1>3 DEF Together, Phase, ReadsAreTrue, FlushPoints
  <1>. QED  BY <1>5, <1>7, <1>8 DEF IInv

\* After the parameters are written the task file holds the sector number.
LEMMA WriteParametersKeeps == ASSUME IInv, Lba28, WriteParameters PROVE IInv'
  <1>1. /\ call \in Calls /\ Target \in Pos /\ call.ch \in Channels /\ Target[1] = call.ch
        /\ call.lba \in Lbas /\ call.lba \in Nat /\ pc = "params"
    BY Here DEF WriteParameters, Target
  <1>2. /\ LbaLow(call.lba) \in Byte /\ LbaMid(call.lba) \in Byte /\ LbaHigh(call.lba) \in Byte
        /\ LbaLow(call.lba) + 256 * LbaMid(call.lba) + 65536 * LbaHigh(call.lba)
             + 16777216 * LbaTop(call.lba) = call.lba
    BY <1>1, SplitAddress DEF Lba28
  <1>3. /\ regs' = [p \in Pos |->
               IF p[1] = call.ch
               THEN [regs[p] EXCEPT !.count = 1, !.lba0 = LbaLow(call.lba),
                                    !.lba1 = LbaMid(call.lba), !.lba2 = LbaHigh(call.lba)]
               ELSE regs[p]]
        /\ UNCHANGED <<kind, selected, drive, disk, dirty, call, buffer, i, result>>
        /\ pc' = "command"
    BY DEF WriteParameters, WriteTaskFile
  <1>4. BusTypeOK'
    <2> DEFINE low == LbaLow(call.lba)
               mid == LbaMid(call.lba)
               high == LbaHigh(call.lba)
    <2>1. ASSUME NEW r \in TaskFile
          PROVE  [r EXCEPT !.count = 1, !.lba0 = low, !.lba1 = mid, !.lba2 = high] \in TaskFile
      <3>1. low \in Byte /\ mid \in Byte /\ high \in Byte /\ 1 \in Byte
        BY <1>2 DEF Byte
      <3>. HIDE DEF low, mid, high
      <3>. QED  BY <3>1 DEF TaskFile
    <2>2. regs \in [Pos -> TaskFile]
      BY DEF IInv, TypeOK, BusTypeOK
    <2>3. regs' \in [Pos -> TaskFile]
      BY <1>3, <2>1, <2>2
    <2>. QED  BY <1>3, <2>3 DEF IInv, TypeOK, BusTypeOK
  <1>5. TypeOK' /\ DrivesSound'
    BY <1>3, <1>4 DEF IInv, TypeOK, Points, ReadPoints, DrivesSound, Present
  <1>6. AddressOf(regs'[Target]) = call.lba
    <2>1. regs[Target].top = LbaTop(call.lba) /\ regs[Target] \in TaskFile
      BY <1>1 DEF IInv, CallInv, TypeOK, BusTypeOK
    <2>2. /\ regs'[Target].lba0 = LbaLow(call.lba) /\ regs'[Target].lba1 = LbaMid(call.lba)
          /\ regs'[Target].lba2 = LbaHigh(call.lba) /\ regs'[Target].top = LbaTop(call.lba)
      BY <1>1, <1>3, <2>1 DEF TaskFile
    <2>. QED  BY SMT, <1>2, <2>2 DEF AddressOf
  <1>7. CallInv' /\ QuietInv'
    BY <1>1, <1>3, <1>6 DEF IInv, CallInv, QuietInv, Quiet, FlushPoints, Target
  <1>8. Together' /\ ReadsAreTrue'
    BY <1>3 DEF Together, Phase, ReadsAreTrue, FlushPoints
  <1>. QED  BY <1>5, <1>7, <1>8 DEF IInv

\* The idle drive of the call, if there is one, takes the command.
LEMMA SendCommandKeeps == ASSUME IInv, SendCommand PROVE IInv'
  <1>1. /\ Target \in Pos /\ call.lba \in Nat /\ call.op \in {"read", "write"} /\ call \in Calls
        /\ pc = "command" /\ Selected(call.ch) = Target
    BY Here DEF SendCommand
  <1>2. /\ UNCHANGED <<kind, selected, regs, disk, dirty, call, buffer, i, result>>
        /\ pc' = "settle"
    BY DEF SendCommand
  <1>3. drive[Target] \in DriveState /\ drive[Target].phase = "idle" /\ AddressOf(regs[Target]) = call.lba
    BY <1>1 DEF IInv, TypeOK, BusTypeOK, QuietInv, CallInv, Quiet
  <1>4. CommandOf(call.op) \in Command
    BY DEF CommandOf, Command
  <1>5. PICK d \in DriveState :
          /\ drive' = [drive EXCEPT ![Target] = d]
          /\ Idle(d) \/ (Present(Target) /\ Started(d) /\ d.phase = "accepted")
    <2>1. CASE Present(Target)
      <3> DEFINE d == [drive[Target] EXCEPT !.phase = "accepted", !.cmd = CommandOf(call.op),
                                            !.addr = call.lba]
      <3>1. drive' = [drive EXCEPT ![Target] = d]
        BY <1>1, <1>3, <2>1 DEF SendCommand, IssueCommand
      <3>2. d \in DriveState /\ Started(d) /\ d.phase = "accepted"
        BY <1>1, <1>3, <1>4 DEF DriveState, Started
      <3>. QED  BY <2>1, <3>1, <3>2
    <2>2. CASE ~Present(Target)
      <3>1. drive' = drive
        BY <1>1, <2>2 DEF SendCommand, IssueCommand
      <3>2. drive' = [drive EXCEPT ![Target] = drive[Target]]
        BY <3>1, <1>1 DEF IInv, TypeOK, BusTypeOK
      <3>. QED  BY <1>3, <3>2 DEF Idle
    <2>. QED  BY <2>1, <2>2
  <1>6. BusTypeOK' /\ DrivesSound' /\ QuietInv' /\ drive'[Target] = d
    BY <1>1, <1>2, <1>5 DEF IInv, TypeOK, BusTypeOK, DrivesSound, Present, QuietInv, Quiet, Started, Idle, Target
  <1>7. TypeOK'
    BY <1>2, <1>6 DEF IInv, TypeOK, Points, ReadPoints
  <1>8. CallInv'
    BY <1>1, <1>2 DEF IInv, CallInv, FlushPoints
  <1>9. Together' /\ ReadsAreTrue'
    BY <1>2, <1>5, <1>6 DEF Together, Phase, ReadsAreTrue, FlushPoints, Idle, Started, Target
  <1>. QED  BY <1>6, <1>7, <1>8, <1>9 DEF IInv

\* What the status register tells of the drive of the call.
LEMMA StatusOf ==
  ASSUME IInv, pc \notin {"idle", "wait", "select"}
  PROVE  /\ "BSY" \notin Status(call.ch) => drive[Target].phase # "busy"
         /\ drive[Target].phase \in {"dataIn", "dataOut"} => Status(call.ch) = {"DRDY", "DRQ"}
         /\ "DRQ" \in Status(call.ch) => drive[Target].phase \in {"dataIn", "dataOut"}
  <1>1. Target \in Pos /\ Selected(call.ch) = Target
    BY Here
  <1>2. /\ kind[Target] \in {"none", "ata", "atapi"}
        /\ drive[Target].phase # "idle" => kind[Target] \in {"ata", "atapi"}
        /\ drive[Target].phase \in {"busy", "dataIn", "dataOut"} => drive[Target].fault = {}
        /\ drive[Target].fault \subseteq {"ERR", "DF"}
    BY <1>1, SectorAssumption DEF IInv, DrivesSound, Present, TypeOK, BusTypeOK, DriveState
  <1>. QED  BY <1>1, <1>2 DEF Status

\* After 400 ns a drive that took a command no longer shows the old status.
LEMMA Wait400nsKeeps ==
  ASSUME IInv,
         Wait400ns("settle", "poll") \/ Wait400ns("flushSettle", "flushPoll")
  PROVE  IInv'
  <1>1. /\ UNCHANGED <<bus, call, buffer, i, result>>
        /\ \/ pc = "settle" /\ pc' = "poll"
           \/ pc = "flushSettle" /\ pc' = "flushPoll"
        /\ drive[Selected(call.ch)].phase # "accepted"
    BY DEF Wait400ns
  <1>2. Target \in Pos /\ Selected(call.ch) = Target
    BY <1>1, Here
  <1>3. TypeOK' /\ DrivesSound'
    BY <1>1, BusKept DEF IInv, TypeOK, Points, ReadPoints, FlushPoints
  <1>4. CallInv' /\ QuietInv'
    BY <1>1 DEF IInv, CallInv, QuietInv, Quiet, FlushPoints, bus, Target
  <1>5. Together' /\ ReadsAreTrue'
    BY <1>1, <1>2 DEF IInv, Together, Phase, ReadsAreTrue, FlushPoints, Idle, Started, Valid,
                      Offering, Taking, Committing, Flushing, bus, Target
  <1>. QED  BY <1>3, <1>4, <1>5 DEF IInv

\* The poll ends with the drive done with the first stage of the command.
LEMMA PollKeeps == ASSUME IInv, Poll PROVE IInv'
  <1>1. /\ UNCHANGED <<bus, call, buffer, i, result>>
        /\ pc = "poll" /\ pc' = "check"
        /\ "BSY" \notin Status(call.ch)
    BY DEF Poll
  <1>2. TypeOK' /\ DrivesSound'
    BY <1>1, BusKept DEF IInv, TypeOK, Points, ReadPoints, FlushPoints
  <1>3. CallInv' /\ QuietInv'
    BY <1>1 DEF IInv, CallInv, QuietInv, Quiet, FlushPoints, bus, Target
  <1>4. drive[Target].phase # "busy"
    BY <1>1, StatusOf
  <1>5. Together' /\ ReadsAreTrue'
    BY <1>1, <1>4 DEF IInv, Together, Phase, ReadsAreTrue, FlushPoints, Idle, Started, Valid,
                      Offering, Taking, bus, Target
  <1>. QED  BY <1>2, <1>3, <1>5 DEF IInv

\* The call goes on to its transfer loop exactly if the drive is in its data phase;
\* otherwise the drive is idle and the call returns 1.
LEMMA CheckKeeps == ASSUME IInv, Check PROVE IInv'
  <1>1. UNCHANGED <<bus, call, buffer, i>> /\ pc = "check"
    BY DEF Check
  <1>2. Target \in Pos /\ drive[Target] \in DriveState
    BY <1>1, Here DEF IInv, TypeOK, BusTypeOK
  <1>3. /\ \A p \in Pos \ {Target} : drive[p].phase = "idle"
        /\ i = 0
    BY <1>1 DEF IInv, QuietInv, CallInv, Quiet, FlushPoints
  <1>4. DrivesSound' /\ BusTypeOK'
    BY <1>1, BusKept
  <1>5. CASE PollError(Status(call.ch)) # 0
    <2>1. pc' = "idle" /\ result' = 1
      BY <1>5 DEF Check, Return
    <2>2. drive[Target].phase \notin {"dataIn", "dataOut"}
      BY <1>1, <1>5, StatusOf DEF PollError
    <2>3. drive[Target].phase = "idle"
      BY <1>1, <2>2 DEF IInv, Together, Phase, Idle, Started, Offering, Taking
    <2>4. TypeOK'
      BY <1>1, <1>4, <2>1 DEF IInv, TypeOK, Points, None
    <2>5. CallInv' /\ QuietInv'
      BY <1>1, <1>3, <2>1, <2>3 DEF CallInv, QuietInv, Quiet, FlushPoints, bus
    <2>6. Together' /\ ReadsAreTrue'
      BY <2>1 DEF Together, ReadsAreTrue
    <2>. QED  BY <1>4, <2>4, <2>5, <2>6 DEF IInv
  <1>6. CASE PollError(Status(call.ch)) = 0
    <2>1. pc' = "transfer" /\ UNCHANGED result
      BY <1>6 DEF Check
    <2>2. drive[Target].phase \in {"dataIn", "dataOut"}
      BY <1>1, <1>6, StatusOf DEF PollError
    <2>3. Valid /\ (Offering(drive[Target]) \/ Taking(drive[Target]))
      BY <1>1, <2>2 DEF IInv, Together, Phase, Idle, Started
    <2>4. TypeOK'
      BY <1>1, <1>4, <2>1 DEF IInv, TypeOK, Points, ReadPoints
    <2>5. CallInv' /\ QuietInv'
      BY <1>1, <1>3, <2>1 DEF IInv, CallInv, QuietInv, Quiet, FlushPoints, bus, Target
    <2>6. Together' /\ ReadsAreTrue'
      BY <1>1, <1>3, <2>1, <2>3, BusAssumption
         DEF Together, Phase, ReadsAreTrue, FlushPoints, Valid, Offering, Taking, bus, Target
    <2>. QED  BY <1>4, <2>4, <2>5, <2>6 DEF IInv
  <1>. QED  BY <1>5, <1>6

\* In the transfer loop the drive of the call offers or takes words.
LEMMA Transferring ==
  ASSUME IInv, pc = "transfer", i < SectorWords
  PROVE  /\ i \in Word /\ SectorWords \in Nat /\ i \in Nat
         /\ Target \in Pos /\ Selected(call.ch) = Target
         /\ drive \in [Pos -> DriveState] /\ drive[Target] \in DriveState
         /\ disk[Target][call.lba] \in Block
         /\ buffer \in [Word -> Content]
         /\ Valid /\ (Offering(drive[Target]) \/ Taking(drive[Target]))
         /\ \A p \in Pos \ {Target} : drive[p].phase = "idle"
         /\ call \in Calls /\ selected[call.ch] = call.drv
         /\ call.op = "write" => buffer \in Block
  <1>1. Target \in Pos /\ Selected(call.ch) = Target /\ call \in Calls
    BY Here
  <1>2. i \in Word /\ SectorWords \in Nat /\ i \in Nat
    BY BusAssumption DEF IInv, TypeOK, Word
  <1>3. Valid /\ (Offering(drive[Target]) \/ Taking(drive[Target]))
    BY DEF IInv, Together, Phase
  <1>4. disk[Target][call.lba] \in Block
    BY <1>1, <1>3 DEF IInv, TypeOK, BusTypeOK, Valid
  <1>. QED  BY <1>1, <1>2, <1>3, <1>4 DEF IInv, TypeOK, BusTypeOK, QuietInv, Quiet, CallInv

\* The drive hands out the word the loop is at; after the last one it is idle and the
\* buffer is the sector.
LEMMA ReadWordKeeps == ASSUME IInv, ReadWord PROVE IInv'
  <1> DEFINE d == drive[Target]
             s == disk[Target][call.lba]
  <1>1. /\ UNCHANGED <<kind, selected, regs, disk, dirty, pc, call, result>>
        /\ pc = "transfer" /\ call.op = "read" /\ i < SectorWords
        /\ i' = i + 1
    BY DEF ReadWord
  <1>2. /\ i \in Word /\ SectorWords \in Nat /\ i \in Nat
        /\ Target \in Pos /\ Selected(call.ch) = Target
        /\ drive \in [Pos -> DriveState] /\ d \in DriveState
        /\ s \in Block /\ buffer \in [Word -> Content]
        /\ Valid
        /\ \A p \in Pos \ {Target} : drive[p].phase = "idle"
        /\ call \in Calls /\ selected[call.ch] = call.drv
    BY <1>1, Transferring
  <1>3. Offering(d)
    BY <1>1, Transferring DEF Taking
  <1>4. buffer' = [buffer EXCEPT ![i] = s[i]]
    BY <1>2, <1>3 DEF ReadWord, DataWord, Offering
  <1>5. buffer' \in [Word -> Content] /\ \A w \in 0 .. i : buffer'[w] = s[w]
    <2>1. s[i] \in Content
      BY <1>2 DEF Block, Content
    <2>2. buffer' \in [Word -> Content] /\ buffer'[i] = s[i]
      BY <1>2, <1>4, <2>1
    <2>3. ASSUME NEW w \in 0 .. i PROVE buffer'[w] = s[w]
      <3>1. CASE w = i
        BY <2>2, <3>1
      <3>2. CASE w # i
        BY <1>2, <1>3, <1>4, <3>2 DEF Offering, Word
      <3>. QED  BY <3>1, <3>2
    <2>. QED  BY <2>2, <2>3
  <1>6. PICK e \in DriveState :
          /\ drive' = [drive EXCEPT ![Target] = e]
          /\ IF d.left = 1 THEN e.phase = "idle"
             ELSE /\ e.phase = "dataIn" /\ e.cmd = "READ" /\ e.left = d.left - 1
                  /\ e.buf = d.buf /\ e.fault = d.fault
    <2>1. d.phase = "dataIn" /\ d.cmd = "READ" /\ d.left = SectorWords - i
      BY <1>3 DEF Offering
    <2>2. drive' = [drive EXCEPT ![Target] = IF d.left = 1 THEN [IdleDrive EXCEPT !.fault = d.fault]
                                             ELSE [d EXCEPT !.left = d.left - 1]]
      BY <1>2, <2>1 DEF ReadWord, ReadDataPort
    <2>3. CASE d.left = 1
      <3>1. [IdleDrive EXCEPT !.fault = d.fault] \in DriveState
        BY <1>2, BusAssumption DEF IdleDrive, DriveState, JunkBlock, Content
      <3>. QED  BY <2>2, <2>3, <3>1 DEF IdleDrive
    <2>4. CASE d.left # 1
      <3>1. d.left - 1 \in 0 .. SectorWords
        BY <1>1, <1>2, <2>1
      <3>2. [d EXCEPT !.left = d.left - 1] \in DriveState
        BY <1>2, <3>1 DEF DriveState
      <3>. QED  BY <1>2, <2>1, <2>2, <2>4, <3>2 DEF DriveState
    <2>. QED  BY <2>3, <2>4
  <1>7. BusTypeOK' /\ DrivesSound' /\ QuietInv' /\ drive'[Target] = e
    BY <1>1, <1>2, <1>3, <1>6
       DEF IInv, TypeOK, BusTypeOK, DrivesSound, Present, QuietInv, Quiet, Offering, Target
  <1>8. TypeOK'
    BY <1>1, <1>2, <1>5, <1>7 DEF IInv, TypeOK, Word
  <1>9. CallInv' /\ ReadsAreTrue'
    BY <1>1, <1>2 DEF IInv, CallInv, FlushPoints, Quiet, ReadsAreTrue
  <1>10. Together'
    <2>1. CASE d.left = 1
      <3>1. i + 1 = SectorWords
        BY <1>2, <1>3, <2>1 DEF Offering
      <3>2. buffer' = s
        <4>1. s \in [Word -> Data]
          BY <1>2 DEF Block
        <4>2. \A w \in Word : buffer'[w] = s[w]
          BY <1>2, <1>5, <3>1 DEF Word
        <4>. HIDE DEF s
        <4>. QED  BY <1>5, <4>1, <4>2
      <3>. QED  BY <1>1, <1>2, <1>6, <1>7, <2>1, <3>1, <3>2
              DEF Together, Phase, FlushPoints, Valid, Idle, Target
    <2>2. CASE d.left # 1
      <3>1. i + 1 < SectorWords /\ e.left = SectorWords - (i + 1)
        BY <1>2, <1>3, <1>6, <2>2, <1>1 DEF Offering
      <3>2. \A w \in 0 .. (i + 1) - 1 : buffer'[w] = s[w]
        BY <1>2, <1>5
      <3>3. Offering(e)'
        BY <1>1, <1>3, <1>6, <2>2, <3>1, <3>2 DEF Offering, Target
      <3>. QED  BY <1>1, <1>2, <1>7, <3>1, <3>3
              DEF Together, Phase, FlushPoints, Valid, Target, Offering
    <2>. QED  BY <2>1, <2>2
  <1>. QED  BY <1>7, <1>8, <1>9, <1>10 DEF IInv

\* The drive takes the word the loop is at; after the last one it stores the block.
LEMMA WriteWordKeeps == ASSUME IInv, WriteWord PROVE IInv'
  <1> DEFINE d == drive[Target]
             filled == [d.buf EXCEPT ![i] = buffer[i]]
  <1>1. /\ UNCHANGED <<kind, selected, regs, disk, dirty, pc, call, buffer, result>>
        /\ pc = "transfer" /\ call.op = "write" /\ i < SectorWords
        /\ i' = i + 1
    BY DEF WriteWord
  <1>2. /\ i \in Word /\ SectorWords \in Nat /\ i \in Nat
        /\ Target \in Pos /\ Selected(call.ch) = Target
        /\ drive \in [Pos -> DriveState] /\ d \in DriveState
        /\ buffer \in [Word -> Content]
        /\ Valid
        /\ \A p \in Pos \ {Target} : drive[p].phase = "idle"
        /\ call \in Calls /\ selected[call.ch] = call.drv
    BY <1>1, Transferring
  <1>3. Taking(d)
    BY <1>1, Transferring DEF Offering
  <1>4. filled \in [Word -> Content] /\ \A w \in 0 .. i : filled[w] = buffer[w]
    <2>1. d.buf \in [Word -> Content]
      BY <1>2 DEF DriveState
    <2>2. filled \in [Word -> Content] /\ filled[i] = buffer[i]
      BY <1>2, <2>1
    <2>3. ASSUME NEW w \in 0 .. i PROVE filled[w] = buffer[w]
      <3>1. CASE w = i
        BY <2>2, <3>1
      <3>2. CASE w # i
        BY <1>2, <1>3, <2>1, <3>2 DEF Taking, Word
      <3>. QED  BY <3>1, <3>2
    <2>. QED  BY <2>2, <2>3
  <1>5. PICK e \in DriveState :
          /\ drive' = [drive EXCEPT ![Target] = e]
          /\ e.buf = filled /\ e.addr = d.addr /\ e.fault = d.fault
          /\ IF d.left = 1 THEN e.phase = "busy" /\ e.cmd = "COMMIT"
             ELSE e.phase = "dataOut" /\ e.cmd = "WRITE" /\ e.left = d.left - 1
    <2>1. d.phase = "dataOut" /\ d.cmd = "WRITE" /\ d.left = SectorWords - i /\ SectorWords - d.left = i
      BY <1>2, <1>3 DEF Taking
    <2>2. drive' = [drive EXCEPT ![Target] =
                      IF d.left = 1
                      THEN [d EXCEPT !.buf = filled, !.left = 0, !.phase = "busy", !.cmd = "COMMIT"]
                      ELSE [d EXCEPT !.buf = filled, !.left = d.left - 1]]
      BY <1>2, <2>1 DEF WriteWord, WriteDataPort
    <2> HIDE DEF filled
    <2>3. CASE d.left = 1
      <3> DEFINE e == [d EXCEPT !.buf = filled, !.left = 0, !.phase = "busy", !.cmd = "COMMIT"]
      <3>1. e \in DriveState
        <4>1. 0 \in 0 .. SectorWords
          BY <1>2
        <4>. QED  BY <1>2, <1>4, <4>1 DEF DriveState
      <3>2. /\ e.buf = filled /\ e.addr = d.addr /\ e.fault = d.fault
            /\ e.phase = "busy" /\ e.cmd = "COMMIT"
        BY <1>2 DEF DriveState
      <3>3. drive' = [drive EXCEPT ![Target] = e]
        BY <2>2, <2>3
      <3>. QED  BY <2>3, <3>1, <3>2, <3>3
    <2>4. CASE d.left # 1
      <3>1. d.left - 1 \in 0 .. SectorWords
        BY <1>1, <1>2, <2>1
      <3> DEFINE e == [d EXCEPT !.buf = filled, !.left = d.left - 1]
      <3>2. e \in DriveState
        BY <1>2, <1>4, <3>1 DEF DriveState
      <3>3. /\ e.buf = filled /\ e.addr = d.addr /\ e.fault = d.fault
            /\ e.phase = "dataOut" /\ e.cmd = "WRITE" /\ e.left = d.left - 1
        BY <1>2, <2>1 DEF DriveState
      <3>4. drive' = [drive EXCEPT ![Target] = e]
        BY <2>2, <2>4
      <3>. QED  BY <2>4, <3>2, <3>3, <3>4
    <2>. QED  BY <2>3, <2>4
  <1> HIDE DEF filled
  <1>6. BusTypeOK' /\ DrivesSound' /\ QuietInv' /\ drive'[Target] = e
    BY <1>1, <1>2, <1>3, <1>5
       DEF IInv, TypeOK, BusTypeOK, DrivesSound, Present, QuietInv, Quiet, Taking, Target
  <1>7. TypeOK'
    BY <1>1, <1>2, <1>6 DEF IInv, TypeOK, Word
  <1>8. CallInv' /\ ReadsAreTrue'
    BY <1>1, <1>2 DEF IInv, CallInv, FlushPoints, Quiet, ReadsAreTrue
  <1>9. Together'
    <2>1. CASE d.left = 1
      <3>1. i + 1 = SectorWords
        BY <1>2, <1>3, <2>1 DEF Taking
      <3>2. filled = buffer
        BY <1>2, <1>4, <3>1 DEF Word
      <3>3. Committing(e)'
        BY <1>1, <1>3, <1>5, <2>1, <3>2 DEF Committing, Taking
      <3>. QED  BY <1>1, <1>2, <1>6, <3>1, <3>3 DEF Together, Phase, FlushPoints, Valid, Target, Committing
    <2>2. CASE d.left # 1
      <3>1. i + 1 < SectorWords /\ e.left = SectorWords - (i + 1)
        BY <1>2, <1>3, <1>5, <2>2, <1>1 DEF Taking
      <3>2. \A w \in 0 .. (i + 1) - 1 : e.buf[w] = buffer[w]
        BY <1>2, <1>4, <1>5
      <3>3. Taking(e)'
        BY <1>1, <1>3, <1>5, <2>2, <3>1, <3>2 DEF Taking
      <3>. QED  BY <1>1, <1>2, <1>6, <3>1, <3>3 DEF Together, Phase, FlushPoints, Valid, Target, Taking
    <2>. QED  BY <2>1, <2>2
  <1>. QED  BY <1>6, <1>7, <1>8, <1>9 DEF IInv

\* A read returns with its drive idle and its buffer filled.
LEMMA EndTransferKeeps == ASSUME IInv, EndTransfer PROVE IInv'
  <1>1. /\ UNCHANGED <<bus, call, buffer, i>>
        /\ pc = "transfer" /\ i = SectorWords
    BY DEF EndTransfer
  <1>2. Target \in Pos /\ call.op \in {"read", "write"}
    BY <1>1, Here
  <1>3. /\ Valid
        /\ IF call.op = "read" THEN Idle(drive[Target]) /\ buffer = disk[Target][call.lba]
                               ELSE Idle(drive[Target]) \/ Committing(drive[Target])
    BY <1>1 DEF IInv, Together, Phase
  <1>4. DrivesSound' /\ BusTypeOK'
    BY <1>1, BusKept
  <1>5. CASE call.op = "read"
    <2>1. pc' = "idle" /\ result' = 0
      BY <1>5 DEF EndTransfer, Return
    <2>2. TypeOK'
      BY <1>1, <1>4, <2>1 DEF IInv, TypeOK, Points, None
    <2>3. CallInv' /\ QuietInv'
      BY <1>1, <1>3, <1>5, <2>1 DEF IInv, CallInv, QuietInv, Quiet, FlushPoints, Idle, bus
    <2>4. Together' /\ ReadsAreTrue'
      BY <1>1, <1>3, <1>5, <2>1 DEF Together, ReadsAreTrue, Valid, Target, bus
    <2>. QED  BY <1>4, <2>2, <2>3, <2>4 DEF IInv
  <1>6. CASE call.op = "write"
    <2>1. pc' = "flush" /\ UNCHANGED result
      BY <1>6 DEF EndTransfer
    <2>2. TypeOK'
      BY <1>1, <1>4, <2>1 DEF IInv, TypeOK, Points, FlushPoints
    <2>3. CallInv' /\ QuietInv'
      BY <1>1, <2>1 DEF IInv, CallInv, QuietInv, Quiet, FlushPoints, Target, bus
    <2>4. Together' /\ ReadsAreTrue'
      BY <1>1, <1>3, <1>6, <2>1
         DEF Together, Phase, ReadsAreTrue, FlushPoints, Valid, Idle, Committing, Target, bus
    <2>. QED  BY <1>4, <2>2, <2>3, <2>4 DEF IInv
  <1>. QED  BY <1>2, <1>5, <1>6

\* The flush reaches a drive that is idle, and is ignored by one that is storing.
LEMMA SendFlushKeeps == ASSUME IInv, SendFlush PROVE IInv'
  <1>1. /\ UNCHANGED <<kind, selected, regs, disk, dirty, call, buffer, i, result>>
        /\ pc = "flush" /\ pc' = "flushSettle"
    BY DEF SendFlush
  <1>2. Target \in Pos /\ Selected(call.ch) = Target /\ call \in Calls
    BY <1>1, Here
  <1>3. /\ Valid /\ call.op = "write"
        /\ Idle(drive[Target]) \/ Committing(drive[Target])
    BY <1>1 DEF IInv, Together, Phase, FlushPoints
  <1>4. /\ drive \in [Pos -> DriveState] /\ drive[Target] \in DriveState
        /\ regs[Target] \in TaskFile
    BY <1>2 DEF IInv, TypeOK, BusTypeOK
  <1>5. PICK d \in DriveState :
          /\ drive' = [drive EXCEPT ![Target] = d]
          /\ \/ d.phase = "accepted" /\ Flushing(d)
             \/ d = drive[Target] /\ Committing(d)
    <2>1. CASE drive[Target].phase = "idle"
      <3> DEFINE a == AddressOf(regs[Target])
                 e == [drive[Target] EXCEPT !.phase = "accepted", !.cmd = "FLUSH", !.addr = a]
      <3>1. drive' = [drive EXCEPT ![Target] = e]
        BY <1>2, <1>3, <1>4, <2>1 DEF SendFlush, IssueCommand, Valid, Present
      <3>2. a \in Nat
        <4>1. /\ regs[Target].lba0 \in Nat /\ regs[Target].lba1 \in Nat
              /\ regs[Target].lba2 \in Nat /\ regs[Target].top \in Nat
          BY <1>4 DEF TaskFile, Byte
        <4>. QED  BY SMT, <4>1 DEF AddressOf
      <3> HIDE DEF a
      <3>3. e \in DriveState /\ e.phase = "accepted" /\ Flushing(e)
        BY <1>4, <3>2 DEF DriveState, Flushing, Command
      <3> HIDE DEF e
      <3>. QED  BY <3>1, <3>3
    <2>2. CASE drive[Target].phase # "idle"
      <3>1. drive' = drive /\ Committing(drive[Target])
        BY <1>2, <1>3, <2>2 DEF SendFlush, IssueCommand, Idle
      <3>2. drive' = [drive EXCEPT ![Target] = drive[Target]]
        BY <1>2, <1>4, <3>1
      <3>. QED  BY <1>4, <3>1, <3>2
    <2>. QED  BY <2>1, <2>2
  <1>6. BusTypeOK' /\ DrivesSound' /\ QuietInv' /\ drive'[Target] = d
    BY <1>1, <1>2, <1>3, <1>4, <1>5
       DEF IInv, TypeOK, BusTypeOK, DrivesSound, Present, QuietInv, Quiet, Valid, Target
  <1>7. TypeOK'
    BY <1>1, <1>6 DEF IInv, TypeOK, Points, FlushPoints
  <1>8. CallInv'
    BY <1>1 DEF IInv, CallInv, FlushPoints
  <1>9. Together' /\ ReadsAreTrue'
    BY <1>1, <1>3, <1>5, <1>6
       DEF Together, Phase, ReadsAreTrue, FlushPoints, Valid, Committing, Flushing, Target
  <1>. QED  BY <1>6, <1>7, <1>8, <1>9 DEF IInv

\* When BSY is gone after the flush, the drive is idle.
LEMMA FinishWriteKeeps == ASSUME IInv, FinishWrite PROVE IInv'
  <1>1. /\ UNCHANGED <<bus, call, buffer, i>>
        /\ pc = "flushPoll" /\ "BSY" \notin Status(call.ch)
        /\ pc' = "idle" /\ result' = 0
    BY DEF FinishWrite, Return
  <1>2. drive[Target].phase = "idle" /\ call.op = "write"
    BY <1>1, StatusOf DEF IInv, Together, Phase, FlushPoints, Idle, Committing, Flushing
  <1>3. TypeOK' /\ DrivesSound'
    BY <1>1, BusKept DEF IInv, TypeOK, Points
  <1>4. CallInv' /\ QuietInv'
    BY <1>1, <1>2 DEF IInv, CallInv, QuietInv, Quiet, FlushPoints, bus
  <1>5. Together' /\ ReadsAreTrue'
    BY <1>1, <1>2 DEF Together, ReadsAreTrue
  <1>. QED  BY <1>3, <1>4, <1>5 DEF IInv

(***************************************************************************)
(* The steps of the drives.                                                *)
(***************************************************************************)

\* A drive that is not idle is that of the call, which has sent its command.
LEMMA DriveWorks ==
  ASSUME IInv, NEW p \in Pos, drive[p].phase # "idle"
  PROVE  /\ p = Target /\ pc \notin Quiet /\ pc \in Points
         /\ Present(p) /\ drive[p] \in DriveState
         /\ Phase(drive[p]) /\ call.op \in {"read", "write"}
  <1>1. p = Target /\ pc \notin Quiet
    BY DEF IInv, QuietInv
  <1>2. pc # "idle"
    BY <1>1 DEF Quiet
  <1>. QED  BY <1>1, <1>2, Here DEF IInv, DrivesSound, TypeOK, BusTypeOK, Together

\* A step of the drive of the call preserves the invariant if its new state is one
\* that fits the program point.
LEMMA DriveChanges ==
  ASSUME IInv, pc \notin Quiet, NEW e \in DriveState,
         Present(Target),
         drive' = [drive EXCEPT ![Target] = e],
         UNCHANGED <<kind, selected, driver>>,
         regs' \in [Pos -> TaskFile], disk' \in [Pos -> [Sectors -> Block]], dirty' \in SUBSET Pos,
         e.phase \in {"busy", "dataIn", "dataOut"} => e.fault = {},
         Phase(e)'
  PROVE  IInv'
  <1>1. pc # "idle" /\ Target \in Pos /\ Target' = Target
    BY Here DEF Quiet, driver, Target
  <1>2. BusTypeOK' /\ DrivesSound' /\ QuietInv' /\ drive'[Target] = e
    BY <1>1 DEF IInv, TypeOK, BusTypeOK, DrivesSound, Present, QuietInv, Quiet, driver
  <1>3. TypeOK'
    BY <1>2 DEF IInv, TypeOK, driver
  <1>4. CallInv'
    BY <1>1 DEF IInv, CallInv, Quiet, FlushPoints, driver
  <1>5. Together' /\ ReadsAreTrue'
    BY <1>1, <1>2 DEF Together, ReadsAreTrue, driver
  <1>. QED  BY <1>2, <1>3, <1>4, <1>5 DEF IInv

\* A drive may end its work at any time, with or without an error.
LEMMA StopKeeps ==
  ASSUME IInv, NEW p \in Pos, NEW f \in SUBSET {"ERR", "DF"},
         drive[p].phase = "busy", Stop(p, f),
         UNCHANGED <<kind, selected, driver>>,
         regs' \in [Pos -> TaskFile], dirty' \in SUBSET Pos,
         \/ UNCHANGED disk
         \/ drive[p].cmd = "COMMIT" /\ disk' \in [Pos -> [Sectors -> Block]]
  PROVE  IInv'
  <1>1. /\ p = Target /\ pc \notin Quiet /\ pc \in Points
        /\ Present(p) /\ drive[p] \in DriveState
        /\ Phase(drive[p]) /\ call.op \in {"read", "write"}
    BY DriveWorks
  <1>2. [IdleDrive EXCEPT !.fault = f] \in DriveState
    BY BusAssumption DEF IdleDrive, DriveState, JunkBlock, Content
  <1>3. PICK e \in DriveState : drive' = [drive EXCEPT ![Target] = e] /\ e.phase = "idle"
    BY <1>1, <1>2 DEF Stop, IdleDrive
  <1>4. disk' \in [Pos -> [Sectors -> Block]]
    BY DEF IInv, TypeOK, BusTypeOK
  <1>5. Phase(e)'
    <2>1. pc # "check"
      BY <1>1 DEF Phase
    <2>2. CASE pc = "transfer"
      <3>1. i = SectorWords /\ Valid /\ call.op = "write"
        BY <1>1, <2>2, BusAssumption DEF IInv, TypeOK, Phase, Offering, Taking, Idle
      <3>. QED  BY <1>3, <2>2, <3>1, BusAssumption DEF Phase, Idle, Valid, FlushPoints, Target, driver
    <2>3. CASE pc # "transfer"
      BY <1>1, <1>3, <2>1, <2>3 DEF Phase, Idle, Valid, FlushPoints, Target, driver
    <2>. QED  BY <2>2, <2>3
  <1>. QED  BY <1>1, <1>2, <1>3, <1>4, <1>5, DriveChanges

\* Showing BSY preserves the invariant.
LEMMA AssertBusyKeeps ==
  ASSUME IInv, NEW p \in Pos, AssertBusy(p), UNCHANGED driver PROVE IInv'
  <1>1. /\ p = Target /\ pc \notin Quiet /\ pc \in Points
        /\ Present(p) /\ drive[p] \in DriveState
        /\ Phase(drive[p]) /\ call.op \in {"read", "write"}
    BY DriveWorks DEF AssertBusy
  <1>2. /\ drive[p].phase = "accepted"
        /\ UNCHANGED <<kind, selected, regs, disk, dirty>>
    BY DEF AssertBusy
  <1>3. PICK e \in DriveState :
          /\ drive' = [drive EXCEPT ![Target] = e]
          /\ e.phase = "busy" /\ e.fault = {} /\ e.cmd = drive[p].cmd /\ e.addr = drive[p].addr
    <2> DEFINE b == [drive[p] EXCEPT !.phase = "busy", !.fault = {}]
    <2>1. /\ b \in DriveState
          /\ b.phase = "busy" /\ b.fault = {} /\ b.cmd = drive[p].cmd /\ b.addr = drive[p].addr
      BY <1>1 DEF DriveState
    <2>2. drive' = [drive EXCEPT ![Target] = b]
      BY <1>1 DEF AssertBusy, IInv, TypeOK, BusTypeOK
    <2> HIDE DEF b
    <2>. QED  BY <2>1, <2>2
  <1>4. Phase(e)'
    <2>1. pc \in {"settle", "flushSettle"}
      BY <1>1, <1>2, BusAssumption DEF IInv, TypeOK, Phase, Points, ReadPoints, FlushPoints, Quiet, Idle, Offering,
                        Taking, Committing
    <2>. QED  BY <1>1, <1>2, <1>3, <2>1
           DEF Phase, Idle, Started, Offering, Taking, Committing, Flushing, Valid, FlushPoints, Target, driver
  <1>. QED  BY <1>1, <1>2, <1>3, <1>4, DriveChanges DEF IInv, TypeOK, BusTypeOK

\* Aborting an unsupported command preserves the invariant.
LEMMA AbortKeeps ==
  ASSUME IInv, NEW p \in Pos, Abort(p), UNCHANGED driver PROVE IInv'
  <1>1. 20 \in Byte /\ 235 \in Byte
    BY DEF Byte
  <1>2. regs' \in [Pos -> TaskFile]
    <2>1. ASSUME NEW r \in TaskFile PROVE [r EXCEPT !.lba1 = 20, !.lba2 = 235] \in TaskFile
      BY <1>1 DEF TaskFile
    <2>2. regs \in [Pos -> TaskFile]
      BY DEF IInv, TypeOK, BusTypeOK
    <2>3. regs' = regs \/ regs' = [regs EXCEPT ![p] = [regs[p] EXCEPT !.lba1 = 20, !.lba2 = 235]]
      BY <2>2 DEF Abort, TaskFile
    <2>. QED  BY <2>1, <2>2, <2>3
  <1>3. /\ UNCHANGED <<kind, selected, disk, dirty>>
        /\ drive[p].phase = "busy" /\ Stop(p, {"ERR"})
    BY DEF Abort
  <1>. QED  BY <1>2, <1>3, StopKeeps DEF IInv, TypeOK, BusTypeOK

\* Which commands a busy drive can be working on, and where the call is then.
LEMMA BusyCommand ==
  ASSUME IInv, NEW p \in Pos, drive[p].phase = "busy"
  PROVE  /\ drive[p].cmd \in {"READ", "WRITE", "COMMIT", "FLUSH"}
         /\ drive[p].cmd \in {"READ", "WRITE"} =>
              /\ pc \in {"settle", "poll"} /\ Started(drive[p]) /\ i = 0
         /\ drive[p].cmd = "READ" => call.op = "read"
         /\ drive[p].cmd = "WRITE" => call.op = "write"
         /\ drive[p].cmd = "COMMIT" =>
              /\ pc \in {"transfer"} \cup FlushPoints /\ Valid /\ Committing(drive[p])
  <1>1. /\ p = Target /\ pc \notin Quiet /\ pc \in Points
        /\ Present(p) /\ drive[p] \in DriveState
        /\ Phase(drive[p]) /\ call.op \in {"read", "write"}
    BY DriveWorks
  <1>2. CASE pc \in {"settle", "poll", "check"}
    <2>1. Started(drive[p]) /\ pc # "check" /\ i = 0
      BY <1>1, <1>2 DEF Phase, Idle, Offering, Taking, IInv, CallInv, FlushPoints
    <2>. QED  BY <1>1, <1>2, <2>1 DEF Started, CommandOf
  <1>3. CASE pc = "transfer"
    <2>1. i = SectorWords /\ Valid /\ Committing(drive[p])
      BY <1>1, <1>3, BusAssumption DEF IInv, TypeOK, Phase, Offering, Taking, Idle
    <2>. QED  BY <1>3, <2>1 DEF Committing
  <1>4. CASE pc \in FlushPoints
    BY <1>1, <1>4 DEF Phase, FlushPoints, Idle, Committing, Flushing
  <1>. QED  BY <1>1, <1>2, <1>3, <1>4 DEF Points, ReadPoints, Quiet

\* A drive that goes on to its data phase does so for the sector of the call.
LEMMA OfferKeeps ==
  ASSUME IInv, NEW p \in Pos, drive[p].phase = "busy", kind[p] = "ata",
         drive[p].addr \in Sectors,
         UNCHANGED <<kind, selected, regs, disk, dirty, driver>>,
         \/ drive[p].cmd = "READ" /\ Offer(p, "dataIn", disk[p][drive[p].addr])
         \/ drive[p].cmd = "WRITE" /\ Offer(p, "dataOut", JunkBlock)
  PROVE  IInv'
  <1>1. /\ p = Target /\ pc \notin Quiet /\ pc \in Points
        /\ Present(p) /\ drive[p] \in DriveState
    BY DriveWorks
  <1>2. pc \in {"settle", "poll"} /\ Started(drive[p]) /\ i = 0 /\ drive[p].fault = {} /\ Valid
    BY <1>1, BusyCommand DEF IInv, DrivesSound, Valid, Started
  <1>3. /\ SectorWords \in 0 .. SectorWords /\ SectorWords - i = SectorWords /\ 0 .. i - 1 = {}
    BY <1>2, BusAssumption
  <1>4. PICK b \in [Word -> Content], ph \in {"dataIn", "dataOut"} :
          /\ Offer(p, ph, b)
          /\ \/ call.op = "read" /\ drive[p].cmd = "READ" /\ ph = "dataIn" /\ b = disk[Target][call.lba]
             \/ call.op = "write" /\ drive[p].cmd = "WRITE" /\ ph = "dataOut"
    <2>1. disk[p][drive[p].addr] \in [Word -> Content] /\ JunkBlock \in [Word -> Content]
      <3>1. disk[p][drive[p].addr] \in Block
        BY DEF IInv, TypeOK, BusTypeOK
      <3>. QED  BY <3>1 DEF Block, Content, JunkBlock
    <2>2. drive[p].addr = call.lba
      BY <1>2 DEF Started
    <2>. QED  BY <1>1, <2>1, <2>2, BusyCommand
  <1>5. PICK e \in DriveState :
          /\ drive' = [drive EXCEPT ![Target] = e]
          /\ e.phase = ph /\ e.left = SectorWords /\ e.buf = b
          /\ e.cmd = drive[p].cmd /\ e.addr = drive[p].addr /\ e.fault = drive[p].fault
    <2> DEFINE o == [drive[p] EXCEPT !.phase = ph, !.left = SectorWords, !.buf = b]
    <2>1. drive' = [drive EXCEPT ![Target] = o]
      BY <1>1, <1>4 DEF Offer, IInv, TypeOK, BusTypeOK
    <2>2. /\ o \in DriveState /\ o.phase = ph /\ o.left = SectorWords /\ o.buf = b
          /\ o.cmd = drive[p].cmd /\ o.addr = drive[p].addr /\ o.fault = drive[p].fault
      BY <1>1, <1>3 DEF DriveState
    <2> HIDE DEF o
    <2>. QED  BY <2>1, <2>2
  <1>6. (Offering(e) \/ Taking(e))'
    BY <1>1, <1>2, <1>3, <1>4, <1>5 DEF Offering, Taking, Started, Target, driver
  <1>7. Phase(e)'
    BY <1>1, <1>2, <1>4, <1>5, <1>6 DEF Phase, Valid, Target, FlushPoints, driver
  <1>. QED  BY <1>1, <1>2, <1>5, <1>7, DriveChanges DEF IInv, TypeOK, BusTypeOK

\* The steps of the drives preserve the invariant.
LEMMA DriveKeeps ==
  ASSUME IInv, NEW p \in Pos, DriveStep(p), UNCHANGED driver PROVE IInv'
  <1>1. CASE AssertBusy(p)
    BY <1>1, AssertBusyKeeps
  <1>2. CASE Abort(p)
    BY <1>2, AbortKeeps
  <1>3. CASE FinishIdentify(p)
    BY <1>3, BusyCommand DEF FinishIdentify, Working
  <1>4. CASE FinishRead(p) \/ RequestData(p)
    <2>1. /\ drive[p].phase = "busy" /\ kind[p] = "ata"
          /\ UNCHANGED <<kind, selected, regs, disk, dirty>>
      BY <1>4 DEF FinishRead, RequestData, Working, Supported
    <2>2. \/ \E f \in SUBSET {"ERR", "DF"} : Stop(p, f)
          \/ /\ drive[p].addr \in Sectors
             /\ \/ drive[p].cmd = "READ" /\ Offer(p, "dataIn", disk[p][drive[p].addr])
                \/ drive[p].cmd = "WRITE" /\ Offer(p, "dataOut", JunkBlock)
      BY <1>4 DEF FinishRead, RequestData, Working, Faults
    <2>. QED  BY <2>1, <2>2, StopKeeps, OfferKeeps DEF IInv, TypeOK, BusTypeOK
  <1>5. CASE CommitSector(p)
    <2>1. /\ drive[p].phase = "busy" /\ drive[p].cmd = "COMMIT"
          /\ UNCHANGED <<kind, selected, regs>>
          /\ dirty' \in SUBSET Pos
          /\ \E f \in SUBSET {"ERR", "DF"} : Stop(p, f)
      BY <1>5 DEF CommitSector, Working, Faults, IInv, TypeOK, BusTypeOK
    <2>2. \/ UNCHANGED disk
          \/ disk' \in [Pos -> [Sectors -> Block]]
      <3>1. CASE disk' = [disk EXCEPT ![p][drive[p].addr] = drive[p].buf]
        <4>1. drive[p].buf \in Block
          BY <2>1, BusyCommand, Here DEF Committing, IInv, CallInv, FlushPoints
        <4>. QED  BY <3>1, <4>1 DEF IInv, TypeOK, BusTypeOK
      <3>. QED  BY <1>5, <3>1 DEF CommitSector
    <2>. QED  BY <2>1, <2>2, StopKeeps DEF IInv, TypeOK, BusTypeOK
  <1>6. CASE FinishFlush(p)
    <2>1. /\ drive[p].phase = "busy"
          /\ UNCHANGED <<kind, selected, regs, disk>>
          /\ dirty' \in SUBSET Pos
          /\ \E f \in SUBSET {"ERR", "DF"} : Stop(p, f)
      BY <1>6 DEF FinishFlush, Working, Faults, IInv, TypeOK, BusTypeOK
    <2>. QED  BY <2>1, StopKeeps DEF IInv, TypeOK, BusTypeOK
  <1>. QED  BY <1>1, <1>2, <1>3, <1>4, <1>5, <1>6 DEF DriveStep

(***************************************************************************)
(* The theorems.                                                           *)
(***************************************************************************)

\* Every step preserves the invariant.
LEMMA StepKeeps == ASSUME Lba28 PROVE IInv /\ [Next]_vars => IInv'
  <1> SUFFICES ASSUME IInv, [Next]_vars PROVE IInv'
    OBVIOUS
  <1>1. CASE Begin
    BY <1>1, BeginKeeps
  <1>2. CASE Driver
    BY <1>2, WaitForReadyKeeps, SelectKeeps, WriteParametersKeeps, SendCommandKeeps,
       Wait400nsKeeps, PollKeeps, CheckKeeps, ReadWordKeeps, WriteWordKeeps,
       EndTransferKeeps, SendFlushKeeps, FinishWriteKeeps
       DEF Driver
  <1>3. ASSUME NEW p \in Pos, Drive(p) PROVE IInv'
    BY <1>3, DriveKeeps DEF Drive
  <1>4. CASE UNCHANGED vars
    <2>1. TypeOK' /\ DrivesSound'
      BY <1>4, BusKept DEF IInv, TypeOK, vars, driver
    <2>2. CallInv' /\ QuietInv' /\ ReadsAreTrue'
      BY <1>4 DEF IInv, CallInv, QuietInv, ReadsAreTrue, Quiet, FlushPoints, Target, vars, driver, bus
    <2>3. Together'
      BY <1>4 DEF IInv, Together, Phase, FlushPoints, Idle, Started, Offering, Taking, Committing,
                  Flushing, Valid, Target, vars, driver, bus
    <2>. QED  BY <2>1, <2>2, <2>3 DEF IInv
  <1>. QED  BY <1>1, <1>2, <1>3, <1>4 DEF Next

\* The invariant of every reachable state.
THEOREM SectorInvariant == ASSUME Lba28 PROVE Spec => []IInv
  <1>. QED  BY InitIInv, StepKeeps, PTL DEF Spec

\* Type correctness of the bus and of the driver.
THEOREM SectorTypes == ASSUME Lba28 PROVE Spec => []TypeOK
  <1>1. IInv => TypeOK
    BY DEF IInv
  <1>. QED  BY <1>1, SectorInvariant, PTL

\* The transfer loop touches the data port only in the data phase of its own command,
\* and agrees with the drive on the words left.
THEOREM DataPort == ASSUME Lba28 PROVE Spec => []DataPortDiscipline
  <1>1. IInv => DataPortDiscipline
    <2> SUFFICES ASSUME IInv, pc = "transfer"
                 PROVE  LET d == drive[Target] IN
                        IF i < SectorWords
                        THEN /\ d.phase = (IF call.op = "read" THEN "dataIn" ELSE "dataOut")
                             /\ d.left = SectorWords - i
                             /\ d.cmd = CommandOf(call.op)
                        ELSE d.phase \notin {"dataIn", "dataOut", "accepted"}
      BY Here DEF DataPortDiscipline
    <2>1. CASE i < SectorWords
      BY <2>1, Transferring DEF Offering, Taking, CommandOf
    <2>2. CASE ~(i < SectorWords)
      <3>1. i = SectorWords
        BY <2>2, BusAssumption DEF IInv, TypeOK
      <3>. QED  BY <2>2, <3>1 DEF IInv, Together, Phase, Idle, Committing
    <2>. QED  BY <2>1, <2>2
  <1>. QED  BY <1>1, SectorInvariant, PTL

\* Between calls, and until a call sends its command, every drive is idle.
THEOREM IdleDrives == ASSUME Lba28 PROVE Spec => []IdleBetweenCalls
  <1>1. IInv => IdleBetweenCalls
    BY DEF IInv, QuietInv, Quiet, IdleBetweenCalls
  <1>. QED  BY <1>1, SectorInvariant, PTL

\* A read that returns 0 filled the buffer with the sector it named.
THEOREM TrueReads == ASSUME Lba28 PROVE Spec => []ReadsAreTrue
  <1>1. IInv => ReadsAreTrue
    BY DEF IInv
  <1>. QED  BY <1>1, SectorInvariant, PTL

\* A disk changes only when the drive of a write call stores its block.
LEMMA DiskOfCall ==
  ASSUME IInv, Next, NEW p \in Pos, NEW s \in Sectors, disk'[p][s] # disk[p][s]
  PROVE  /\ pc # "idle" /\ call.op = "write"
         /\ p = Target /\ s = call.lba
         /\ disk'[p][s] = buffer
  <1>1. UNCHANGED disk \/ \E q \in Pos : CommitSector(q)
    BY DEF Next, Begin, Driver, WaitForReady, Select, WriteParameters, SendCommand, Wait400ns, Poll,
           Check, ReadWord, WriteWord, EndTransfer, SendFlush, FinishWrite, bus, Drive, DriveStep,
           AssertBusy, Abort, FinishIdentify, FinishRead, RequestData, FinishFlush
  <1>2. PICK q \in Pos : CommitSector(q)
    BY <1>1
  <1>3. /\ drive[q].phase = "busy" /\ drive[q].cmd = "COMMIT"
        /\ disk' = [disk EXCEPT ![q][drive[q].addr] = drive[q].buf]
    BY <1>2 DEF CommitSector, Working
  <1>4. q = Target /\ pc # "idle" /\ call.op = "write" /\ drive[q].buf = buffer /\ drive[q].addr = call.lba
    BY <1>3, DriveWorks, BusyCommand DEF Quiet, Committing
  <1>. QED  BY <1>3, <1>4 DEF IInv, TypeOK, BusTypeOK

\* A disk changes only in a write call, at its sector, to the caller's block.
THEOREM NamedSectorOnly == ASSUME Lba28 PROVE Spec => OnlyTheNamedSector
  <1>1. IInv /\ [Next]_vars =>
          [\A p \in Pos : \A s \in Sectors :
             disk'[p][s] # disk[p][s] =>
               /\ pc # "idle" /\ call.op = "write"
               /\ p = Target /\ s = call.lba
               /\ disk'[p][s] = buffer]_vars
    BY DiskOfCall
  <1>. QED  BY <1>1, SectorInvariant, PTL DEF Spec, OnlyTheNamedSector

=============================================================================
