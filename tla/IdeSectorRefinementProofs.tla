--------------------- MODULE IdeSectorRefinementProofs ----------------------
(***************************************************************************)
(* The proof that ide_read_sector and ide_write_sector implement the       *)
(* abstract store of SectorStore, for any number of channels, words,       *)
(* sectors and callers' blocks, and whatever the drives fail to do.        *)
(*                                                                         *)
(* A write takes effect when the drive commits the block it was sent; this *)
(* is after the last word, so that StoreApplied changes in CommitSector    *)
(* and nowhere else while the call runs.                                   *)
(***************************************************************************)
EXTENDS IdeSectorProofs

\* A step that the abstract store does not see.
Unseen == UNCHANGED <<disk, StoreRequest, StoreApplied, StoreReply>>

\* A call in progress is a request of the store.
LEMMA RequestIsOne ==
  ASSUME IInv, pc # "idle"
  PROVE  /\ StoreRequest \in Store!Requests
         /\ StoreRequest.op = call.op
         /\ StoreRequest.pos = Target
         /\ StoreRequest.lba = call.lba
         /\ StoreRequest.data = IF call.op = "write" THEN buffer ELSE JunkBlock
         /\ StoreReply = [code |-> None, data |-> JunkBlock]
  <1>1. Target \in Pos /\ call.lba \in Lbas /\ call.op \in {"read", "write"}
    BY Here
  <1>2. call.op = "write" => buffer \in Block
    BY DEF IInv, CallInv
  <1>3. StoreRequest = [op |-> call.op, pos |-> Target, lba |-> call.lba,
                        data |-> IF call.op = "write" THEN buffer ELSE JunkBlock]
    BY DEF StoreRequest
  <1>4. StoreReply = [code |-> None, data |-> JunkBlock]
    BY DEF StoreReply
  <1>. QED  BY <1>1, <1>2, <1>3, <1>4 DEF Store!Requests

\* A step within a call is unseen when the buffer of a write, the disks and the
\* moment of the effect stay as they are.
LEMMA UnseenStep ==
  ASSUME pc # "idle", pc' # "idle", UNCHANGED <<call, disk, StoreApplied>>,
         call.op = "write" => UNCHANGED buffer
  PROVE  Unseen
  BY DEF Unseen, StoreRequest, StoreReply, Target

\* The initial states of the driver are initial states of the store.
LEMMA InitStore == Init => Store!Init
  <1> SUFFICES ASSUME Init PROVE Store!Init
    OBVIOUS
  <1>1. disk \in [Pos -> [Sectors -> Block]]
    BY SectorAssumption DEF Init
  <1>2. StoreRequest = [op |-> "none"] /\ StoreReply = [code |-> None, data |-> JunkBlock] /\ StoreApplied = FALSE
    BY DEF Init, StoreRequest, StoreReply, StoreApplied, NoCall
  <1>. QED  BY <1>1, <1>2 DEF Store!Init, Store!NoRequest, Store!NoReply, None

\* The call of either function invokes the store.
LEMMA BeginInvokes == ASSUME IInv, Begin, IInv' PROVE Store!Invoke
  <1>1. pc = "idle" /\ pc' = "wait" /\ UNCHANGED disk
    BY DEF Begin, bus
  <1>2. StoreRequest' \in Store!Requests /\ StoreReply' = [code |-> None, data |-> JunkBlock]
    <2>1. call' \in Calls /\ (call'.op = "write" => buffer' \in Block)
      BY <1>1 DEF IInv, CallInv
    <2>2. Target' \in Pos /\ call'.lba \in Lbas /\ call'.op \in {"read", "write"}
      BY <2>1 DEF Calls, Target, Pos
    <2>3. StoreRequest' = [op |-> call'.op, pos |-> Target', lba |-> call'.lba,
                           data |-> IF call'.op = "write" THEN buffer' ELSE JunkBlock]
      BY <1>1 DEF StoreRequest
    <2>4. StoreReply' = [code |-> None, data |-> JunkBlock]
      BY <1>1 DEF StoreReply
    <2>. QED  BY <2>1, <2>2, <2>3, <2>4 DEF Store!Requests
  <1>3. StoreRequest = [op |-> "none"] /\ StoreApplied = FALSE /\ StoreApplied' = FALSE
    BY <1>1 DEF StoreRequest, StoreApplied, FlushPoints
  <1>. QED  BY <1>1, <1>2, <1>3 DEF Store!Invoke, Store!NoRequest, Store!NoReply, None

\* The steps of a call up to the data phase, and the waits, change nothing the
\* store sees.
LEMMA ApproachUnseen ==
  ASSUME IInv,
         \/ WaitForReady \/ Select \/ WriteParameters \/ SendCommand
         \/ Wait400ns("settle", "poll") \/ Poll
  PROVE  Unseen
  <1>1. /\ pc \notin {"idle", "transfer"} \cup FlushPoints
        /\ pc' \notin {"idle", "transfer"} \cup FlushPoints
        /\ UNCHANGED <<call, buffer, disk>>
    BY DEF WaitForReady, Select, WriteParameters, SendCommand, Wait400ns, Poll, FlushPoints, bus
  <1>2. StoreApplied = FALSE /\ StoreApplied' = FALSE
    BY <1>1 DEF StoreApplied
  <1>. QED  BY <1>1, <1>2, UnseenStep

\* The test of the status after the poll ends the call without effect or lets it
\* go on.
LEMMA CheckFailsOrUnseen == ASSUME IInv, Check PROVE Store!Fails \/ Unseen
  <1>1. pc = "check" /\ UNCHANGED <<call, buffer, disk, i, drive>>
    BY DEF Check, bus
  <1>2. StoreApplied = FALSE /\ i = 0
    BY <1>1 DEF StoreApplied, FlushPoints, IInv, CallInv
  <1>3. CASE PollError(Status(call.ch)) # 0
    <2>1. pc' = "idle" /\ result' = 1
      BY <1>3 DEF Check, Return
    <2>2. StoreRequest' = [op |-> "none"] /\ StoreApplied' = FALSE
      BY <2>1 DEF StoreRequest, StoreApplied, FlushPoints
    <2>3. call' # NoCall
      BY <1>1, Here DEF NoCall
    <2>4. StoreReply' = [code |-> 1, data |-> JunkBlock]
      BY <2>1, <2>3 DEF StoreReply
    <2>5. StoreRequest.op # "none"
      BY <1>1, RequestIsOne, Here
    <2>. QED  BY <1>1, <1>2, <2>2, <2>4, <2>5 DEF Store!Fails, Store!Reply, Store!NoRequest
  <1>4. CASE PollError(Status(call.ch)) = 0
    <2>1. pc' = "transfer"
      BY <1>4 DEF Check
    <2>2. StoreApplied' = FALSE
      BY <1>1, <1>2, BusAssumption DEF StoreApplied
    <2>. QED  BY <1>1, <1>2, <2>1, <2>2, UnseenStep
  <1>. QED  BY <1>3, <1>4

\* Reading a word fills the buffer of a call whose data the store does not see yet.
LEMMA ReadWordUnseen == ASSUME IInv, ReadWord PROVE Unseen
  <1>1. pc = "transfer" /\ pc' = "transfer" /\ UNCHANGED <<call, disk>> /\ call.op = "read"
    BY DEF ReadWord
  <1>2. StoreApplied = FALSE /\ StoreApplied' = FALSE
    BY <1>1 DEF StoreApplied
  <1>. QED  BY <1>1, <1>2, UnseenStep

\* Writing a word does not take effect: after the last one the drive works on it.
LEMMA WriteWordUnseen == ASSUME IInv, WriteWord PROVE Unseen
  <1>1. /\ pc = "transfer" /\ pc' = "transfer" /\ UNCHANGED <<call, buffer, disk, selected>>
        /\ call.op = "write" /\ i < SectorWords /\ i' = i + 1
        /\ WriteDataPort(call.ch, buffer[i])
    BY DEF WriteWord
  <1>2. /\ i \in Nat /\ SectorWords \in Nat /\ Selected(call.ch) = Target /\ Target \in Pos
        /\ drive \in [Pos -> DriveState] /\ drive[Target] \in DriveState
        /\ drive[Target].phase = "dataOut" /\ drive[Target].left = SectorWords - i
    BY <1>1, Transferring DEF Offering, Taking
  <1>3. StoreApplied = FALSE
    BY <1>1, <1>2 DEF StoreApplied
  <1>4. StoreApplied' = FALSE
    <2>1. CASE i + 1 = SectorWords
      <3>1. drive[Target].left = 1
        BY <1>2, <2>1
      <3>2. PICK b : drive' = [drive EXCEPT ![Target] =
                [drive[Target] EXCEPT !.buf = b, !.left = 0, !.phase = "busy", !.cmd = "COMMIT"]]
        BY <1>1, <1>2, <3>1 DEF WriteDataPort
      <3>3. drive'[Target].phase = "busy" /\ drive'[Target].cmd = "COMMIT"
        BY <1>2, <3>2 DEF DriveState
      <3>. QED  BY <1>1, <3>3 DEF StoreApplied, Working, Target
    <2>2. CASE i + 1 # SectorWords
      BY <1>1, <2>2 DEF StoreApplied
    <2>. QED  BY <2>1, <2>2
  <1>. QED  BY <1>1, <1>3, <1>4, UnseenStep

\* The end of the transfer loop returns the sector of a read.
LEMMA EndTransferReadsOrUnseen == ASSUME IInv, EndTransfer PROVE Store!ReadReturns \/ Unseen
  <1>1. pc = "transfer" /\ UNCHANGED <<call, buffer, disk, i, drive>> /\ i = SectorWords
    BY DEF EndTransfer, bus
  <1>2. call.op \in {"read", "write"} /\ Valid
    BY <1>1, Here DEF IInv, Together, Phase
  <1>3. CASE call.op = "read"
    <2>1. pc' = "idle" /\ result' = 0
      BY <1>3 DEF EndTransfer, Return
    <2>2. StoreRequest' = [op |-> "none"] /\ StoreApplied' = FALSE /\ StoreApplied = FALSE
      BY <1>3, <2>1 DEF StoreRequest, StoreApplied, FlushPoints
    <2>3. call' # NoCall /\ call'.op = "read"
      BY <1>1, <1>3 DEF NoCall
    <2>4. StoreReply' = [code |-> 0, data |-> buffer]
      BY <1>1, <2>1, <2>3 DEF StoreReply
    <2>5. buffer = disk[Target][call.lba]
      BY <1>1, <1>3 DEF IInv, Together, Phase
    <2>6. StoreRequest.op = "read" /\ StoreRequest.pos = Target /\ StoreRequest.lba = call.lba
      BY <1>1, <1>3, RequestIsOne
    <2>. QED  BY <1>1, <1>2, <2>2, <2>4, <2>5, <2>6
           DEF Store!ReadReturns, Store!Reply, Store!NoRequest, Valid
  <1>4. CASE call.op = "write"
    <2>1. pc' = "flush"
      BY <1>4 DEF EndTransfer
    <2>2. StoreApplied' = StoreApplied
      BY <1>1, <2>1 DEF StoreApplied, FlushPoints, Working, Target
    <2>. QED  BY <1>1, <2>1, <2>2, UnseenStep
  <1>. QED  BY <1>2, <1>3, <1>4

\* Sending the flush, and waiting for it, does not change whether the drive still
\* works on the block.
LEMMA FlushUnseen ==
  ASSUME IInv, SendFlush \/ Wait400ns("flushSettle", "flushPoll") PROVE Unseen
  <1>1. /\ pc \in FlushPoints /\ pc' \in FlushPoints /\ UNCHANGED <<call, buffer, disk, i>>
        /\ pc # "idle" /\ pc' # "idle"
    BY DEF SendFlush, Wait400ns, FlushPoints, bus
  <1>2. Working(Target, "COMMIT")' = Working(Target, "COMMIT")
    <2>1. CASE UNCHANGED drive
      BY <1>1, <2>1 DEF Working, Target
    <2>2. CASE ~UNCHANGED drive
      <3>1. SendFlush /\ pc \notin {"idle", "wait", "select"}
        BY <2>2 DEF Wait400ns, SendFlush, bus
      <3>2. Selected(call.ch) = Target /\ Target \in Pos
        BY <1>1, <3>1, Here
      <3>3. /\ drive[Target].phase = "idle"
            /\ drive' = [drive EXCEPT ![Target].phase = "accepted", ![Target].cmd = "FLUSH",
                                      ![Target].addr = AddressOf(regs[Target])]
        BY <2>2, <3>1, <3>2 DEF SendFlush, IssueCommand
      <3>4. drive \in [Pos -> DriveState] /\ drive[Target] \in DriveState
        BY <3>2 DEF IInv, TypeOK, BusTypeOK
      <3>5. drive'[Target].phase = "accepted"
        BY <3>2, <3>3, <3>4 DEF DriveState
      <3>. QED  BY <1>1, <3>3, <3>5 DEF Working, Target
    <2>. QED  BY <2>1, <2>2
  <1>3. StoreApplied' = StoreApplied
    BY <1>1, <1>2 DEF StoreApplied
  <1>. QED  BY <1>1, <1>3, UnseenStep

\* A write returns after its effect.
LEMMA FinishWriteReturns == ASSUME IInv, FinishWrite PROVE Store!WriteReturns
  <1>1. /\ pc = "flushPoll" /\ UNCHANGED <<call, buffer, disk, i, drive>>
        /\ pc' = "idle" /\ result' = 0 /\ "BSY" \notin Status(call.ch)
    BY DEF FinishWrite, Return, bus
  <1>2. call.op = "write" /\ i = SectorWords /\ drive[Target].phase # "busy"
    BY <1>1, StatusOf DEF IInv, CallInv, Together, Phase, FlushPoints
  <1>3. StoreApplied = TRUE
    BY <1>1, <1>2 DEF StoreApplied, FlushPoints, Working
  <1>4. StoreRequest' = [op |-> "none"] /\ StoreApplied' = FALSE
    BY <1>1 DEF StoreRequest, StoreApplied, FlushPoints
  <1>5. call' # NoCall /\ call'.op = "write"
    BY <1>1, <1>2 DEF NoCall
  <1>6. StoreReply' = [code |-> 0, data |-> JunkBlock]
    BY <1>1, <1>5 DEF StoreReply
  <1>7. StoreRequest.op = "write"
    BY <1>1, <1>2, RequestIsOne
  <1>. QED  BY <1>1, <1>3, <1>4, <1>6, <1>7 DEF Store!WriteReturns, Store!Reply, Store!NoRequest

\* A drive at work for which the store sees no effect: one that was not storing
\* a block and does not begin to.
LEMMA DriveUnseen ==
  ASSUME IInv, NEW p \in Pos, drive[p].phase # "idle", UNCHANGED <<disk, driver>>,
         ~Working(p, "COMMIT"), ~Working(p, "COMMIT")'
  PROVE  Unseen
  <1>1. p = Target /\ pc # "idle" /\ Target' = Target
    BY DriveWorks DEF Quiet, driver, Target
  <1>2. ~Working(Target, "COMMIT") /\ ~Working(Target, "COMMIT")'
    BY <1>1
  <1>3. StoreApplied' = StoreApplied
    BY <1>2 DEF StoreApplied, driver
  <1>. QED  BY <1>1, <1>3, UnseenStep DEF driver

\* Only CommitSector ends the storing of a block.
LEMMA OtherDriveSteps ==
  ASSUME IInv, NEW p \in Pos, UNCHANGED driver,
         \/ AssertBusy(p) \/ Abort(p) \/ FinishIdentify(p) \/ FinishRead(p)
         \/ RequestData(p) \/ FinishFlush(p)
  PROVE  Unseen
  <1>1. drive \in [Pos -> DriveState] /\ drive[p] \in DriveState
    BY DEF IInv, TypeOK, BusTypeOK
  <1>2. CASE AssertBusy(p)
    <2>1. drive[p].phase = "accepted" /\ drive'[p].cmd = drive[p].cmd /\ UNCHANGED disk
      BY <1>1, <1>2 DEF AssertBusy, DriveState
    <2>2. drive[p].cmd # "COMMIT"
      <3>1. pc \in Points /\ pc \notin Quiet /\ Phase(drive[p]) /\ call.op \in {"read", "write"}
        BY <2>1, DriveWorks
      <3>2. pc \in {"settle", "flushSettle"}
        BY <2>1, <3>1, BusAssumption DEF IInv, TypeOK, Phase, Points, ReadPoints, FlushPoints, Quiet,
           Idle, Offering, Taking, Committing
      <3>. QED  BY <2>1, <3>1, <3>2 DEF Phase, Idle, Started, Offering, Taking, Committing, Flushing,
                  FlushPoints, CommandOf
    <2>. QED  BY <2>1, <2>2, DriveUnseen DEF Working
  <1>3. CASE ~AssertBusy(p)
    <2>1. drive[p].phase = "busy" /\ UNCHANGED disk
      BY <1>3 DEF Abort, FinishIdentify, FinishRead, RequestData, FinishFlush, Working
    <2>2. drive[p].cmd # "COMMIT"
      <3>1. CASE Abort(p)
        BY <2>1, <3>1, BusyCommand, DriveWorks DEF Abort, Supported, Valid
      <3>2. CASE ~Abort(p)
        BY <1>3, <3>2 DEF FinishIdentify, FinishRead, RequestData, FinishFlush, Working
      <3>. QED  BY <3>1, <3>2
    <2>3. drive'[p].phase # "busy"
      <3>1. \/ \E f : Stop(p, f)
            \/ \E b : Offer(p, "dataIn", b) \/ Offer(p, "dataOut", b)
        BY <1>3 DEF Abort, FinishIdentify, FinishRead, RequestData, FinishFlush
      <3>2. ASSUME NEW f, Stop(p, f) PROVE drive'[p].phase # "busy"
        BY <1>1, <3>2 DEF Stop, IdleDrive
      <3>3. ASSUME NEW b, Offer(p, "dataIn", b) \/ Offer(p, "dataOut", b)
            PROVE  drive'[p].phase # "busy"
        BY <1>1, <3>3 DEF Offer, DriveState
      <3>. QED  BY <3>1, <3>2, <3>3
    <2>. QED  BY <2>1, <2>2, <2>3, DriveUnseen DEF Working
  <1>. QED  BY <1>2, <1>3

\* The write takes effect, or is lost, when the drive is done with the block.
LEMMA CommitApplies ==
  ASSUME IInv, NEW p \in Pos, CommitSector(p), UNCHANGED driver
  PROVE  Store!Apply \/ Store!Lose
  <1>1. Working(p, "COMMIT") /\ drive[p].phase = "busy" /\ drive[p].cmd = "COMMIT"
    BY DEF CommitSector, Working
  <1>2. /\ p = Target /\ pc # "idle" /\ call.op = "write" /\ call.lba \in Sectors
        /\ pc \in {"transfer"} \cup FlushPoints
        /\ drive[p].buf = buffer /\ drive[p].addr = call.lba
    BY <1>1, DriveWorks, BusyCommand DEF Quiet, Committing, Valid
  <1>3. i = SectorWords
    <2>1. pc = "transfer" => ~(i < SectorWords)
      BY <1>1, <1>2 DEF IInv, Together, Phase, Offering, Taking
    <2>. QED  BY <1>2, <2>1, BusAssumption DEF IInv, TypeOK, CallInv
  <1>4. drive'[p].phase = "idle"
    <2>1. PICK f : Stop(p, f)
      BY DEF CommitSector
    <2>. QED  BY <2>1 DEF Stop, IdleDrive, IInv, TypeOK, BusTypeOK
  <1>5. StoreApplied = FALSE /\ StoreApplied' = TRUE
    BY <1>1, <1>2, <1>3, <1>4 DEF StoreApplied, Working, Target, driver, FlushPoints
  <1>6. /\ StoreRequest.op = "write" /\ StoreRequest.pos = p /\ StoreRequest.lba = call.lba
        /\ StoreRequest.data = buffer
    BY <1>2, RequestIsOne
  <1>7. UNCHANGED <<StoreRequest, StoreReply>>
    BY DEF StoreRequest, StoreReply, Target, driver
  <1>8. CASE disk' = [disk EXCEPT ![p][drive[p].addr] = drive[p].buf]
    BY <1>2, <1>5, <1>6, <1>7, <1>8 DEF Store!Apply
  <1>9. CASE <<p, "COMMIT">> \in MayFail /\ UNCHANGED disk
    BY <1>2, <1>5, <1>6, <1>7, <1>9 DEF Store!Lose, LossyPos
  <1>. QED  BY <1>8, <1>9 DEF CommitSector

\* Every step of the driver or of a drive is a step of the store, or unseen.
LEMMA StepRefines == IInv /\ IInv' /\ [Next]_vars => [Store!Next]_(Store!vars)
  <1> SUFFICES ASSUME IInv, IInv', [Next]_vars PROVE Store!Next \/ Unseen
    BY DEF Unseen, Store!vars
  <1>1. CASE Begin
    BY <1>1, BeginInvokes DEF Store!Next
  <1>2. CASE Driver
    BY <1>2, ApproachUnseen, CheckFailsOrUnseen, ReadWordUnseen, WriteWordUnseen,
       EndTransferReadsOrUnseen, FlushUnseen, FinishWriteReturns
       DEF Driver, Store!Next
  <1>3. ASSUME NEW p \in Pos, Drive(p) PROVE Store!Next \/ Unseen
    BY <1>3, OtherDriveSteps, CommitApplies DEF Drive, DriveStep, Store!Next
  <1>4. CASE UNCHANGED vars
    BY <1>4 DEF Unseen, StoreRequest, StoreApplied, StoreReply, Working, Target, vars, driver, bus
  <1>. QED  BY <1>1, <1>2, <1>3, <1>4 DEF Next

\* ide_read_sector and ide_write_sector implement SectorStore: what returns 0 took
\* effect as a whole at one instant (or, on a lossy drive, may have been lost),
\* what returns 1 had none, and the disks change in no other way.
THEOREM SectorsRefineStore == ASSUME Lba28 PROVE Spec => ImplementsStore
  <1>. QED  BY InitStore, SectorInvariant, StepRefines, PTL DEF Spec, ImplementsStore, Store!Spec

=============================================================================
