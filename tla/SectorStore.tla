---------------------------- MODULE SectorStore -----------------------------
(***************************************************************************)
(* What ide_read_sector and ide_write_sector of src/kernel/ide.c promise   *)
(* their caller: the disks are an array of sectors, a call takes effect at *)
(* one instant between its start and its return, a call that returns 0 did *)
(* what it was asked, and a write that returns 1 did nothing.  Where a     *)
(* drive may fail to store what it has taken, a write that returns 0 may   *)
(* have done nothing either: the code never learns of it.                  *)
(***************************************************************************)
EXTENDS Integers

CONSTANTS Pos,      \* the positions a drive can be attached at
          Sectors,  \* the addresses of the sectors
          Lbas,     \* the addresses callers name (some may not exist)
          Lossy,    \* the positions whose drive may lose a block it has taken
          Blocks,   \* what a sector can hold
          NoBlock   \* the data of a request or reply that carries none

VARIABLES store,    \* what each sector holds
          request,  \* the call in progress, op = "none" between calls
          applied,  \* the write in progress has taken effect, or was lost
          reply     \* what the last call returned, code -1 during a call

vars == <<store, request, applied, reply>>

NoRequest == [op |-> "none"]
NoReply == [code |-> -1, data |-> NoBlock]

Requests ==
    [op : {"read"}, pos : Pos, lba : Lbas, data : {NoBlock}]
      \cup [op : {"write"}, pos : Pos, lba : Lbas, data : Blocks]

Init ==
    /\ store \in [Pos -> [Sectors -> Blocks]]
    /\ request = NoRequest
    /\ applied = FALSE
    /\ reply = NoReply

Invoke ==
    /\ request = NoRequest
    /\ request' \in Requests
    /\ reply' = NoReply
    /\ UNCHANGED <<store, applied>>

\* The write takes effect.
Apply ==
    /\ request.op = "write" /\ ~applied
    /\ request.lba \in Sectors
    /\ store' = [store EXCEPT ![request.pos][request.lba] = request.data]
    /\ applied' = TRUE
    /\ UNCHANGED <<request, reply>>

\* The drive has taken the block and failed to store it.
Lose ==
    /\ request.op = "write" /\ ~applied
    /\ request.lba \in Sectors
    /\ request.pos \in Lossy
    /\ applied' = TRUE
    /\ UNCHANGED <<store, request, reply>>

Reply(code, data) ==
    /\ request' = NoRequest
    /\ applied' = FALSE
    /\ reply' = [code |-> code, data |-> data]
    /\ UNCHANGED store

ReadReturns ==
    /\ request.op = "read" /\ request.lba \in Sectors
    /\ Reply(0, store[request.pos][request.lba])

WriteReturns ==
    /\ request.op = "write" /\ applied
    /\ Reply(0, NoBlock)

\* The call fails and has had no effect.
Fails ==
    /\ request.op # "none" /\ ~applied
    /\ Reply(1, NoBlock)

Next == Invoke \/ Apply \/ Lose \/ ReadReturns \/ WriteReturns \/ Fails

Spec == Init /\ [][Next]_vars
=============================================================================
