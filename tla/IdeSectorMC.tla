---------------------------- MODULE IdeSectorMC -----------------------------
(***************************************************************************)
(* Small instances of IdeSector for TLC.                                   *)
(***************************************************************************)
EXTENDS IdeSector

CONSTANTS a, b

MCChannels == {0}
MCData == {a, b}

\* 256 and 16777472 differ only in the bits of the device register; 1 is not a
\* sector of any disk, and differs from 256 in which byte of the address is set.
MCSectors == {256, 16777472}
MCLbas == {1, 256, 16777472}

MCInitial == [w \in Word |-> a]
MCOtherBlock == [w \in Word |-> IF w = 0 THEN a ELSE b]
MCWritten == {MCOtherBlock}

\* Every stage may fail on either drive, except that only the master may fail to
\* store a block it has taken.
MCMayFail == (Pos \X {"READ", "WRITE", "FLUSH"}) \cup {<< <<0, 0>>, "COMMIT" >>}
=============================================================================
