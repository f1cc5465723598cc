---------------------------- MODULE IdeDetectMC -----------------------------
(***************************************************************************)
(* Small instances of IdeDetect for TLC.                                   *)
(***************************************************************************)
EXTENDS IdeDetect

CONSTANTS a

MCData == {a}

\* Registers as a reset leaves them, and as a read of sector 256 leaves them.
MCAfterReset == {<<0, 0>>}
MCAfterBoot == {<<0, 0>>, <<1, 0>>}

\* The first position may hold an old disk, the second drive of the first channel
\* may fail, the first of the second channel may be late.  The last is sound.
MCOldDisk == {<<0, 0>>}
MCFails == {<< <<0, 1>>, "IDENTIFY" >>}
MCSlow == {<<1, 0>>}

\* Padded, with a space inside, of full length, and all spaces.
MCNames == (<<0, 0>> :> <<"H", "D", " ", " ">>) @@ (<<0, 1>> :> <<"C", " ", "D", " ">>) @@
           (<<1, 0>> :> <<"D", "V", "D", "R">>) @@ (<<1, 1>> :> <<" ", " ", " ", " ">>)
=============================================================================
