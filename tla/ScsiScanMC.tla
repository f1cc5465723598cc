----------------------------- MODULE ScsiScanMC -----------------------------
(***************************************************************************)
(* Small instances of ScsiScan: three buses of two slots, anything in four *)
(* of them; the texts are those of scsi.c.                                 *)
(***************************************************************************)
EXTENDS ScsiScan

MCBusLogic == <<<<75, 16>>, <<64, 16>>>>

Function(id, class, subclass, bar0) ==
    [vendor |-> id[1], device |-> id[2], class |-> class, subclass |-> subclass,
     bar0 |-> bar0, irq |-> 11]

Bridge == Function(<<<<134, 128>>, <<55, 18>>>>, 6, 0, <<0, 0, 0, 0>>)
Ready == Function(MCBusLogic, 1, 0, <<1, 226, 0, 0>>)
NoPorts == Function(MCBusLogic, 1, 0, <<1, 0, 0, 0>>)
Lsi == Function(<<<<0, 16>>, <<48, 0>>>>, 1, 0, <<1, 224, 0, 0>>)

Slot(functions, alias) == [functions |-> functions, alias |-> alias]

\* One function, heard at every function number or only at its own; a slot with a
\* hole; a host adapter that is not function 0.
MCSlots == {Slot(<<Ready>>, FALSE), Slot(<<Ready>>, TRUE), Slot(<<NoPorts>>, FALSE),
            Slot(<<Lsi>>, FALSE), Slot(<<Bridge, NoFunction, Ready>>, FALSE)}

MCPlaces == {<<0, 0>>, <<0, 1>>, <<1, 0>>, <<2, 1>>}
MCConfigurations == UNION {[P -> MCSlots] : P \in SUBSET MCPlaces}

MCTexts == [vendor |-> <<"Q", "E", "M", "U", " ", " ", " ", " ">>,
            product |-> <<"H", "A", "R", "D", "D", "I", "S", "K",
                          " ", " ", " ", " ", " ", " ", " ", " ">>,
            revision |-> <<"2", ".", "5", "+">>]
=============================================================================
