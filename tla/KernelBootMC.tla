---------------------------- MODULE KernelBootMC ----------------------------
(***************************************************************************)
(* Instances of KernelBoot: the modes and sizes of the repository's GRUB   *)
(* menu and documents, text modes above 256 and 512 lines, graphics modes, *)
(* and processors with and without a hypervisor.                           *)
(***************************************************************************)
EXTENDS KernelBoot, SequencesExt

Screen(w, l, c) == [cols |-> w, lines |-> l, cell |-> c, text |-> TRUE]

\* Graphics modes 12h and 13h: 80 x 480 and 80 x 200 cells by the registers; and a
\* mode whose 200 x 100 cells pass for a text screen.
MCScreens == {Screen(80, 400, 16), Screen(80, 400, 8), Screen(80, 800, 16), Screen(132, 344, 8),
              Screen(132, 400, 16), Screen(100, 600, 16), Screen(40, 200, 8),
              [cols |-> 80, lines |-> 480, cell |-> 1, text |-> FALSE],
              [cols |-> 80, lines |-> 400, cell |-> 2, text |-> FALSE],
              [cols |-> 200, lines |-> 800, cell |-> 8, text |-> FALSE]}
MCPictures == {<<640, 400>>, <<1056, 400>>, <<1056, 800>>, <<1024, 768>>, <<320, 200>>}

\* The modes of text_modes under both names, modes that are only nearly theirs,
\* and words that have nothing to do with the display.
Names == {text_modes[i].name : i \in DOMAIN text_modes}
Near == {<<"8", "0", "x", "2", "5", "0">>, <<"9", "9", "x", "9">>, <<"8", "0">>}
Asked == {key \o name : key \in {Res, Resolution}, name \in Names}
       \cup {Res \o name : name \in Near}
Other == {Verbose, <<"r", "e", "s", "u", "m", "e">>, <<"b", "r", "e", "s", "=", "1">>}
Text(ws) == FoldLeft(LAMBDA t, w : IF t = <<>> THEN w ELSE t \o <<Blank>> \o w, <<>>, ws)
MCLines == {Text(ws) : ws \in {<<>>} \cup {<<w>> : w \in Asked \cup Other} \cup {<<v, w>> : v \in Other, w \in Asked}
           \cup {<<w, v>> : w \in Asked, v \in {Verbose}}
           \cup {<<Res \o <<"8", "0", "x", "5", "0">>, Res \o <<"8", "0", "x", "2", "5">>>>}
           \cup {<<<<Blank>>, Res \o <<"8", "0", "x", "5", "0">>, <<Blank>>>>}}

MCOneScreen == {Screen(80, 400, 16)}

MCGlyphs == {0, 65, 200}

\* A blank and a letter that is not its own mirror image.
MCFont == [c \in 0 .. 127 |-> [y \in 0 .. 7 |-> IF c = 65 THEN 2 * y + 16 * (y % 3) + 1 ELSE 0]]

\* Signatures 906EAh, with a stepping of 10, and A20F12h.
MCMachines ==
    LET Intel == [leaves |-> 1, signature |-> 591594, vendor |-> <<"Genu", "ineI", "ntel">>,
                  edx |-> {0, 4, 8, 23, 25}, ecx |-> {0, 9}, hypervisor |-> <<>>,
                  services |-> {}, osid |-> FALSE]
        HyperV == [Intel EXCEPT !.signature = 10620690, !.ecx = {0, 9, 31},
                                !.hypervisor = <<"Micr", "osof", "t Hv">>,
                                !.services = {0, 1, 3}, !.osid = TRUE]
    IN  {Intel, HyperV,
         [Intel EXCEPT !.leaves = 0],
         [HyperV EXCEPT !.hypervisor = <<"KVMK", "VMKV", "M">>, !.services = {}, !.osid = FALSE],
         [HyperV EXCEPT !.ecx = {0, 9}, !.osid = FALSE]}
=============================================================================
