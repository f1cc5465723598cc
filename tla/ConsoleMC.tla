----------------------------- MODULE ConsoleMC ------------------------------
(***************************************************************************)
(* Small instances of Console for TLC.                                     *)
(***************************************************************************)
EXTENDS Console

MCRemnants == {[char |-> "?", color |-> "grey"]}
MCPixels == {[char |-> "?", color |-> "grey", line |-> 0]}
\* Narrower and taller, wider and lower, and a single cell.
MCDimensions == {<<2, 3>>, <<3, 1>>, <<1, 1>>, <<3, 2>>}
=============================================================================
