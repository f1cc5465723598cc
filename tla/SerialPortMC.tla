---------------------------- MODULE SerialPortMC ----------------------------
(***************************************************************************)
(* Small instances of SerialPort for TLC.                                  *)
(***************************************************************************)
EXTENDS SerialPort

MCTexts == {<<>>, <<"a">>, <<"a", "\n">>, <<"\n", "b", "\n">>}
=============================================================================
