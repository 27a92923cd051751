----------------------------- MODULE MCRtuLine -----------------------------
(***************************************************************************)
(* RtuLine for TLC: two lines that share the frame, one of them with a     *)
(* supply that may be late.  Two set-points, none of them zero, so that an *)
(* echo tells which one was sent; one power order, since the two differ in *)
(* nothing but the name.                                                   *)
(***************************************************************************)
EXTENDS RtuLine

FirstLine == {0}
PowerOff == {"POWER_OFF"}
MCSetPoints == {1, 2}
Overruns == {1, 2, 3}
=============================================================================
