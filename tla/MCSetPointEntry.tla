-------------------------- MODULE MCSetPointEntry --------------------------
(***************************************************************************)
(* SetPointEntry for TLC.  A click is worth 120 A instead of 1 A, so that  *)
(* two of them reach the end of the scale.                                 *)
(***************************************************************************)
EXTENDS SetPointEntry

MCEntries == {200000}
MCIncrements == {40000}
=============================================================================
