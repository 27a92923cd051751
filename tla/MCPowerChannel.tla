--------------------------- MODULE MCPowerChannel ---------------------------
(***************************************************************************)
(* PowerChannel for TLC.  The tolerances and the timeout are scaled down,  *)
(* in the order the source's static_asserts demand; every turn of the loop *)
(* takes one quarter of a second, without which nothing need ever be sent. *)
(***************************************************************************)
EXTENDS PowerChannel

MCSetPoints == {0, 1}
MCOneSetPoint == {0}

AllTicks == {1}
MCGui == {"GUI"}
MCBoth == {"GUI", "TCP_CLIENT"}
=============================================================================
