-------------------------- MODULE MCOrderExchange --------------------------
(***************************************************************************)
(* OrderExchange for TLC: set-points on both sides, one order without a    *)
(* value from the client, and two values for a byte.                       *)
(***************************************************************************)
EXTENDS OrderExchange

MCGuiCodes == {"SET_VALUE"}
MCTcpCodes == {"POWER_ON"}
MCBytes == {0, 1}
MCSetPoints == {<<1, 1>>}
=============================================================================
