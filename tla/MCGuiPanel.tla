----------------------------- MODULE MCGuiPanel -----------------------------
(***************************************************************************)
(* GuiPanel for TLC: two channels, so that a panel opens above, at and     *)
(* below another channel's group.  One supply goes through shutdowns and   *)
(* is found to be the wrong one, the port of the other does not open.      *)
(***************************************************************************)
EXTENDS GuiPanel

State(comm, phase, status) == [comm |-> comm, phase |-> phase, status |-> status]

MCTableStates ==
    [c \in Lines |->
        IF c = 0
        THEN {NewTable,
              State("HEALTHY", "INACTIVE", {"psuError", "remote"}),
              State("HEALTHY", "CURRENT_DECELERATING", {"psuError", "remote"}),
              State("HEALTHY", "TIMEOUT_EXCEEDED", {"psuError", "remote"}),
              State("WRONG_PHYSICAL_ID", "TIMEOUT_EXCEEDED", {"remote"})}
        ELSE {NewTable}]
=============================================================================
