------------------------- MODULE PowerDownProtocol -------------------------
(***************************************************************************)
(* What a channel promises about shutting a power supply down, without     *)
(* ports, frames or orders.  A shutdown that has begun waits for the       *)
(* current to fall, but never longer than Timeout ticks: by then it is     *)
(* over or its timeout has been announced.  The announcement comes only    *)
(* after the whole wait, and stays until the shutdown is over.             *)
(***************************************************************************)
EXTENDS Naturals

CONSTANT Timeout     \* POWERING_DOWN_TIMEOUT, a positive number of ticks

VARIABLES
    phase,           \* the state shown to whoever controls the supply
    waited           \* ticks this shutdown has waited for the current

vars == <<phase, waited>>

Init ==
    /\ phase = "INACTIVE"
    /\ waited = 0

Begin ==
    /\ phase = "INACTIVE"
    /\ phase' = "CURRENT_DECELERATING"
    /\ waited' = 0

Wait ==
    /\ phase = "CURRENT_DECELERATING"
    /\ waited < Timeout
    /\ waited' = waited + 1
    /\ UNCHANGED phase

AnnounceTimeout ==
    /\ phase = "CURRENT_DECELERATING"
    /\ waited = Timeout
    /\ phase' = "TIMEOUT_EXCEEDED"
    /\ UNCHANGED waited

Finish ==
    /\ phase # "INACTIVE"
    /\ phase' = "INACTIVE"
    /\ waited' = 0

Next == Begin \/ Wait \/ AnnounceTimeout \/ Finish

SafetySpec == Init /\ [][Next]_vars

\* Waiting goes on by itself; a shutdown begins, and an announced timeout
\* ends, only if something outside makes it.
Spec == SafetySpec /\ WF_vars(Wait \/ AnnounceTimeout)
=============================================================================
