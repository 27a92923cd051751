----------------------------- MODULE MCProgram -----------------------------
(* Program for TLC. *)
EXTENDS Program

CONSTANTS a, b

\* One computer writes the set-point of the channel and asks for the text of the
\* rejected supply, the other asks for sector 0 only.
MCAsks == a :> {1121, 4200} @@ b :> {1000}

\* A local computer with one channel, whose description is too long, and the
\* leavings of a rejected supply, as long as can be asked for; a remote one; and
\* files that end before the port, have a bad address, a bad identifier or no mode.
MCFiles ==
    {<<Comment, ModeLine(TRUE), PortLine(502), SupplyLine(0, 3), SupplyLine(13, 120),
       SupplyLine(0, 97)>>,
     <<ModeLine(FALSE), PortLine(502), AddressLine(12)>>,
     <<ModeLine(FALSE)>>,
     <<ModeLine(FALSE), PortLine(502), AddressLine(16)>>,
     <<ModeLine(TRUE), PortLine(502), SupplyLine(13, 5), SupplyLine(256, 5)>>,
     <<Comment>>}

ASSUME FilesFit == SixteenAtMost
=============================================================================
