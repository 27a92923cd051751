--------------------------- MODULE OrderDelivery ---------------------------
(***************************************************************************)
(* What the link between the two computers promises about an order: it may *)
(* be lost, but once lost or carried out it is never carried out again.    *)
(***************************************************************************)
EXTENDS Naturals

CONSTANT Orders         \* the orders a user may give, each given once

VARIABLES
    asked,              \* orders given so far
    underWay,           \* orders given that may yet be carried out
    carriedOut          \* orders that have been carried out

vars == <<asked, underWay, carriedOut>>

Init ==
    /\ asked = {}
    /\ underWay = {}
    /\ carriedOut = [order \in Orders |-> 0]

\* A new order may take the place of others.
Give ==
    /\ \E order \in Orders \ asked, lost \in SUBSET underWay :
          /\ asked' = asked \union {order}
          /\ underWay' = (underWay \ lost) \union {order}
    /\ UNCHANGED carriedOut

Lose ==
    /\ \E lost \in SUBSET underWay : underWay' = underWay \ lost
    /\ UNCHANGED <<asked, carriedOut>>

CarryOut ==
    /\ \E done \in SUBSET underWay :
          /\ underWay' = underWay \ done
          /\ carriedOut' = [order \in Orders |->
                               carriedOut[order] + IF order \in done THEN 1 ELSE 0]
    /\ UNCHANGED asked

Next == Give \/ Lose \/ CarryOut

Spec == Init /\ [][Next]_vars
=============================================================================
