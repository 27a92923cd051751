---------------------------- MODULE PowerOrders ----------------------------
(***************************************************************************)
(* The vocabulary every module shares: the order codes of modbusTcpSlave.h *)
(* and the enumerations of rstlProtocolMaster.h.  A code is a string, an   *)
(* order is a code with the value of the set-point it carries (0 for the   *)
(* orders that carry none).                                                *)
(***************************************************************************)
EXTENDS Naturals

\* The codes below RTU_PRIMITIVE_ORDER_TOTAL_NUMBER: each has a row in
\* FrameInfoTable, so each can be sent to a power supply as it stands.
ReadingOrders == {"READING_ALL", "READING_FIRST", "READING_LAST"}

PrimitiveOrders == ReadingOrders \union {"POWER_ON", "POWER_OFF", "SET_VALUE"}

\* The codes only the powering-down state machine understands.
VirtualOrders == {"DELAYED_POWER_OFF", "CANCEL_DELAYED_POWER_OFF"}

OrderCodes == PrimitiveOrders \union VirtualOrders \union {"NONE"}

CommunicationStates ==
    {"PORT_NOT_OPEN", "WRONG_PHYSICAL_ID", "PERMANENT_ERRORS",
     "TEMPORARY_ERRORS", "HEALTHY"}

PoweringDownStates == {"INACTIVE", "CURRENT_DECELERATING", "TIMEOUT_EXCEEDED"}

Orders(Values) == [code : OrderCodes, value : Values]

\* What resetOrderCode leaves; takeOrder leaves the value behind, but no
\* reader looks at the value of an order whose code is NONE.
NoOrder == [code |-> "NONE", value |-> 0]

\* The order that brings the current down before the switch is turned off.
CurrentZeroing == [code |-> "SET_VALUE", value |-> 0]

PowerOff == [code |-> "POWER_OFF", value |-> 0]
=============================================================================
