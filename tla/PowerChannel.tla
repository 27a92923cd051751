---------------------------- MODULE PowerChannel ----------------------------
(***************************************************************************)
(* One channel of the 'local computer': the peripheral thread's loop as it *)
(* serves one power supply (multiChannel.cpp), the serial line to it and   *)
(* its powering-down state machine (TransmissionChannel in                 *)
(* rstlProtocolMaster.cpp), and the shared data through which the thread   *)
(* hears its user (DataSharingInterface).                                  *)
(*                                                                         *)
(* Once per tick the thread copies the shared data, drives the powering-   *)
(* down machine, reads the answer to the request of the previous tick,     *)
(* sends the next request, and copies the shared data again.  The user may *)
(* act between any two of these steps.                                     *)
(*                                                                         *)
(* What the supply and the line do is left open: any answer may come, or   *)
(* none, and any read, write or opening of the port may fail.              *)
(*                                                                         *)
(* A definition whose name ends in _ and a word is the one after it with a *)
(* plausible mistake; no specification uses it, and the properties are     *)
(* tried against it.                                                       *)
(***************************************************************************)
EXTENDS PowerOrders, Integers

CONSTANTS
    Timeout,            \* POWERING_DOWN_TIMEOUT
    CounterMax,         \* POWERING_DOWN_COUNTER_MAX
    WarningTolerance,   \* COMMUNICATION_WARNING_TOLERANCE
    ErrorsTolerance,    \* COMMUNICATION_ERRORS_TOLERANCE
    MaxErrors,          \* where CommunicationConsecutiveErrors saturates
    SetPoints,          \* the values a user asks for
    Skips,              \* quarters of a second one turn of the loop may take
    Controllers         \* who gives orders: the GUI, a TCP client, either in turn

ASSUME TimingAssumption ==
    /\ Timeout \in Nat \ {0}
    /\ CounterMax \in Nat
    /\ Timeout < CounterMax

ASSUME TolerancesAssumption ==
    /\ WarningTolerance \in Nat
    /\ ErrorsTolerance \in Nat
    /\ MaxErrors \in Nat
    /\ WarningTolerance < ErrorsTolerance
    /\ ErrorsTolerance < MaxErrors

ASSUME InputsAssumption ==
    /\ SetPoints \subseteq Nat
    /\ 0 \in SetPoints
    /\ Skips \subseteq 1 .. 3
    /\ Skips # {}
    /\ Controllers \subseteq {"GUI", "TCP_CLIENT"}

VARIABLES
    pc,                  \* where in its loop the peripheral thread is
    fraction,            \* FractionOfSecond
    portOpen,            \* SerialPortHandler is not -1
    errors,              \* CommunicationConsecutiveErrors
    presentOrder,        \* PresentOrder: the request whose answer is due
    registers,           \* what the properties need of ModbusRegisters
    counter,             \* PoweringDownCounter
    order,               \* the order in TableOfSharedDataForLowLevel
    commState,           \* CommunicationState in the same table
    poweringDownState,   \* PoweringDownState in the same table
    userOrder,           \* the order left by the user, not yet picked up
    guiView              \* the copy of the two states the GUI works with

\* Between them: the serial line, the machine, and the user's side.
line    == <<portOpen, errors, presentOrder, registers, commState>>
machine == <<counter, poweringDownState>>
user    == <<userOrder, guiView>>
vars    == <<pc, fraction, line, machine, order, user>>

Steps == {"wait", "sync", "powerDown", "receive", "send", "resync"}

\* Turns of the loop are counted in quarters of a second.
Quarters == 4

\* ModbusRegisters and its copy CopiedRegisters change together, so one
\* record stands for both: bit 0 of the status register, whether the
\* filtered current is at most POWERING_DOWN_CURRENT_LIMIT, and whether the
\* supply identifies itself with the number the configuration expects.
Readings == [powerOn : BOOLEAN, currentLow : BOOLEAN, idMatches : BOOLEAN]

UserOrders == Orders(SetPoints)

TypeOK ==
    /\ pc \in Steps
    /\ fraction \in 0 .. Quarters - 1
    /\ portOpen \in BOOLEAN
    /\ errors \in 0 .. MaxErrors
    /\ presentOrder \in OrderCodes
    /\ registers \in Readings
    /\ counter \in -1 .. CounterMax
    /\ order \in UserOrders
    /\ commState \in CommunicationStates
    /\ poweringDownState \in PoweringDownStates
    /\ userOrder \in UserOrders
    /\ guiView \in [comm : CommunicationStates, poweringDown : PoweringDownStates]

Init ==
    /\ pc = "wait"
    /\ fraction = 0
    /\ portOpen = FALSE
    /\ errors = MaxErrors
    /\ presentOrder = "NONE"
    /\ registers = [powerOn |-> FALSE, currentLow |-> TRUE, idMatches |-> FALSE]
    /\ counter = -1
    /\ order = NoOrder
    /\ commState = "PORT_NOT_OPEN"
    /\ poweringDownState = "INACTIVE"
    /\ userOrder = NoOrder
    /\ guiView = [comm |-> "PORT_NOT_OPEN", poweringDown |-> "INACTIVE"]

-----------------------------------------------------------------------------
(***************************************************************************)
(* The user.  While the GUI has control its callbacks leave orders in      *)
(* TableOfSharedDataForGui; while a remote computer has it, the TCP server *)
(* leaves in TableOfSharedDataForTcpServer what the client writes.  Each   *)
(* table holds one order, so a new one replaces what is there; control may *)
(* change hands at any time, so either may be the next to give one.        *)
(***************************************************************************)
LeaveOrder(code, value) ==
    /\ userOrder' = [code |-> code, value |-> value]
    /\ UNCHANGED <<pc, fraction, line, machine, order, guiView>>

Controllable(comm) == comm \in {"HEALTHY", "TEMPORARY_ERRORS"}

PowerOnCallback ==
    /\ "GUI" \in Controllers
    /\ Controllable(guiView.comm)
    /\ LeaveOrder("POWER_ON", 0)

\* The first press asks for a shutdown; a press made when the timeout is
\* known turns the supply off at once.
PowerOffCallback ==
    /\ "GUI" \in Controllers
    /\ IF guiView.poweringDown # "TIMEOUT_EXCEEDED"
       THEN LeaveOrder("DELAYED_POWER_OFF", 0)
       ELSE LeaveOrder("POWER_OFF", 0)

AcceptSetPointCallback ==
    /\ "GUI" \in Controllers
    /\ \E value \in SetPoints : LeaveOrder("SET_VALUE", value)

\* The server does not look at the code it is given; a client that means to
\* control the supply has these.
RemoteOrder ==
    /\ "TCP_CLIENT" \in Controllers
    /\ \/ \E code \in {"POWER_ON", "POWER_OFF"} \union VirtualOrders :
             LeaveOrder(code, 0)
       \/ \E value \in SetPoints : LeaveOrder("SET_VALUE", value)

User ==
    PowerOnCallback \/ PowerOffCallback \/ AcceptSetPointCallback \/ RemoteOrder

-----------------------------------------------------------------------------
(***************************************************************************)
(* The loop: waiting for the next quarter of a second, and copying the     *)
(* shared data.                                                            *)
(***************************************************************************)
\* A turn that overruns its quarter finds a later one; one that overruns a
\* whole second waits on, because the fraction is the one it saw before.
WaitForSynchronization ==
    /\ pc = "wait"
    /\ pc' = "sync"
    /\ \E skip \in Skips : fraction' = (fraction + skip) % Quarters
    /\ UNCHANGED <<line, machine, order, user>>

NewOrderReplaces == IF userOrder.code # "NONE" THEN userOrder ELSE order

SynchronizeDataAcrossThreads ==
    /\ \/ pc = "sync" /\ pc' = "powerDown"
       \/ pc = "resync" /\ pc' = "wait"
    /\ order' = NewOrderReplaces
    /\ userOrder' = NoOrder
    /\ guiView' = [comm |-> commState, poweringDown |-> poweringDownState]
    /\ UNCHANGED <<fraction, line, machine>>

-----------------------------------------------------------------------------
(***************************************************************************)
(* poweringDownTimingForAll and the state machine it drives.  The counter  *)
(* is -1 while no shutdown is going on, and counts ticks while one is.  A  *)
(* branch of the machine that returns NO_ACTION leaves the reported state  *)
(* and the order as they are; one that places an order takes the order     *)
(* that is there first.                                                    *)
(***************************************************************************)
PossibilityOfPsuShuttingdown == Controllable(commState) /\ registers.powerOn

MachineStep ==
    /\ pc = "powerDown"
    /\ pc' = "receive"
    /\ UNCHANGED <<fraction, line, user>>

NoShutdownAsked ==
    /\ MachineStep
    /\ counter < 0
    /\ ~(PossibilityOfPsuShuttingdown /\ order.code = "DELAYED_POWER_OFF")
    /\ UNCHANGED <<machine, order>>

StartShutdown ==
    /\ MachineStep
    /\ counter < 0
    /\ PossibilityOfPsuShuttingdown
    /\ order.code = "DELAYED_POWER_OFF"
    /\ counter' = 0
    /\ poweringDownState' = "CURRENT_DECELERATING"
    /\ order' = CurrentZeroing

TimeIsLeft_OffByOne == counter <= Timeout

TimeIsLeft == counter < Timeout

\* The machine gives its own order priority over the one in the mailbox.
PlacePowerOff_IfFree == IF order.code = "NONE" THEN PowerOff ELSE order

PlacePowerOff == PowerOff

WaitForCurrentToFall ==
    /\ MachineStep
    /\ counter >= 0
    /\ TimeIsLeft
    /\ PossibilityOfPsuShuttingdown
    /\ counter' = counter + 1
    /\ \/ /\ registers.currentLow
          /\ poweringDownState' = "CURRENT_DECELERATING"
          /\ order' = PlacePowerOff
       \/ /\ ~registers.currentLow
          /\ UNCHANGED <<poweringDownState, order>>

CancelAfterTimeout_CountsOn ==
    /\ MachineStep
    /\ counter >= 0
    /\ ~TimeIsLeft
    /\ PossibilityOfPsuShuttingdown
    /\ order.code = "CANCEL_DELAYED_POWER_OFF"
    /\ poweringDownState' = "INACTIVE"
    /\ order' = NoOrder
    /\ UNCHANGED counter

CancelAfterTimeout ==
    /\ MachineStep
    /\ counter >= 0
    /\ ~TimeIsLeft
    /\ PossibilityOfPsuShuttingdown
    /\ order.code = "CANCEL_DELAYED_POWER_OFF"
    /\ counter' = -1
    /\ poweringDownState' = "INACTIVE"
    /\ order' = NoOrder

CountOn_Unbounded == counter + 1

CountOn == IF counter < CounterMax THEN counter + 1 ELSE counter

\* The timeout is announced at the tick after the last one it allows.
AnnounceAt_OffByOne(ticks) == ticks = Timeout

AnnounceAt(ticks) == ticks = Timeout + 1

\* The timeout is over, or runs out at this tick.
WaitAfterTimeout ==
    /\ MachineStep
    /\ counter >= 0
    /\ ~TimeIsLeft
    /\ PossibilityOfPsuShuttingdown
    /\ order.code # "CANCEL_DELAYED_POWER_OFF"
    /\ counter' = CountOn
    /\ \/ /\ order.code = "DELAYED_POWER_OFF" \/ registers.currentLow
          /\ poweringDownState' = "TIMEOUT_EXCEEDED"
          /\ order' = PlacePowerOff
       \/ /\ order.code # "DELAYED_POWER_OFF" /\ ~registers.currentLow
          /\ poweringDownState' = IF AnnounceAt(counter')
                                  THEN "TIMEOUT_EXCEEDED"
                                  ELSE poweringDownState
          /\ UNCHANGED order

\* The supply is off, or can no longer be controlled.
EndShutdown ==
    /\ MachineStep
    /\ counter >= 0
    /\ ~PossibilityOfPsuShuttingdown
    /\ counter' = -1
    /\ poweringDownState' = "INACTIVE"
    /\ order' = IF order.code \in VirtualOrders THEN NoOrder ELSE order

PoweringDownTiming ==
    \/ NoShutdownAsked \/ StartShutdown \/ WaitForCurrentToFall
    \/ CancelAfterTimeout \/ WaitAfterTimeout \/ EndShutdown

-----------------------------------------------------------------------------
(***************************************************************************)
(* communicateAllPowerSources: a closed port is opened, or left alone; on  *)
(* an open one the answer to the last request is read and the next request *)
(* is sent.                                                                *)
(***************************************************************************)
OpenFails_Unreported == UNCHANGED <<portOpen, commState>>

OpenFails == commState' = "PORT_NOT_OPEN" /\ UNCHANGED portOpen

OpenPort ==
    /\ pc = "receive"
    /\ ~portOpen
    /\ fraction = 0
    /\ pc' = "resync"
    /\ \/ portOpen' = TRUE /\ UNCHANGED commState
       \/ OpenFails
    /\ errors' = MaxErrors
    /\ UNCHANGED <<fraction, presentOrder, registers, machine, order, user>>

LeavePortClosed ==
    /\ pc = "receive"
    /\ ~portOpen
    /\ fraction # 0
    /\ pc' = "resync"
    /\ UNCHANGED <<fraction, line, machine, order, user>>

\* The port has just been opened for the first time: nothing is due.
ExpectNothing ==
    /\ pc = "receive"
    /\ portOpen
    /\ presentOrder = "NONE"
    /\ pc' = "send"
    /\ UNCHANGED <<fraction, line, machine, order, user>>

AwaitAnswer ==
    /\ pc = "receive"
    /\ portOpen
    /\ presentOrder # "NONE"
    /\ UNCHANGED <<fraction, presentOrder, machine, order, user>>

\* read() fails: the port is given up and reported closed.
ReadFails ==
    /\ AwaitAnswer
    /\ pc' = "resync"
    /\ portOpen' = FALSE
    /\ commState' = "PORT_NOT_OPEN"
    /\ UNCHANGED <<errors, registers>>

\* loadRstlProtocolData lowers the health if the identifier is wrong.
HealthOnAnswer_OnlyFirst(idMatches) ==
    IF presentOrder = "READING_FIRST" /\ ~idMatches
    THEN "WRONG_PHYSICAL_ID" ELSE "HEALTHY"

HealthOnAnswer(idMatches) == IF idMatches THEN "HEALTHY" ELSE "WRONG_PHYSICAL_ID"

\* The registers that matter here are among the first seven, so only
\* READING_FIRST renews them; any good answer restores the reported health.
GoodAnswer ==
    /\ AwaitAnswer
    /\ pc' = "send"
    /\ errors' = 0
    /\ \/ presentOrder = "READING_FIRST" /\ registers' \in Readings
       \/ presentOrder # "READING_FIRST" /\ UNCHANGED registers
    /\ commState' = HealthOnAnswer(registers'.idMatches)
    /\ UNCHANGED portOpen

OneMoreError_Wraps == (errors + 1) % (MaxErrors + 1)

OneMoreError == IF errors < MaxErrors THEN errors + 1 ELSE errors

HealthAfter(failures) ==
    IF failures > ErrorsTolerance THEN "PERMANENT_ERRORS"
    ELSE IF failures > WarningTolerance THEN "TEMPORARY_ERRORS"
    ELSE commState

\* No answer, or one that is incomplete, has a bad checksum, or is not the
\* expected one.  Bytes that did come are flushed with a second read, and
\* should that read fail the port is given up without a report.
BadAnswer ==
    /\ AwaitAnswer
    /\ errors' = OneMoreError
    /\ commState' = HealthAfter(OneMoreError)
    /\ \/ pc' = "send" /\ UNCHANGED portOpen
       \/ pc' = "resync" /\ portOpen' = FALSE
    /\ UNCHANGED registers

OrdersTurn_OffByOne == fraction = Quarters

OrdersTurn == fraction % 2 = 0

PendingPrimitiveOrder_AnyOrder == order.code # "NONE"

PendingPrimitiveOrder == order.code \in PrimitiveOrders

NextRequest ==
    IF ~OrdersTurn THEN "READING_FIRST"
    ELSE IF PendingPrimitiveOrder THEN order.code ELSE "READING_LAST"

\* The order is taken before write() is called; if the call fails the order
\* is gone, and the port is given up without a report.
SendRequest ==
    /\ pc = "send"
    /\ pc' = "resync"
    /\ presentOrder' = NextRequest
    /\ order' = IF OrdersTurn /\ PendingPrimitiveOrder THEN NoOrder ELSE order
    /\ portOpen' \in BOOLEAN
    /\ UNCHANGED <<fraction, errors, registers, commState, machine, user>>

CommunicatePowerSource ==
    \/ OpenPort \/ LeavePortClosed \/ ExpectNothing
    \/ ReadFails \/ GoodAnswer \/ BadAnswer \/ SendRequest

-----------------------------------------------------------------------------
PeripheralThread ==
    \/ WaitForSynchronization
    \/ SynchronizeDataAcrossThreads
    \/ PoweringDownTiming
    \/ CommunicatePowerSource

Next == PeripheralThread \/ User

SafetySpec == Init /\ [][Next]_vars

\* The thread never blocks: the port is read and written without waiting,
\* and the loop has no exit.  Nobody has to give orders.
Spec == SafetySpec /\ WF_vars(PeripheralThread)

-----------------------------------------------------------------------------
(***************************************************************************)
(* Properties.                                                             *)
(***************************************************************************)
\* The state shown to the user is a separate variable, set only by those
\* branches of the machine that return something else than NO_ACTION; still it
\* always is the one the counter stands for.
ReportedStateMatchesMachine ==
    poweringDownState = IF counter < 0 THEN "INACTIVE"
                        ELSE IF counter <= Timeout THEN "CURRENT_DECELERATING"
                        ELSE "TIMEOUT_EXCEEDED"

\* Health is reported only at some answers and after some failures; still,
\* whenever the port is open and has answered since it was opened, the report
\* is the one the number of consecutive failures calls for.
ReportedHealthMatchesErrors ==
    portOpen /\ errors < MaxErrors =>
        commState \in IF errors > ErrorsTolerance THEN {"PERMANENT_ERRORS"}
                      ELSE IF errors > WarningTolerance THEN {"TEMPORARY_ERRORS"}
                      ELSE {"HEALTHY", "WRONG_PHYSICAL_ID"}

\* A supply shown as healthy has identified itself as the one configured, and
\* one shown with a wrong identifier has not, however many answers were missed
\* and however often the port was lost since.
HealthyMeansRightSupply ==
    /\ commState = "HEALTHY" => registers.idMatches
    /\ commState = "WRONG_PHYSICAL_ID" => ~registers.idMatches

\* The order whose answer is awaited has a row in FrameInfoTable (the assertion
\* of singleInquiryOfSlave): neither a virtual order nor NONE is ever sent.
OnlyPrimitiveOrdersAreSent ==
    presentOrder \in PrimitiveOrders \union {"NONE"}

\* The reported state keeps the promise PowerDownProtocol makes, the limit on
\* the wait included.
TicksWaited ==
    IF counter < 0 THEN 0 ELSE IF counter > Timeout THEN Timeout ELSE counter

Protocol == INSTANCE PowerDownProtocol
                WITH phase <- poweringDownState, waited <- TicksWaited

ImplementsProtocol == Protocol!Spec

\* A shutdown cannot be held up by other orders: once the current is low the
\* machine gets its power-off order onto the line, even if the user keeps
\* replacing the order in the mailbox, unless the shutdown is cancelled, the
\* supply itself changes or the port is lost.
PowerOffGoesOut ==
    counter >= 0 /\ registers.currentLow /\ portOpen ~>
        \/ presentOrder = "POWER_OFF"
        \/ counter < 0
        \/ ~PossibilityOfPsuShuttingdown
        \/ ~registers.currentLow
        \/ ~portOpen

\* A port given up without a report does not stay closed unnoticed: it is
\* opened again, or the channel is reported closed.
LostPortIsNoticed ==
    ~portOpen ~> portOpen \/ commState = "PORT_NOT_OPEN"

\* Orders are not held up by the readings, nor by the orders that replace them:
\* while the port is open and the mailbox holds one that can be sent, one is.
CanBeSent(code) == code \in PrimitiveOrders \ ReadingOrders

OrdersLeaveTheMailbox ==
    CanBeSent(order.code) /\ portOpen ~>
        CanBeSent(presentOrder) \/ ~CanBeSent(order.code) \/ ~portOpen

\* multiChannel.cpp:504-507: while it waits for the current to drop, the
\* machine turns the supply off only at a low current; at a higher one it first
\* has to announce the timeout and let the user decide.
NoPowerOffBeforeTimeoutIsKnown ==
    [][poweringDownState = "CURRENT_DECELERATING" /\ pc = "powerDown"
        /\ order # PowerOff /\ order' = PowerOff => registers.currentLow]_vars
=============================================================================
