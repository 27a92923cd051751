------------------------- MODULE PowerChannelProofs -------------------------
(***************************************************************************)
(* Theorems about PowerChannel, for all values of its constants.           *)
(*                                                                         *)
(* Type correctness is inductive by itself.  The agreement of the reported *)
(* state with the counter needs the types (the counter is a number of at   *)
(* most CounterMax), the agreement of the reported health with the errors  *)
(* likewise; what is sent, and which supply is healthy, are inductive by   *)
(* themselves.  That the machine implements PowerDownProtocol needs the    *)
(* types and the first agreement.                                          *)
(***************************************************************************)
EXTENDS PowerChannel, TLAPS

\* Init establishes the types, and NoOrder is an order like any other.
LEMMA InitTypes == Init => TypeOK
<1>1. NoOrder \in UserOrders
  BY InputsAssumption DEF NoOrder, UserOrders, Orders, OrderCodes
<1>2. [powerOn |-> FALSE, currentLow |-> TRUE, idMatches |-> FALSE] \in Readings
  BY DEF Readings
<1>3. -1 \in -1 .. CounterMax /\ MaxErrors \in 0 .. MaxErrors /\ 0 \in 0 .. Quarters - 1
  BY TimingAssumption, TolerancesAssumption DEF Quarters
<1>4. [comm |-> "PORT_NOT_OPEN", poweringDown |-> "INACTIVE"] \in
        [comm : CommunicationStates, poweringDown : PoweringDownStates]
  BY DEF CommunicationStates, PoweringDownStates
<1> QED
  BY <1>1, <1>2, <1>3, <1>4
  DEF Init, TypeOK, Steps, OrderCodes, CommunicationStates, PoweringDownStates

\* Every step of the thread and of its user keeps the types.
LEMMA StepTypes == TypeOK /\ [Next]_vars => TypeOK'
<1> SUFFICES ASSUME TypeOK, [Next]_vars PROVE TypeOK'
  OBVIOUS
<1> USE DEF TypeOK
<1>0. /\ NoOrder \in UserOrders
      /\ CurrentZeroing \in UserOrders
      /\ PowerOff \in UserOrders
  BY InputsAssumption
  DEF NoOrder, CurrentZeroing, PowerOff, UserOrders, Orders, OrderCodes,
      PrimitiveOrders
<1>1. ASSUME NEW code \in OrderCodes, NEW value \in SetPoints,
             LeaveOrder(code, value)
      PROVE  TypeOK'
  BY <1>1 DEF LeaveOrder, UserOrders, Orders, line, machine
<1>2. ASSUME User PROVE TypeOK'
  <2>1. CASE PowerOnCallback
    BY <2>1, <1>1, InputsAssumption DEF PowerOnCallback, OrderCodes, PrimitiveOrders
  <2>2. CASE PowerOffCallback
    BY <2>2, <1>1, InputsAssumption
    DEF PowerOffCallback, OrderCodes, PrimitiveOrders, VirtualOrders
  <2>3. CASE AcceptSetPointCallback
    BY <2>3, <1>1 DEF AcceptSetPointCallback, OrderCodes, PrimitiveOrders
  <2>4. CASE RemoteOrder
    BY <2>4, <1>1, InputsAssumption
    DEF RemoteOrder, OrderCodes, PrimitiveOrders, VirtualOrders
  <2> QED BY <1>2, <2>1, <2>2, <2>3, <2>4 DEF User
<1>3. CASE WaitForSynchronization
  <2>1. PICK skip \in Skips : fraction' = (fraction + skip) % Quarters
    BY <1>3 DEF WaitForSynchronization
  <2>2. fraction' \in 0 .. Quarters - 1
    BY <2>1, InputsAssumption DEF Quarters
  <2> QED
    BY <1>3, <2>2 DEF WaitForSynchronization, Steps, line, machine, user
<1>4. CASE SynchronizeDataAcrossThreads
  BY <1>4, <1>0
  DEF SynchronizeDataAcrossThreads, NewOrderReplaces, Steps, line, machine
<1>5. CASE PoweringDownTiming
  <2> USE <1>0 DEF MachineStep, Steps, line, machine, user
  <2>1. CASE NoShutdownAsked
    BY <2>1 DEF NoShutdownAsked
  <2>2. CASE StartShutdown
    BY <2>2, TimingAssumption DEF StartShutdown, PoweringDownStates
  <2>3. CASE WaitForCurrentToFall
    BY <2>3, TimingAssumption
    DEF WaitForCurrentToFall, TimeIsLeft, PlacePowerOff, PoweringDownStates
  <2>4. CASE CancelAfterTimeout
    BY <2>4, TimingAssumption DEF CancelAfterTimeout, PoweringDownStates
  <2>5. CASE WaitAfterTimeout
    <3>1. counter' \in -1 .. CounterMax
      BY <2>5, TimingAssumption DEF WaitAfterTimeout, CountOn
    <3>2. poweringDownState' \in PoweringDownStates
      BY <2>5 DEF WaitAfterTimeout, PoweringDownStates
    <3>3. order' \in UserOrders
      BY <2>5 DEF WaitAfterTimeout, PlacePowerOff
    <3> QED BY <2>5, <3>1, <3>2, <3>3 DEF WaitAfterTimeout
  <2>6. CASE EndShutdown
    BY <2>6, TimingAssumption DEF EndShutdown, PoweringDownStates
  <2> QED
    BY <1>5, <2>1, <2>2, <2>3, <2>4, <2>5, <2>6 DEF PoweringDownTiming
<1>6. CASE CommunicatePowerSource
  <2> USE DEF Steps, line, machine, user
  <2>1. CASE OpenPort
    <3>1. errors' \in 0 .. MaxErrors
      BY <2>1, TolerancesAssumption DEF OpenPort
    <3>2. portOpen' \in BOOLEAN /\ commState' \in CommunicationStates
      BY <2>1, Zenon DEF OpenPort, OpenFails, CommunicationStates
    <3> QED BY <2>1, <3>1, <3>2 DEF OpenPort
  <2>2. CASE LeavePortClosed
    BY <2>2 DEF LeavePortClosed
  <2>3. CASE ExpectNothing
    BY <2>3 DEF ExpectNothing
  <2>4. CASE ReadFails
    BY <2>4 DEF ReadFails, AwaitAnswer, CommunicationStates
  <2>5. CASE GoodAnswer
    BY <2>5, TolerancesAssumption
    DEF GoodAnswer, AwaitAnswer, HealthOnAnswer, CommunicationStates
  <2>6. CASE BadAnswer
    <3>1. errors' \in 0 .. MaxErrors
      BY <2>6, TolerancesAssumption DEF BadAnswer, OneMoreError
    <3>2. commState' \in CommunicationStates
      BY <2>6 DEF BadAnswer, HealthAfter, CommunicationStates
    <3> QED BY <2>6, <3>1, <3>2 DEF BadAnswer, AwaitAnswer
  <2>7. CASE SendRequest
    BY <2>7, <1>0
    DEF SendRequest, NextRequest, PendingPrimitiveOrder, PrimitiveOrders,
        ReadingOrders, OrderCodes
  <2> QED
    BY <1>6, <2>1, <2>2, <2>3, <2>4, <2>5, <2>6, <2>7 DEF CommunicatePowerSource
<1>7. CASE UNCHANGED vars
  BY <1>7 DEF vars, line, machine, user
<1> QED
  BY <1>2, <1>3, <1>4, <1>5, <1>6, <1>7 DEF Next, PeripheralThread

\* The variables keep their types whatever the user, the supply and the line do.
THEOREM TypeCorrectness == SafetySpec => []TypeOK
<1>1. Init => TypeOK
  BY InitTypes
<1>2. TypeOK /\ [Next]_vars => TypeOK'
  BY StepTypes
<1> QED BY <1>1, <1>2, PTL DEF SafetySpec

-----------------------------------------------------------------------------
\* Only the powering-down machine touches the counter and the reported state.
LEMMA OnlyMachineMoves ==
    [Next]_vars /\ ~PoweringDownTiming => UNCHANGED machine
BY DEF Next, vars, PeripheralThread, WaitForSynchronization,
    SynchronizeDataAcrossThreads, CommunicatePowerSource, OpenPort,
    LeavePortClosed, ExpectNothing, AwaitAnswer, ReadFails, GoodAnswer,
    BadAnswer, SendRequest, User, PowerOnCallback, PowerOffCallback,
    AcceptSetPointCallback, RemoteOrder, LeaveOrder

\* A step of the machine keeps the reported state the one the counter means.
LEMMA MachineKeepsReport ==
    TypeOK /\ ReportedStateMatchesMachine /\ PoweringDownTiming
        => ReportedStateMatchesMachine'
<1> SUFFICES ASSUME TypeOK, ReportedStateMatchesMachine, PoweringDownTiming
             PROVE  ReportedStateMatchesMachine'
  OBVIOUS
<1>0. counter \in -1 .. CounterMax
  BY DEF TypeOK
<1> USE <1>0, TimingAssumption DEF ReportedStateMatchesMachine
<1>1. CASE NoShutdownAsked
  BY <1>1 DEF NoShutdownAsked, machine
<1>2. CASE StartShutdown
  BY <1>2 DEF StartShutdown
<1>3. CASE WaitForCurrentToFall
  BY <1>3 DEF WaitForCurrentToFall, TimeIsLeft
<1>4. CASE CancelAfterTimeout
  BY <1>4 DEF CancelAfterTimeout
<1>5. CASE WaitAfterTimeout
  BY <1>5 DEF WaitAfterTimeout, TimeIsLeft, CountOn, AnnounceAt
<1>6. CASE EndShutdown
  BY <1>6 DEF EndShutdown
<1> QED
  BY <1>1, <1>2, <1>3, <1>4, <1>5, <1>6 DEF PoweringDownTiming

\* What the user is shown is the state the machine is in, always.
THEOREM ReportIsTrue == SafetySpec => []ReportedStateMatchesMachine
<1>1. Init => ReportedStateMatchesMachine
  BY DEF Init, ReportedStateMatchesMachine
<1>2. TypeOK /\ ReportedStateMatchesMachine /\ [Next]_vars
        => ReportedStateMatchesMachine'
  <2>1. TypeOK /\ ReportedStateMatchesMachine /\ [Next]_vars /\ ~PoweringDownTiming
          => ReportedStateMatchesMachine'
    BY OnlyMachineMoves DEF machine, ReportedStateMatchesMachine
  <2> QED BY <2>1, MachineKeepsReport
<1> QED
  BY <1>1, <1>2, TypeCorrectness, PTL DEF SafetySpec

-----------------------------------------------------------------------------
\* Only the serial line's steps touch what is known of the supply.
LEMMA OnlyTheLineMoves ==
    [Next]_vars /\ ~CommunicatePowerSource => UNCHANGED line
BY DEF Next, vars, PeripheralThread, WaitForSynchronization,
    SynchronizeDataAcrossThreads, PoweringDownTiming, MachineStep,
    NoShutdownAsked, StartShutdown, WaitForCurrentToFall, CancelAfterTimeout,
    WaitAfterTimeout, EndShutdown, User, PowerOnCallback, PowerOffCallback,
    AcceptSetPointCallback, RemoteOrder, LeaveOrder

\* singleInquiryOfSlave returns early when the port is gone, so the thread
\* reaches the sending half only with an open port.
SendsOnOpenPort == pc = "send" => portOpen

\* No step brings the thread to the sending half with a closed port.
LEMMA StepSendsOnOpenPort == SendsOnOpenPort /\ [Next]_vars => SendsOnOpenPort'
<1> SUFFICES ASSUME SendsOnOpenPort, [Next]_vars, pc' = "send" PROVE portOpen'
  BY DEF SendsOnOpenPort
<1>1. CASE CommunicatePowerSource
  <2>1. CASE ExpectNothing
    BY <2>1 DEF ExpectNothing, line
  <2>2. CASE GoodAnswer
    BY <2>2 DEF GoodAnswer, AwaitAnswer
  <2>3. CASE BadAnswer
    BY <2>3 DEF BadAnswer, AwaitAnswer
  <2> QED
    BY <1>1, <2>1, <2>2, <2>3
    DEF CommunicatePowerSource, OpenPort, LeavePortClosed, ReadFails, SendRequest
<1>2. CASE ~CommunicatePowerSource
  <2>1. UNCHANGED line /\ pc = "send"
    BY <1>2, OnlyTheLineMoves
    DEF Next, vars, PeripheralThread, WaitForSynchronization,
        SynchronizeDataAcrossThreads, PoweringDownTiming, MachineStep,
        NoShutdownAsked, StartShutdown, WaitForCurrentToFall,
        CancelAfterTimeout, WaitAfterTimeout, EndShutdown, User,
        PowerOnCallback, PowerOffCallback, AcceptSetPointCallback,
        RemoteOrder, LeaveOrder
  <2> QED BY <2>1 DEF SendsOnOpenPort, line
<1> QED BY <1>1, <1>2

\* The strengthening of ReportedHealthMatchesErrors that is inductive.
HealthInvariant == TypeOK /\ SendsOnOpenPort /\ ReportedHealthMatchesErrors

\* A step on the serial line keeps the reported health the one the errors mean.
LEMMA LineKeepsHealth ==
    HealthInvariant /\ CommunicatePowerSource => ReportedHealthMatchesErrors'
<1> SUFFICES ASSUME HealthInvariant, CommunicatePowerSource,
                    portOpen', errors' < MaxErrors
             PROVE  commState' \in
                      IF errors' > ErrorsTolerance THEN {"PERMANENT_ERRORS"}
                      ELSE IF errors' > WarningTolerance THEN {"TEMPORARY_ERRORS"}
                      ELSE {"HEALTHY", "WRONG_PHYSICAL_ID"}
  BY DEF ReportedHealthMatchesErrors
<1>0. errors \in 0 .. MaxErrors /\ portOpen \in BOOLEAN
  BY DEF HealthInvariant, TypeOK
<1> USE <1>0, TolerancesAssumption DEF HealthInvariant, ReportedHealthMatchesErrors
<1>1. CASE OpenPort
  BY <1>1 DEF OpenPort
<1>2. CASE LeavePortClosed
  BY <1>2 DEF LeavePortClosed, line
<1>3. CASE ExpectNothing
  BY <1>3 DEF ExpectNothing, line
<1>4. CASE ReadFails
  BY <1>4 DEF ReadFails
<1>5. CASE GoodAnswer
  BY <1>5 DEF GoodAnswer, HealthOnAnswer
<1>6. CASE BadAnswer
  <2>1. portOpen /\ errors' = OneMoreError /\ commState' = HealthAfter(OneMoreError)
    BY <1>6 DEF BadAnswer, AwaitAnswer
  <2>2. errors' = errors + 1 /\ errors < MaxErrors
    BY <2>1 DEF OneMoreError
  <2> QED BY <2>1, <2>2 DEF HealthAfter
<1>7. CASE SendRequest
  BY <1>7 DEF SendRequest, SendsOnOpenPort
<1> QED
  BY <1>1, <1>2, <1>3, <1>4, <1>5, <1>6, <1>7 DEF CommunicatePowerSource

\* The health shown for a channel is the one its run of errors calls for.
THEOREM HealthIsEarned == SafetySpec => []ReportedHealthMatchesErrors
<1>1. Init => HealthInvariant
  BY InitTypes
  DEF Init, HealthInvariant, SendsOnOpenPort, ReportedHealthMatchesErrors
<1>2. HealthInvariant /\ [Next]_vars => HealthInvariant'
  <2>1. HealthInvariant /\ [Next]_vars /\ ~CommunicatePowerSource
          => ReportedHealthMatchesErrors'
    BY OnlyTheLineMoves DEF line, HealthInvariant, ReportedHealthMatchesErrors
  <2> QED
    BY <2>1, LineKeepsHealth, StepTypes, StepSendsOnOpenPort DEF HealthInvariant
<1>3. HealthInvariant => ReportedHealthMatchesErrors
  BY DEF HealthInvariant
<1> QED
  BY <1>1, <1>2, <1>3, PTL DEF SafetySpec

\* No missed answer and no lost port makes the wrong supply look healthy.
THEOREM RightSupply == SafetySpec => []HealthyMeansRightSupply
<1>1. Init => HealthyMeansRightSupply
  BY DEF Init, HealthyMeansRightSupply
<1>2. HealthyMeansRightSupply /\ [Next]_vars => HealthyMeansRightSupply'
  <2> SUFFICES ASSUME HealthyMeansRightSupply, [Next]_vars
               PROVE  HealthyMeansRightSupply'
    OBVIOUS
  <2> USE DEF HealthyMeansRightSupply
  <2>1. CASE CommunicatePowerSource
    BY <2>1
    DEF CommunicatePowerSource, OpenPort, OpenFails, LeavePortClosed,
        ExpectNothing, ReadFails, AwaitAnswer, GoodAnswer, HealthOnAnswer,
        BadAnswer, HealthAfter, SendRequest, line
  <2>2. CASE ~CommunicatePowerSource
    BY <2>2, OnlyTheLineMoves DEF line
  <2> QED BY <2>1, <2>2
<1> QED BY <1>1, <1>2, PTL DEF SafetySpec

\* The assertion in singleInquiryOfSlave never fails.
THEOREM AssertionHolds == SafetySpec => []OnlyPrimitiveOrdersAreSent
<1>1. Init => OnlyPrimitiveOrdersAreSent
  BY DEF Init, OnlyPrimitiveOrdersAreSent
<1>2. OnlyPrimitiveOrdersAreSent /\ [Next]_vars => OnlyPrimitiveOrdersAreSent'
  <2> SUFFICES ASSUME OnlyPrimitiveOrdersAreSent, [Next]_vars
               PROVE  OnlyPrimitiveOrdersAreSent'
    OBVIOUS
  <2> USE DEF OnlyPrimitiveOrdersAreSent
  <2>1. CASE SendRequest
    BY <2>1
    DEF SendRequest, NextRequest, PendingPrimitiveOrder, PrimitiveOrders, ReadingOrders
  <2>2. CASE CommunicatePowerSource /\ ~SendRequest
    BY <2>2
    DEF CommunicatePowerSource, OpenPort, LeavePortClosed, ExpectNothing,
        ReadFails, AwaitAnswer, GoodAnswer, BadAnswer, line
  <2>3. CASE ~CommunicatePowerSource
    BY <2>3, OnlyTheLineMoves DEF line
  <2> QED BY <2>1, <2>2, <2>3
<1> QED BY <1>1, <1>2, PTL DEF SafetySpec

-----------------------------------------------------------------------------
\* Each branch of the machine is a step of the protocol, or no step at all.
LEMMA MachineSteps ==
    TypeOK /\ ReportedStateMatchesMachine /\ PoweringDownTiming
        => [Protocol!Next]_(Protocol!vars)
<1> SUFFICES ASSUME TypeOK, ReportedStateMatchesMachine, PoweringDownTiming
             PROVE  Protocol!Next \/ UNCHANGED Protocol!vars
  OBVIOUS
<1>0. counter \in -1 .. CounterMax
  BY DEF TypeOK
<1> USE <1>0, TimingAssumption
    DEF ReportedStateMatchesMachine, TicksWaited, Protocol!vars, Protocol!Next
<1>1. CASE NoShutdownAsked
  BY <1>1 DEF NoShutdownAsked, machine
<1>2. CASE StartShutdown
  BY <1>2 DEF StartShutdown, Protocol!Begin
<1>3. CASE WaitForCurrentToFall
  BY <1>3 DEF WaitForCurrentToFall, TimeIsLeft, Protocol!Wait
<1>4. CASE CancelAfterTimeout
  BY <1>4 DEF CancelAfterTimeout, TimeIsLeft, Protocol!Finish
<1>5. CASE WaitAfterTimeout
  BY <1>5
  DEF WaitAfterTimeout, TimeIsLeft, CountOn, AnnounceAt, Protocol!AnnounceTimeout
<1>6. CASE EndShutdown
  BY <1>6 DEF EndShutdown, Protocol!Finish
<1> QED
  BY <1>1, <1>2, <1>3, <1>4, <1>5, <1>6 DEF PoweringDownTiming

\* The channel implements the safety part of the protocol it promises: no
\* shutdown waits longer than Timeout, none times out early, and an announced
\* timeout stays announced until the shutdown is over.
THEOREM KeepsProtocol == SafetySpec => Protocol!SafetySpec
<1>1. Init => Protocol!Init
  BY DEF Init, Protocol!Init, TicksWaited
<1>2. TypeOK /\ ReportedStateMatchesMachine /\ [Next]_vars
        => [Protocol!Next]_(Protocol!vars)
  <2>1. [Next]_vars /\ ~PoweringDownTiming => UNCHANGED Protocol!vars
    BY OnlyMachineMoves DEF machine, Protocol!vars, TicksWaited
  <2> QED BY <2>1, MachineSteps
<1> QED
  BY <1>1, <1>2, TypeCorrectness, ReportIsTrue, PTL
  DEF SafetySpec, Protocol!SafetySpec
=============================================================================
