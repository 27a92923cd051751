------------------------ MODULE OrderExchangeProofs ------------------------
(***************************************************************************)
(* Theorems about OrderExchange, for any codes, bytes and set-points.      *)
(*                                                                         *)
(* No order from nowhere: every order that may still be carried out is     *)
(* owed.  For each side and code there are at most two such orders, one    *)
(* that its thread has yet to store and one that is stored and has not     *)
(* been overtaken: from the moment the peripheral thread has fetched an    *)
(* order until it has erased the mailbox, nothing that is stored there     *)
(* will be carried out.  That nothing else keeps the threads apart is why  *)
(* the invariant depends on pc.                                            *)
(***************************************************************************)
EXTENDS OrderExchange, TLAPS

Credit(exists) == IF exists THEN 1 ELSE 0

GuiHasYetToStore(code) == "code" \in guiWork.left /\ guiWork.code = code

GuiOrderIsStored(code) ==
    CASE pc \in {"takeValue", "takeClear"} -> held.code = code
      [] pc \in {"copy", "resetCode"}      -> FALSE
      [] OTHER                             -> guiBox.code = code

ClientHasYetToStore(code) ==
    \/ tcpWork.step = "order" /\ code = "SET_VALUE"
    \/ /\ tcpWork.step \in {"load", "store"}
       /\ code = IF tcpWork.field = "value" THEN "SET_VALUE" ELSE tcpWork.code

ClientOrderIsStored(code) ==
    CASE pc = "placeTcpValue"              -> held.code = code
      [] pc \in {"export", "resetTcpCode"} -> FALSE
      [] OTHER                             -> tcpBox.code = code

GuiOrdersAreOwed ==
    \A code \in ActingCodes :
        owed[<<"gui", code>>] >= Credit(GuiHasYetToStore(code)) + Credit(GuiOrderIsStored(code))

ClientOrdersAreOwed ==
    \A code \in ActingCodes :
        owed[<<"tcp", code>>] >= Credit(ClientHasYetToStore(code)) + Credit(ClientOrderIsStored(code))

-----------------------------------------------------------------------------
(***************************************************************************)
(* Types.                                                                  *)
(***************************************************************************)
LEMMA Codes ==
    /\ {"NONE", "READING_ALL", "POWER_OFF", "SET_VALUE"} \subseteq OrderCodes
    /\ "SET_VALUE" \in ActingCodes
    /\ GuiCodes \subseteq ActingCodes /\ TcpCodes \subseteq ActingCodes
    /\ ActingCodes \subseteq OrderCodes
    /\ "NONE" \notin ActingCodes /\ "READING_ALL" \notin ActingCodes
  BY ExchangeAssumption
  DEF ActingCodes, OrderCodes, PrimitiveOrders, ReadingOrders, VirtualOrders

\* The boxes and the words the two sides write.
LEMMA Contents ==
    /\ Zero \in Words /\ SetPoints \subseteq Words
    /\ Empty \in Boxes
    /\ [Empty EXCEPT !.code = "POWER_OFF"] \in Boxes
    /\ \A value \in Words : <<value[1], 0>> \in Words
    /\ \A v, w \in Words : <<v[1], w[2]>> \in Words
  BY ExchangeAssumption, Codes DEF Zero, Words, Empty, Boxes

\* The counts stay integers when one of them changes.
LEMMA Counts ==
    ASSUME owed \in [{"gui", "tcp"} \X ActingCodes -> Int],
           NEW side \in {"gui", "tcp"}, NEW code,
           Ask(side, code) \/ Deliver(side, code)
    PROVE  owed' \in [{"gui", "tcp"} \X ActingCodes -> Int]
  BY DEF Ask, Deliver

LEMMA InitTypes == Init => TypeOK
  BY Codes, Contents DEF Init, TypeOK, Idle, Turns

\* Every step of the three threads keeps the types.
LEMMA StepTypes == TypeOK /\ [Next]_vars => TypeOK'
<1> SUFFICES ASSUME TypeOK, [Next]_vars PROVE TypeOK'
  OBVIOUS
<1> USE DEF TypeOK
<1>1. CASE GuiStartsOrder
  <2>1. PICK code \in GuiCodes, value \in SetPoints \union {Zero} :
           /\ Ask("gui", code)
           /\ guiWork' = [code |-> code, value |-> value, left |-> {"code", "value"}]
    BY <1>1 DEF GuiStartsOrder
  <2>2. owed' \in [{"gui", "tcp"} \X ActingCodes -> Int]
    BY <2>1, Counts
  <2>3. guiWork' \in [code : OrderCodes, value : Words, left : SUBSET {"code", "value"}]
    BY <2>1, Codes, Contents
  <2> QED BY <1>1, <2>2, <2>3 DEF GuiStartsOrder
<1>2. CASE GuiStores
  BY <1>2 DEF GuiStores, Boxes
<1>3. CASE GuiTogglesControl
  BY <1>3 DEF GuiTogglesControl
<1>4. CASE ClientWritesCode
  <2>1. PICK code \in TcpCodes :
           /\ Ask("tcp", code)
           /\ tcpWork' = [Idle EXCEPT !.step = "load", !.code = code]
    BY <1>4 DEF ClientWritesCode
  <2>2. owed' \in [{"gui", "tcp"} \X ActingCodes -> Int]
    BY <2>1, Counts
  <2>3. tcpWork' = [step |-> "load", field |-> "code", code |-> code, value |-> Zero]
    BY <2>1 DEF Idle
  <2>4. tcpBox' \in Boxes
    BY <1>4, Codes DEF ClientWritesCode, Boxes
  <2> QED BY <1>4, <2>2, <2>3, <2>4, Codes, Contents DEF ClientWritesCode, gui
<1>5. CASE ClientWritesValue
  <2>1. PICK value \in SetPoints :
           /\ Ask("tcp", "SET_VALUE")
           /\ tcpWork' = [Idle EXCEPT !.step = "load", !.field = "value", !.value = value]
           /\ tcpBox' = [tcpBox EXCEPT !.value = <<value[1], 0>>]
    BY <1>5 DEF ClientWritesValue
  <2>2. owed' \in [{"gui", "tcp"} \X ActingCodes -> Int]
    BY <2>1, Counts
  <2>3. tcpWork' = [step |-> "load", field |-> "value", code |-> "NONE", value |-> value]
    BY <2>1 DEF Idle
  <2>4. value \in Words /\ <<value[1], 0>> \in Words
    BY Contents
  <2>5. tcpBox' \in Boxes
    BY <2>1, <2>4 DEF Boxes
  <2> QED BY <1>5, <2>2, <2>3, <2>4, <2>5, Codes DEF ClientWritesValue, gui
<1>6. CASE LoadRegister
  <2>1. tcpWork.field = "value" => WithLowerByte \in Words
    BY Contents DEF WithLowerByte, Boxes
  <2>2. tcpWork.field = "code" => WithLowerByte \in OrderCodes
    BY Codes DEF WithLowerByte, Boxes
  <2> QED BY <1>6, <2>1, <2>2 DEF LoadRegister, gui
<1>7. CASE StoreRegister
  BY <1>7, Codes, Contents DEF StoreRegister, gui, Idle, Boxes
<1>8. CASE StoreOrderCode
  BY <1>8, Codes, Contents DEF StoreOrderCode, gui, Idle, Boxes
<1>9. CASE TakeClear
  BY <1>9, Codes, Contents, Counts DEF TakeClear, gui, Goes, Turns, Boxes
<1>10. CASE PlaceTcp
  BY <1>10, Contents, Counts DEF PlaceTcp, OrderOfClient, gui, Turns, Boxes
<1>11. CASE RestOfTheLoop
  BY <1>11, Contents DEF RestOfTheLoop, gui, Goes, Turns
<1>12. CASE CheckControl \/ CheckGui \/ CheckRemote \/ CheckTcp
  BY <1>12 DEF CheckControl, CheckGui, CheckRemote, CheckTcp, gui, Goes, Turns
<1>13. CASE TakeCode \/ TakeValue \/ LoadTcpRegister
  BY <1>13 DEF TakeCode, TakeValue, LoadTcpRegister, gui, Goes, Turns, Boxes
<1>14. CASE CopyToGui \/ ResetCode \/ ResetValue
  BY <1>14, Codes, Contents DEF CopyToGui, ResetCode, ResetValue, gui, Goes, Turns, Boxes
<1>15. CASE Export \/ ResetTcpCode \/ ResetTcpValue
  BY <1>15, Codes, Contents DEF Export, ResetTcpCode, ResetTcpValue, gui, Goes, Turns, Boxes
<1>16. CASE UNCHANGED vars
  BY <1>16 DEF vars, gui
<1> QED
  BY <1>1, <1>2, <1>3, <1>4, <1>5, <1>6, <1>7, <1>8, <1>9, <1>10, <1>11, <1>12, <1>13,
     <1>14, <1>15, <1>16
  DEF Next, TcpThreadGoesOn, PeripheralThread

\* Every variable of the exchange keeps its type, whatever the codes and bytes.
THEOREM TypeCorrectness == Spec => []TypeOK
<1>1. Init => TypeOK
  BY InitTypes
<1>2. TypeOK /\ [Next]_vars => TypeOK'
  BY StepTypes
<1> QED BY <1>1, <1>2, PTL DEF Spec

-----------------------------------------------------------------------------
(***************************************************************************)
(* The side of the GUI.                                                    *)
(***************************************************************************)
\* The client, and who has control, do not matter to the orders of the GUI.
GuiSide == <<guiWork, guiBox, held, pc>>

LEMMA GuiSideKept ==
    ASSUME TypeOK, GuiOrdersAreOwed, UNCHANGED GuiSide,
           \A code \in ActingCodes : owed'[<<"gui", code>>] = owed[<<"gui", code>>]
    PROVE  GuiOrdersAreOwed'
  BY DEF GuiOrdersAreOwed, GuiSide, GuiHasYetToStore, GuiOrderIsStored

\* What is asked for or delivered on one side changes no count of the other.
LEMMA OtherSide ==
    ASSUME TypeOK, NEW side \in {"gui", "tcp"}, NEW other \in {"gui", "tcp"},
           side # other, NEW asked, Ask(side, asked) \/ Deliver(side, asked)
    PROVE  \A code \in ActingCodes : owed'[<<other, code>>] = owed[<<other, code>>]
  BY DEF TypeOK, Ask, Deliver

\* A step of the peripheral thread neither adds an order of the GUI nor, but for
\* the one it delivers, takes one away.
LEMMA GuiOrderStays ==
    ASSUME TypeOK, GuiOrdersAreOwed, UNCHANGED <<guiWork, owed>>,
           \A code \in ActingCodes : GuiOrderIsStored(code)' => GuiOrderIsStored(code)
    PROVE  GuiOrdersAreOwed'
<1> SUFFICES ASSUME NEW code \in ActingCodes
             PROVE  owed'[<<"gui", code>>] >= Credit(GuiHasYetToStore(code)')
                                              + Credit(GuiOrderIsStored(code)')
  BY DEF GuiOrdersAreOwed, Credit
<1>1. owed[<<"gui", code>>] \in Int
  BY DEF TypeOK
<1>2. GuiHasYetToStore(code)' = GuiHasYetToStore(code)
  BY DEF GuiHasYetToStore
<1>3. Credit(GuiOrderIsStored(code)') <= Credit(GuiOrderIsStored(code))
  BY DEF Credit
<1>4. /\ Credit(GuiOrderIsStored(code)) \in Int /\ Credit(GuiOrderIsStored(code)') \in Int
      /\ Credit(GuiHasYetToStore(code)) \in Int
  BY DEF Credit
<1> QED BY <1>1, <1>2, <1>3, <1>4 DEF GuiOrdersAreOwed

\* Every step of the three threads keeps what is owed to the GUI.
LEMMA StepGui == TypeOK /\ GuiOrdersAreOwed /\ [Next]_vars => GuiOrdersAreOwed'
<1> SUFFICES ASSUME TypeOK, GuiOrdersAreOwed, [Next]_vars PROVE GuiOrdersAreOwed'
  OBVIOUS
<1>1. CASE GuiStartsOrder
  <2>1. PICK started \in GuiCodes :
           /\ Ask("gui", started)
           /\ guiWork.left = {} /\ guiWork'.code = started
           /\ UNCHANGED <<guiBox, held, pc>>
    BY <1>1 DEF GuiStartsOrder
  <2>2. started \in ActingCodes
    BY Codes
  <2> SUFFICES ASSUME NEW code \in ActingCodes
               PROVE  owed'[<<"gui", code>>] >= Credit(GuiHasYetToStore(code)')
                                                + Credit(GuiOrderIsStored(code)')
    BY DEF GuiOrdersAreOwed, Credit
  <2>3. ~GuiHasYetToStore(code) /\ (GuiHasYetToStore(code)' => code = started)
    BY <2>1 DEF GuiHasYetToStore
  <2>4. GuiOrderIsStored(code)' = GuiOrderIsStored(code)
    BY <2>1 DEF GuiOrderIsStored
  <2>5. owed'[<<"gui", code>>] = owed[<<"gui", code>>] + IF code = started THEN 1 ELSE 0
    BY <2>1, <2>2 DEF Ask, TypeOK
  <2>6. owed[<<"gui", code>>] \in Int
    BY DEF TypeOK
  <2> QED BY <2>3, <2>4, <2>5, <2>6 DEF GuiOrdersAreOwed, Credit
<1>2. CASE GuiStores
  <2>1. PICK field \in guiWork.left :
           /\ guiBox' = [guiBox EXCEPT ![field] = guiWork[field]]
           /\ guiWork' = [guiWork EXCEPT !.left = @ \ {field}]
           /\ UNCHANGED <<held, pc, owed>>
    BY <1>2 DEF GuiStores
  <2>2. /\ guiWork'.code = guiWork.code
        /\ guiWork'.left = guiWork.left \ {field}
        /\ field = "code" => guiBox'.code = guiWork.code
        /\ field # "code" => guiBox'.code = guiBox.code
    BY <2>1 DEF TypeOK, Boxes
  <2> SUFFICES ASSUME NEW code \in ActingCodes
               PROVE  owed[<<"gui", code>>] >= Credit(GuiHasYetToStore(code)')
                                               + Credit(GuiOrderIsStored(code)')
    BY <2>1 DEF GuiOrdersAreOwed, Credit
  <2>3. owed[<<"gui", code>>] \in Int
    BY DEF TypeOK
  <2>4. CASE field = "code"
    <3>1. ~GuiHasYetToStore(code)'
      BY <2>2, <2>4 DEF GuiHasYetToStore
    <3>2. GuiOrderIsStored(code)' => GuiHasYetToStore(code) \/ GuiOrderIsStored(code)
      BY <2>1, <2>2, <2>4 DEF GuiHasYetToStore, GuiOrderIsStored
    <3> QED BY <2>3, <3>1, <3>2 DEF GuiOrdersAreOwed, Credit
  <2>5. CASE field # "code"
    <3>1. GuiHasYetToStore(code)' = GuiHasYetToStore(code)
      BY <2>2, <2>5 DEF GuiHasYetToStore
    <3>2. GuiOrderIsStored(code)' = GuiOrderIsStored(code)
      BY <2>1, <2>2, <2>5 DEF GuiOrderIsStored
    <3> QED BY <2>3, <3>1, <3>2 DEF GuiOrdersAreOwed, Credit
  <2> QED BY <2>4, <2>5
<1>3. CASE GuiTogglesControl
  BY <1>3, GuiSideKept DEF GuiTogglesControl, GuiSide
<1>4. CASE ClientWritesCode \/ ClientWritesValue
  <2>1. PICK code : Ask("tcp", code)
    BY <1>4 DEF ClientWritesCode, ClientWritesValue
  <2>2. UNCHANGED GuiSide
    BY <1>4 DEF ClientWritesCode, ClientWritesValue, GuiSide, gui
  <2> QED BY <2>1, <2>2, OtherSide, GuiSideKept
<1>5. CASE TcpThreadGoesOn
  BY <1>5, GuiSideKept
  DEF TcpThreadGoesOn, LoadRegister, StoreRegister, StoreOrderCode, GuiSide, gui
<1>6. CASE TakeClear
  <2>1. /\ pc = "takeClear" /\ pc' = "copy"
        /\ Deliver("gui", held.code)
        /\ UNCHANGED guiWork
    BY <1>6 DEF TakeClear, Goes, gui
  <2> SUFFICES ASSUME NEW code \in ActingCodes
               PROVE  owed'[<<"gui", code>>] >= Credit(GuiHasYetToStore(code)')
                                                + Credit(GuiOrderIsStored(code)')
    BY DEF GuiOrdersAreOwed, Credit
  <2>2. GuiHasYetToStore(code)' = GuiHasYetToStore(code) /\ ~GuiOrderIsStored(code)'
    BY <2>1 DEF GuiHasYetToStore, GuiOrderIsStored
  <2>3. GuiOrderIsStored(code) = (held.code = code)
    BY <2>1 DEF GuiOrderIsStored
  <2>4. owed'[<<"gui", code>>] = owed[<<"gui", code>>] - IF held.code = code THEN 1 ELSE 0
    BY <2>1 DEF Deliver, TypeOK
  <2>5. owed[<<"gui", code>>] \in Int
    BY DEF TypeOK
  <2>6. owed[<<"gui", code>>] >= Credit(GuiHasYetToStore(code)) + Credit(GuiOrderIsStored(code))
    BY DEF GuiOrdersAreOwed
  <2>7. CASE held.code = code
    <3>1. GuiOrderIsStored(code)
      BY <2>3, <2>7
    <3> QED BY <2>2, <2>4, <2>5, <2>6, <2>7, <3>1 DEF Credit
  <2>8. CASE held.code # code
    <3>1. ~GuiOrderIsStored(code)
      BY <2>3, <2>8
    <3> QED BY <2>2, <2>4, <2>5, <2>6, <2>8, <3>1 DEF Credit
  <2> QED BY <2>7, <2>8
<1>7. CASE PlaceTcp
  <2>1. /\ UNCHANGED <<guiWork, guiBox>>
        /\ pc \in {"placeTcpCode", "placeTcpValue"} /\ pc' = "export"
    BY <1>7 DEF PlaceTcp, gui
  <2>2. \A code \in ActingCodes : owed'[<<"gui", code>>] = owed[<<"gui", code>>]
    BY <1>7, OtherSide DEF PlaceTcp
  <2> QED
    BY <2>1, <2>2 DEF GuiOrdersAreOwed, GuiHasYetToStore, GuiOrderIsStored
<1>8. CASE \/ CheckControl \/ CheckGui \/ CheckRemote \/ CheckTcp \/ RestOfTheLoop
           \/ LoadTcpRegister
  <2>1. \A code \in ActingCodes : GuiOrderIsStored(code)' => GuiOrderIsStored(code)
    BY <1>8
    DEF CheckControl, CheckGui, CheckRemote, CheckTcp, RestOfTheLoop, LoadTcpRegister,
        GuiOrderIsStored, Goes, gui
  <2> QED
    BY <1>8, <2>1, GuiOrderStays
    DEF CheckControl, CheckGui, CheckRemote, CheckTcp, RestOfTheLoop, LoadTcpRegister, gui
<1>9. CASE TakeCode \/ TakeValue
  <2>1. \A code \in ActingCodes : GuiOrderIsStored(code)' => GuiOrderIsStored(code)
    BY <1>9 DEF TakeCode, TakeValue, GuiOrderIsStored, Goes, gui, TypeOK, Boxes
  <2> QED BY <1>9, <2>1, GuiOrderStays DEF TakeCode, TakeValue, gui
<1>10. CASE CopyToGui \/ ResetCode \/ ResetValue
  <2>1. \A code \in ActingCodes : GuiOrderIsStored(code)' => GuiOrderIsStored(code)
    BY <1>10, Codes
    DEF CopyToGui, ResetCode, ResetValue, GuiOrderIsStored, Goes, gui, TypeOK, Boxes
  <2> QED BY <1>10, <2>1, GuiOrderStays DEF CopyToGui, ResetCode, ResetValue, gui
<1>11. CASE Export \/ ResetTcpCode \/ ResetTcpValue
  <2>1. \A code \in ActingCodes : GuiOrderIsStored(code)' => GuiOrderIsStored(code)
    BY <1>11 DEF Export, ResetTcpCode, ResetTcpValue, GuiOrderIsStored, Goes, gui
  <2> QED BY <1>11, <2>1, GuiOrderStays DEF Export, ResetTcpCode, ResetTcpValue, gui
<1>12. CASE UNCHANGED vars
  BY <1>12, GuiSideKept DEF vars, gui, GuiSide
<1> QED
  BY <1>1, <1>2, <1>3, <1>4, <1>5, <1>6, <1>7, <1>8, <1>9, <1>10, <1>11, <1>12
  DEF Next, PeripheralThread

-----------------------------------------------------------------------------
(***************************************************************************)
(* The side of the client.                                                 *)
(***************************************************************************)
\* The GUI, the fetching of its orders and who has control do not matter to the
\* orders of the client: no more of them exist after such a step.
LEMMA ClientOrderStays ==
    ASSUME TypeOK, ClientOrdersAreOwed, UNCHANGED tcpWork,
           \A code \in ActingCodes : owed'[<<"tcp", code>>] = owed[<<"tcp", code>>],
           \A code \in ActingCodes : ClientOrderIsStored(code)' => ClientOrderIsStored(code)
    PROVE  ClientOrdersAreOwed'
<1> SUFFICES ASSUME NEW code \in ActingCodes
             PROVE  owed'[<<"tcp", code>>] >= Credit(ClientHasYetToStore(code)')
                                              + Credit(ClientOrderIsStored(code)')
  BY DEF ClientOrdersAreOwed, Credit
<1>1. owed[<<"tcp", code>>] \in Int
  BY DEF TypeOK
<1>2. ClientHasYetToStore(code)' = ClientHasYetToStore(code)
  BY DEF ClientHasYetToStore
<1>3. Credit(ClientOrderIsStored(code)') <= Credit(ClientOrderIsStored(code))
  BY DEF Credit
<1>4. /\ Credit(ClientOrderIsStored(code)) \in Int /\ Credit(ClientOrderIsStored(code)') \in Int
      /\ Credit(ClientHasYetToStore(code)) \in Int
  BY DEF Credit
<1> QED BY <1>1, <1>2, <1>3, <1>4 DEF ClientOrdersAreOwed

\* Asking for an order pays for the one that its thread is going to store.
LEMMA ClientAsks ==
    ASSUME TypeOK, ClientOrdersAreOwed,
           NEW asked \in ActingCodes, Ask("tcp", asked), UNCHANGED pc,
           \A code \in ActingCodes : ~ClientHasYetToStore(code),
           \A code \in ActingCodes : ClientHasYetToStore(code)' => code = asked,
           \A code \in ActingCodes : ClientOrderIsStored(code)' => ClientOrderIsStored(code)
    PROVE  ClientOrdersAreOwed'
<1> SUFFICES ASSUME NEW code \in ActingCodes
             PROVE  owed'[<<"tcp", code>>] >= Credit(ClientHasYetToStore(code)')
                                              + Credit(ClientOrderIsStored(code)')
  BY DEF ClientOrdersAreOwed, Credit
<1>1. owed'[<<"tcp", code>>] = owed[<<"tcp", code>>] + IF code = asked THEN 1 ELSE 0
  BY DEF Ask, TypeOK
<1>2. owed[<<"tcp", code>>] \in Int
  BY DEF TypeOK
<1>3. owed[<<"tcp", code>>] >= Credit(ClientHasYetToStore(code)) + Credit(ClientOrderIsStored(code))
  BY DEF ClientOrdersAreOwed
<1> QED BY <1>1, <1>2, <1>3 DEF Credit

\* The server's thread turns an order to be stored into one that is stored, or
\* drops it.
LEMMA ClientStores ==
    ASSUME TypeOK, ClientOrdersAreOwed, UNCHANGED owed,
           \A code \in ActingCodes :
               /\ ClientHasYetToStore(code)' => ClientHasYetToStore(code)
               /\ ClientOrderIsStored(code)' =>
                      \/ ClientOrderIsStored(code)
                      \/ ClientHasYetToStore(code) /\ ~ClientHasYetToStore(code)'
    PROVE  ClientOrdersAreOwed'
<1> SUFFICES ASSUME NEW code \in ActingCodes
             PROVE  owed[<<"tcp", code>>] >= Credit(ClientHasYetToStore(code)')
                                             + Credit(ClientOrderIsStored(code)')
  BY DEF ClientOrdersAreOwed, Credit
<1>1. owed[<<"tcp", code>>] \in Int
  BY DEF TypeOK
<1>2. owed[<<"tcp", code>>] >= Credit(ClientHasYetToStore(code)) + Credit(ClientOrderIsStored(code))
  BY DEF ClientOrdersAreOwed
<1> QED BY <1>1, <1>2 DEF Credit

\* Every step of the three threads keeps what is owed to the client.
LEMMA StepClient == TypeOK /\ ClientOrdersAreOwed /\ [Next]_vars => ClientOrdersAreOwed'
<1> SUFFICES ASSUME TypeOK, ClientOrdersAreOwed, [Next]_vars PROVE ClientOrdersAreOwed'
  OBVIOUS
<1>1. CASE ClientWritesCode
  <2>1. PICK asked \in TcpCodes :
           /\ Ask("tcp", asked)
           /\ tcpWork' = [Idle EXCEPT !.step = "load", !.code = asked]
    BY <1>1 DEF ClientWritesCode
  <2>2. asked \in ActingCodes
    BY Codes
  <2>3. /\ tcpWork.step = "idle" /\ tcpWork'.step = "load"
        /\ tcpWork'.field = "code" /\ tcpWork'.code = asked
    BY <1>1, <2>1 DEF ClientWritesCode, Idle
  <2>4. \A code \in ActingCodes : ~ClientHasYetToStore(code)
    BY <2>3 DEF ClientHasYetToStore
  <2>5. \A code \in ActingCodes : ClientHasYetToStore(code)' => code = asked
    BY <2>3 DEF ClientHasYetToStore
  <2>6. UNCHANGED <<pc, held>> /\ tcpBox'.code = "READING_ALL"
    BY <1>1 DEF ClientWritesCode, TypeOK, Boxes
  <2>7. \A code \in ActingCodes : ClientOrderIsStored(code)' => ClientOrderIsStored(code)
    BY <2>6, Codes DEF ClientOrderIsStored
  <2> QED BY <2>1, <2>2, <2>4, <2>5, <2>6, <2>7, ClientAsks
<1>2. CASE ClientWritesValue
  <2>1. PICK value \in SetPoints :
           /\ Ask("tcp", "SET_VALUE")
           /\ tcpWork' = [Idle EXCEPT !.step = "load", !.field = "value", !.value = value]
           /\ tcpBox' = [tcpBox EXCEPT !.value = <<value[1], 0>>]
    BY <1>2 DEF ClientWritesValue
  <2>2. tcpWork.step = "idle" /\ tcpWork'.field = "value"
    BY <1>2, <2>1 DEF ClientWritesValue, Idle
  <2>3. \A code \in ActingCodes : ~ClientHasYetToStore(code)
    BY <2>2 DEF ClientHasYetToStore
  <2>4. \A code \in ActingCodes : ClientHasYetToStore(code)' => code = "SET_VALUE"
    BY <2>2 DEF ClientHasYetToStore
  <2>5. UNCHANGED <<pc, held>> /\ tcpBox'.code = tcpBox.code
    BY <1>2, <2>1 DEF ClientWritesValue, TypeOK, Boxes
  <2>6. \A code \in ActingCodes : ClientOrderIsStored(code)' => ClientOrderIsStored(code)
    BY <2>5 DEF ClientOrderIsStored
  <2> QED BY <2>1, <2>3, <2>4, <2>5, <2>6, Codes, ClientAsks
<1>3. CASE LoadRegister
  <2>1. /\ tcpWork.step = "load" /\ tcpWork'.step = "store" /\ tcpWork'.field = tcpWork.field
        /\ tcpWork.field = "code" => tcpWork'.code \in {"NONE", tcpWork.code}
        /\ UNCHANGED <<tcpBox, pc, held, owed>>
    BY <1>3 DEF LoadRegister, WithLowerByte, TypeOK
  <2>2. \A code \in ActingCodes : ClientHasYetToStore(code)' => ClientHasYetToStore(code)
    BY <2>1, Codes DEF ClientHasYetToStore, TypeOK
  <2>3. \A code \in ActingCodes : ClientOrderIsStored(code)' => ClientOrderIsStored(code)
    BY <2>1 DEF ClientOrderIsStored
  <2> QED BY <2>1, <2>2, <2>3, ClientStores
<1>4. CASE StoreRegister
  <2>1. tcpWork.step = "store" /\ UNCHANGED <<pc, held, owed>>
    BY <1>4 DEF StoreRegister
  <2>2. CASE tcpWork.field = "value"
    <3>1. tcpWork'.step = "order" /\ tcpWork'.field = "value" /\ tcpBox'.code = tcpBox.code
      BY <1>4, <2>2 DEF StoreRegister, TypeOK, Boxes
    <3>2. \A code \in ActingCodes :
             /\ ClientHasYetToStore(code)' => ClientHasYetToStore(code)
             /\ ClientOrderIsStored(code)' => ClientOrderIsStored(code)
      BY <2>1, <2>2, <3>1 DEF ClientHasYetToStore, ClientOrderIsStored
    <3> QED BY <2>1, <3>2, ClientStores
  <2>3. CASE tcpWork.field = "code"
    <3>1. tcpWork' = Idle /\ tcpBox'.code = tcpWork.code
      BY <1>4, <2>3 DEF StoreRegister, TypeOK, Boxes
    <3>2. \A code \in ActingCodes : ~ClientHasYetToStore(code)'
      BY <3>1 DEF ClientHasYetToStore, Idle
    <3>3. \A code \in ActingCodes :
             ClientOrderIsStored(code)' => ClientOrderIsStored(code) \/ ClientHasYetToStore(code)
      BY <2>1, <2>3, <3>1 DEF ClientHasYetToStore, ClientOrderIsStored
    <3> QED BY <2>1, <3>2, <3>3, ClientStores
  <2> QED BY <2>2, <2>3 DEF TypeOK
<1>5. CASE StoreOrderCode
  <2>1. /\ tcpWork.step = "order" /\ tcpWork' = Idle /\ UNCHANGED <<pc, held, owed>>
        /\ tcpBox'.code = "SET_VALUE"
    BY <1>5 DEF StoreOrderCode, TypeOK, Boxes
  <2>2. \A code \in ActingCodes : ~ClientHasYetToStore(code)'
    BY <2>1 DEF ClientHasYetToStore, Idle
  <2>3. \A code \in ActingCodes :
           ClientOrderIsStored(code)' => ClientOrderIsStored(code) \/ ClientHasYetToStore(code)
    BY <2>1 DEF ClientHasYetToStore, ClientOrderIsStored
  <2> QED BY <2>1, <2>2, <2>3, ClientStores
<1>6. CASE GuiStartsOrder
  <2>1. PICK code : Ask("gui", code)
    BY <1>6 DEF GuiStartsOrder
  <2>2. UNCHANGED <<tcpWork, tcpBox, pc, held>>
    BY <1>6 DEF GuiStartsOrder
  <2> QED BY <2>1, <2>2, OtherSide, ClientOrderStays DEF ClientOrderIsStored
<1>7. CASE GuiStores \/ GuiTogglesControl
  BY <1>7, ClientOrderStays DEF GuiStores, GuiTogglesControl, ClientOrderIsStored
<1>8. CASE TakeClear
  <2>1. UNCHANGED <<tcpWork, tcpBox>> /\ pc = "takeClear" /\ pc' = "copy"
    BY <1>8 DEF TakeClear, Goes
  <2>2. \A code \in ActingCodes : owed'[<<"tcp", code>>] = owed[<<"tcp", code>>]
    BY <1>8, OtherSide DEF TakeClear
  <2> QED BY <2>1, <2>2, ClientOrderStays DEF ClientOrderIsStored
<1>9. CASE PlaceTcp
  <2>1. /\ pc \in {"placeTcpCode", "placeTcpValue"} /\ pc' = "export"
        /\ Deliver("tcp", OrderOfClient.code)
        /\ UNCHANGED <<tcpWork, tcpBox>>
    BY <1>9 DEF PlaceTcp, gui
  <2> SUFFICES ASSUME NEW code \in ActingCodes
               PROVE  owed'[<<"tcp", code>>] >= Credit(ClientHasYetToStore(code)')
                                                + Credit(ClientOrderIsStored(code)')
    BY DEF ClientOrdersAreOwed, Credit
  <2>2. ClientHasYetToStore(code)' = ClientHasYetToStore(code) /\ ~ClientOrderIsStored(code)'
    BY <2>1 DEF ClientHasYetToStore, ClientOrderIsStored
  <2>3. ClientOrderIsStored(code) = (OrderOfClient.code = code)
    BY <2>1 DEF ClientOrderIsStored, OrderOfClient, TypeOK, Boxes
  <2>4. owed'[<<"tcp", code>>]
           = owed[<<"tcp", code>>] - IF OrderOfClient.code = code THEN 1 ELSE 0
    BY <2>1 DEF Deliver, TypeOK
  <2>5. owed[<<"tcp", code>>] \in Int
    BY DEF TypeOK
  <2>6. owed[<<"tcp", code>>] >= Credit(ClientHasYetToStore(code)) + Credit(ClientOrderIsStored(code))
    BY DEF ClientOrdersAreOwed
  <2>7. CASE OrderOfClient.code = code
    <3>1. ClientOrderIsStored(code)
      BY <2>3, <2>7
    <3> QED BY <2>2, <2>4, <2>5, <2>6, <2>7, <3>1 DEF Credit
  <2>8. CASE OrderOfClient.code # code
    <3>1. ~ClientOrderIsStored(code)
      BY <2>3, <2>8
    <3> QED BY <2>2, <2>4, <2>5, <2>6, <2>8, <3>1 DEF Credit
  <2> QED BY <2>7, <2>8
<1>10. CASE \/ RestOfTheLoop \/ CheckControl \/ CheckGui \/ TakeCode \/ TakeValue
            \/ CopyToGui \/ ResetCode \/ ResetValue \/ CheckRemote \/ CheckTcp
  <2>1. /\ UNCHANGED <<tcpWork, tcpBox, owed>>
        /\ pc \notin {"placeTcpValue", "export", "resetTcpCode"} /\ pc' # "placeTcpValue"
    BY <1>10
    DEF RestOfTheLoop, CheckControl, CheckGui, TakeCode, TakeValue, CopyToGui, ResetCode,
        ResetValue, CheckRemote, CheckTcp, Goes
  <2> QED BY <2>1, ClientOrderStays DEF ClientOrderIsStored
<1>11. CASE LoadTcpRegister
  <2>1. UNCHANGED <<tcpWork, tcpBox, owed>>
    BY <1>11 DEF LoadTcpRegister
  <2>2. \A code \in ActingCodes : ClientOrderIsStored(code)' => ClientOrderIsStored(code)
    BY <1>11 DEF LoadTcpRegister, ClientOrderIsStored, TypeOK, Boxes
  <2> QED BY <2>1, <2>2, ClientOrderStays
<1>12. CASE Export \/ ResetTcpCode \/ ResetTcpValue
  <2>1. UNCHANGED <<tcpWork, owed>>
    BY <1>12 DEF Export, ResetTcpCode, ResetTcpValue
  <2>2. \A code \in ActingCodes : ClientOrderIsStored(code)' => ClientOrderIsStored(code)
    BY <1>12, Codes
    DEF Export, ResetTcpCode, ResetTcpValue, ClientOrderIsStored, Goes, TypeOK, Boxes
  <2> QED BY <2>1, <2>2, ClientOrderStays
<1>13. CASE UNCHANGED vars
  BY <1>13, ClientOrderStays DEF vars, ClientOrderIsStored
<1> QED
  BY <1>1, <1>2, <1>3, <1>4, <1>5, <1>6, <1>7, <1>8, <1>9, <1>10, <1>11, <1>12,
     <1>13
  DEF Next, TcpThreadGoesOn, PeripheralThread

-----------------------------------------------------------------------------
(***************************************************************************)
(* The theorem.                                                            *)
(***************************************************************************)
\* At the start nothing is owed and no order exists.
LEMMA InitOwed == Init => GuiOrdersAreOwed /\ ClientOrdersAreOwed
<1> SUFFICES ASSUME Init, NEW code \in ActingCodes
             PROVE  /\ owed[<<"gui", code>>] >= Credit(GuiHasYetToStore(code))
                                                + Credit(GuiOrderIsStored(code))
                    /\ owed[<<"tcp", code>>] >= Credit(ClientHasYetToStore(code))
                                                + Credit(ClientOrderIsStored(code))
  BY DEF GuiOrdersAreOwed, ClientOrdersAreOwed
<1>1. owed[<<"gui", code>>] = 0 /\ ~GuiHasYetToStore(code) /\ ~GuiOrderIsStored(code)
  BY Codes DEF Init, Empty, GuiHasYetToStore, GuiOrderIsStored
<1>2. owed[<<"tcp", code>>] = 0 /\ ~ClientHasYetToStore(code) /\ ~ClientOrderIsStored(code)
  BY Codes DEF Init, Idle, Empty, ClientHasYetToStore, ClientOrderIsStored
<1> QED BY <1>1, <1>2 DEF Credit

\* What is owed is at least the number of orders that exist, so never negative.
LEMMA OwedSuffices == TypeOK /\ GuiOrdersAreOwed /\ ClientOrdersAreOwed => NoOrderFromNowhere
<1> SUFFICES ASSUME TypeOK, GuiOrdersAreOwed, ClientOrdersAreOwed,
                    NEW side \in {"gui", "tcp"}, NEW code \in ActingCodes
             PROVE  owed[<<side, code>>] >= 0
  BY DEF NoOrderFromNowhere, TypeOK
<1>1. owed[<<"gui", code>>] \in Int /\ owed[<<"tcp", code>>] \in Int
  BY DEF TypeOK
<1>2. owed[<<"gui", code>>] >= 0
  BY <1>1 DEF GuiOrdersAreOwed, Credit
<1>3. owed[<<"tcp", code>>] >= 0
  BY <1>1 DEF ClientOrdersAreOwed, Credit
<1> QED BY <1>2, <1>3

\* Whatever the codes and set-points, and however the stores and loads of
\* placeNewOrder, eMBRegHoldingCB and synchronizeDataAcrossThreads interleave,
\* no order is carried out that was not asked for, nor oftener than it was.
THEOREM OrdersComeFromTheirController == Spec => []NoOrderFromNowhere
<1> DEFINE Inv == TypeOK /\ GuiOrdersAreOwed /\ ClientOrdersAreOwed
<1>1. Init => Inv
  BY InitTypes, InitOwed
<1>2. Inv /\ [Next]_vars => Inv'
  BY StepTypes, StepGui, StepClient
<1>3. Inv => NoOrderFromNowhere
  BY OwedSuffices
<1> QED BY <1>1, <1>2, <1>3, PTL DEF Spec
=============================================================================
