--------------------------- MODULE OrderExchange ---------------------------
(***************************************************************************)
(* The passage of orders between the three threads of the 'local           *)
(* computer'.  The GUI leaves an order in TableOfSharedDataForGui, the TCP *)
(* server leaves what its client writes in TableOfSharedDataForTcpServer,  *)
(* and synchronizeDataAcrossThreads of the peripheral thread fetches them, *)
(* depending on ControlFromGuiHere, and overwrites both tables.            *)
(*                                                                         *)
(* A step is one store or one load of the code or of the value of an order *)
(* in a table of two threads.  A memcpy over both is one step too: before  *)
(* anybody reads the second one, the peripheral thread resets them both.   *)
(*                                                                         *)
(* Every function locks a mutex that is its own local variable, so no two  *)
(* threads ever exclude each other and the locks do not appear here.       *)
(*                                                                         *)
(* A set-point is a pair of bytes <<high, low>>, because the server        *)
(* writes it byte by byte.  The code of an order fits the lower byte: the  *)
(* upper one is 0, which is the code READING_ALL on its own.               *)
(***************************************************************************)
EXTENDS PowerOrders, Integers, FiniteSets

CONSTANTS
    GuiCodes,       \* orders the callbacks of the GUI place
    TcpCodes,       \* codes a client writes to the order code register
    Bytes,          \* the values of a byte, 0 among them
    SetPoints,      \* the set-points asked for
    MaxOwed         \* bound: orders of one code asked for and not delivered

ASSUME ExchangeAssumption ==
    /\ GuiCodes \subseteq OrderCodes \ (ReadingOrders \union {"NONE"})
    /\ TcpCodes \subseteq OrderCodes \ (ReadingOrders \union {"NONE"})
    /\ Bytes \subseteq Nat /\ 0 \in Bytes
    /\ SetPoints \subseteq Bytes \X Bytes
    /\ MaxOwed \in Nat \ {0}

VARIABLES
    control,        \* ControlFromGuiHere
    guiBox,         \* OrderCode and OrderNewValue in the GUI's table
    guiWork,        \* what the callback in progress has yet to store
    tcpBox,         \* the two order registers in the TCP server's table
    tcpWork,        \* what eMBRegHoldingCB has yet to store
    pc,             \* where in synchronizeDataAcrossThreads the thread is
    held,           \* the locals of takeOrder, the arguments of placeNewOrder
    lowBox,         \* the order in TableOfSharedDataForLowLevel
    owed            \* history: orders asked for minus orders delivered

gui  == <<control, guiWork>>
vars == <<gui, tcpWork, guiBox, tcpBox, pc, held, lowBox, owed>>

Words == Bytes \X Bytes
Zero  == <<0, 0>>
Empty == [code |-> "NONE", value |-> Zero]
Boxes == [code : OrderCodes, value : Words]

ActingCodes == OrderCodes \ (ReadingOrders \union {"NONE"})

Turns == {"turn", "checkControl", "checkGui", "takeCode", "takeValue",
          "takeClear", "copy", "resetCode", "resetValue", "checkRemote",
          "checkTcp", "placeTcp", "placeTcpCode", "placeTcpValue", "export",
          "resetTcpCode", "resetTcpValue"}

Idle == [step |-> "idle", field |-> "code", code |-> "NONE", value |-> Zero]

TypeOK ==
    /\ control \in BOOLEAN
    /\ guiBox \in Boxes
    /\ guiWork \in [code : OrderCodes, value : Words,
                    left : SUBSET {"code", "value"}]
    /\ tcpBox \in Boxes
    /\ tcpWork \in [step : {"idle", "load", "store", "order"},
                    field : {"code", "value"}, code : OrderCodes, value : Words]
    /\ pc \in Turns
    /\ held \in Boxes
    /\ lowBox \in Boxes
    /\ owed \in [{"gui", "tcp"} \X ActingCodes -> Int]

\* The GUI has control when the program starts in this mode.
Init ==
    /\ control = TRUE
    /\ guiBox = Empty
    /\ guiWork = [code |-> "NONE", value |-> Zero, left |-> {}]
    /\ tcpBox = Empty
    /\ tcpWork = Idle
    /\ pc = "turn"
    /\ held = Empty
    /\ lowBox = Empty
    /\ owed = [x \in {"gui", "tcp"} \X ActingCodes |-> 0]

Ask(side, code) ==
    /\ owed[<<side, code>>] < MaxOwed
    /\ owed' = [owed EXCEPT ![<<side, code>>] = @ + 1]

Deliver(side, code) ==
    owed' = IF code \in ActingCodes
            THEN [owed EXCEPT ![<<side, code>>] = @ - 1] ELSE owed

-----------------------------------------------------------------------------
(***************************************************************************)
(* The GUI thread: placeNewOrder makes two stores, in an order nothing in  *)
(* the program fixes; the control button flips the flag.                   *)
(***************************************************************************)
GuiStartsOrder ==
    /\ guiWork.left = {}
    /\ \E code \in GuiCodes, value \in SetPoints \union {Zero} :
          /\ IF code = "SET_VALUE" THEN value \in SetPoints ELSE value = Zero
          /\ Ask("gui", code)
          /\ guiWork' = [code |-> code, value |-> value, left |-> {"code", "value"}]
    /\ UNCHANGED <<control, guiBox, tcpWork, tcpBox, pc, held, lowBox>>

GuiStores ==
    /\ \E field \in guiWork.left :
          /\ guiBox' = [guiBox EXCEPT ![field] = guiWork[field]]
          /\ guiWork' = [guiWork EXCEPT !.left = @ \ {field}]
    /\ UNCHANGED <<control, tcpWork, tcpBox, pc, held, lowBox, owed>>

GuiTogglesControl ==
    /\ guiWork.left = {}
    /\ control' = ~control
    /\ UNCHANGED <<guiWork, guiBox, tcpWork, tcpBox, pc, held, lowBox, owed>>

-----------------------------------------------------------------------------
(***************************************************************************)
(* The TCP thread: eMBRegHoldingCB stores the upper byte, then loads the   *)
(* register, adds the lower byte and stores it; after a set-point it also  *)
(* stores the code.  It does not ask whether the client has control.       *)
(***************************************************************************)
ClientWritesCode ==
    /\ tcpWork.step = "idle"
    /\ \E code \in TcpCodes :
          /\ Ask("tcp", code)
          /\ tcpWork' = [Idle EXCEPT !.step = "load", !.code = code]
    /\ tcpBox' = [tcpBox EXCEPT !.code = "READING_ALL"]
    /\ UNCHANGED <<gui, guiBox, pc, held, lowBox>>

ClientWritesValue ==
    /\ tcpWork.step = "idle"
    /\ \E value \in SetPoints :
          /\ Ask("tcp", "SET_VALUE")
          /\ tcpWork' = [Idle EXCEPT !.step = "load", !.field = "value", !.value = value]
          /\ tcpBox' = [tcpBox EXCEPT !.value = <<value[1], 0>>]
    /\ UNCHANGED <<gui, guiBox, pc, held, lowBox>>

\* What the register holds with the lower byte added.  Every bit of NONE is
\* set, so that adding to it changes nothing.
WithLowerByte ==
    IF tcpWork.field = "value" THEN <<tcpBox.value[1], tcpWork.value[2]>>
    ELSE IF tcpBox.code = "NONE" THEN "NONE" ELSE tcpWork.code

LoadRegister ==
    /\ tcpWork.step = "load"
    /\ tcpWork' = [tcpWork EXCEPT !.step = "store", ![tcpWork.field] = WithLowerByte]
    /\ UNCHANGED <<gui, guiBox, tcpBox, pc, held, lowBox, owed>>

StoreRegister_WrongOne ==
    /\ tcpWork.step = "store"
    /\ tcpBox' = [tcpBox EXCEPT !.value = tcpWork[tcpWork.field]]
    /\ tcpWork' = IF tcpWork.field = "value"
                  THEN [tcpWork EXCEPT !.step = "order"] ELSE Idle
    /\ UNCHANGED <<gui, guiBox, pc, held, lowBox, owed>>

StoreRegister ==
    /\ tcpWork.step = "store"
    /\ tcpBox' = [tcpBox EXCEPT ![tcpWork.field] = tcpWork[tcpWork.field]]
    /\ tcpWork' = IF tcpWork.field = "value"
                  THEN [tcpWork EXCEPT !.step = "order"] ELSE Idle
    /\ UNCHANGED <<gui, guiBox, pc, held, lowBox, owed>>

StoreOrderCode ==
    /\ tcpWork.step = "order"
    /\ tcpBox' = [tcpBox EXCEPT !.code = "SET_VALUE"]
    /\ tcpWork' = Idle
    /\ UNCHANGED <<gui, guiBox, pc, held, lowBox, owed>>

-----------------------------------------------------------------------------
(***************************************************************************)
(* The peripheral thread.  Between two passes the rest of its loop may     *)
(* take the order from its own table, or place one there.                  *)
(***************************************************************************)
Goes(from, to) == pc = from /\ pc' = to

RestOfTheLoop ==
    /\ Goes("turn", "checkControl")
    /\ lowBox' \in {lowBox, Empty, [Empty EXCEPT !.code = "POWER_OFF"]}
    /\ UNCHANGED <<gui, tcpWork, guiBox, tcpBox, held, owed>>

CheckControl ==
    /\ Goes("checkControl", IF control THEN "checkGui" ELSE "copy")
    /\ UNCHANGED <<gui, tcpWork, guiBox, tcpBox, held, lowBox, owed>>

CheckGui_OwnTable ==
    /\ Goes("checkGui", IF lowBox.code # "NONE" THEN "takeCode" ELSE "copy")
    /\ UNCHANGED <<gui, tcpWork, guiBox, tcpBox, held, lowBox, owed>>

CheckGui ==
    /\ Goes("checkGui", IF guiBox.code # "NONE" THEN "takeCode" ELSE "copy")
    /\ UNCHANGED <<gui, tcpWork, guiBox, tcpBox, held, lowBox, owed>>

TakeCode ==
    /\ Goes("takeCode", "takeValue")
    /\ held' = [held EXCEPT !.code = guiBox.code]
    /\ UNCHANGED <<gui, tcpWork, guiBox, tcpBox, lowBox, owed>>

TakeValue ==
    /\ Goes("takeValue", "takeClear")
    /\ held' = [held EXCEPT !.value = guiBox.value]
    /\ UNCHANGED <<gui, tcpWork, guiBox, tcpBox, lowBox, owed>>

TakeClear ==
    /\ Goes("takeClear", "copy")
    /\ guiBox' = [guiBox EXCEPT !.code = "NONE"]
    /\ lowBox' = held
    /\ held' = Empty
    /\ Deliver("gui", held.code)
    /\ UNCHANGED <<gui, tcpWork, tcpBox>>

CopyToGui_Skipped ==
    /\ Goes("copy", "checkRemote")
    /\ guiBox' = lowBox
    /\ UNCHANGED <<gui, tcpWork, tcpBox, held, lowBox, owed>>

\* memcpy() of the whole object, the order included ...
CopyToGui ==
    /\ Goes("copy", "resetCode")
    /\ guiBox' = lowBox
    /\ UNCHANGED <<gui, tcpWork, tcpBox, held, lowBox, owed>>

\* ... which resetOrderCode() then undoes.
ResetCode ==
    /\ Goes("resetCode", "resetValue")
    /\ guiBox' = [guiBox EXCEPT !.code = "NONE"]
    /\ UNCHANGED <<gui, tcpWork, tcpBox, held, lowBox, owed>>

ResetValue ==
    /\ Goes("resetValue", "checkRemote")
    /\ guiBox' = [guiBox EXCEPT !.value = Zero]
    /\ UNCHANGED <<gui, tcpWork, tcpBox, held, lowBox, owed>>

CheckRemote ==
    /\ Goes("checkRemote", IF control THEN "export" ELSE "checkTcp")
    /\ UNCHANGED <<gui, tcpWork, guiBox, tcpBox, held, lowBox, owed>>

CheckTcp_OwnTable ==
    /\ Goes("checkTcp", IF lowBox.code # "NONE" THEN "placeTcp" ELSE "export")
    /\ UNCHANGED <<gui, tcpWork, guiBox, tcpBox, held, lowBox, owed>>

CheckTcp ==
    /\ Goes("checkTcp", IF tcpBox.code # "NONE" THEN "placeTcp" ELSE "export")
    /\ UNCHANGED <<gui, tcpWork, guiBox, tcpBox, held, lowBox, owed>>

\* The two registers are the arguments of placeNewOrder, and C++ does not say
\* which of them is loaded first.
LoadTcpRegister ==
    /\ pc = "placeTcp"
    /\ \/ pc' = "placeTcpValue" /\ held' = [held EXCEPT !.code = tcpBox.code]
       \/ pc' = "placeTcpCode" /\ held' = [held EXCEPT !.value = tcpBox.value]
    /\ UNCHANGED <<gui, tcpWork, guiBox, tcpBox, lowBox, owed>>

OrderOfClient ==
    IF pc = "placeTcpCode" THEN [held EXCEPT !.code = tcpBox.code]
    ELSE [held EXCEPT !.value = tcpBox.value]

PlaceTcp ==
    /\ pc \in {"placeTcpCode", "placeTcpValue"}
    /\ pc' = "export"
    /\ lowBox' = OrderOfClient
    /\ held' = Empty
    /\ Deliver("tcp", OrderOfClient.code)
    /\ UNCHANGED <<gui, tcpWork, guiBox, tcpBox>>

\* exportModbusRegisters copies all of CopiedRegisters, whose two last
\* registers, never assigned, hold 0.
Export ==
    /\ Goes("export", "resetTcpCode")
    /\ tcpBox' = [code |-> "READING_ALL", value |-> Zero]
    /\ UNCHANGED <<gui, tcpWork, guiBox, held, lowBox, owed>>

ResetTcpCode ==
    /\ Goes("resetTcpCode", "resetTcpValue")
    /\ tcpBox' = [tcpBox EXCEPT !.code = "NONE"]
    /\ UNCHANGED <<gui, tcpWork, guiBox, held, lowBox, owed>>

ResetTcpValue ==
    /\ Goes("resetTcpValue", "turn")
    /\ tcpBox' = [tcpBox EXCEPT !.value = Zero]
    /\ UNCHANGED <<gui, tcpWork, guiBox, held, lowBox, owed>>

-----------------------------------------------------------------------------
TcpThreadGoesOn == LoadRegister \/ StoreRegister \/ StoreOrderCode

PeripheralThread ==
    \/ RestOfTheLoop \/ CheckControl \/ CheckGui
    \/ TakeCode \/ TakeValue \/ TakeClear
    \/ CopyToGui \/ ResetCode \/ ResetValue
    \/ CheckRemote \/ CheckTcp \/ LoadTcpRegister \/ PlaceTcp
    \/ Export \/ ResetTcpCode \/ ResetTcpValue

Next ==
    \/ GuiStartsOrder \/ GuiTogglesControl \/ GuiStores
    \/ ClientWritesCode \/ ClientWritesValue \/ TcpThreadGoesOn
    \/ PeripheralThread

\* What a thread has begun it completes; nobody has to begin anything.
Spec ==
    /\ Init /\ [][Next]_vars
    /\ WF_vars(GuiStores)
    /\ WF_vars(TcpThreadGoesOn)
    /\ WF_vars(PeripheralThread)

-----------------------------------------------------------------------------
(***************************************************************************)
(* Properties.                                                             *)
(***************************************************************************)
\* However the stores and loads of the three threads interleave, an order that
\* does something to the supply reaches the peripheral thread only if its
\* controller asked for it, and once for each time it was asked for.
NoOrderFromNowhere == \A x \in DOMAIN owed : owed[x] >= 0

\* An order that the GUI has completed while the thread was elsewhere is not
\* lost, whatever the other threads do: it is fetched, unless the user hands
\* control over or gives another one.
GuiOrderArrives ==
    \A code \in GuiCodes :
        pc = "turn" /\ control /\ guiBox.code = code /\ guiWork.left = {}
            ~> \/ pc = "copy" /\ lowBox.code = code
               \/ ~control
               \/ guiWork.left # {}

\* The same for a client's order, acknowledged while the client has control.
TcpOrderArrives ==
    \A code \in TcpCodes \union {"SET_VALUE"} :
        pc = "turn" /\ ~control /\ tcpBox.code = code /\ tcpWork.step = "idle"
            ~> \/ pc = "export" /\ lowBox.code = code
               \/ control
               \/ tcpWork.step # "idle"

\* modbusTcpSlave.c:254-255: writing the set-point register is an order to set
\* that set-point, so the set-points fetched are among those written.
SetPointsAreWritten ==
    [][PlaceTcp /\ OrderOfClient.code = "SET_VALUE"
        => OrderOfClient.value \in SetPoints]_vars
=============================================================================
