--------------------------- MODULE SetPointEntry ---------------------------
(***************************************************************************)
(* Entering a set-point on the local computer: the dialog with its input   *)
(* field and its four buttons for relative changes (SetPointInputGroup in  *)
(* graphicalUserInterface.cpp), the protection of these buttons against    *)
(* fast clicking, and the way of the set-point to the supply and, as a     *)
(* register that is read every half a second, back.                        *)
(*                                                                         *)
(* A number that is entered is an Integer, in milliamperes.  The GUI has   *)
(* control, and the supplies do what they are told; a frame may get lost.  *)
(***************************************************************************)
EXTENDS Integers

CONSTANTS
    Channels,       \* NumberOfChannels
    Entries,        \* the numbers the user enters
    Increments      \* RelativeIncreamentsTable

\* The greatest value of a register, and the greatest number that is valid.
MaxValue == 65535
MaxEntry == 200000

ASSUME EntryAssumption ==
    /\ Channels \in Nat \ {0}
    /\ Entries \subseteq 0 .. MaxEntry
    /\ Increments \subseteq Int

VARIABLES
    running,        \* the program runs
    dialog,         \* ChannelThatDisplaysInputValueDialog
    text,           \* LastValidInputString
    lastAccepted,   \* LastAcceptedValueString and LastAcceptedNumericValue
    counter,        \* MulticlickCounter
    offline,        \* OfflineSetpointValue
    guiRegister,    \* the set-points in TableOfSharedDataForGui
    guiBox,         \* the orders there
    pc,             \* where in its loop the peripheral thread is
    at,             \* the channel it serves
    even,           \* this turn is one for orders
    register,       \* the set-points in TableOfSharedDataForLowLevel
    lowBox,         \* the orders there
    supply,         \* the set-points in the supplies
    ordered,        \* history: the last order given, and in which way
    readings        \* history: readings of the channel of the dialog since the
                    \* last click; 2 for as many, or if there is none to count from

entry  == <<dialog, text, lastAccepted, counter, offline>>
shared == <<guiRegister, guiBox>>
thread == <<pc, at, even, register, lowBox>>
vars   == <<running, entry, shared, thread, supply, ordered, readings>>

Lines == 0 .. Channels - 1
None == -1
Values == 0 .. MaxValue

\* The empty text, and the empty mailbox.
Empty == -1

Order(value, way) == [value |-> value, way |-> way]

TypeOK ==
    /\ running \in BOOLEAN
    /\ dialog \in Lines \union {None}
    /\ text \in Entries \union {Empty}
    /\ lastAccepted \in [Lines -> Entries \union {Empty}]
    /\ counter \in 0 .. 2
    /\ offline \in Values
    /\ guiRegister \in [Lines -> Values]
    /\ guiBox \in [Lines -> Empty .. MaxValue]
    /\ pc \in {"sync", "serve", "resync"}
    /\ at \in Lines
    /\ even \in BOOLEAN
    /\ register \in [Lines -> Values]
    /\ lowBox \in [Lines -> Empty .. MaxValue]
    /\ supply \in [Lines -> Values]
    /\ ordered \in [Lines -> [value : Values, way : {"none", "entry", "click"}]]
    /\ readings \in 0 .. 2

All(value) == [c \in Lines |-> value]

Init ==
    /\ running = TRUE
    /\ dialog = None
    /\ text = Empty
    /\ lastAccepted = All(Empty)
    /\ counter = 0
    /\ offline = 0
    /\ guiRegister = All(0)
    /\ guiBox = All(Empty)
    /\ pc = "sync"
    /\ at = 0
    /\ even = FALSE
    /\ register = All(0)
    /\ lowBox = All(Empty)
    /\ supply = All(0)
    /\ ordered = All(Order(0, "none"))
    /\ readings = 2

-----------------------------------------------------------------------------
(***************************************************************************)
(* The user.                                                               *)
(***************************************************************************)
UserActs == running /\ UNCHANGED <<guiRegister, thread, supply>>

ResetMulticlick_NotAtAll == UNCHANGED counter /\ readings' = 2

ResetMulticlick == counter' = 0 /\ readings' = 2

PlaceNewOrder(value, way) ==
    /\ guiBox' = [guiBox EXCEPT ![dialog] = value]
    /\ ordered' = [ordered EXCEPT ![dialog] = Order(value, way)]

NoNewOrder == UNCHANGED <<guiBox, ordered>>

\* The buttons that open the dialog are inactive while it is open.
OpenDialog ==
    /\ UserActs /\ NoNewOrder
    /\ dialog = None
    /\ dialog' \in Lines
    /\ text' = lastAccepted[dialog']
    /\ ResetMulticlick
    /\ UNCHANGED <<running, lastAccepted, offline>>

\* By its button, or because control or the connection is lost.
CloseDialog ==
    /\ UserActs /\ NoNewOrder
    /\ dialog # None
    /\ dialog' = None
    /\ UNCHANGED <<running, text, lastAccepted, counter, offline, readings>>

\* A number up to 200 A replaces the last valid text, and so does an empty
\* field; anything else is replaced by it ...
EditText ==
    /\ UserActs /\ NoNewOrder
    /\ dialog # None
    /\ text' \in Entries \union {Empty, text}
    /\ ResetMulticlick
    /\ UNCHANGED <<running, dialog, lastAccepted, offline>>

\* ... but for a single dot, which std::stod does not take.  Nobody catches
\* the exception.
EnterDot ==
    /\ UserActs /\ NoNewOrder
    /\ dialog # None
    /\ running' = FALSE
    /\ UNCHANGED <<entry, readings>>

\* 1024 steps are 3125 mA.  The step after the last one would not fit.
Converted_Overflowing(number) == ((number * 2048 + 3125) \div 6250) % (MaxValue + 1)

Converted(number) ==
    IF number >= 199997 THEN MaxValue ELSE (number * 2048 + 3125) \div 6250

AcceptSetPoint ==
    /\ UserActs
    /\ dialog # None
    /\ text # Empty
    /\ lastAccepted' = [lastAccepted EXCEPT ![dialog] = text]
    /\ PlaceNewOrder(Converted(text), "entry")
    /\ ResetMulticlick
    /\ UNCHANGED <<running, dialog, text, offline>>

CancelEntry ==
    /\ UserActs /\ NoNewOrder
    /\ dialog # None
    /\ text' = lastAccepted[dialog]
    /\ ResetMulticlick
    /\ UNCHANGED <<running, dialog, lastAccepted, offline>>

Limited_Below(value) == IF value < 0 THEN 0 ELSE value

Limited(value) ==
    IF value > MaxValue THEN MaxValue ELSE IF value < 0 THEN 0 ELSE value

MulticlickProofSetpointValue ==
    IF counter = 0 THEN guiRegister[dialog] ELSE offline

RelativeChange ==
    /\ UserActs
    /\ dialog # None
    /\ text' = Empty
    /\ counter' = 2
    /\ readings' = 0
    /\ \E change \in Increments :
          /\ offline' = Limited(MulticlickProofSetpointValue + change)
          /\ PlaceNewOrder(offline', "click")
    /\ UNCHANGED <<running, dialog, lastAccepted>>

User ==
    \/ OpenDialog \/ CloseDialog \/ EditText \/ EnterDot
    \/ AcceptSetPoint \/ CancelEntry \/ RelativeChange

-----------------------------------------------------------------------------
(***************************************************************************)
(* The peripheral thread.                                                  *)
(***************************************************************************)
Synchronize ==
    /\ running
    /\ \/ pc = "sync" /\ pc' = "serve" /\ UNCHANGED even
       \/ pc = "resync" /\ pc' = "sync" /\ even' = ~even
    /\ lowBox' = [c \in Lines |-> IF guiBox[c] # Empty THEN guiBox[c] ELSE lowBox[c]]
    /\ guiBox' = All(Empty)
    /\ guiRegister' = register
    /\ UNCHANGED <<running, entry, at, register, supply, ordered, readings>>

ServeNext ==
    IF at < Channels - 1 THEN at' = at + 1 /\ UNCHANGED pc
    ELSE at' = 0 /\ pc' = "resync"

\* READING_FIRST is sent; its answer is read in the next turn.
SendReading ==
    /\ running
    /\ pc = "serve" /\ ~even
    /\ ServeNext
    /\ UNCHANGED <<running, entry, shared, even, register, lowBox, supply, ordered, readings>>

\* The answer of any channel counts, the dialog's or not.
MulticlickCountdown == IF counter > 0 THEN counter - 1 ELSE counter

\* The answer comes or does not, then the order that waits is sent, and
\* arrives or does not.
AnswerArrives ==
    /\ register' = [register EXCEPT ![at] = supply[at]]
    /\ counter' = MulticlickCountdown
    /\ readings' = IF at = dialog /\ readings < 2 THEN readings + 1 ELSE readings

SendOrder ==
    /\ running
    /\ pc = "serve" /\ even
    /\ AnswerArrives \/ UNCHANGED <<register, counter, readings>>
    /\ lowBox' = [lowBox EXCEPT ![at] = Empty]
    /\ \/ lowBox[at] # Empty /\ supply' = [supply EXCEPT ![at] = lowBox[at]]
       \/ UNCHANGED supply
    /\ ServeNext
    /\ UNCHANGED <<running, dialog, text, lastAccepted, offline, shared, even, ordered>>

PeripheralThread == Synchronize \/ SendReading \/ SendOrder

Next == User \/ PeripheralThread

Spec == Init /\ [][Next]_vars

-----------------------------------------------------------------------------
(***************************************************************************)
(* Properties.                                                             *)
(***************************************************************************)
\* While the counter holds the register off, the value that takes its place is
\* the one last ordered, and for the channel whose dialog is open: it survives
\* neither an entry, nor a cancelled one, nor a change to another channel.
OfflineIsLastOrdered ==
    counter > 0 /\ dialog # None =>
        ordered[dialog] = Order(offline, "click")

\* The order that is given is the number that was entered to within half of
\* one step, up to the last step of the scale, and does not wrap there.
Rounded(value, number) ==
    \/ 2 * (value * 3125 - number * 1024) \in -3125 .. 3125
    \/ value = MaxValue /\ number > 199996

EnteredIsOrdered ==
    \A c \in Lines :
        ordered[c].way = "entry" => Rounded(ordered[c].value, lastAccepted[c])

\* graphicalUserInterface.cpp:800-802: to clicks that follow each other faster
\* than the set-point is read twice, the protection keeps up, so that each adds
\* to the one before.
ClicksAddUp ==
    [][RelativeChange /\ readings < 2 =>
          \E change \in Increments :
              ordered'[dialog].value = Limited(ordered[dialog].value + change)]_vars
=============================================================================
