------------------------ MODULE SetPointEntryProofs ------------------------
(***************************************************************************)
(* Theorems about SetPointEntry, for any number of channels, any entries   *)
(* and any increments.                                                     *)
(*                                                                         *)
(* That the value in place of the register is the one last ordered is      *)
(* inductive with the types.  That the order given is the number entered   *)
(* follows from an invariant that remembers how the order was computed,    *)
(* and from what the conversion does with every number that is valid.      *)
(***************************************************************************)
EXTENDS SetPointEntry, TLAPS

\* The ends of the scale and of the entries are numbers.
LEMMA Limits == MaxValue \in Nat /\ MaxEntry \in Nat
  BY SMT DEF MaxValue, MaxEntry

LEMMA OnScale ==
    ASSUME NEW value \in Int, value >= 0, value <= 65535
    PROVE  value \in Values
<1>1. value <= MaxValue
  BY SMT DEF MaxValue
<1> QED
  BY SMT, Limits, <1>1 DEF Values

\* The conversion rounds to the nearest step, stays on the scale, and is cut off
\* only where one more step would leave it.
LEMMA ConversionRounds ==
    ASSUME NEW number \in 0 .. MaxEntry
    PROVE  Converted(number) \in Values /\ Rounded(Converted(number), number)
<1> DEFINE q == (number * 2048 + 3125) \div 6250
<1>1. number \in Int /\ number >= 0
  BY SMT, Limits
<1>2. CASE number >= 199997
  <2>1. Converted(number) = MaxValue
    BY SMT, <1>1, <1>2 DEF Converted
  <2>2. number > 199996
    BY SMT, <1>1, <1>2
  <2>3. Rounded(MaxValue, number)
    BY ONLY <2>2 DEF Rounded
  <2>4. MaxValue \in Values
    BY SMT, Limits DEF Values
  <2> QED
    BY ONLY <2>1, <2>3, <2>4
<1>3. CASE number < 199997
  <2>1. /\ q \in Int
        /\ 6250 * q <= number * 2048 + 3125
        /\ number * 2048 + 3125 < 6250 * q + 6250
    BY SMT, <1>1
  <2>2. Converted(number) = q
    BY SMT, <1>1, <1>3 DEF Converted
  <2> HIDE DEF q
  <2>3. q \in Values
    <3>1. q \in Int /\ q >= 0 /\ q <= 65535
      BY SMT, <1>1, <1>3, <2>1
    <3> QED
      BY <3>1, OnScale
  <2>4. 2 * (q * 3125 - number * 1024) \in -3125 .. 3125
    BY SMT, <1>1, <2>1
  <2>5. Rounded(q, number)
    BY ONLY <2>4 DEF Rounded
  <2> QED
    BY ONLY <2>2, <2>3, <2>5
<1> QED
  BY SMT, <1>1, <1>2, <1>3

\* Whatever is ordered by a click is on the scale.
LEMMA LimitedIsOnScale == ASSUME NEW value \in Int PROVE Limited(value) \in Values
  BY SMT, Limits DEF Limited, Values

LEMMA InitTypes == Init => TypeOK
<1> SUFFICES ASSUME Init PROVE TypeOK
  OBVIOUS
<1>1. 0 \in Values /\ 0 \in Lines /\ Empty \in Empty .. MaxValue
  BY SMT, EntryAssumption, Limits DEF Values, Lines, Empty
<1>2. /\ guiRegister \in [Lines -> Values] /\ guiBox \in [Lines -> Empty .. MaxValue]
      /\ register \in [Lines -> Values] /\ lowBox \in [Lines -> Empty .. MaxValue]
      /\ supply \in [Lines -> Values]
      /\ lastAccepted \in [Lines -> Entries \union {Empty}]
  BY <1>1 DEF Init, All
<1>3. ordered \in [Lines -> [value : Values, way : {"none", "entry", "click"}]]
  BY <1>1 DEF Init, All, Order
<1>4. counter \in 0 .. 2 /\ readings \in 0 .. 2
  BY SMT DEF Init
<1> QED
  BY <1>1, <1>2, <1>3, <1>4 DEF Init, TypeOK

\* Every step of the user and of the peripheral thread keeps the types.
LEMMA StepTypes == TypeOK /\ [Next]_vars => TypeOK'
<1> SUFFICES ASSUME TypeOK, [Next]_vars PROVE TypeOK'
  OBVIOUS
<1> USE EntryAssumption DEF TypeOK
<1>0. /\ None \notin Lines
      /\ \A value \in Values : value \in Empty .. MaxValue
      /\ Empty \in Empty .. MaxValue
  BY SMT, Limits DEF None, Lines, Values, Empty
<1>1. ASSUME NEW value \in Values, NEW way \in {"entry", "click"}, dialog \in Lines,
             PlaceNewOrder(value, way)
      PROVE  /\ guiBox' \in [Lines -> Empty .. MaxValue]
             /\ ordered' \in [Lines -> [value : Values, way : {"none", "entry", "click"}]]
  BY <1>0, <1>1 DEF PlaceNewOrder, Order
<1>2. CASE OpenDialog
  BY <1>2 DEF OpenDialog, UserActs, NoNewOrder, ResetMulticlick, thread
<1>3. CASE CloseDialog
  BY <1>3 DEF CloseDialog, UserActs, NoNewOrder, thread
<1>4. CASE EditText
  BY <1>4 DEF EditText, UserActs, NoNewOrder, ResetMulticlick, thread
<1>5. CASE EnterDot
  BY <1>5 DEF EnterDot, UserActs, NoNewOrder, thread, entry
<1>6. CASE AcceptSetPoint
  <2>1. dialog \in Lines /\ text \in Entries /\ text \in 0 .. MaxEntry
    BY <1>6 DEF AcceptSetPoint
  <2>2. Converted(text) \in Values
    BY <2>1, ConversionRounds
  <2>3. PlaceNewOrder(Converted(text), "entry")
    BY <1>6 DEF AcceptSetPoint
  <2>4. /\ guiBox' \in [Lines -> Empty .. MaxValue]
        /\ ordered' \in [Lines -> [value : Values, way : {"none", "entry", "click"}]]
    BY <1>1, <2>1, <2>2, <2>3
  <2>5. lastAccepted' \in [Lines -> Entries \union {Empty}]
    BY <1>6, <2>1 DEF AcceptSetPoint
  <2> QED
    BY SMT, <1>6, <2>4, <2>5 DEF AcceptSetPoint, UserActs, ResetMulticlick, thread
<1>7. CASE CancelEntry
  BY <1>7 DEF CancelEntry, UserActs, NoNewOrder, ResetMulticlick, thread
<1>8. CASE RelativeChange
  <2>1. dialog \in Lines
    BY <1>8 DEF RelativeChange
  <2>2. PICK change \in Increments :
           /\ offline' = Limited(MulticlickProofSetpointValue + change)
           /\ PlaceNewOrder(offline', "click")
    BY <1>8 DEF RelativeChange
  <2>3. MulticlickProofSetpointValue \in Int
    BY <2>1 DEF MulticlickProofSetpointValue, Values
  <2>4. offline' \in Values
    BY <2>2, <2>3, LimitedIsOnScale
  <2>5. /\ guiBox' \in [Lines -> Empty .. MaxValue]
        /\ ordered' \in [Lines -> [value : Values, way : {"none", "entry", "click"}]]
    BY <1>1, <2>1, <2>2, <2>4
  <2> QED
    BY <1>8, <2>4, <2>5 DEF RelativeChange, UserActs, thread
<1>9. CASE Synchronize
  BY <1>0, <1>9 DEF Synchronize, entry, All
<1>10. ASSUME ServeNext PROVE at' \in Lines /\ pc' \in {"sync", "serve", "resync"}
  BY <1>10 DEF ServeNext, Lines
<1>11. CASE SendReading
  BY <1>10, <1>11 DEF SendReading, entry, shared
<1>12. CASE SendOrder
  <2>1. /\ register' \in [Lines -> Values] /\ counter' \in 0 .. 2 /\ readings' \in 0 .. 2
    BY <1>12 DEF SendOrder, AnswerArrives, MulticlickCountdown
  <2>2. supply' \in [Lines -> Values]
    BY <1>0, <1>12, Limits DEF SendOrder, Values, Empty
  <2>3. lowBox' \in [Lines -> Empty .. MaxValue]
    BY <1>0, <1>12 DEF SendOrder
  <2> QED
    BY <1>10, <1>12, <2>1, <2>2, <2>3 DEF SendOrder, shared
<1>13. CASE UNCHANGED vars
  BY <1>13 DEF vars, entry, shared, thread
<1> QED
  BY <1>2, <1>3, <1>4, <1>5, <1>6, <1>7, <1>8, <1>9, <1>11, <1>12, <1>13
  DEF Next, User, PeripheralThread

\* The variables of the dialog, the mailboxes and the counter keep their types.
THEOREM TypeCorrectness == Spec => []TypeOK
<1> QED
  BY InitTypes, StepTypes, PTL DEF Spec

-----------------------------------------------------------------------------
\* The value that stands in for the register is the last one ordered by a click
\* on the channel of the dialog: whatever is entered, cancelled or opened in
\* between makes the counter start again (getMulticlickProofSetpointValue).
THEOREM StandInIsLastOrdered == Spec => []OfflineIsLastOrdered
<1>1. Init => OfflineIsLastOrdered
  BY DEF Init, OfflineIsLastOrdered
<1>2. TypeOK /\ OfflineIsLastOrdered /\ [Next]_vars => OfflineIsLastOrdered'
  <2> SUFFICES ASSUME TypeOK, OfflineIsLastOrdered, [Next]_vars
               PROVE  OfflineIsLastOrdered'
    OBVIOUS
  <2> USE DEF OfflineIsLastOrdered
  <2>1. CASE OpenDialog \/ EditText \/ AcceptSetPoint \/ CancelEntry
    BY <2>1 DEF OpenDialog, EditText, AcceptSetPoint, CancelEntry, ResetMulticlick
  <2>2. CASE CloseDialog
    BY <2>2 DEF CloseDialog
  <2>3. CASE EnterDot
    BY <2>3 DEF EnterDot, NoNewOrder, entry
  <2>4. CASE RelativeChange
    BY <2>4 DEF RelativeChange, PlaceNewOrder, Order, TypeOK
  <2>5. CASE Synchronize \/ SendReading \/ UNCHANGED vars
    BY <2>5 DEF Synchronize, SendReading, vars, entry
  <2>6. CASE SendOrder
    <3>1. counter' = counter \/ (counter > 0 /\ counter' = counter - 1)
      BY <2>6 DEF SendOrder, AnswerArrives, MulticlickCountdown, TypeOK
    <3> QED
      BY <2>6, <3>1 DEF SendOrder, TypeOK
  <2> QED
    BY <2>1, <2>2, <2>3, <2>4, <2>5, <2>6 DEF Next, User, PeripheralThread
<1> QED
  BY <1>1, <1>2, TypeCorrectness, PTL DEF Spec

\* An order that was entered is what the conversion makes of the number last
\* accepted for its channel.
EntryIsConverted ==
    \A c \in Lines :
        ordered[c].way = "entry" =>
            /\ lastAccepted[c] \in 0 .. MaxEntry
            /\ ordered[c].value = Converted(lastAccepted[c])

\* Every order that was entered is within half a step of the number, on the
\* whole scale, for every valid number (acceptSetPointCallback).
THEOREM EntriesAreOrdered == Spec => []EnteredIsOrdered
<1>1. Init => EntryIsConverted
  BY DEF Init, EntryIsConverted, All, Order
<1>2. TypeOK /\ EntryIsConverted /\ [Next]_vars => EntryIsConverted'
  <2> SUFFICES ASSUME TypeOK, EntryIsConverted, [Next]_vars PROVE EntryIsConverted'
    OBVIOUS
  <2> USE DEF EntryIsConverted
  <2>1. CASE AcceptSetPoint
    <3>1. text \in 0 .. MaxEntry
      BY <2>1, EntryAssumption DEF AcceptSetPoint, TypeOK
    <3> QED
      BY <2>1, <3>1 DEF AcceptSetPoint, PlaceNewOrder, Order, TypeOK
  <2>2. CASE RelativeChange
    BY <2>2 DEF RelativeChange, PlaceNewOrder, Order, TypeOK
  <2>3. CASE OpenDialog \/ CloseDialog \/ EditText \/ EnterDot \/ CancelEntry
    BY <2>3 DEF OpenDialog, CloseDialog, EditText, EnterDot, CancelEntry, NoNewOrder, entry
  <2>4. CASE PeripheralThread
    BY <2>4 DEF PeripheralThread, Synchronize, SendReading, SendOrder, entry
  <2>5. CASE UNCHANGED vars
    BY <2>5 DEF vars, entry
  <2> QED
    BY <2>1, <2>2, <2>3, <2>4, <2>5 DEF Next, User
<1>3. EntryIsConverted => EnteredIsOrdered
  BY ConversionRounds DEF EntryIsConverted, EnteredIsOrdered
<1> QED
  BY <1>1, <1>2, <1>3, TypeCorrectness, PTL DEF Spec
=============================================================================
