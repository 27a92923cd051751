-------------------------- MODULE RemoteLinkProofs --------------------------
(***************************************************************************)
(* Theorems about RemoteLink, for any number of channels, of orders and of *)
(* requests under way.                                                     *)
(*                                                                         *)
(* The link implements OrderDelivery: every step of the two computers and  *)
(* of the network gives one order, loses some, carries some out, or does   *)
(* nothing to them.  What makes it so is that an order is in one place at  *)
(* a time: in a mailbox of the remote computer, in one request, or in the  *)
(* mailbox of the local one.                                               *)
(***************************************************************************)
EXTENDS RemoteLink, SequenceTheorems, TLAPS

Sent == {requests[i].order : i \in DOMAIN requests} \ {NoOrder}

\* An order is in one place of a box, or of the requests.
OnceIn(box) ==
    \A l, k \in Lines : box[l] # NoOrder /\ box[l] = box[k] => l = k

OnceSent ==
    \A i, k \in DOMAIN requests :
        requests[i].order # NoOrder /\ requests[i].order = requests[k].order => i = k

OnePlace ==
    /\ OnceIn(rGuiBox) /\ OnceIn(rLowBox) /\ OnceIn(tcpBox) /\ OnceSent
    /\ Boxed(rGuiBox) \cap Boxed(rLowBox) = {}
    /\ Boxed(rGuiBox) \cap Sent = {}
    /\ Boxed(rGuiBox) \cap Boxed(tcpBox) = {}
    /\ Boxed(rLowBox) \cap Sent = {}
    /\ Boxed(rLowBox) \cap Boxed(tcpBox) = {}
    /\ Sent \cap Boxed(tcpBox) = {}

\* Orders are numbered, so that a new one is none of those under way.
OnlyGiven == UnderWay \subseteq 1 .. given

\* What is under way has not been carried out, and nothing ever is twice.
CarriedOutOnce ==
    \A n \in Numbers :
        /\ carriedOut[n] \in {0, 1}
        /\ n \in UnderWay \/ n > given => carriedOut[n] = 0

-----------------------------------------------------------------------------
(***************************************************************************)
(* Requests on their way.                                                  *)
(***************************************************************************)
Messages == [kind : Turns, line : Lines, order : Numbers \union {NoOrder}, alive : BOOLEAN]

\* A message under way, one more, one less, or all of a connection that is gone.
LEMMA Appended ==
    ASSUME requests \in Seq(Messages), NEW message \in Messages,
           requests' = Append(requests, message)
    PROVE  /\ requests' \in Seq(Messages)
           /\ Sent' = Sent \union ({message.order} \ {NoOrder})
           /\ OnceSent /\ message.order \notin Sent => OnceSent'
<1>1. /\ requests' \in Seq(Messages)
      /\ Len(requests') = Len(requests) + 1
      /\ \A i \in 1 .. Len(requests) : requests'[i] = requests[i]
      /\ requests'[Len(requests) + 1] = message
  BY AppendProperties
<1>2. /\ Len(requests) \in Nat /\ DOMAIN requests = 1 .. Len(requests)
      /\ DOMAIN requests' = 1 .. Len(requests) + 1
  BY <1>1, LenProperties
<1>3. Sent' = Sent \union ({message.order} \ {NoOrder})
  BY <1>1, <1>2 DEF Sent
<1>4. ASSUME OnceSent, message.order \notin Sent PROVE OnceSent'
  BY <1>1, <1>2, <1>4 DEF OnceSent, Sent
<1> QED BY <1>1, <1>3, <1>4

\* Taking a request out of the queue loses its order and no other.
LEMMA Removed ==
    ASSUME requests \in Seq(Messages), requests # <<>>, requests' = Tail(requests)
    PROVE  /\ Head(requests) \in Messages
           /\ requests' \in Seq(Messages)
           /\ Sent' \subseteq Sent
           /\ Head(requests).order # NoOrder => Head(requests).order \in Sent
           /\ OnceSent => OnceSent' /\ Head(requests).order \notin Sent'
<1>1. /\ Head(requests) \in Messages
      /\ requests' \in Seq(Messages)
      /\ Len(requests') = Len(requests) - 1
      /\ \A i \in 1 .. Len(requests') : requests'[i] = requests[i + 1]
  BY HeadTailProperties
<1>2. /\ Len(requests) \in Nat \ {0} /\ DOMAIN requests = 1 .. Len(requests)
      /\ DOMAIN requests' = 1 .. Len(requests) - 1
  BY <1>1, LenProperties, EmptySeq
<1>3. Head(requests) = requests[1]
  OBVIOUS
<1>4. \A i \in DOMAIN requests' : i + 1 \in DOMAIN requests /\ i + 1 # 1
  BY <1>2
<1>5. Sent' \subseteq Sent
  BY <1>1, <1>2, <1>4 DEF Sent
<1>6. Head(requests).order # NoOrder => Head(requests).order \in Sent
  BY <1>2, <1>3 DEF Sent
<1>7. ASSUME OnceSent PROVE OnceSent'
  BY <1>1, <1>2, <1>4, <1>7 DEF OnceSent
<1>8. ASSUME OnceSent PROVE Head(requests).order \notin Sent'
  BY <1>1, <1>2, <1>3, <1>4, <1>8 DEF OnceSent, Sent
<1> QED BY <1>1, <1>5, <1>6, <1>7, <1>8

\* Requests whose asker has given up keep their order, if they are still served.
LEMMA Orphaned ==
    ASSUME requests \in Seq(Messages), requests' = Orphans
    PROVE  /\ requests' \in Seq(Messages)
           /\ Sent' \subseteq Sent
           /\ OnceSent => OnceSent'
<1>1. /\ Len(requests) \in Nat /\ DOMAIN requests = 1 .. Len(requests)
      /\ \A i \in DOMAIN requests : requests[i] \in Messages
  BY LenProperties, ElementOfSeq
<1>2. PICK n \in 0 .. Len(requests) :
         /\ DOMAIN StillToServe = 1 .. n
         /\ \A i \in 1 .. n : StillToServe[i] = requests[i]
  <2>1. CASE requests # <<>> /\ requests[Len(requests)].kind # "write"
    <3>1. Len(requests) # 0
      BY <2>1, EmptySeq
    <3>2. Len(requests) - 1 \in 1 - 1 .. Len(requests)
      BY <1>1, <3>1
    <3>3. StillToServe = SubSeq(requests, 1, Len(requests) - 1)
      BY <2>1 DEF StillToServe
    <3>4. /\ DOMAIN StillToServe = 1 .. Len(requests) - 1
          /\ \A i \in 1 .. Len(requests) - 1 : StillToServe[i] = requests[i]
      BY <1>1, <3>1, <3>3
    <3> QED BY <3>2, <3>4
  <2>2. CASE ~(requests # <<>> /\ requests[Len(requests)].kind # "write")
    <3>1. StillToServe = requests
      BY <2>2 DEF StillToServe
    <3>2. Len(requests) \in 0 .. Len(requests)
      BY <1>1
    <3> QED BY <1>1, <3>1, <3>2
  <2> QED BY <2>1, <2>2
<1>3. /\ DOMAIN requests' = 1 .. n
      /\ \A i \in 1 .. n : requests'[i] = [requests[i] EXCEPT !.alive = FALSE]
  BY <1>2 DEF Orphans
<1>4. 1 .. n \subseteq DOMAIN requests /\ n \in Nat
  BY <1>1, <1>2
<1>5. \A i \in 1 .. n : requests'[i] \in Messages /\ requests'[i].order = requests[i].order
  BY <1>1, <1>3, <1>4 DEF Messages
<1>6. requests' = [i \in 1 .. n |-> requests'[i]]
  BY <1>2 DEF Orphans
<1>7. requests' \in Seq(Messages)
  <2>1. requests' \in [1 .. n -> Messages]
    BY <1>5, <1>6
  <2> QED BY <1>4, <2>1, SeqDef
<1>8. Sent' \subseteq Sent
  BY <1>3, <1>4, <1>5 DEF Sent
<1>9. OnceSent => OnceSent'
  BY <1>3, <1>4, <1>5 DEF OnceSent
<1> QED BY <1>7, <1>8, <1>9

-----------------------------------------------------------------------------
(***************************************************************************)
(* Types.                                                                  *)
(***************************************************************************)
Boxes == [Lines -> Numbers \union {NoOrder}]

\* TypeOK, one variable at a time.
Typed ==
    /\ pc \in Turns
    /\ at \in Lines
    /\ talks \in BOOLEAN /\ connected \in BOOLEAN /\ identified \in BOOLEAN
    /\ runUp \in BOOLEAN /\ healthy \in BOOLEAN /\ newState \in BOOLEAN
    /\ rControl \in BOOLEAN /\ hiding \in BOOLEAN /\ widgets \in BOOLEAN
    /\ lControl \in BOOLEAN /\ calm \in BOOLEAN
    /\ lPc \in {"fetch", "erase"} /\ lAt \in Lines
    /\ storing \in {"nothing", "half", "erasedHalf"}
    /\ rGuiBox \in Boxes /\ rLowBox \in Boxes /\ tcpBox \in Boxes
    /\ requests \in Seq(Messages)
    /\ reply \in [kind : Turns \union {"none"}, permitted : BOOLEAN]
    /\ given \in 0 .. MaxOrders
    /\ carriedOut \in [Numbers -> Nat]

\* Typed is TypeOK in the form the steps need.
LEMMA TypedIsTypeOK == (TypeOK <=> Typed) /\ (TypeOK' <=> Typed')
  BY DEF TypeOK, Typed, Boxes, Messages

\* At the start nothing is on its way.
LEMMA InitTypes == Init => Typed
<1> SUFFICES ASSUME Init PROVE Typed
  OBVIOUS
<1>1. Channels \in Nat \ {0} /\ MaxOrders \in Nat
  BY LinkAssumption
<1>2. AllEmpty \in Boxes /\ requests \in Seq(Messages)
  BY EmptySeq DEF Init, AllEmpty, Boxes
<1>3. reply \in [kind : Turns \union {"none"}, permitted : BOOLEAN]
  BY DEF Init, NoReply
<1>4. carriedOut \in [Numbers -> Nat] /\ given \in 0 .. MaxOrders
  BY <1>1 DEF Init
<1>5. pc \in Turns /\ at \in Lines
  BY <1>1 DEF Init, Turns, Lines
<1> QED
  BY <1>2, <1>3, <1>4, <1>5 DEF Init, Typed

\* The steps between a request and the next one.
LEMMA SendTypes ==
    ASSUME Typed, NEW kind \in Turns, NEW line \in Lines,
           NEW order \in Numbers \union {NoOrder}, Send(kind, line, order)
    PROVE  /\ pc' \in Turns /\ at' \in Lines /\ requests' \in Seq(Messages)
           /\ reply' \in [kind : Turns \union {"none"}, permitted : BOOLEAN]
           /\ Sent' = Sent \union ({order} \ {NoOrder})
           /\ OnceSent /\ order \notin Sent => OnceSent'
<1>1. Request(kind, line, order) \in Messages /\ Request(kind, line, order).order = order
  BY DEF Request, Messages
<1>2. requests' = Append(requests, Request(kind, line, order)) /\ requests \in Seq(Messages)
  BY DEF Send, Typed
<1>3. /\ requests' \in Seq(Messages)
      /\ Sent' = Sent \union ({order} \ {NoOrder})
      /\ OnceSent /\ order \notin Sent => OnceSent'
  BY <1>1, <1>2, Appended
<1> QED BY <1>3 DEF Send, NoReply

\* The client goes on to its next request.
LEMMA GoOnTypes ==
    ASSUME Typed, NEW kind \in Turns, NEW line \in Nat \ {0}, GoOnOr(kind, line)
    PROVE  /\ pc' \in Turns /\ at' \in Lines /\ requests' \in Seq(Messages)
           /\ reply' \in [kind : Turns \union {"none"}, permitted : BOOLEAN]
           /\ healthy' \in BOOLEAN /\ newState' \in BOOLEAN
           /\ Sent' = Sent
           /\ OnceSent => OnceSent'
<1>1. CASE line <= Channels
  <2>1. Send(kind, line, NoOrder) /\ UNCHANGED <<healthy, newState>> /\ line \in Lines
    BY <1>1, LinkAssumption DEF GoOnOr, Lines
  <2>2. NoOrder \notin Sent
    BY DEF Sent
  <2>3. Sent' = Sent \union ({NoOrder} \ {NoOrder})
    BY <2>1, SendTypes
  <2>4. OnceSent => OnceSent'
    BY <2>1, <2>2, SendTypes
  <2> QED BY <2>1, <2>3, <2>4, SendTypes DEF Typed
<1>2. CASE ~(line <= Channels)
  <2>1. Finish
    BY <1>2 DEF GoOnOr
  <2> QED BY <2>1 DEF Finish, Typed, Turns, NoReply, Sent, OnceSent
<1> QED BY <1>1, <1>2

\* The client gives up.
LEMMA GiveUpTypes ==
    ASSUME Typed, GiveUp
    PROVE  Typed' /\ Sent' \subseteq Sent /\ (OnceSent => OnceSent')
<1>1. requests' \in Seq(Messages) /\ Sent' \subseteq Sent /\ (OnceSent => OnceSent')
  BY Orphaned DEF GiveUp, Typed
<1>2. pc' \in Turns /\ reply' \in [kind : Turns \union {"none"}, permitted : BOOLEAN]
  BY DEF GiveUp, Turns, NoReply
<1> QED BY <1>1, <1>2 DEF GiveUp, UnchangedByTalk, local, Typed, NewStateAfterError

\* What the steps that talk to the server do, short of what they are for.
LEMMA TalkTypes ==
    ASSUME Typed, Connect \/ SectorZeroArrives \/ LengthsArrive \/ TextArrives \/ WriteIsConfirmed
    PROVE  Typed' /\ Sent' = Sent /\ (OnceSent => OnceSent') /\ UNCHANGED rLowBox
<1>1. NoOrder \notin Sent /\ 1 \in Lines /\ {"zero", "lengths", "text", "sector"} \subseteq Turns
  BY LinkAssumption DEF Sent, Lines, Turns
<1>2. at + 1 \in Nat \ {0}
  BY LinkAssumption DEF Typed, Lines
<1>3. \A kind \in Turns : Send(kind, 1, NoOrder) =>
         /\ pc' \in Turns /\ at' \in Lines /\ requests' \in Seq(Messages)
         /\ reply' \in [kind : Turns \union {"none"}, permitted : BOOLEAN]
         /\ Sent' = Sent /\ (OnceSent => OnceSent')
  <2> SUFFICES ASSUME NEW kind \in Turns, Send(kind, 1, NoOrder)
               PROVE  /\ pc' \in Turns /\ at' \in Lines /\ requests' \in Seq(Messages)
                      /\ reply' \in [kind : Turns \union {"none"}, permitted : BOOLEAN]
                      /\ Sent' = Sent /\ (OnceSent => OnceSent')
    OBVIOUS
  <2>1. Sent' = Sent \union ({NoOrder} \ {NoOrder})
    BY <1>1, SendTypes
  <2>2. OnceSent => OnceSent'
    BY <1>1, SendTypes
  <2> QED BY <1>1, <2>1, <2>2, SendTypes
<1>4. CASE Connect
  BY <1>1, <1>3, <1>4 DEF Connect, UnchangedByTalk, local, Typed
<1>5. CASE SectorZeroArrives
  <2>1. rControl' \in BOOLEAN
    BY <1>5 DEF SectorZeroArrives, ControlHere, Typed
  <2>2. \E kind \in Turns : Send(kind, 1, NoOrder)
    BY <1>1, <1>5 DEF SectorZeroArrives
  <2> QED BY <1>3, <1>5, <2>1, <2>2 DEF SectorZeroArrives, UnchangedByTalk, local, Typed
<1>6. CASE LengthsArrive
  BY <1>1, <1>3, <1>6 DEF LengthsArrive, UnchangedByTalk, local, Typed
<1>7. CASE TextArrives
  <2>1. GoOnOr("text", at + 1)
    BY <1>7 DEF TextArrives
  <2>2. /\ pc' \in Turns /\ at' \in Lines /\ requests' \in Seq(Messages)
        /\ reply' \in [kind : Turns \union {"none"}, permitted : BOOLEAN]
        /\ healthy' \in BOOLEAN /\ newState' \in BOOLEAN
        /\ Sent' = Sent /\ (OnceSent => OnceSent')
    BY <1>1, <1>2, <2>1, GoOnTypes
  <2> QED BY <1>7, <2>2 DEF TextArrives, UnchangedByTalk, local, Typed
<1>8. CASE WriteIsConfirmed
  <2>1. GoOnOr("sector", at + 1)
    BY <1>8 DEF WriteIsConfirmed
  <2>2. /\ pc' \in Turns /\ at' \in Lines /\ requests' \in Seq(Messages)
        /\ reply' \in [kind : Turns \union {"none"}, permitted : BOOLEAN]
        /\ healthy' \in BOOLEAN /\ newState' \in BOOLEAN
        /\ Sent' = Sent /\ (OnceSent => OnceSent')
    BY <1>1, <1>2, <2>1, GoOnTypes
  <2> QED BY <1>8, <2>2 DEF WriteIsConfirmed, UnchangedByTalk, local, Typed
<1> QED BY <1>4, <1>5, <1>6, <1>7, <1>8

\* The state of a channel has arrived: the order that waits for it is sent.
LEMMA SectorTypes ==
    ASSUME Typed, SectorArrives
    PROVE  /\ Typed'
           /\ \/ /\ rLowBox[at] # NoOrder
                 /\ rLowBox' = [rLowBox EXCEPT ![at] = NoOrder]
                 /\ Sent' = Sent \union {rLowBox[at]}
                 /\ OnceSent /\ rLowBox[at] \notin Sent => OnceSent'
              \/ UNCHANGED rLowBox /\ Sent' = Sent /\ (OnceSent => OnceSent')
<1>1. at \in Lines /\ rLowBox[at] \in Numbers \union {NoOrder}
  BY DEF Typed, Boxes
<1>2. CASE rLowBox[at] # NoOrder
  <2>1. /\ Send("write", at, rLowBox[at]) /\ UNCHANGED <<healthy, newState>>
        /\ rLowBox' = [rLowBox EXCEPT ![at] = NoOrder]
    BY <1>2 DEF SectorArrives, LowBoxAfterWrite, Emptied
  <2>2. "write" \in Turns
    BY DEF Turns
  <2>3. /\ pc' \in Turns /\ at' \in Lines /\ requests' \in Seq(Messages)
        /\ reply' \in [kind : Turns \union {"none"}, permitted : BOOLEAN]
        /\ Sent' = Sent \union ({rLowBox[at]} \ {NoOrder})
        /\ OnceSent /\ rLowBox[at] \notin Sent => OnceSent'
    BY <1>1, <2>1, <2>2, SendTypes
  <2>4. rLowBox' \in Boxes
    BY <2>1 DEF Typed, Boxes
  <2> QED BY <1>2, <2>1, <2>3, <2>4 DEF SectorArrives, UnchangedByTalk, local, Typed
<1>3. CASE rLowBox[at] = NoOrder
  <2>1. GoOnOr("sector", at + 1) /\ UNCHANGED rLowBox
    BY <1>3 DEF SectorArrives
  <2>2. "sector" \in Turns /\ at + 1 \in Nat \ {0}
    BY LinkAssumption DEF Turns, Typed, Lines
  <2>3. /\ pc' \in Turns /\ at' \in Lines /\ requests' \in Seq(Messages)
        /\ reply' \in [kind : Turns \union {"none"}, permitted : BOOLEAN]
        /\ healthy' \in BOOLEAN /\ newState' \in BOOLEAN
        /\ Sent' = Sent /\ (OnceSent => OnceSent')
    BY <2>1, <2>2, GoOnTypes
  <2> QED BY <2>1, <2>3 DEF SectorArrives, UnchangedByTalk, local, Typed
<1> QED BY <1>2, <1>3

\* A mailbox with one of its entries emptied or filled.
LEMMA EmptiedBox ==
    ASSUME NEW box \in Boxes, NEW line \in Lines
    PROVE  /\ Emptied(box, line) \in Boxes
           /\ Boxed(Emptied(box, line)) \subseteq Boxed(box)
           /\ OnceIn(box) => OnceIn(Emptied(box, line))
           /\ OnceIn(box) => box[line] \notin Boxed(Emptied(box, line))
           /\ Boxed(box) \subseteq Boxed(Emptied(box, line)) \union {box[line]}
  BY DEF Emptied, Boxes, Boxed, OnceIn

LEMMA FilledBox ==
    ASSUME NEW box \in Boxes, NEW line \in Lines, NEW order \in Numbers \union {NoOrder}
    PROVE  /\ [box EXCEPT ![line] = order] \in Boxes
           /\ Boxed([box EXCEPT ![line] = order]) \subseteq Boxed(box) \union ({order} \ {NoOrder})
           /\ order # NoOrder => order \in Boxed([box EXCEPT ![line] = order])
           /\ OnceIn(box) /\ order \notin Boxed(box) => OnceIn([box EXCEPT ![line] = order])
  BY DEF Boxes, Boxed, OnceIn

\* The loop over the channels ends with the last one.
LEMMA NextIsLine == \A line \in Lines : NextLine(line) \in Lines
  BY LinkAssumption DEF NextLine, Lines

\* The steps of the remote computer that touch neither the requests nor the reply,
\* and those of the users.
LEMMA OtherTypes ==
    ASSUME Typed,
           \/ UserGivesOrder \/ FetchFromGui \/ EraseGuiBox \/ HandleNewState
           \/ MainThreadHides \/ UserTogglesControl \/ CalmDown \/ UNCHANGED vars
    PROVE  Typed'
<1>1. MaxOrders \in Nat /\ 1 \in Lines
  BY LinkAssumption DEF Lines
<1>2. /\ NextLine(at) \in Lines
      /\ Emptied(rGuiBox, at) \in Boxes
  BY NextIsLine, EmptiedBox DEF Typed
<1>3. CASE UserGivesOrder
  <2>1. given' \in Numbers /\ given' \in 0 .. MaxOrders
    BY <1>1, <1>3 DEF UserGivesOrder, Typed, Numbers
  <2>2. rGuiBox' \in Boxes
    BY <1>3, <2>1 DEF UserGivesOrder, Typed, Boxes
  <2> QED BY <1>3, <2>1, <2>2 DEF UserGivesOrder, local, network, Typed
<1>4. CASE FetchFromGui
  <2>1. LowBoxAfterFetch \in Boxes
    BY DEF LowBoxAfterFetch, Typed, Boxes
  <2>2. pc' \in Turns /\ rGuiBox' \in Boxes
    BY <1>2, <1>4 DEF FetchFromGui, Typed, Turns
  <2> QED BY <1>4, <2>1, <2>2 DEF FetchFromGui, local, network, Typed
<1>5. CASE EraseGuiBox
  <2>1. pc' \in Turns /\ talks' \in BOOLEAN
    BY <1>5 DEF EraseGuiBox, Typed, Turns
  <2> QED BY <1>2, <1>5, <2>1 DEF EraseGuiBox, local, network, Typed
<1>6. CASE HandleNewState
  <2>1. "resync" \in Turns
    BY DEF Turns
  <2>2. widgets' \in BOOLEAN /\ hiding' \in BOOLEAN /\ newState' \in BOOLEAN
    BY <1>6 DEF HandleNewState, WidgetsAfter, Typed
  <2>3. /\ pc' \in Turns /\ at' \in Lines
        /\ UNCHANGED <<talks, connected, identified, runUp, healthy, rControl, rGuiBox,
                       rLowBox, local, network, given, calm>>
    BY <1>1, <1>6, <2>1 DEF HandleNewState
  <2> QED BY <2>2, <2>3 DEF local, network, Typed
<1>9. CASE MainThreadHides
  <2>1. widgets' \in BOOLEAN /\ hiding' \in BOOLEAN
    BY <1>9 DEF MainThreadHides
  <2>2. UNCHANGED <<pc, at, talks, connected, identified, runUp, healthy, newState,
                    rControl, rGuiBox, rLowBox, local, network, given, calm>>
    BY <1>9 DEF MainThreadHides
  <2> QED BY <2>1, <2>2 DEF local, network, Typed
<1>7. CASE UserTogglesControl \/ CalmDown
  <2>1. lControl' \in BOOLEAN /\ calm' \in BOOLEAN
    BY <1>7 DEF UserTogglesControl, CalmDown, local, Typed
  <2>2. UNCHANGED <<remote, lPc, lAt, tcpBox, storing, carriedOut, network, given>>
    BY <1>7 DEF UserTogglesControl, CalmDown, local
  <2> QED BY <2>1, <2>2 DEF remote, network, Typed
<1>8. CASE UNCHANGED vars
  BY <1>8 DEF vars, remote, local, network, Typed
<1> QED BY <1>3, <1>4, <1>5, <1>6, <1>7, <1>8, <1>9

\* The peripheral thread of the local computer.
LEMMA LocalTypes == Typed /\ LocalThread => Typed'
<1> SUFFICES ASSUME Typed, LocalThread PROVE Typed'
  OBVIOUS
<1>1. NextLine(lAt) \in Lines /\ Emptied(tcpBox, lAt) \in Boxes
  BY NextIsLine, EmptiedBox DEF Typed
<1>2. CASE FetchFromClient
  <2>1. carriedOut' \in [Numbers -> Nat]
    BY <1>2 DEF FetchFromClient, Typed
  <2>2. tcpBox' \in Boxes
    BY <1>1, <1>2 DEF FetchFromClient, Typed
  <2> QED BY <1>2, <2>1, <2>2 DEF FetchFromClient, remote, network, Typed
<1>3. CASE EraseTcpBox
  BY <1>1, <1>3 DEF EraseTcpBox, remote, network, Typed
<1> QED BY <1>2, <1>3 DEF LocalThread

\* The server works on a request, or one is lost.
LEMMA ServerTypes == Typed /\ (TcpServer \/ RequestIsLost) => Typed'
<1> SUFFICES ASSUME Typed, TcpServer \/ RequestIsLost PROVE Typed'
  OBVIOUS
<1>1. Head(requests) \in Messages
  BY HeadTailProperties DEF TcpServer, ServeRead, StartWrite, CompleteWrite, RequestIsLost, Typed
<1>2. /\ Emptied(tcpBox, Head(requests).line) \in Boxes
      /\ \A order \in Numbers \union {NoOrder} :
            [tcpBox EXCEPT ![Head(requests).line] = order] \in Boxes
  <2>1. tcpBox \in Boxes /\ Head(requests).line \in Lines
    BY <1>1 DEF Typed, Messages
  <2> QED BY <2>1, EmptiedBox, FilledBox
<1>3. ASSUME requests # <<>>, IsAnswered
      PROVE  /\ requests' \in Seq(Messages)
             /\ reply' \in [kind : Turns \union {"none"}, permitted : BOOLEAN]
  <2>1. requests' \in Seq(Messages)
    BY <1>3, Removed DEF IsAnswered, Typed
  <2>2. reply' \in [kind : Turns \union {"none"}, permitted : BOOLEAN]
    BY <1>1, <1>3 DEF IsAnswered, Reply, Typed, Messages
  <2> QED BY <2>1, <2>2
<1>4. CASE ServeRead
  BY <1>3, <1>4 DEF ServeRead, remote, local, Typed
<1>5. CASE StartWrite
  <2>1. tcpBox' \in Boxes
    BY <1>2, <1>5 DEF StartWrite, Typed
  <2> QED BY <1>5, <2>1 DEF StartWrite, remote, network, Typed
<1>6. CASE CompleteWrite
  <2>1. LeftByWrite(Head(requests).order) \subseteq Numbers \union {NoOrder}
    BY <1>1 DEF LeftByWrite, Messages
  <2>2. tcpBox' \in Boxes
    BY <1>2, <1>6, <2>1 DEF CompleteWrite
  <2> QED BY <1>3, <1>6, <2>2 DEF CompleteWrite, remote, Typed
<1>7. CASE RequestIsLost
  <2>1. requests' \in Seq(Messages)
    BY <1>7, Removed DEF RequestIsLost, Typed
  <2> QED BY <1>7, <2>1 DEF RequestIsLost, remote, local, Typed
<1> QED BY <1>4, <1>5, <1>6, <1>7 DEF TcpServer

\* Every step keeps the types.
LEMMA StepTypes == Typed /\ [Next]_vars => Typed'
<1> SUFFICES ASSUME Typed, [Next]_vars PROVE Typed'
  OBVIOUS
<1>1. CASE NoConnection \/ NoAnswer
  BY <1>1, GiveUpTypes DEF NoConnection, NoAnswer
<1> QED
  BY <1>1, TalkTypes, SectorTypes, OtherTypes, LocalTypes, ServerTypes DEF Next, RemoteThread

\* Every variable of the link keeps its type, for any number of channels.
THEOREM TypeCorrectness == Spec => []TypeOK
<1>1. Init => Typed
  BY InitTypes
<1>2. Typed /\ [Next]_vars => Typed'
  BY StepTypes
<1>3. Typed => TypeOK
  BY TypedIsTypeOK
<1> QED BY <1>1, <1>2, <1>3, PTL DEF Spec, SafetySpec

-----------------------------------------------------------------------------
(***************************************************************************)
(* One place at a time.                                                    *)
(***************************************************************************)
\* An action that only takes orders away keeps each in one place.
LEMMA PlacesKept ==
    ASSUME OnePlace, UNCHANGED <<rGuiBox, rLowBox, tcpBox>>,
           Sent' \subseteq Sent, OnceSent => OnceSent'
    PROVE  OnePlace' /\ UnderWay' \subseteq UnderWay
<1>1. /\ UNCHANGED <<Boxed(rGuiBox), Boxed(rLowBox), Boxed(tcpBox)>>
      /\ OnceIn(rGuiBox)' /\ OnceIn(rLowBox)' /\ OnceIn(tcpBox)'
  BY DEF Boxed, OnceIn, OnePlace
<1> QED BY <1>1 DEF OnePlace, UnderWay, Sent

\* An order sent has left its mailbox.
LEMMA OrderIsSent ==
    ASSUME Typed, OnePlace, UNCHANGED <<rGuiBox, tcpBox>>,
           rLowBox[at] # NoOrder, rLowBox' = [rLowBox EXCEPT ![at] = NoOrder],
           Sent' = Sent \union {rLowBox[at]},
           OnceSent /\ rLowBox[at] \notin Sent => OnceSent'
    PROVE  OnePlace' /\ UnderWay' \subseteq UnderWay
<1>1. at \in Lines /\ rLowBox \in [Lines -> Numbers \union {NoOrder}]
  BY DEF Typed, Boxes
<1>2. rLowBox[at] \in Boxed(rLowBox)
  BY <1>1 DEF Boxed
<1>3. Boxed(rLowBox)' = Boxed(rLowBox) \ {rLowBox[at]}
  BY <1>1 DEF Boxed, OnePlace, OnceIn
<1>4. OnceIn(rLowBox)'
  BY <1>1 DEF OnePlace, OnceIn
<1>5. OnceIn(rGuiBox)' /\ OnceIn(tcpBox)' /\ UNCHANGED <<Boxed(rGuiBox), Boxed(tcpBox)>>
  BY DEF OnePlace, OnceIn, Boxed
<1>6. OnceSent'
  BY <1>2 DEF OnePlace
<1> QED BY <1>2, <1>3, <1>4, <1>5, <1>6 DEF OnePlace, UnderWay, Sent

\* Fetching moves an order from one table to the other.
LEMMA FetchedFromGui ==
    ASSUME Typed, OnePlace, FetchFromGui
    PROVE  OnePlace' /\ UnderWay' \subseteq UnderWay
<1>1. /\ UNCHANGED <<requests, tcpBox>> /\ at \in Lines
      /\ rGuiBox \in Boxes /\ rLowBox \in Boxes
      /\ rLowBox' = LowBoxAfterFetch
  BY DEF FetchFromGui, Typed, local, network
<1>2. /\ Boxed(rGuiBox') \subseteq Boxed(rGuiBox) /\ OnceIn(rGuiBox')
  BY <1>1, EmptiedBox DEF FetchFromGui, OnePlace
<1>3. /\ OnceIn(rLowBox')
      /\ \/ rLowBox' = rLowBox
         \/ /\ rGuiBox[at] \in Boxed(rGuiBox) \ Boxed(rGuiBox')
            /\ Boxed(rLowBox') \subseteq Boxed(rLowBox) \union {rGuiBox[at]}
  <2>1. CASE rControl /\ rGuiBox[at] # NoOrder
    <3>1. rGuiBox[at] \in Boxed(rGuiBox) /\ rGuiBox[at] \in Numbers \union {NoOrder}
      BY <1>1, <2>1 DEF Boxed, Boxes
    <3>2. rGuiBox[at] \notin Boxed(rGuiBox')
      BY <1>1, <2>1, EmptiedBox DEF FetchFromGui, OnePlace
    <3>3. rLowBox' = [rLowBox EXCEPT ![at] = rGuiBox[at]]
      BY <1>1, <2>1 DEF LowBoxAfterFetch
    <3>4. rGuiBox[at] \notin Boxed(rLowBox) /\ OnceIn(rLowBox)
      BY <3>1 DEF OnePlace
    <3>5. OnceIn(rLowBox') /\ Boxed(rLowBox') \subseteq Boxed(rLowBox) \union {rGuiBox[at]}
      <4>1. PICK order \in Numbers \union {NoOrder} : order = rGuiBox[at]
        BY <3>1
      <4>2. rLowBox' = [rLowBox EXCEPT ![at] = order] /\ order \notin Boxed(rLowBox)
        BY <3>3, <3>4, <4>1
      <4>3. /\ Boxed(rLowBox') \subseteq Boxed(rLowBox) \union ({order} \ {NoOrder})
            /\ OnceIn(rLowBox')
        <5>1. rLowBox \in Boxes /\ at \in Lines
          BY <1>1
        <5>2. Boxed(rLowBox') \subseteq Boxed(rLowBox) \union ({order} \ {NoOrder})
          BY <4>2, <5>1, FilledBox
        <5>3. OnceIn(rLowBox')
          BY <3>4, <4>2, <5>1, FilledBox
        <5> QED BY <5>2, <5>3
      <4> QED BY <4>1, <4>3
    <3> QED BY <3>1, <3>2, <3>5
  <2>2. CASE ~(rControl /\ rGuiBox[at] # NoOrder)
    BY <1>1, <2>2 DEF LowBoxAfterFetch, OnePlace
  <2> QED BY <2>1, <2>2
<1>4. UNCHANGED <<Sent, Boxed(tcpBox)>> /\ OnceSent' /\ OnceIn(tcpBox')
  BY <1>1 DEF Sent, Boxed, OnePlace, OnceSent, OnceIn
<1> QED BY <1>2, <1>3, <1>4 DEF OnePlace, UnderWay, Sent

\* Erasing takes away what has come meanwhile.
LEMMA ErasedGui ==
    ASSUME Typed, OnePlace, EraseGuiBox
    PROVE  OnePlace' /\ UnderWay' \subseteq UnderWay
<1>1. UNCHANGED <<rLowBox, requests, tcpBox>>
  BY DEF EraseGuiBox, local, network
<1>2. Boxed(rGuiBox') \subseteq Boxed(rGuiBox) /\ OnceIn(rGuiBox')
  BY EmptiedBox DEF EraseGuiBox, OnePlace, Typed
<1>3. /\ UNCHANGED <<Boxed(rLowBox), Sent, Boxed(tcpBox)>>
      /\ OnceIn(rLowBox') /\ OnceSent' /\ OnceIn(tcpBox')
  BY <1>1 DEF Sent, Boxed, OnePlace, OnceSent, OnceIn
<1> QED BY <1>2, <1>3 DEF OnePlace, UnderWay, Sent

\* What the local computer does to its mailbox while the rest stays.
LEMMA TcpBoxLoses ==
    ASSUME OnePlace, UNCHANGED <<rGuiBox, rLowBox, requests>>,
           Boxed(tcpBox') \subseteq Boxed(tcpBox), OnceIn(tcpBox')
    PROVE  OnePlace' /\ UnderWay' \subseteq UnderWay
<1>1. /\ UNCHANGED <<Boxed(rGuiBox), Boxed(rLowBox), Sent>>
      /\ OnceIn(rGuiBox') /\ OnceIn(rLowBox') /\ OnceSent'
  BY DEF Sent, Boxed, OnePlace, OnceSent, OnceIn
<1> QED BY <1>1 DEF OnePlace, UnderWay, Sent

\* The server works on a request: a written order leaves the connection for the
\* mailbox when the write is complete, or is lost.
LEMMA Served ==
    ASSUME Typed, OnePlace, TcpServer
    PROVE  OnePlace' /\ UnderWay' \subseteq UnderWay
<1>1. /\ requests \in Seq(Messages) /\ tcpBox \in Boxes /\ requests # <<>>
      /\ UNCHANGED <<rGuiBox, rLowBox>>
  BY DEF TcpServer, ServeRead, StartWrite, CompleteWrite, remote, Typed
<1>2. Head(requests) \in Messages /\ Head(requests).line \in Lines
  <2>1. Head(requests) \in Messages
    BY <1>1, HeadTailProperties
  <2> QED BY <2>1 DEF Messages
<1>3. CASE ServeRead
  <2>1. UNCHANGED <<rGuiBox, rLowBox, tcpBox>> /\ requests' = Tail(requests)
    BY <1>1, <1>3 DEF ServeRead, IsAnswered, local
  <2> QED BY <1>1, <2>1, Removed, PlacesKept
<1>4. CASE StartWrite
  <2>1. UNCHANGED requests
    BY <1>4 DEF StartWrite, network
  <2>2. Boxed(tcpBox') \subseteq Boxed(tcpBox) /\ OnceIn(tcpBox')
    BY <1>1, <1>2, <1>4, EmptiedBox DEF StartWrite, OnePlace
  <2> QED BY <1>1, <2>1, <2>2, TcpBoxLoses
<1>5. CASE CompleteWrite
  <2>1. requests' = Tail(requests)
    BY <1>5 DEF CompleteWrite, IsAnswered
  <2>2. /\ Sent' \subseteq Sent
        /\ Head(requests).order # NoOrder => Head(requests).order \in Sent
        /\ OnceSent' /\ Head(requests).order \notin Sent'
    BY <1>1, <2>1, Removed DEF OnePlace
  <2>3. PICK order \in {NoOrder, Head(requests).order} :
           tcpBox' = [tcpBox EXCEPT ![Head(requests).line] = order]
    BY <1>5 DEF CompleteWrite, LeftByWrite
  <2>4. order \in Numbers \union {NoOrder} /\ order \notin Boxed(tcpBox)
    BY <1>2, <2>2 DEF Messages, OnePlace, Boxed
  <2>5. OnceIn(tcpBox') /\ Boxed(tcpBox') \subseteq Boxed(tcpBox) \union ({order} \ {NoOrder})
    BY <1>1, <1>2, <2>3, <2>4, FilledBox DEF OnePlace
  <2>6. /\ UNCHANGED <<Boxed(rGuiBox), Boxed(rLowBox)>>
        /\ OnceIn(rGuiBox') /\ OnceIn(rLowBox')
    BY <1>1 DEF Boxed, OnceIn, OnePlace
  <2>7. Boxed(tcpBox') \subseteq Boxed(tcpBox) \union (Sent \ Sent')
    BY <2>2, <2>3, <2>5
  <2> QED BY <2>2, <2>5, <2>6, <2>7 DEF OnePlace, UnderWay, Sent
<1> QED BY <1>3, <1>4, <1>5 DEF TcpServer

\* An order is fetched for the supply: it leaves its mailbox.
LEMMA Fetched ==
    ASSUME Typed, OnePlace, FetchFromClient, ~lControl
    PROVE  /\ OnePlace' /\ UnderWay' \subseteq UnderWay
           /\ UnderWay \subseteq UnderWay' \union {tcpBox[lAt]}
           /\ tcpBox[lAt] \notin UnderWay'
<1>1. /\ tcpBox' = Emptied(tcpBox, lAt) /\ UNCHANGED <<rGuiBox, rLowBox, requests>>
      /\ tcpBox \in Boxes /\ lAt \in Lines
  BY DEF FetchFromClient, remote, network, Typed
<1>2. /\ Boxed(tcpBox') \subseteq Boxed(tcpBox) /\ OnceIn(tcpBox')
      /\ tcpBox[lAt] \notin Boxed(tcpBox')
      /\ Boxed(tcpBox) \subseteq Boxed(tcpBox') \union {tcpBox[lAt]}
  BY <1>1, EmptiedBox DEF OnePlace
<1>3. UNCHANGED <<Boxed(rGuiBox), Boxed(rLowBox), Sent>>
  BY <1>1 DEF Boxed, Sent
<1>4. OnePlace' /\ UnderWay' \subseteq UnderWay
  BY <1>1, <1>2, TcpBoxLoses
<1>5. UnderWay \subseteq UnderWay' \union {tcpBox[lAt]}
  BY <1>2, <1>3 DEF UnderWay, Sent
<1>6. tcpBox[lAt] \notin UnderWay'
  <2>1. tcpBox[lAt] = NoOrder \/ tcpBox[lAt] \in Boxed(tcpBox)
    BY <1>1 DEF Boxed
  <2>2. NoOrder \notin UnderWay'
    BY DEF UnderWay, Boxed
  <2> QED BY <1>2, <1>3, <2>1, <2>2 DEF UnderWay, Sent, OnePlace
<1> QED BY <1>4, <1>5, <1>6

\* A new order goes into the mailbox, over what is there.
LEMMA Ordered ==
    ASSUME Typed, OnePlace, OnlyGiven, UserGivesOrder
    PROVE  /\ OnePlace'
           /\ given + 1 \in UnderWay'
           /\ UnderWay' \subseteq UnderWay \union {given + 1}
<1>1. PICK l \in Lines : rGuiBox' = [rGuiBox EXCEPT ![l] = given + 1]
  BY DEF UserGivesOrder
<1>2. UNCHANGED <<rLowBox, requests, tcpBox>> /\ given \in Nat
  BY DEF UserGivesOrder, local, network, Typed
<1>3. given + 1 \notin UnderWay /\ given + 1 # NoOrder
  BY <1>2 DEF OnlyGiven, NoOrder
<1>4. rGuiBox \in [Lines -> Numbers \union {NoOrder}]
  BY DEF Typed, Boxes
<1>5. /\ given + 1 \in Boxed(rGuiBox)'
      /\ Boxed(rGuiBox)' \subseteq Boxed(rGuiBox) \union {given + 1}
  BY <1>1, <1>3, <1>4 DEF Boxed
<1>6. OnceIn(rGuiBox)'
  BY <1>1, <1>3, <1>4 DEF OnePlace, OnceIn, UnderWay, Boxed
<1>7. /\ UNCHANGED <<Boxed(rLowBox), Boxed(tcpBox), Sent>>
      /\ OnceIn(rLowBox)' /\ OnceIn(tcpBox)' /\ OnceSent'
  BY <1>2 DEF Boxed, OnceIn, OnceSent, OnePlace, Sent
<1> QED BY <1>3, <1>5, <1>6, <1>7 DEF OnePlace, UnderWay, Sent

-----------------------------------------------------------------------------
(***************************************************************************)
(* The link implements OrderDelivery.                                      *)
(***************************************************************************)
Safe == Typed /\ OnePlace /\ OnlyGiven /\ CarriedOutOnce

\* At the start no order has been given.
LEMMA InitSafe == Init => Safe /\ Delivery!Init
<1> SUFFICES ASSUME Init PROVE Safe /\ Delivery!Init
  OBVIOUS
<1>1. Typed
  BY InitTypes
<1>2. DOMAIN requests = {} /\ Sent = {}
  BY DEF Init, Sent
<1>3. Boxed(rGuiBox) = {} /\ Boxed(rLowBox) = {} /\ Boxed(tcpBox) = {}
  BY DEF Init, AllEmpty, Boxed
<1>4. UnderWay = {}
  BY <1>2, <1>3 DEF UnderWay, Sent
<1>5. OnePlace
  BY <1>2, <1>3 DEF OnePlace, OnceSent, Init, AllEmpty, OnceIn
<1>6. OnlyGiven /\ CarriedOutOnce
  BY <1>4 DEF OnlyGiven, CarriedOutOnce, Init
<1>7. Delivery!Init
  BY <1>4 DEF Delivery!Init, Init
<1> QED BY <1>1, <1>5, <1>6, <1>7 DEF Safe

\* A step that neither gives an order nor carries one out may only lose some.
LEMMA Loses ==
    ASSUME Safe, Typed', OnePlace', UnderWay' \subseteq UnderWay, UNCHANGED <<given, carriedOut>>
    PROVE  Safe' /\ [Delivery!Next]_(Delivery!vars)
<1>1. OnlyGiven' /\ CarriedOutOnce'
  BY DEF Safe, OnlyGiven, CarriedOutOnce
<1>2. UnderWay' = UnderWay \ (UnderWay \ UnderWay')
  OBVIOUS
<1>3. Delivery!Lose
  BY <1>2 DEF Delivery!Lose
<1> QED BY <1>1, <1>3 DEF Safe, Delivery!Next

\* An order placed in a mailbox is given, and none but it.
LEMMA Gives ==
    ASSUME Safe, Typed', UserGivesOrder
    PROVE  Safe' /\ Delivery!Give
<1>1. /\ OnePlace' /\ given + 1 \in UnderWay'
      /\ UnderWay' \subseteq UnderWay \union {given + 1}
  BY Ordered DEF Safe
<1>2. /\ given \in Nat /\ given' = given + 1 /\ given + 1 \in Numbers
      /\ UNCHANGED carriedOut
  BY LinkAssumption DEF UserGivesOrder, Safe, Typed, Numbers, local
<1>3. 1 .. given' = (1 .. given) \union {given + 1} /\ given + 1 \notin 1 .. given
  BY <1>2
<1>4. OnlyGiven'
  BY <1>1, <1>3 DEF OnlyGiven, Safe
<1>5. CarriedOutOnce'
  BY <1>1, <1>2 DEF CarriedOutOnce, Safe, Numbers
<1>6. UnderWay' = (UnderWay \ (UnderWay \ UnderWay')) \union {given + 1}
  BY <1>1
<1>7. Delivery!Give
  BY <1>2, <1>3, <1>6 DEF Delivery!Give
<1> QED BY <1>1, <1>4, <1>5, <1>7 DEF Safe

\* An order fetched is carried out, and none but it.
LEMMA Fetches ==
    ASSUME Safe, Typed', FetchFromClient
    PROVE  Safe' /\ [Delivery!Next]_(Delivery!vars)
<1>1. UNCHANGED given /\ tcpBox \in Boxes /\ lAt \in Lines
  BY DEF FetchFromClient, Safe, Typed
<1>2. CASE lControl
  <2>1. carriedOut' = carriedOut /\ UNCHANGED <<rGuiBox, rLowBox, requests, tcpBox>>
    BY <1>2 DEF FetchFromClient, Safe, Typed, remote, network
  <2>2. OnePlace' /\ UnderWay' \subseteq UnderWay
    BY <2>1, TcpBoxLoses DEF Safe, OnePlace, OnceIn, Boxed
  <2> QED BY <1>1, <2>1, <2>2, Loses
<1>3. CASE ~lControl
  <2> DEFINE done == UnderWay \cap {tcpBox[lAt]}
  <2>1. OnePlace' /\ UnderWay' = UnderWay \ done /\ done \subseteq UnderWay
    BY <1>3, Fetched DEF Safe
  <2>2. \A n \in Numbers : tcpBox[lAt] = n <=> n \in done
    <3> SUFFICES ASSUME NEW n \in Numbers, tcpBox[lAt] = n PROVE n \in UnderWay
      OBVIOUS
    <3>1. n # NoOrder
      BY LinkAssumption DEF Numbers, NoOrder
    <3> QED BY <1>1, <3>1 DEF UnderWay, Boxed
  <2>3. carriedOut' = [n \in Numbers |-> carriedOut[n] + IF n \in done THEN 1 ELSE 0]
    BY <1>3, <2>2 DEF FetchFromClient
  <2> HIDE DEF done
  <2>4. Delivery!CarryOut
    BY <1>1, <2>1, <2>3 DEF Delivery!CarryOut
  <2>5. OnlyGiven'
    BY <1>1, <2>1 DEF OnlyGiven, Safe
  <2>6. CarriedOutOnce'
    <3> SUFFICES ASSUME NEW n \in Numbers
                 PROVE  /\ carriedOut'[n] \in {0, 1}
                        /\ n \in UnderWay' \/ n > given => carriedOut'[n] = 0
      BY <1>1 DEF CarriedOutOnce
    <3>1. CASE n \in done
      <4>1. n \in UnderWay /\ n \notin UnderWay'
        BY <2>1, <3>1
      <4>2. carriedOut[n] = 0
        BY <4>1 DEF Safe, CarriedOutOnce
      <4>3. n \in 1 .. given /\ given \in Int
        BY <4>1, LinkAssumption DEF Safe, OnlyGiven, Typed
      <4> QED BY <2>3, <3>1, <4>1, <4>2, <4>3
    <3>2. CASE n \notin done
      <4>1. carriedOut'[n] = carriedOut[n]
        BY <2>3, <3>2 DEF Safe, Typed
      <4> QED BY <2>1, <4>1 DEF Safe, CarriedOutOnce
    <3> QED BY <3>1, <3>2
  <2> QED BY <2>1, <2>4, <2>5, <2>6 DEF Safe, Delivery!Next
<1> QED BY <1>2, <1>3

\* Every step maps to one of the abstract specification, or to none.
LEMMA StepSafe == Safe /\ [Next]_vars => Safe' /\ [Delivery!Next]_(Delivery!vars)
<1> SUFFICES ASSUME Safe, [Next]_vars PROVE Safe' /\ [Delivery!Next]_(Delivery!vars)
  OBVIOUS
<1>1. Typed /\ Typed' /\ OnePlace
  BY StepTypes DEF Safe
<1>2. CASE UserGivesOrder
  BY <1>1, <1>2, Gives DEF Delivery!Next
<1>3. CASE LocalThread
  <2>1. CASE FetchFromClient
    BY <1>1, <2>1, Fetches
  <2>2. CASE EraseTcpBox
    <3>1. UNCHANGED <<rGuiBox, rLowBox, requests, given, carriedOut>>
      BY <2>2 DEF EraseTcpBox, remote, network
    <3>2. Boxed(tcpBox') \subseteq Boxed(tcpBox) /\ OnceIn(tcpBox')
      BY <1>1, <2>2, EmptiedBox DEF EraseTcpBox, Typed, OnePlace
    <3> QED BY <1>1, <3>1, <3>2, TcpBoxLoses, Loses
  <2> QED BY <1>3, <2>1, <2>2 DEF LocalThread
<1>4. CASE FetchFromGui \/ EraseGuiBox
  BY <1>1, <1>4, FetchedFromGui, ErasedGui, Loses DEF FetchFromGui, EraseGuiBox, local
<1>5. CASE TcpServer
  <2>1. UNCHANGED <<given, carriedOut>>
    BY <1>5 DEF TcpServer, ServeRead, StartWrite, CompleteWrite, local
  <2> QED BY <1>1, <1>5, <2>1, Served, Loses
<1>6. CASE RequestIsLost
  <2>1. /\ UNCHANGED <<rGuiBox, rLowBox, tcpBox, given, carriedOut>>
        /\ Sent' \subseteq Sent /\ (OnceSent => OnceSent')
    BY <1>1, <1>6, Removed DEF RequestIsLost, Typed, remote, local
  <2> QED BY <1>1, <2>1, PlacesKept, Loses
<1>7. CASE Connect \/ SectorZeroArrives \/ LengthsArrive \/ TextArrives \/ WriteIsConfirmed
  <2>1. UNCHANGED <<rGuiBox, tcpBox, given, carriedOut>>
    BY <1>7 DEF Connect, SectorZeroArrives, LengthsArrive, TextArrives, WriteIsConfirmed,
                UnchangedByTalk, local
  <2> QED BY <1>1, <1>7, <2>1, TalkTypes, PlacesKept, Loses
<1>8. CASE SectorArrives
  <2>1. UNCHANGED <<rGuiBox, tcpBox, given, carriedOut>>
    BY <1>8 DEF SectorArrives, UnchangedByTalk, local
  <2> QED BY <1>1, <1>8, <2>1, SectorTypes, OrderIsSent, PlacesKept, Loses
<1>9. CASE NoConnection \/ NoAnswer
  <2>1. GiveUp
    BY <1>9 DEF NoConnection, NoAnswer
  <2>2. UNCHANGED <<rGuiBox, rLowBox, tcpBox, given, carriedOut>>
    BY <2>1 DEF GiveUp, UnchangedByTalk, local
  <2> QED BY <1>1, <2>1, <2>2, GiveUpTypes, PlacesKept, Loses
<1>10. CASE \/ HandleNewState \/ MainThreadHides \/ UserTogglesControl \/ CalmDown
            \/ UNCHANGED vars
  <2>1. UNCHANGED <<rGuiBox, rLowBox, tcpBox, requests, given, carriedOut>>
    BY <1>10 DEF HandleNewState, MainThreadHides, UserTogglesControl, CalmDown, vars,
                 remote, local, network
  <2>2. Sent' = Sent /\ (OnceSent => OnceSent')
    BY <2>1 DEF Sent, OnceSent
  <2> QED BY <1>1, <2>1, <2>2, PlacesKept, Loses
<1> QED
  BY <1>2, <1>3, <1>4, <1>5, <1>6, <1>7, <1>8, <1>9, <1>10 DEF Next, RemoteThread

\* However connections are lost and requests arrive after their sender has given
\* up, what the two computers do with orders is what OrderDelivery allows.
THEOREM LinkImplementsDelivery == Spec => ImplementsDelivery
<1>1. Init => Safe /\ Delivery!Init
  BY InitSafe
<1>2. Safe /\ [Next]_vars => Safe' /\ [Delivery!Next]_(Delivery!vars)
  BY StepSafe
<1> QED BY <1>1, <1>2, PTL DEF Spec, SafetySpec, ImplementsDelivery, Delivery!Spec

\* No order of the remote user is carried out twice (synchronizeDataAcrossThreads
\* of the local computer), and none that has been is still on its way.
THEOREM NeverTwice == Spec => []CarriedOutOnce
<1>1. Init => Safe
  BY InitSafe
<1>2. Safe /\ [Next]_vars => Safe'
  BY StepSafe
<1>3. Safe => CarriedOutOnce
  BY DEF Safe
<1> QED BY <1>1, <1>2, <1>3, PTL DEF Spec, SafetySpec
=============================================================================
