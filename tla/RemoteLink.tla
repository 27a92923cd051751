----------------------------- MODULE RemoteLink -----------------------------
(***************************************************************************)
(* Two computers running this program, and the connection between them.    *)
(* On the 'remote computer' the peripheral thread is a Modbus TCP master:  *)
(* communicateTcpServer asks sector 0 who has control, then, channel by    *)
(* channel, reads the state and writes the order that waits there.  On the *)
(* 'local computer' the TCP server stores what is written, and the         *)
(* peripheral thread carries it out or throws it away.                     *)
(*                                                                         *)
(* Orders are numbered in the order they are given.  A box with number 0   *)
(* is empty.  Nothing excludes the threads from each other, so an order is *)
(* lost if it comes to a mailbox between the loads with which              *)
(* synchronizeDataAcrossThreads fetches what is there and the stores with  *)
(* which it erases it, or if it is stored in halves around them.  One step *)
(* fetches, one erases; a write begins in one and ends in another.  The    *)
(* user's order comes in one, and a set-point that is torn counts as lost. *)
(* OrderExchange takes these apart down to single stores.                  *)
(*                                                                         *)
(* Any failure of the connection - none made, nothing sent, no answer in a *)
(* second, an unexpected one - has the same consequence, whatever code it  *)
(* leaves in ModbusTcpCommunicationState: the socket is closed.            *)
(***************************************************************************)
EXTENDS Integers, Sequences, FiniteSets

CONSTANTS
    Channels,       \* NumberOfChannels
    MaxOrders,      \* bound: orders given by the remote user
    MaxRequests     \* bound: requests on their way to the server

ASSUME LinkAssumption ==
    /\ Channels \in Nat \ {0}
    /\ MaxOrders \in Nat
    /\ MaxRequests \in Nat \ {0}

VARIABLES
    pc,             \* where the thread of the remote computer is
    at,             \* the channel it deals with
    talks,          \* TimeDivider is 0: this turn of the loop is for the link
    connected,      \* TcpSocket is not -1
    identified,     \* IsTcpServerIdentified
    runUp,          \* ChannelDescriptionTextRunUp
    healthy,        \* ModbusTcpCommunicationState is NO_ERROR
    newState,       \* NewStateOfModbusTcpInterface
    rControl,       \* ControlFromGuiHere of the remote computer
    rGuiBox,        \* orders in its TableOfSharedDataForGui
    rLowBox,        \* orders in its TableOfSharedDataForLowLevel
    hiding,         \* the message to hide them waits for the main thread
    widgets,        \* its channel widgets are shown, and not an error message
    requests,       \* requests on their way to the server, oldest first
    reply,          \* the answer on its way back
    lControl,       \* ControlFromGuiHere of the local computer
    lPc,            \* whether its peripheral thread is to fetch or to erase
    lAt,            \* the channel that thread deals with
    tcpBox,         \* orders in its TableOfSharedDataForTcpServer
    storing,        \* how much of a write its server has stored
    given,          \* history: the number of orders given
    carriedOut,     \* history: how often each was carried out
    calm            \* from now on the connection works

remote  == <<pc, at, talks, connected, identified, runUp, healthy, newState,
             rControl, rGuiBox, rLowBox, hiding, widgets>>
local   == <<lControl, lPc, lAt, tcpBox, storing, carriedOut>>
network == <<requests, reply>>
vars    == <<remote, local, network, given, calm>>

Lines == 1 .. Channels
NextLine(line) == IF line < Channels THEN line + 1 ELSE 1

Numbers == 1 .. MaxOrders
NoOrder == 0

Turns == {"sync", "syncErase", "connect", "zero", "lengths", "text", "sector",
          "write", "handle", "resync", "resyncErase"}

\* A request is named by the step that waits for its answer; "none" stands for
\* no answer.  A request is alive while the connection it was sent on is.
Request(kind, line, order) ==
    [kind |-> kind, line |-> line, order |-> order, alive |-> TRUE]

NoReply == [kind |-> "none", permitted |-> FALSE]
Reply(kind) == [kind |-> kind, permitted |-> ~lControl]

TypeOK ==
    /\ pc \in Turns
    /\ at \in Lines
    /\ {talks, connected, identified, runUp, healthy, newState, rControl,
        hiding, widgets, lControl, calm} \subseteq BOOLEAN
    /\ lPc \in {"fetch", "erase"}
    /\ lAt \in Lines
    /\ storing \in {"nothing", "half", "erasedHalf"}
    /\ {rGuiBox, rLowBox, tcpBox} \subseteq [Lines -> Numbers \union {NoOrder}]
    /\ requests \in Seq([kind : Turns, line : Lines,
                         order : Numbers \union {NoOrder}, alive : BOOLEAN])
    /\ reply \in [kind : Turns \union {"none"}, permitted : BOOLEAN]
    /\ given \in 0 .. MaxOrders
    /\ carriedOut \in [Numbers -> Nat]

AllEmpty == [l \in Lines |-> NoOrder]

Init ==
    /\ pc = "sync"
    /\ at = 1
    /\ talks = TRUE
    /\ connected = FALSE
    /\ identified = FALSE
    /\ runUp = FALSE
    /\ healthy = FALSE
    /\ newState = FALSE
    /\ rControl = FALSE
    /\ rGuiBox = AllEmpty
    /\ rLowBox = AllEmpty
    /\ hiding = FALSE
    /\ widgets = FALSE
    /\ requests = <<>>
    /\ reply = NoReply
    /\ lControl = TRUE
    /\ lPc = "fetch"
    /\ lAt = 1
    /\ tcpBox = AllEmpty
    /\ storing = "nothing"
    /\ given = 0
    /\ carriedOut = [n \in Numbers |-> 0]
    /\ calm = FALSE

-----------------------------------------------------------------------------
(***************************************************************************)
(* The remote computer.                                                    *)
(***************************************************************************)
\* The buttons follow ControlFromGuiHere only when the widgets are next
\* updated, so they may still work when control has just been withdrawn.
UserGivesOrder ==
    /\ widgets
    /\ given < MaxOrders
    /\ given' = given + 1
    /\ \E l \in Lines : rGuiBox' = [rGuiBox EXCEPT ![l] = given + 1]
    /\ UNCHANGED <<pc, at, talks, connected, identified, runUp, healthy, newState,
                   rControl, rLowBox, hiding, widgets, local, network, calm>>

LowBoxAfterFetch_Copied ==
    IF rControl THEN [rLowBox EXCEPT ![at] = rGuiBox[at]] ELSE rLowBox

LowBoxAfterFetch ==
    IF rControl /\ rGuiBox[at] # NoOrder
    THEN [rLowBox EXCEPT ![at] = rGuiBox[at]] ELSE rLowBox

Emptied(box, line) == [box EXCEPT ![line] = NoOrder]

\* isNewOrder, takeOrder and placeNewOrder for one channel.  The main thread
\* needs less than half a second to deal with its messages.
FetchFromGui ==
    /\ \/ pc = "sync" /\ (talks => ~hiding) /\ pc' = "syncErase"
       \/ pc = "resync" /\ pc' = "resyncErase"
    /\ rLowBox' = LowBoxAfterFetch
    /\ rGuiBox' = IF rControl THEN Emptied(rGuiBox, at) ELSE rGuiBox
    /\ UNCHANGED <<at, talks, connected, identified, runUp, healthy, newState, rControl,
                   hiding, widgets, local, network, given, calm>>

\* What has come since then is overwritten by memcpy and resetOrderCode.
EraseGuiBox ==
    /\ \/ pc = "syncErase" /\ at < Channels /\ pc' = "sync" /\ UNCHANGED talks
       \/ pc = "syncErase" /\ at = Channels /\ UNCHANGED talks
          /\ pc' = (IF talks THEN "connect" ELSE "resync")
       \/ pc = "resyncErase" /\ at < Channels /\ pc' = "resync" /\ UNCHANGED talks
       \/ pc = "resyncErase" /\ at = Channels /\ pc' = "sync" /\ talks' = ~talks
    /\ at' = NextLine(at)
    /\ rGuiBox' = Emptied(rGuiBox, at)
    /\ UNCHANGED <<connected, identified, runUp, healthy, newState, rControl, rLowBox,
                   hiding, widgets, local, network, given, calm>>

\* What the thread leaves alone while it talks to the server.
UnchangedByTalk ==
    UNCHANGED <<talks, rGuiBox, hiding, widgets, local, given, calm>>

Send(kind, line, order) ==
    /\ pc' = kind
    /\ at' = line
    /\ requests' = Append(requests, Request(kind, line, order))
    /\ reply' = NoReply

Connect ==
    /\ pc = "connect"
    /\ Len(requests) < MaxRequests
    /\ connected' = TRUE
    /\ Send("zero", 1, NoOrder)
    /\ UNCHANGED <<identified, runUp, healthy, newState, rControl, rLowBox>>
    /\ UnchangedByTalk

NewStateAfterError_Unset == newState

NewStateAfterError == TRUE

\* The server still gets what has been sent, but cannot answer it.  A read, the
\* last request if it is one, is left out from then on: serving it does nothing.
StillToServe ==
    IF requests # <<>> /\ requests[Len(requests)].kind # "write"
    THEN SubSeq(requests, 1, Len(requests) - 1) ELSE requests

Orphans == [i \in DOMAIN StillToServe |-> [StillToServe[i] EXCEPT !.alive = FALSE]]

GiveUp ==
    /\ pc' = "handle"
    /\ connected' = FALSE
    /\ healthy' = FALSE
    /\ newState' = NewStateAfterError
    /\ requests' = Orphans
    /\ reply' = NoReply
    /\ UNCHANGED <<at, identified, runUp, rControl, rLowBox>>
    /\ UnchangedByTalk

NoConnection == ~calm /\ pc = "connect" /\ GiveUp

Waiting == pc \in {"zero", "lengths", "text", "sector", "write"}

AnswerIsComing ==
    reply # NoReply \/ \E i \in DOMAIN requests : requests[i].alive

NoAnswer == Waiting /\ (calm => ~AnswerIsComing) /\ GiveUp

Finish ==
    /\ pc' = "handle"
    /\ healthy' = TRUE
    /\ newState' = (newState \/ ~healthy)
    /\ UNCHANGED <<at, requests>>
    /\ reply' = NoReply

GoOnOr_OffByOne(kind, line) ==
    IF line <= Channels + 1
    THEN Send(kind, line, NoOrder) /\ UNCHANGED <<healthy, newState>>
    ELSE Finish

GoOnOr(kind, line) ==
    IF line <= Channels
    THEN Send(kind, line, NoOrder) /\ UNCHANGED <<healthy, newState>>
    ELSE Finish

ControlHere_OnlyGained(permitted) == rControl \/ permitted

ControlHere(permitted) == permitted

\* Who has control is not looked at when the server is first identified.
SectorZeroArrives ==
    /\ pc = "zero" /\ reply.kind = pc
    /\ identified' = TRUE
    /\ rControl' = IF identified THEN ControlHere(reply.permitted) ELSE rControl
    /\ Send(IF runUp THEN "sector" ELSE "lengths", 1, NoOrder)
    /\ UNCHANGED <<connected, runUp, healthy, newState, rLowBox>>
    /\ UnchangedByTalk

LengthsArrive ==
    /\ pc = "lengths" /\ reply.kind = pc
    /\ Send("text", 1, NoOrder)
    /\ UNCHANGED <<connected, identified, runUp, healthy, newState, rControl,
                   rLowBox>>
    /\ UnchangedByTalk

TextArrives ==
    /\ pc = "text" /\ reply.kind = pc
    /\ runUp' = (at = Channels)
    /\ GoOnOr("text", at + 1)
    /\ UNCHANGED <<connected, identified, rControl, rLowBox>>
    /\ UnchangedByTalk

LowBoxAfterWrite_Kept(line) == rLowBox

\* The order is taken before it is sent, and gone if that fails.
LowBoxAfterWrite(line) == Emptied(rLowBox, line)

SectorArrives ==
    /\ pc = "sector" /\ reply.kind = pc
    /\ IF rLowBox[at] # NoOrder
       THEN Send("write", at, rLowBox[at]) /\ UNCHANGED <<healthy, newState>>
       ELSE GoOnOr("sector", at + 1)
    /\ rLowBox' = IF rLowBox[at] # NoOrder THEN LowBoxAfterWrite(at) ELSE rLowBox
    /\ UNCHANGED <<connected, identified, runUp, rControl>>
    /\ UnchangedByTalk

WriteIsConfirmed ==
    /\ pc = "write" /\ reply.kind = pc
    /\ GoOnOr("sector", at + 1)
    /\ UNCHANGED <<connected, identified, runUp, rControl, rLowBox>>
    /\ UnchangedByTalk

WidgetsAfter_OnlyHidden == widgets

WidgetsAfter == widgets \/ healthy

\* The channels are shown at once, but hidden by a message to the main thread.
HandleNewState ==
    /\ pc = "handle"
    /\ pc' = "resync"
    /\ at' = 1
    /\ newState' = FALSE
    /\ widgets' = IF newState THEN WidgetsAfter ELSE widgets
    /\ hiding' = (newState /\ ~healthy)
    /\ UNCHANGED <<talks, connected, identified, runUp, healthy, rControl, rGuiBox,
                   rLowBox, local, network, given, calm>>

MainThreadHides ==
    /\ hiding
    /\ hiding' = FALSE
    /\ widgets' = FALSE
    /\ UNCHANGED <<pc, at, talks, connected, identified, runUp, healthy, newState, rControl,
                   rGuiBox, rLowBox, local, network, given, calm>>

RemoteThread ==
    \/ FetchFromGui \/ EraseGuiBox \/ Connect \/ NoConnection \/ NoAnswer
    \/ SectorZeroArrives \/ LengthsArrive \/ TextArrives
    \/ SectorArrives \/ WriteIsConfirmed \/ HandleNewState

-----------------------------------------------------------------------------
(***************************************************************************)
(* The local computer.                                                     *)
(***************************************************************************)
\* The server deals with the requests of one connection before it accepts the
\* next one.
IsAnswered ==
    /\ reply' = IF Head(requests).alive THEN Reply(Head(requests).kind) ELSE reply
    /\ requests' = Tail(requests)

ServeRead ==
    /\ requests # <<>> /\ Head(requests).kind # "write"
    /\ IsAnswered
    /\ UNCHANGED <<remote, local, given, calm>>

\* A written order is stored whoever has control.  The upper byte comes first;
\* whether that spoils an order already there depends on the register.
StartWrite ==
    /\ requests # <<>> /\ Head(requests).kind = "write"
    /\ storing = "nothing"
    /\ storing' = "half"
    /\ \E rest \in {tcpBox, Emptied(tcpBox, Head(requests).line)} : tcpBox' = rest
    /\ UNCHANGED <<remote, lControl, lPc, lAt, carriedOut, network, given, calm>>

\* If the register has been erased between the halves, it is not the order that
\* is left, unless the server had loaded it before.
LeftByWrite(order) ==
    IF storing = "erasedHalf" THEN {NoOrder, order} ELSE {order}

CompleteWrite ==
    /\ requests # <<>> /\ storing # "nothing"
    /\ storing' = "nothing"
    /\ \E order \in LeftByWrite(Head(requests).order) :
          tcpBox' = [tcpBox EXCEPT ![Head(requests).line] = order]
    /\ IsAnswered
    /\ UNCHANGED <<remote, lControl, lPc, lAt, carriedOut, given, calm>>

TcpServer == ServeRead \/ StartWrite \/ CompleteWrite

\* A connection found closed takes its requests with it; others are lost only
\* while the connection is bad.
RequestIsLost ==
    /\ requests # <<>>
    /\ storing = "nothing"
    /\ calm => ~Head(requests).alive
    /\ requests' = Tail(requests)
    /\ UNCHANGED <<remote, local, reply, given, calm>>

\* synchronizeDataAcrossThreads, a channel at a time: an order is fetched if the
\* remote computer has control.  What is fetched stays in the registers until
\* they are erased, but is not looked at again.
FetchFromClient ==
    /\ lPc = "fetch"
    /\ lPc' = "erase"
    /\ carriedOut' = [n \in Numbers |->
                         carriedOut[n] + IF ~lControl /\ tcpBox[lAt] = n THEN 1 ELSE 0]
    /\ tcpBox' = IF lControl THEN tcpBox ELSE Emptied(tcpBox, lAt)
    /\ UNCHANGED <<remote, lControl, lAt, storing, network, given, calm>>

\* The registers are erased whoever has control.
EraseTcpBox ==
    /\ lPc = "erase"
    /\ lPc' = "fetch"
    /\ lAt' = NextLine(lAt)
    /\ tcpBox' = Emptied(tcpBox, lAt)
    /\ storing' = IF storing = "half" /\ Head(requests).line = lAt
                  THEN "erasedHalf" ELSE storing
    /\ UNCHANGED <<remote, lControl, carriedOut, network, given, calm>>

LocalThread == FetchFromClient \/ EraseTcpBox

UserTogglesControl ==
    /\ lControl' = ~lControl
    /\ UNCHANGED <<remote, lPc, lAt, tcpBox, storing, carriedOut, network, given, calm>>

CalmDown ==
    /\ ~calm
    /\ calm' = TRUE
    /\ UNCHANGED <<remote, local, network, given>>

Next ==
    \/ RemoteThread \/ MainThreadHides \/ UserGivesOrder
    \/ TcpServer \/ RequestIsLost
    \/ LocalThread \/ UserTogglesControl
    \/ CalmDown

SafetySpec == Init /\ [][Next]_vars

\* All threads go round their loops, and the server polls for requests.
\* Neither user has to do anything.
Spec ==
    /\ SafetySpec
    /\ WF_vars(RemoteThread)
    /\ WF_vars(MainThreadHides)
    /\ WF_vars(TcpServer)
    /\ WF_vars(LocalThread)

-----------------------------------------------------------------------------
(***************************************************************************)
(* Properties.                                                             *)
(***************************************************************************)
\* Timeouts, closed connections, requests that arrive after their sender has
\* given up and changes of control lose orders, but never make one happen
\* twice, and never revive one that was lost.
Boxed(box) == {box[l] : l \in Lines} \ {NoOrder}

UnderWay ==
    Boxed(rGuiBox) \union Boxed(rLowBox) \union Boxed(tcpBox) \union
    ({requests[i].order : i \in DOMAIN requests} \ {NoOrder})

Delivery == INSTANCE OrderDelivery WITH Orders <- Numbers, asked <- 1 .. given, underWay <- UnderWay

ImplementsDelivery == Delivery!Spec

\* When the connection works and the local user stops changing who has control,
\* the remote computer gets to know it, for good.
ControlIsLearned ==
    /\ <>[](calm /\ lControl) => <>[]~rControl
    /\ <>[](calm /\ ~lControl) => <>[]rControl

\* When the connection works, the error message disappears and the channels
\* are shown, for good.
ChannelsReturn == calm ~> []widgets

\* A mailbox is erased without having been looked at since what is there came.
ErasedUnseen(n) ==
    \/ pc \in {"syncErase", "resyncErase"} /\ rGuiBox[at] = n
    \/ lPc = "erase" /\ tcpBox[lAt] = n
    \/ storing = "erasedHalf" /\ Head(requests).order = n

\* On a working connection an order that a remote user in control gives is
\* carried out, unless it comes to a mailbox that is just being erased, control
\* is withdrawn, the remote computer reads that it has been (the answer may be
\* out of date), or a newer order is given.  Nothing else loses it on its way.
OrderIsCarriedOut ==
    \A n \in Numbers :
        calm /\ widgets /\ rControl /\ ~lControl /\ (\E l \in Lines : rGuiBox[l] = n)
            ~> carriedOut[n] > 0 \/ lControl \/ ~rControl \/ given > n \/ ErasedUnseen(n)
=============================================================================
