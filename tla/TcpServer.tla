----------------------------- MODULE TcpServer -----------------------------
(***************************************************************************)
(* The Modbus TCP server of the local computer: the FreeModbus stack, its  *)
(* port to sockets and the polling thread, and the remote computers that   *)
(* connect to it, send requests and wait for the answers.                  *)
(*                                                                         *)
(* There is one socket for a client.  Connections made meanwhile wait in   *)
(* the backlog of the listening socket, and what is sent on them is        *)
(* received later, also when the sender has long closed its end.           *)
(*                                                                         *)
(* A request travels as HEADER + BODY pieces that arrive in order but not  *)
(* necessarily together.  recv returns what has arrived, at most           *)
(* usTCPFrameBytesLeft.  Sending an answer to a machine that has vanished  *)
(* makes the kernel close the connection in the end.                       *)
(***************************************************************************)
EXTENDS RegisterMap, Sequences

CONSTANTS
    Computers,      \* the remote computers
    Asks,           \* bound: the addresses each of them may ask for
    HEADER, BODY,   \* the pieces of a request
    Backlog         \* bound: connections that wait to be accepted

ASSUME ServerAssumption ==
    /\ Asks \in [Computers -> SUBSET Nat]
    /\ {HEADER, BODY, Backlog} \subseteq Nat \ {0}

VARIABLES
    config,         \* what the program serves: [channels, lengths]
    listening,      \* xListenSocket is open
    mbState,        \* eMBState
    threadState,    \* of the polling thread; "none" before it is created
    event,          \* the queued event
    client,         \* the connection of xClientSocket
    lost,           \* the thread waits for data on socket -1
    buffer,         \* the pieces in aucTCPBuf
    bytesLeft,      \* usTCPFrameBytesLeft
    frame,          \* ucMBFrame: the pieces of the request to execute
    orderCodes,     \* the order code registers of the channels
    backlog,        \* the connections that wait, oldest first
    asked,          \* what each remote computer waits for
    calm            \* from now on nothing fails

stack == <<listening, mbState, threadState, event, client, lost, buffer,
           bytesLeft, frame, orderCodes, backlog>>
serverVars == <<config, stack, asked, calm>>

Lines == 1 .. config.channels
RTU_ORDER_NONE == "none"

Nothing == Read(0, 0)
Requests == ClientRequests(config)

Pieces(request) == [i \in 1 .. HEADER + BODY |-> [request |-> request, number |-> i]]

\* A connection: whose it is, what the server has not read, and whether the
\* other end is open, closed, or a machine that has vanished.
Connection(c) == [of |-> c, unread |-> <<>>, end |-> "open"]
INVALID_SOCKET == [of |-> "nobody", unread |-> <<>>, end |-> "none"]

ConnectionType ==
    [of : Computers \union {"nobody"}, end : {"open", "closed", "vanished", "none"},
     unread : Seq([request : Requests, number : 1 .. HEADER + BODY])]

Executed == frame[HEADER + BODY].request

Polling == threadState = "RUNNING" /\ mbState = "ENABLED" /\ ~lost

IsOpen(c, connection) == connection.of = c /\ connection.end = "open"

Connected(c) ==
    \/ IsOpen(c, client)
    \/ \E i \in DOMAIN backlog : IsOpen(c, backlog[i])

InitServer ==
    /\ listening = FALSE
    /\ mbState = "NOT_INITIALIZED"
    /\ threadState = "none"
    /\ event = "none"
    /\ client = INVALID_SOCKET
    /\ lost = FALSE
    /\ buffer = <<>>
    /\ bytesLeft = 0
    /\ frame = <<>>
    /\ orderCodes = <<>>
    /\ backlog = <<>>
    /\ asked = [c \in Computers |-> Nothing]
    /\ calm = FALSE

-----------------------------------------------------------------------------
(***************************************************************************)
(* The polling thread.                                                     *)
(***************************************************************************)
\* eMBEnable fails, and the thread ends, unless the stack has been initialised.
StartPolling ==
    /\ threadState = "STOPPED"
    /\ mbState = "DISABLED"
    /\ threadState' = "RUNNING"
    /\ mbState' = "ENABLED"
    /\ UNCHANGED <<config, listening, event, client, lost, buffer, bytesLeft, frame,
                   orderCodes, backlog, asked, calm>>

BufferOfNewClient_Kept == buffer

BufferOfNewClient == <<>>

prvbMBPortAcceptClient ==
    /\ Polling /\ event = "none"
    /\ client = INVALID_SOCKET
    /\ listening /\ backlog # <<>>
    /\ client' = Head(backlog)
    /\ backlog' = Tail(backlog)
    /\ buffer' = BufferOfNewClient
    /\ bytesLeft' = HEADER
    /\ UNCHANGED <<config, listening, mbState, threadState, event, lost, frame, orderCodes,
                   asked, calm>>

\* accept may fail.  The loop that follows never ends then: it waits for data
\* from socket -1.
AcceptFails ==
    /\ Polling /\ event = "none"
    /\ client = INVALID_SOCKET
    /\ ~listening \/ (~calm /\ backlog # <<>>)
    /\ lost' = TRUE
    /\ UNCHANGED <<config, listening, mbState, threadState, event, client, buffer, bytesLeft,
                   frame, orderCodes, backlog, asked, calm>>

BytesLeftAfter_Stale(got, n) == bytesLeft - n

\* The length of the rest is known when the header is complete.
BytesLeftAfter(got, n) ==
    IF Len(got) < HEADER THEN bytesLeft - n ELSE HEADER + BODY - Len(got)

\* The loop of xMBPortTCPPool goes on until the frame is complete.
Receive ==
    /\ Polling /\ event = "none"
    /\ \E n \in 1 .. bytesLeft :
          /\ n <= Len(client.unread)
          /\ LET got == buffer \o SubSeq(client.unread, 1, n) IN
                /\ buffer' = got
                /\ bytesLeft' = BytesLeftAfter(got, n)
                /\ event' = IF Len(got) = HEADER + BODY THEN "EV_FRAME_RECEIVED" ELSE "none"
          /\ client' = [client EXCEPT !.unread = SubSeq(@, n + 1, Len(@))]
    /\ UNCHANGED <<config, listening, mbState, threadState, lost, frame, orderCodes, backlog,
                   asked, calm>>

\* recv returns 0 when all is read, or -1 at once if the connection was reset.
ClientIsGone ==
    /\ Polling /\ event = "none"
    /\ client.end = "closed"
    /\ client' = INVALID_SOCKET
    /\ UNCHANGED <<config, listening, mbState, threadState, event, lost, buffer, bytesLeft,
                   frame, orderCodes, backlog, asked, calm>>

\* eMBTCPReceive; the protocol identifier is always that of Modbus.
TakeRequest ==
    /\ Polling
    /\ event = "EV_FRAME_RECEIVED"
    /\ event' = "EV_EXECUTE"
    /\ frame' = buffer
    /\ buffer' = <<>>
    /\ bytesLeft' = HEADER
    /\ UNCHANGED <<config, listening, mbState, threadState, client, lost, orderCodes, backlog,
                   asked, calm>>

\* The handler of the function, and its answer sent to whom the socket belongs.
\* The frame stays where it is, but is not looked at again.
Execute ==
    /\ Polling
    /\ event = "EV_EXECUTE"
    /\ event' = "none"
    /\ LET request == Executed
           answer  == Served(config, request)
       IN  orderCodes' = IF request.function = 6 /\ answer # IllegalAddress
                         THEN [orderCodes EXCEPT ![answer.part] = OrderWritten(request)]
                         ELSE orderCodes
    /\ IF client.end = "open"
       THEN asked' = [asked EXCEPT ![client.of] = Nothing] /\ UNCHANGED client
       ELSE client' = [client EXCEPT !.end = "closed"] /\ UNCHANGED asked
    /\ frame' = <<>>
    /\ UNCHANGED <<config, listening, mbState, threadState, lost, buffer, bytesLeft,
                   backlog, calm>>

PollingThread ==
    \/ StartPolling
    \/ prvbMBPortAcceptClient \/ AcceptFails
    \/ Receive \/ ClientIsGone
    \/ TakeRequest \/ Execute

-----------------------------------------------------------------------------
(***************************************************************************)
(* The other threads.                                                      *)
(***************************************************************************)
\* The socket cannot be made, bound or listened on; or the thread cannot be
\* created, and the socket listens all the same.
InitializationFails ==
    /\ listening' \in BOOLEAN
    /\ UNCHANGED threadState

initializeModbusTcpSlave(isStarted) ==
    /\ IF isStarted
       THEN listening' = TRUE /\ threadState' = "STOPPED"
       ELSE InitializationFails
    /\ mbState' = "DISABLED"
    /\ event' = "none"
    /\ UNCHANGED <<config, client, lost, buffer, bytesLeft, frame, orderCodes, backlog,
                   asked, calm>>

\* vMBTCPPortClose, unless the stack is enabled: then nothing is closed.
eMBClose ==
    IF mbState = "DISABLED"
    THEN listening' = FALSE /\ client' = INVALID_SOCKET
    ELSE UNCHANGED <<listening, client>>

-----------------------------------------------------------------------------
(***************************************************************************)
(* The remote computers.                                                   *)
(***************************************************************************)
RequestsOf(c) == {request \in Requests : request.address \in Asks[c]}

\* What has been sent on the open connection of this computer, and its end.
WithOpenConnection(c, Change(_)) ==
    /\ client' = (IF IsOpen(c, client) THEN Change(client) ELSE client)
    /\ backlog' = [i \in DOMAIN backlog |->
                      IF IsOpen(c, backlog[i]) THEN Change(backlog[i]) ELSE backlog[i]]
    /\ UNCHANGED <<config, listening, mbState, threadState, event, lost, buffer, bytesLeft,
                   frame, orderCodes, calm>>

Connect(c) ==
    /\ listening
    /\ ~Connected(c)
    /\ Len(backlog) < Backlog
    /\ backlog' = Append(backlog, Connection(c))
    /\ UNCHANGED <<config, listening, mbState, threadState, event, client, lost, buffer,
                   bytesLeft, frame, orderCodes, asked, calm>>

Ask(c, request) ==
    /\ Connected(c)
    /\ asked[c] = Nothing
    /\ asked' = [asked EXCEPT ![c] = request]
    /\ WithOpenConnection(c, LAMBDA d : [d EXCEPT !.unread = @ \o Pieces(request)])

\* Connections that come before the open one of this computer, and are not known
\* to be closed; or there is nobody to serve it.
Held(c) ==
    \/ lost
    \/ threadState = "none"
    \/ client # INVALID_SOCKET /\ ~IsOpen(c, client) /\ client.end # "closed"
    \/ \E i, k \in DOMAIN backlog :
          i < k /\ IsOpen(c, backlog[k]) /\ backlog[i].end # "closed"

\* A computer gives up after a second without an answer, or stops.
Disconnect(c) ==
    /\ Connected(c)
    /\ calm => asked[c] = Nothing \/ Held(c)
    /\ asked' = [asked EXCEPT ![c] = Nothing]
    /\ WithOpenConnection(c, LAMBDA d : [d EXCEPT !.end = "closed"])

FirstPieces(pieces, n) == SubSeq(pieces, 1, IF n < Len(pieces) THEN n ELSE Len(pieces))

\* Power or network fails; the server does not get to know it.
Vanish(c) ==
    /\ ~calm
    /\ Connected(c)
    /\ asked' = [asked EXCEPT ![c] = Nothing]
    /\ \E n \in 0 .. HEADER + BODY :
          WithOpenConnection(c, LAMBDA d :
              [d EXCEPT !.end = "vanished", !.unread = FirstPieces(@, n)])

RemoteComputer(c) ==
    \/ Connect(c)
    \/ \E request \in RequestsOf(c) : Ask(c, request)
    \/ Disconnect(c)
    \/ Vanish(c)

-----------------------------------------------------------------------------
(***************************************************************************)
(* Properties.                                                             *)
(***************************************************************************)
ServerTypeOK ==
    /\ {listening, lost, calm} \subseteq BOOLEAN
    /\ mbState \in {"NOT_INITIALIZED", "DISABLED", "ENABLED"}
    /\ threadState \in {"none", "STOPPED", "RUNNING"}
    /\ event \in {"none", "EV_FRAME_RECEIVED", "EV_EXECUTE"}
    /\ {client} \union {backlog[i] : i \in DOMAIN backlog} \subseteq ConnectionType
    /\ bytesLeft \in 0 .. HEADER + BODY
    /\ orderCodes \in [Lines -> {RTU_ORDER_NONE, "power", "set value"}]
    /\ asked \in [Computers -> Requests \union {Nothing}]

\* However requests are torn apart on their way, given up or cut off, and
\* whichever connection follows: the pieces the server puts together are those
\* of one request from its first to its last, and while the asker waits it is
\* the one it waits for (xMBPortTCPPool, prvbMBPortAcceptClient).
RequestIsWhole ==
    LET pieces == IF event = "EV_EXECUTE" THEN frame ELSE buffer IN
        client # INVALID_SOCKET /\ pieces # <<>> =>
            /\ pieces = SubSeq(Pieces(pieces[1].request), 1, Len(pieces))
            /\ client.end = "open" => asked[client.of] = pieces[1].request
            /\ event # "none" => Len(pieces) = HEADER + BODY
=============================================================================
