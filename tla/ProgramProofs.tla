--------------------------- MODULE ProgramProofs ---------------------------
(***************************************************************************)
(* Theorems about Program, for any number of remote computers, any lengths *)
(* of header and body, any backlog and any configuration files.            *)
(*                                                                         *)
(* What has been taken from a connection and what is unread on it follow   *)
(* one another in one request, and all of it is there while the asker      *)
(* waits.  A connection in the backlog is such a stream of which nothing   *)
(* has been taken; so a client that is accepted begins a request, if only  *)
(* the buffer is emptied for it.                                           *)
(*                                                                         *)
(* The requests are those for the configuration parsed, the theorem        *)
(* ClientIsServed is about the answers to these, and what is executed has  *)
(* been put together whole: so what is asked for is granted.               *)
(***************************************************************************)
EXTENDS Program, SequenceTheorems, WellFoundedInduction, TLAPS

\* What is sent on a connection.
Piece == [request : Requests, number : 1 .. HEADER + BODY]

\* Pieces of a request that follow one another, the first of them behind so many.
ArePieces(pieces, request, before) ==
    \A i \in DOMAIN pieces : pieces[i] = [request |-> request, number |-> before + i]

Ends == {"open", "closed", "vanished", "none"}

\* The pieces of the request that is being put together or executed.
Taken == IF event = "EV_EXECUTE" THEN frame ELSE buffer

\* What has been taken from a connection and what is unread are the beginning of
\* one request; if it is open, of the one its computer waits for, and all of it.
Streams(requests, connection, taken, asks) ==
    /\ connection.end # "none"
    /\ \E request \in requests :
           /\ ArePieces(taken, request, 0)
           /\ ArePieces(connection.unread, request, Len(taken))
           /\ Len(taken) + Len(connection.unread) <= HEADER + BODY
           /\ connection.end = "open" =>
                 /\ connection.of \in Computers
                 /\ \/ /\ Len(taken) + Len(connection.unread) = 0
                       /\ asks[connection.of] = Nothing
                    \/ /\ Len(taken) + Len(connection.unread) = HEADER + BODY
                       /\ asks[connection.of] = request

-----------------------------------------------------------------------------
\* A request has a header and a body.
LEMMA RequestLength == HEADER \in Nat \ {0} /\ BODY \in Nat \ {0} /\ HEADER + BODY \in Nat \ {0}
  BY ServerAssumption

\* Pieces that are received leave the unread ones and follow those taken before.
LEMMA PiecesMove ==
    ASSUME NEW request, NEW P,
           NEW taken \in Seq(P), NEW unread \in Seq(P), NEW n \in 1 .. Len(unread),
           ArePieces(taken, request, 0), ArePieces(unread, request, Len(taken))
    PROVE  LET got  == taken \o SubSeq(unread, 1, n)
               rest == SubSeq(unread, n + 1, Len(unread))
           IN  /\ got \in Seq(P) /\ rest \in Seq(P)
               /\ Len(got) = Len(taken) + n /\ Len(rest) = Len(unread) - n
               /\ ArePieces(got, request, 0) /\ ArePieces(rest, request, Len(got))
<1> DEFINE first == SubSeq(unread, 1, n)
           got   == taken \o first
           rest  == SubSeq(unread, n + 1, Len(unread))
<1>1. Len(taken) \in Nat /\ Len(unread) \in Nat /\ n \in Nat
  BY LenProperties
<1>2. /\ first \in Seq(P) /\ Len(first) = n
      /\ \A i \in 1 .. n : first[i] = unread[i]
  BY <1>1, SubSeqProperties
<1>3. /\ rest \in Seq(P) /\ Len(rest) = Len(unread) - n
      /\ \A i \in 1 .. Len(unread) - n : rest[i] = unread[n + i]
  BY <1>1, SubSeqProperties
<1> HIDE DEF first, rest
<1>4. /\ got \in Seq(P) /\ Len(got) = Len(taken) + n
      /\ \A i \in 1 .. Len(taken) + n :
            got[i] = IF i <= Len(taken) THEN taken[i] ELSE first[i - Len(taken)]
  BY <1>1, <1>2, ConcatProperties
<1> HIDE DEF got
<1>5. ArePieces(got, request, 0)
  <2> SUFFICES ASSUME NEW i \in 1 .. Len(taken) + n
               PROVE  got[i] = [request |-> request, number |-> 0 + i]
    BY <1>4, LenProperties DEF ArePieces
  <2>1. CASE i <= Len(taken)
    <3>1. i \in DOMAIN taken
      BY <1>1, <2>1, LenProperties
    <3> QED BY <1>4, <2>1, <3>1 DEF ArePieces
  <2>2. CASE ~(i <= Len(taken))
    <3>1. /\ i - Len(taken) \in 1 .. n /\ i - Len(taken) \in DOMAIN unread
          /\ Len(taken) + (i - Len(taken)) = 0 + i
      BY <1>1, <2>2, LenProperties
    <3>2. got[i] = unread[i - Len(taken)]
      BY <1>2, <1>4, <2>2, <3>1
    <3>3. unread[i - Len(taken)] =
             [request |-> request, number |-> Len(taken) + (i - Len(taken))]
      BY <3>1 DEF ArePieces
    <3> QED BY <3>1, <3>2, <3>3
  <2> QED BY <2>1, <2>2
<1>6. ArePieces(rest, request, Len(got))
  <2> SUFFICES ASSUME NEW i \in 1 .. Len(unread) - n
               PROVE  rest[i] = [request |-> request, number |-> Len(got) + i]
    BY <1>3, LenProperties DEF ArePieces
  <2>1. n + i \in DOMAIN unread /\ Len(taken) + (n + i) = Len(got) + i
    BY <1>1, <1>4, LenProperties
  <2>2. unread[n + i] = [request |-> request, number |-> Len(taken) + (n + i)]
    BY <2>1 DEF ArePieces
  <2> QED BY <1>3, <2>1, <2>2
<1> QED BY <1>3, <1>4, <1>5, <1>6 DEF got, first, rest

\* What is left of a stream that is cut off is its beginning.
LEMMA FirstPiecesAre ==
    ASSUME NEW P, NEW pieces \in Seq(P), NEW n \in Nat
    PROVE  /\ FirstPieces(pieces, n) \in Seq(P)
           /\ Len(FirstPieces(pieces, n)) <= Len(pieces)
           /\ \A request, before : ArePieces(pieces, request, before)
                 => ArePieces(FirstPieces(pieces, n), request, before)
<1> DEFINE m == IF n < Len(pieces) THEN n ELSE Len(pieces)
           first == SubSeq(pieces, 1, m)
<1>1. Len(pieces) \in Nat /\ m \in 0 .. Len(pieces)
  BY LenProperties
<1> HIDE DEF m
<1>2. /\ first \in Seq(P) /\ Len(first) = m
      /\ \A i \in 1 .. m : first[i] = pieces[i]
  BY <1>1, SubSeqProperties
<1>3. FirstPieces(pieces, n) = first
  BY DEF FirstPieces, m
<1> HIDE DEF first
<1>4. ASSUME NEW request, NEW before, ArePieces(pieces, request, before)
      PROVE  ArePieces(first, request, before)
  <2>1. DOMAIN first = 1 .. m /\ 1 .. m \subseteq DOMAIN pieces
    BY <1>1, <1>2, LenProperties
  <2> QED BY <1>2, <1>4, <2>1 DEF ArePieces
<1> QED BY <1>1, <1>2, <1>3, <1>4

\* A request as it is sent.
LEMMA PiecesOfRequest ==
    ASSUME NEW request \in Requests
    PROVE  /\ Pieces(request) \in Seq(Piece) /\ Len(Pieces(request)) = HEADER + BODY
           /\ ArePieces(Pieces(request), request, 0)
<1>1. HEADER + BODY \in Nat
  BY RequestLength
<1>2. Pieces(request) \in [1 .. HEADER + BODY -> Piece]
  BY DEF Pieces, Piece
<1>3. Pieces(request) \in Seq(Piece)
  BY <1>1, <1>2, SeqDef
<1>4. Len(Pieces(request)) = HEADER + BODY
  BY <1>1, <1>2, <1>3, LenProperties
<1>5. ASSUME NEW i \in 1 .. HEADER + BODY
      PROVE  Pieces(request)[i] = [request |-> request, number |-> 0 + i]
  <2>1. 0 + i = i
    OBVIOUS
  <2> QED BY <2>1 DEF Pieces
<1> QED BY <1>2, <1>3, <1>4, <1>5 DEF ArePieces

\* No pieces are the beginning of any request.
LEMMA NoPieces == \A request, before : ArePieces(<<>>, request, before)
  BY DEF ArePieces

-----------------------------------------------------------------------------
(***************************************************************************)
(* The invariant of the server and its connections.                        *)
(***************************************************************************)
ConfigTyped ==
    /\ config \in [channels : Nat, lengths : [Ports -> Nat]]
    /\ isModbusTcpSlave \in BOOLEAN

ServerTyped ==
    /\ {listening, lost, calm} \subseteq BOOLEAN
    /\ mbState \in {"NOT_INITIALIZED", "DISABLED", "ENABLED"}
    /\ threadState \in {"none", "STOPPED", "RUNNING"}
    /\ event \in {"none", "EV_FRAME_RECEIVED", "EV_EXECUTE"}
    /\ orderCodes \in [Lines -> {RTU_ORDER_NONE, "power", "set value"}]

StreamsTyped ==
    /\ buffer \in Seq(Piece) /\ frame \in Seq(Piece)
    /\ client \in ConnectionType
    /\ backlog \in Seq(ConnectionType)
    /\ asked \in [Computers -> Requests \union {Nothing}]
    /\ bytesLeft \in 0 .. HEADER + BODY

BytesLeftFor(got) ==
    IF Len(got) < HEADER THEN HEADER - Len(got) ELSE HEADER + BODY - Len(got)

\* The client of the socket: its stream, and how many pieces are yet to come.
ClientServed ==
    client # INVALID_SOCKET =>
        /\ mbState = "ENABLED"
        /\ Streams(Requests, client, Taken, asked)
        /\ bytesLeft = BytesLeftFor(buffer)

BacklogWaits == \A i \in DOMAIN backlog : Streams(Requests, backlog[i], <<>>, asked)

\* A request that has been received or is executed is whole.
EventIsWhole ==
    event # "none" =>
        /\ threadState = "RUNNING"
        /\ Len(Taken) = HEADER + BODY
        /\ \E request \in Requests : ArePieces(Taken, request, 0)
        /\ event = "EV_EXECUTE" => buffer = <<>>
        /\ client # INVALID_SOCKET \/ ~Running

\* No computer has two open connections, and it waits only on an open one.
OpenOnce ==
    \A c \in Computers :
        /\ asked[c] # Nothing => Connected(c)
        /\ IsOpen(c, client) => \A i \in DOMAIN backlog : ~IsOpen(c, backlog[i])
        /\ \A i, k \in DOMAIN backlog :
              IsOpen(c, backlog[i]) /\ IsOpen(c, backlog[k]) => i = k

\* Before the server is started there is nothing of it.
Untouched ==
    /\ listening = FALSE /\ mbState = "NOT_INITIALIZED" /\ threadState = "none"
    /\ event = "none" /\ client = INVALID_SOCKET /\ lost = FALSE
    /\ buffer = <<>> /\ bytesLeft = 0 /\ frame = <<>> /\ backlog = <<>>
    /\ asked = [c \in Computers |-> Nothing]

Started ==
    /\ peripheral \in {"parsing", "initializing"} => Untouched
    /\ threadState # "none" => isModbusTcpSlave

ServerInv ==
    /\ ConfigTyped /\ ServerTyped /\ StreamsTyped
    /\ ClientServed /\ BacklogWaits /\ EventIsWhole /\ OpenOnce /\ Started

-----------------------------------------------------------------------------
(***************************************************************************)
(* Facts about requests and connections.                                   *)
(***************************************************************************)
LEMMA RequestsAre ==
    ASSUME ConfigTyped
    PROVE  /\ Requests # {} /\ Nothing \notin Requests
           /\ \A request \in Requests : request.function = 3 \/ request.function = 6
<1>1. config.channels \in Nat /\ config.lengths \in [Ports -> Nat]
  BY DEF ConfigTyped
<1>2. /\ Nothing.address = 0
      /\ \A sector \in Nat, offset \in Nat :
            /\ SectorAddress(sector) \in Nat /\ SectorAddress(sector) # 0
            /\ SectorAddress(sector) + offset # 0
  BY DEF Nothing, Read, SectorAddress, TCP_SERVER_START_ADDRESS, TCP_SERVER_SECTOR_ADDRESS_STEP
<1>3. TCP_SERVER_DESCRIPTION_LENGTHS_ADDRESS # 0 /\ \A port \in Nat : TextAddress(port) # 0
  BY DEF TextAddress, TCP_SERVER_DESCRIPTION_LENGTHS_ADDRESS, TCP_SERVER_DESCRIPTION_ADDRESS_STEP
<1>4. ASSUME NEW request \in Requests
      PROVE  /\ request.address # 0
             /\ request.function = 3 \/ request.function = 6
  <2>1. CASE request = Read(SectorAddress(0), READING_TCP_REGISTERS_NUMBER)
    BY <1>2, <2>1 DEF Read
  <2>2. CASE request = Read(TCP_SERVER_DESCRIPTION_LENGTHS_ADDRESS, MAX_NUMBER_OF_SERIAL_PORTS)
    BY <1>3, <2>2 DEF Read
  <2>3. ASSUME NEW port \in TextsAskedFor(config),
               request = Read(TextAddress(port), config.lengths[port] \div 2)
        PROVE  request.address # 0 /\ request.function = 3
    <3>1. port \in Nat
      BY DEF TextsAskedFor, Ports, MAX_NUMBER_OF_SERIAL_PORTS
    <3> QED BY <1>3, <2>3, <3>1 DEF Read
  <2>4. ASSUME NEW sector \in 0 .. config.channels,
               request = Read(SectorAddress(sector), READING_TCP_REGISTERS_NUMBER)
        PROVE  request.address # 0 /\ request.function = 3
    BY <1>1, <1>2, <2>4 DEF Read
  <2>5. ASSUME NEW sector \in 1 .. config.channels,
               NEW offset \in {MODBUS_TCP_ADDRESS_ORDER_CODE, MODBUS_TCP_ADDRESS_ORDER_VALUE},
               request = Write(SectorAddress(sector) + offset)
        PROVE  request.address # 0 /\ request.function = 6
    <3>1. offset \in Nat /\ sector \in Nat
      BY <1>1 DEF MODBUS_TCP_ADDRESS_ORDER_CODE, MODBUS_TCP_ADDRESS_ORDER_VALUE
    <3> QED BY <1>2, <2>5, <3>1 DEF Write
  <2> QED BY <2>1, <2>2, <2>3, <2>4, <2>5
          DEF Requests, ClientRequests, RunUpRequests, RunTimeRequests
<1>5. Read(SectorAddress(0), READING_TCP_REGISTERS_NUMBER) \in Requests
  BY DEF Requests, ClientRequests, RunUpRequests
<1> QED BY <1>2, <1>4, <1>5

\* A connection on which nothing is on its way belongs to nobody who waits.
LEMMA NothingUnread ==
    ASSUME ConfigTyped, NEW connection, NEW asks,
           connection.unread = <<>>, connection.end # "none",
           connection.end = "open" =>
               connection.of \in Computers /\ asks[connection.of] = Nothing
    PROVE  Streams(Requests, connection, <<>>, asks)
<1>1. PICK request \in Requests : TRUE
  BY RequestsAre
<1>2. Len(<<>>) = 0 /\ 0 + 0 = 0 /\ 0 <= HEADER + BODY
  BY EmptySeq, RequestLength
<1>3. ArePieces(<<>>, request, 0)
  BY NoPieces
<1> QED BY <1>1, <1>2, <1>3 DEF Streams

\* A new connection of a computer that waits for nothing.
LEMMA NewConnection ==
    ASSUME ConfigTyped, NEW c \in Computers, asked[c] = Nothing
    PROVE  Connection(c) \in ConnectionType /\ Streams(Requests, Connection(c), <<>>, asked)
<1>1. Connection(c) = [of |-> c, unread |-> <<>>, end |-> "open"]
  BY DEF Connection
<1>2. <<>> \in Seq([request : Requests, number : 1 .. HEADER + BODY])
  BY EmptySeq
<1> QED BY <1>1, <1>2, NothingUnread DEF ConnectionType

\* The fields of a connection, and of none.
LEMMA ConnectionFields ==
    /\ \A d \in ConnectionType : /\ d.of \in Computers \union {"nobody"} /\ d.end \in Ends
                                 /\ d.unread \in Seq(Piece) /\ Len(d.unread) \in Nat
    /\ INVALID_SOCKET \in ConnectionType /\ INVALID_SOCKET.end = "none"
    /\ INVALID_SOCKET.unread = <<>>
<1>1. <<>> \in Seq(Piece)
  BY EmptySeq
<1>2. \A d \in ConnectionType : Len(d.unread) \in Nat
  BY LenProperties DEF ConnectionType
<1> QED BY <1>1, <1>2 DEF ConnectionType, Piece, Ends, INVALID_SOCKET

\* A function on the domain of a sequence is a sequence of that length.
LEMMA MappedSeq ==
    ASSUME NEW S, NEW seq \in Seq(S), NEW mapped, NEW T,
           mapped \in [DOMAIN seq -> T]
    PROVE  mapped \in Seq(T) /\ Len(mapped) = Len(seq) /\ DOMAIN mapped = DOMAIN seq
<1>1. DOMAIN seq = 1 .. Len(seq) /\ Len(seq) \in Nat
  BY LenProperties
<1>2. mapped \in Seq(T)
  BY <1>1, SeqDef
<1>3. DOMAIN mapped = 1 .. Len(seq) /\ DOMAIN mapped = 1 .. Len(mapped) /\ Len(mapped) \in Nat
  BY <1>1, <1>2, LenProperties
<1> QED BY <1>1, <1>2, <1>3

\* What the server has taken is at hand as long as its socket has not changed.
LEMMA SameRequests ==
    UNCHANGED config => /\ Requests' = Requests /\ Piece' = Piece /\ Lines' = Lines
                        /\ ConnectionType' = ConnectionType
  BY DEF Requests, Piece, Lines, ConnectionType

-----------------------------------------------------------------------------
(***************************************************************************)
(* Steps.  First those that touch neither a connection nor a request.      *)
(***************************************************************************)
LEMMA Undisturbed ==
    ASSUME StreamsTyped, ClientServed, BacklogWaits, EventIsWhole, OpenOnce,
           UNCHANGED <<config, event, client, buffer, bytesLeft, frame, backlog, asked>>,
           mbState = "ENABLED" => mbState' = "ENABLED",
           threadState = "RUNNING" => threadState' = "RUNNING",
           Running' => Running
    PROVE  StreamsTyped' /\ ClientServed' /\ BacklogWaits' /\ EventIsWhole' /\ OpenOnce'
<1>1. /\ Requests' = Requests /\ Piece' = Piece /\ ConnectionType' = ConnectionType
      /\ Taken' = Taken
  BY SameRequests DEF Taken
<1>2. StreamsTyped'
  BY <1>1 DEF StreamsTyped
<1>3. ClientServed'
  BY <1>1 DEF ClientServed, BytesLeftFor
<1>4. BacklogWaits'
  BY <1>1 DEF BacklogWaits
<1>5. EventIsWhole'
  BY <1>1 DEF EventIsWhole
<1>6. OpenOnce'
  BY DEF OpenOnce, Connected
<1> QED BY <1>2, <1>3, <1>4, <1>5, <1>6

\* The polling thread enables the stack.
LEMMA StartPollingStep ==
    ASSUME ServerInv, StartPolling, UNCHANGED program
    PROVE  ServerInv'
<1>1. /\ UNCHANGED <<config, event, client, buffer, bytesLeft, frame, backlog, asked>>
      /\ threadState = "STOPPED" /\ threadState' = "RUNNING" /\ mbState' = "ENABLED"
      /\ UNCHANGED <<isModbusTcpSlave, peripheral, listening, lost, calm, orderCodes, Running>>
  BY DEF StartPolling, program, Running
<1>2. StreamsTyped' /\ ClientServed' /\ BacklogWaits' /\ EventIsWhole' /\ OpenOnce'
  BY <1>1, Undisturbed DEF ServerInv
<1>3. ConfigTyped' /\ ServerTyped'
  BY <1>1, SameRequests DEF ServerInv, ConfigTyped, ServerTyped
<1>4. Started'
  BY <1>1 DEF ServerInv, Started, Untouched
<1> QED BY <1>2, <1>3, <1>4 DEF ServerInv

\* From now on the thread waits for socket -1.
LEMMA AcceptFailsStep ==
    ASSUME ServerInv, AcceptFails, UNCHANGED program
    PROVE  ServerInv'
<1>1. /\ UNCHANGED <<config, event, client, buffer, bytesLeft, frame, backlog, asked>>
      /\ UNCHANGED <<threadState, mbState>> /\ threadState = "RUNNING" /\ lost' = TRUE
      /\ UNCHANGED <<isModbusTcpSlave, peripheral, listening, calm, orderCodes, Running>>
  BY DEF AcceptFails, Polling, program, Running
<1>2. StreamsTyped' /\ ClientServed' /\ BacklogWaits' /\ EventIsWhole' /\ OpenOnce'
  BY <1>1, Undisturbed DEF ServerInv
<1>3. ConfigTyped' /\ ServerTyped'
  BY <1>1, SameRequests DEF ServerInv, ConfigTyped, ServerTyped
<1>4. Started'
  BY <1>1 DEF ServerInv, Started, Untouched
<1> QED BY <1>2, <1>3, <1>4 DEF ServerInv

\* The client mode, the turn of the peripheral thread, and the calm.
LEMMA QuietSteps ==
    ASSUME ServerInv, StartClient \/ PeripheralTurn \/ CalmDown \/ UNCHANGED vars
    PROVE  ServerInv'
<1>1. /\ UNCHANGED <<config, event, client, buffer, bytesLeft, frame, backlog, asked>>
      /\ UNCHANGED <<threadState, mbState, isModbusTcpSlave, listening, lost, Running>>
      /\ calm' \in {calm, TRUE}
      /\ orderCodes' = orderCodes \/ orderCodes' = [line \in Lines |-> RTU_ORDER_NONE]
      /\ peripheral' \in {peripheral, "loop"}
  BY DEF StartClient, PeripheralTurn, CalmDown, vars, serverVars, stack, program, Running
<1>2. StreamsTyped' /\ ClientServed' /\ BacklogWaits' /\ EventIsWhole' /\ OpenOnce'
  BY <1>1, Undisturbed DEF ServerInv
<1>3. ConfigTyped' /\ ServerTyped'
  BY <1>1, SameRequests DEF ServerInv, ConfigTyped, ServerTyped
<1>4. Started'
  BY <1>1 DEF ServerInv, Started, Untouched
<1> QED BY <1>2, <1>3, <1>4 DEF ServerInv

\* The server is started on what has not been touched, or fails to start.
LEMMA StartServerStep ==
    ASSUME ServerInv, StartServer
    PROVE  ServerInv'
<1>1. /\ UNCHANGED <<config, client, lost, buffer, bytesLeft, frame, orderCodes, backlog,
                     asked, calm, isModbusTcpSlave, Running>>
      /\ event' = "none" /\ mbState' = "DISABLED" /\ listening' \in BOOLEAN
      /\ threadState' \in {"STOPPED", threadState} /\ peripheral' \in {"loop", "returned"}
      /\ peripheral = "initializing" /\ isModbusTcpSlave
  BY DEF StartServer, initializeModbusTcpSlave, InitializationFails, GiveUp, Running
<1>2. Untouched
  BY <1>1 DEF ServerInv, Started
<1>3. StreamsTyped' /\ ClientServed' /\ BacklogWaits' /\ EventIsWhole' /\ OpenOnce'
  BY <1>1, <1>2, Undisturbed DEF ServerInv, Untouched
<1>4. ConfigTyped' /\ ServerTyped'
  BY <1>1, SameRequests DEF ServerInv, ConfigTyped, ServerTyped
<1>5. Started'
  BY <1>1 DEF Started
<1> QED BY <1>3, <1>4, <1>5 DEF ServerInv

\* eMBClose closes nothing: there is no client unless the stack is enabled.
LEMMA CloseWindowStep ==
    ASSUME ServerInv, CloseWindow
    PROVE  ServerInv'
<1>1. /\ UNCHANGED <<config, event, buffer, bytesLeft, frame, backlog, asked>>
      /\ UNCHANGED <<threadState, mbState, isModbusTcpSlave, peripheral, lost, calm, orderCodes>>
      /\ listening' \in {listening, FALSE} /\ Running
      /\ client' = client \/ (mbState = "DISABLED" /\ client' = INVALID_SOCKET)
  BY DEF CloseWindow, eMBClose, Running
<1>2. client' = client
  BY <1>1 DEF ServerInv, ClientServed
<1>3. StreamsTyped' /\ ClientServed' /\ BacklogWaits' /\ EventIsWhole' /\ OpenOnce'
  BY <1>1, <1>2, Undisturbed DEF ServerInv
<1>4. ConfigTyped' /\ ServerTyped'
  BY <1>1, SameRequests DEF ServerInv, ConfigTyped, ServerTyped
<1>5. Started'
  BY <1>1, <1>2 DEF ServerInv, Started, Untouched, ServerTyped
<1> QED BY <1>3, <1>4, <1>5 DEF ServerInv

-----------------------------------------------------------------------------
(***************************************************************************)
(* The polling thread.                                                     *)
(***************************************************************************)
\* Whether connections are open does not depend on what is unread.
LEMMA SameOpen ==
    ASSUME OpenOnce, UNCHANGED <<asked, backlog>>,
           \A c \in Computers : IsOpen(c, client') <=> IsOpen(c, client)
    PROVE  OpenOnce'
  BY DEF OpenOnce, Connected

\* The oldest connection becomes the client, with an empty buffer.
LEMMA AcceptStep ==
    ASSUME ServerInv, prvbMBPortAcceptClient, UNCHANGED program
    PROVE  ServerInv'
<1>1. /\ UNCHANGED <<config, listening, mbState, threadState, event, lost, frame,
                     orderCodes, asked, calm, isModbusTcpSlave, peripheral>>
      /\ client = INVALID_SOCKET /\ backlog # <<>> /\ event = "none"
      /\ client' = Head(backlog) /\ backlog' = Tail(backlog)
      /\ buffer' = <<>> /\ bytesLeft' = HEADER
      /\ threadState = "RUNNING" /\ mbState = "ENABLED"
  BY DEF prvbMBPortAcceptClient, BufferOfNewClient, Polling, program
<1>2. /\ Requests' = Requests /\ Piece' = Piece /\ ConnectionType' = ConnectionType
      /\ Lines' = Lines
  BY <1>1, SameRequests
<1>3. /\ ConfigTyped /\ ServerTyped /\ StreamsTyped /\ BacklogWaits /\ OpenOnce /\ Started
      /\ backlog \in Seq(ConnectionType) /\ client \in ConnectionType
  BY DEF ServerInv, StreamsTyped
<1>4. /\ Len(backlog) \in Nat \ {0} /\ 1 \in DOMAIN backlog /\ Head(backlog) = backlog[1]
      /\ Head(backlog) \in ConnectionType /\ Tail(backlog) \in Seq(ConnectionType)
      /\ DOMAIN Tail(backlog) = 1 .. Len(backlog) - 1 /\ DOMAIN backlog = 1 .. Len(backlog)
      /\ \A i \in 1 .. Len(backlog) - 1 : Tail(backlog)[i] = backlog[i + 1]
  <2>1. Len(backlog) \in Nat \ {0} /\ DOMAIN backlog = 1 .. Len(backlog)
    BY <1>1, <1>3, EmptySeq, LenProperties
  <2>2. /\ Head(backlog) \in ConnectionType /\ Tail(backlog) \in Seq(ConnectionType)
        /\ Len(Tail(backlog)) = Len(backlog) - 1
        /\ \A i \in 1 .. Len(Tail(backlog)) : Tail(backlog)[i] = backlog[i + 1]
    BY <1>1, <1>3, HeadTailProperties
  <2>3. DOMAIN Tail(backlog) = 1 .. Len(Tail(backlog))
    BY <2>2, LenProperties
  <2> QED BY <1>3, <2>1, <2>2, <2>3
<1>5. StreamsTyped'
  BY <1>1, <1>2, <1>3, <1>4, EmptySeq, RequestLength DEF StreamsTyped
<1>6. ClientServed'
  <2>1. Streams(Requests, Head(backlog), <<>>, asked)
    BY <1>3, <1>4 DEF BacklogWaits
  <2>2. Taken' = <<>>
    BY <1>1 DEF Taken
  <2>3. BytesLeftFor(<<>>) = HEADER
    BY RequestLength DEF BytesLeftFor
  <2> QED BY <1>1, <1>2, <2>1, <2>2, <2>3 DEF ClientServed
<1>7. BacklogWaits'
  BY <1>1, <1>2, <1>3, <1>4 DEF BacklogWaits
<1>8. EventIsWhole'
  BY <1>1 DEF EventIsWhole
<1>9. OpenOnce'
  <2> SUFFICES ASSUME NEW c \in Computers
               PROVE  /\ asked[c] # Nothing => Connected(c)'
                      /\ IsOpen(c, client') => \A i \in DOMAIN backlog' : ~IsOpen(c, backlog'[i])
                      /\ \A i, k \in DOMAIN backlog' :
                            IsOpen(c, backlog'[i]) /\ IsOpen(c, backlog'[k]) => i = k
    BY <1>1 DEF OpenOnce
  <2>1. ~IsOpen(c, client)
    BY <1>1, ConnectionFields DEF IsOpen
  <2>2. \A i, k \in DOMAIN backlog : IsOpen(c, backlog[i]) /\ IsOpen(c, backlog[k]) => i = k
    BY <1>3 DEF OpenOnce
  <2>3. ASSUME asked[c] # Nothing PROVE Connected(c)'
    <3>1. PICK i \in DOMAIN backlog : IsOpen(c, backlog[i])
      BY <1>3, <2>1, <2>3 DEF OpenOnce, Connected
    <3>2. CASE i = 1
      BY <1>1, <1>4, <3>1, <3>2 DEF Connected
    <3>3. CASE i # 1
      <4>1. i - 1 \in 1 .. Len(backlog) - 1 /\ (i - 1) + 1 = i
        BY <1>4, <3>1, <3>3
      <4>2. Tail(backlog)[i - 1] = backlog[i] /\ i - 1 \in DOMAIN Tail(backlog)
        BY <1>4, <4>1
      <4> QED BY <1>1, <3>1, <4>2 DEF Connected
    <3> QED BY <3>2, <3>3
  <2>4. ASSUME IsOpen(c, client'), NEW i \in DOMAIN backlog', IsOpen(c, backlog'[i])
        PROVE  FALSE
    <3>1. i \in 1 .. Len(backlog) - 1 /\ i + 1 \in DOMAIN backlog /\ i + 1 # 1
      BY <1>1, <1>4
    <3> QED BY <1>1, <1>4, <2>2, <2>4, <3>1
  <2>5. ASSUME NEW i \in DOMAIN backlog', NEW k \in DOMAIN backlog',
               IsOpen(c, backlog'[i]), IsOpen(c, backlog'[k])
        PROVE  i = k
    <3>1. /\ i \in 1 .. Len(backlog) - 1 /\ i + 1 \in DOMAIN backlog
          /\ k \in 1 .. Len(backlog) - 1 /\ k + 1 \in DOMAIN backlog
      BY <1>1, <1>4
    <3>2. i + 1 = k + 1
      BY <1>1, <1>4, <2>2, <2>5, <3>1
    <3> QED BY <3>1, <3>2
  <2> QED BY <2>3, <2>4, <2>5
<1>10. ConfigTyped' /\ ServerTyped'
  BY <1>1, <1>2, <1>3 DEF ConfigTyped, ServerTyped
<1>11. Started'
  BY <1>1, <1>3 DEF Started, Untouched
<1> QED BY <1>5, <1>6, <1>7, <1>8, <1>9, <1>10, <1>11 DEF ServerInv

\* The client has closed its connection.
LEMMA ClientIsGoneStep ==
    ASSUME ServerInv, ClientIsGone, UNCHANGED program
    PROVE  ServerInv'
<1>1. /\ UNCHANGED <<config, listening, mbState, threadState, event, lost, frame, backlog,
                     buffer, bytesLeft, orderCodes, asked, calm, isModbusTcpSlave, peripheral>>
      /\ client.end = "closed" /\ client' = INVALID_SOCKET /\ event = "none"
      /\ threadState = "RUNNING"
  BY DEF ClientIsGone, Polling, program
<1>2. /\ Requests' = Requests /\ Piece' = Piece /\ ConnectionType' = ConnectionType
      /\ Lines' = Lines
  BY <1>1, SameRequests
<1>3. StreamsTyped' /\ BacklogWaits' /\ EventIsWhole' /\ ConfigTyped' /\ ServerTyped'
  BY <1>1, <1>2, ConnectionFields
     DEF ServerInv, StreamsTyped, BacklogWaits, EventIsWhole, ConfigTyped, ServerTyped
<1>4. ClientServed'
  BY <1>1 DEF ClientServed
<1>5. OpenOnce'
  <2>1. \A c \in Computers : IsOpen(c, client') <=> IsOpen(c, client)
    BY <1>1, ConnectionFields DEF IsOpen
  <2> QED BY <1>1, <2>1, SameOpen DEF ServerInv
<1>6. Started'
  BY <1>1 DEF ServerInv, Started, Untouched
<1> QED BY <1>3, <1>4, <1>5, <1>6 DEF ServerInv

\* Some of the unread pieces are received.
LEMMA ReceiveStep ==
    ASSUME ServerInv, Receive, UNCHANGED program
    PROVE  ServerInv'
<1> DEFINE unread == client.unread
<1>1. PICK n \in 1 .. bytesLeft :
         /\ n <= Len(unread)
         /\ buffer' = buffer \o SubSeq(unread, 1, n)
         /\ bytesLeft' = BytesLeftAfter(buffer', n)
         /\ event' = IF Len(buffer') = HEADER + BODY THEN "EV_FRAME_RECEIVED" ELSE "none"
         /\ client' = [client EXCEPT !.unread = SubSeq(unread, n + 1, Len(unread))]
  BY DEF Receive
<1>2. /\ UNCHANGED <<config, listening, mbState, threadState, lost, frame, backlog,
                     orderCodes, asked, calm, isModbusTcpSlave, peripheral>>
      /\ event = "none" /\ threadState = "RUNNING" /\ mbState = "ENABLED"
  BY DEF Receive, Polling, program
<1>3. /\ Requests' = Requests /\ Piece' = Piece /\ ConnectionType' = ConnectionType
      /\ Lines' = Lines
  BY <1>2, SameRequests
<1>4. /\ ConfigTyped /\ ServerTyped /\ StreamsTyped /\ BacklogWaits /\ OpenOnce /\ Started
      /\ client \in ConnectionType /\ unread \in Seq(Piece) /\ buffer \in Seq(Piece)
      /\ Len(unread) \in Nat /\ Len(buffer) \in Nat /\ bytesLeft \in 0 .. HEADER + BODY
      /\ n \in 1 .. Len(unread)
  <2>1. /\ ConfigTyped /\ ServerTyped /\ StreamsTyped /\ BacklogWaits /\ OpenOnce /\ Started
        /\ client \in ConnectionType /\ buffer \in Seq(Piece) /\ bytesLeft \in 0 .. HEADER + BODY
    BY DEF ServerInv, StreamsTyped
  <2>2. unread \in Seq(Piece) /\ Len(unread) \in Nat /\ Len(buffer) \in Nat
    BY <2>1, ConnectionFields, LenProperties
  <2> QED BY <1>1, <2>1, <2>2, RequestLength
<1>5. client # INVALID_SOCKET
  BY <1>4, ConnectionFields, EmptySeq
<1>6. Streams(Requests, client, buffer, asked) /\ bytesLeft = BytesLeftFor(buffer)
  BY <1>2, <1>5 DEF ServerInv, ClientServed, Taken
<1> DEFINE rest == SubSeq(unread, n + 1, Len(unread))
<1>7. /\ rest \in Seq(Piece) /\ buffer' \in Seq(Piece)
      /\ Len(buffer') = Len(buffer) + n /\ Len(rest) = Len(unread) - n
      /\ \A request \in Requests :
            ArePieces(buffer, request, 0) /\ ArePieces(unread, request, Len(buffer))
               => ArePieces(buffer', request, 0) /\ ArePieces(rest, request, Len(buffer'))
  <2>1. PICK request \in Requests :
           ArePieces(buffer, request, 0) /\ ArePieces(unread, request, Len(buffer))
    BY <1>6 DEF Streams
  <2>2. /\ rest \in Seq(Piece) /\ buffer' \in Seq(Piece)
        /\ Len(buffer') = Len(buffer) + n /\ Len(rest) = Len(unread) - n
    BY <1>1, <1>4, <2>1, PiecesMove
  <2>3. ASSUME NEW other \in Requests,
               ArePieces(buffer, other, 0), ArePieces(unread, other, Len(buffer))
        PROVE  ArePieces(buffer', other, 0) /\ ArePieces(rest, other, Len(buffer'))
    BY <1>1, <1>4, <2>3, PiecesMove
  <2> QED BY <2>2, <2>3
<1>8. /\ client' \in ConnectionType /\ client'.unread = rest
      /\ client'.of = client.of /\ client'.end = client.end
  BY <1>1, <1>4, <1>7 DEF ConnectionType, Piece
<1> HIDE DEF rest, unread
<1>9. client.end # "none"
  BY <1>6 DEF Streams
<1>9a. PICK request \in Requests :
         /\ ArePieces(buffer', request, 0)
         /\ ArePieces(rest, request, Len(buffer'))
         /\ Len(buffer) + Len(unread) <= HEADER + BODY
         /\ client.end = "open" =>
               /\ client.of \in Computers
               /\ \/ Len(buffer) + Len(unread) = 0 /\ asked[client.of] = Nothing
                  \/ Len(buffer) + Len(unread) = HEADER + BODY /\ asked[client.of] = request
  BY <1>6, <1>7 DEF Streams, unread
<1>10. /\ Len(buffer') + Len(rest) = Len(buffer) + Len(unread)
       /\ Len(buffer') <= HEADER + BODY /\ Len(buffer') \in Nat
  BY <1>4, <1>7, <1>9a, RequestLength
<1>11. Streams(Requests, client', buffer', asked)
  BY <1>8, <1>9, <1>9a, <1>10 DEF Streams
<1>12. bytesLeft' = BytesLeftFor(buffer') /\ bytesLeft' \in 0 .. HEADER + BODY
  <2>1. bytesLeft = IF Len(buffer) < HEADER THEN HEADER - Len(buffer)
                    ELSE HEADER + BODY - Len(buffer)
    BY <1>6 DEF BytesLeftFor
  <2>2. bytesLeft' = IF Len(buffer') < HEADER THEN bytesLeft - n
                     ELSE HEADER + BODY - Len(buffer')
    BY <1>1 DEF BytesLeftAfter
  <2>3. bytesLeft' = BytesLeftFor(buffer')
    BY <1>4, <1>7, <2>1, <2>2, RequestLength DEF BytesLeftFor
  <2> QED BY <1>10, <2>3, RequestLength DEF BytesLeftFor
<1>13. Taken' = buffer'
  BY <1>1 DEF Taken
<1>14. StreamsTyped'
  BY <1>2, <1>3, <1>4, <1>7, <1>8, <1>12 DEF StreamsTyped
<1>15. ClientServed'
  BY <1>2, <1>3, <1>11, <1>12, <1>13 DEF ClientServed
<1>16. BacklogWaits'
  BY <1>2, <1>3, <1>4 DEF BacklogWaits
<1>17. EventIsWhole'
  <2>1. client' # INVALID_SOCKET
    BY <1>8, <1>9, ConnectionFields
  <2> QED BY <1>1, <1>2, <1>3, <1>9a, <1>13, <2>1 DEF EventIsWhole
<1>18. OpenOnce'
  <2>1. \A c \in Computers : IsOpen(c, client') <=> IsOpen(c, client)
    BY <1>8 DEF IsOpen
  <2> QED BY <1>2, <1>4, <2>1, SameOpen
<1>19. ConfigTyped' /\ ServerTyped'
  BY <1>1, <1>2, <1>3, <1>4 DEF ConfigTyped, ServerTyped
<1>20. Started'
  BY <1>2, <1>4 DEF Started, Untouched
<1> QED BY <1>14, <1>15, <1>16, <1>17, <1>18, <1>19, <1>20 DEF ServerInv

\* A whole request has been received: it becomes the frame to execute.
LEMMA TakeRequestStep ==
    ASSUME ServerInv, TakeRequest, UNCHANGED program
    PROVE  ServerInv'
<1>1. /\ UNCHANGED <<config, listening, mbState, threadState, lost, client, backlog,
                     orderCodes, asked, calm, isModbusTcpSlave, peripheral, Running>>
      /\ event = "EV_FRAME_RECEIVED" /\ event' = "EV_EXECUTE"
      /\ frame' = buffer /\ buffer' = <<>> /\ bytesLeft' = HEADER
  BY DEF TakeRequest, program, Running
<1>2. /\ Requests' = Requests /\ Piece' = Piece /\ ConnectionType' = ConnectionType
      /\ Lines' = Lines /\ Taken' = Taken
  BY <1>1, SameRequests DEF Taken
<1>3. StreamsTyped' /\ BacklogWaits'
  BY <1>1, <1>2, EmptySeq, RequestLength DEF ServerInv, StreamsTyped, BacklogWaits
<1>4. ClientServed'
  <2>1. BytesLeftFor(<<>>) = HEADER
    BY EmptySeq, RequestLength DEF BytesLeftFor
  <2> QED BY <1>1, <1>2, <2>1 DEF ServerInv, ClientServed
<1>5. EventIsWhole'
  BY <1>1, <1>2 DEF ServerInv, EventIsWhole
<1>6. OpenOnce'
  BY <1>1, SameOpen DEF ServerInv
<1>7. ConfigTyped' /\ ServerTyped'
  BY <1>1, <1>2 DEF ServerInv, ConfigTyped, ServerTyped
<1>8. Started'
  BY <1>1 DEF ServerInv, Started, Untouched
<1> QED BY <1>3, <1>4, <1>5, <1>6, <1>7, <1>8 DEF ServerInv

\* Who is not the open peer of a connection may begin or end waiting.
LEMMA OtherAsks ==
    ASSUME NEW requests, NEW connection, NEW taken, NEW c, NEW request,
           NEW asks, DOMAIN asks = Computers,
           Streams(requests, connection, taken, asks), ~IsOpen(c, connection)
    PROVE  Streams(requests, connection, taken, [asks EXCEPT ![c] = request])
<1>1. ASSUME connection.end = "open", connection.of \in Computers
      PROVE  [asks EXCEPT ![c] = request][connection.of] = asks[connection.of]
  BY <1>1 DEF IsOpen
<1> QED BY <1>1 DEF Streams

\* A whole request leaves nothing unread, and its answer ends the waiting.
LEMMA ExecuteStep ==
    ASSUME ServerInv, Execute, Running, UNCHANGED program
    PROVE  ServerInv'
<1>1. /\ UNCHANGED <<config, listening, mbState, threadState, lost, buffer, bytesLeft,
                     backlog, calm, isModbusTcpSlave, peripheral>>
      /\ event = "EV_EXECUTE" /\ event' = "none" /\ frame' = <<>>
      /\ threadState = "RUNNING" /\ mbState = "ENABLED"
      /\ orderCodes' \in [Lines -> {RTU_ORDER_NONE, "power", "set value"}]
  BY DEF Execute, Polling, program, OrderWritten, ServerInv, ServerTyped
<1>2. IF client.end = "open"
      THEN asked' = [asked EXCEPT ![client.of] = Nothing] /\ UNCHANGED client
      ELSE client' = [client EXCEPT !.end = "closed"] /\ UNCHANGED asked
  BY DEF Execute
<1>3. /\ Requests' = Requests /\ Piece' = Piece /\ ConnectionType' = ConnectionType
      /\ Lines' = Lines
  BY <1>1, SameRequests
<1>4. /\ ConfigTyped /\ ServerTyped /\ StreamsTyped /\ BacklogWaits /\ OpenOnce /\ Started
      /\ client \in ConnectionType /\ client # INVALID_SOCKET
      /\ Taken = frame /\ Len(frame) = HEADER + BODY /\ buffer = <<>>
      /\ asked \in [Computers -> Requests \union {Nothing}]
      /\ Streams(Requests, client, frame, asked) /\ bytesLeft = BytesLeftFor(buffer)
  BY <1>1 DEF ServerInv, StreamsTyped, EventIsWhole, ClientServed, Taken
<1>5. client.unread = <<>> /\ client.end # "none" /\ (client.end = "open" => client.of \in Computers)
  <2>1. /\ HEADER + BODY + Len(client.unread) <= HEADER + BODY /\ Len(client.unread) \in Nat
        /\ client.unread \in Seq(Piece)
    BY <1>4, ConnectionFields DEF Streams
  <2>2. Len(client.unread) = 0
    <3> DEFINE whole == HEADER + BODY
    <3>1. whole \in Nat /\ whole + Len(client.unread) <= whole
      BY <2>1, RequestLength
    <3> HIDE DEF whole
    <3> QED BY <2>1, <3>1
  <2> QED BY <1>4, <2>1, <2>2, EmptySeq DEF Streams
<1>6. /\ client' \in ConnectionType /\ client'.unread = <<>> /\ client'.of = client.of
      /\ client'.end # "none"
      /\ client'.end = "open" <=> client.end = "open"
  BY <1>2, <1>4, <1>5, ConnectionFields DEF ConnectionType
<1>7. asked' \in [Computers -> Requests \union {Nothing}]
  BY <1>2, <1>4
<1>8. Streams(Requests, client', <<>>, asked')
  <2>1. client.end = "open" => asked'[client.of] = Nothing
    BY <1>2, <1>4, <1>5
  <2>2. client'.end = "open" => client'.of \in Computers /\ asked'[client'.of] = Nothing
    BY <1>5, <1>6, <2>1
  <2> QED BY <1>4, <1>6, <2>2, NothingUnread
<1>9. StreamsTyped'
  BY <1>1, <1>3, <1>4, <1>6, <1>7, EmptySeq DEF StreamsTyped
<1>10. ClientServed'
  BY <1>1, <1>3, <1>4, <1>8 DEF ClientServed, Taken, BytesLeftFor
<1>11. BacklogWaits'
  <2> SUFFICES ASSUME NEW i \in DOMAIN backlog
               PROVE  Streams(Requests, backlog[i], <<>>, asked')
    BY <1>1, <1>3 DEF BacklogWaits
  <2>1. Streams(Requests, backlog[i], <<>>, asked)
    BY <1>4 DEF BacklogWaits
  <2>2. CASE client.end = "open"
    <3>1. ~IsOpen(client.of, backlog[i])
      BY <1>4, <1>5, <2>2 DEF OpenOnce, IsOpen
    <3>2. DOMAIN asked = Computers
      BY <1>4
    <3>3. Streams(Requests, backlog[i], <<>>, [asked EXCEPT ![client.of] = Nothing])
      BY <2>1, <3>1, <3>2, OtherAsks
    <3> QED BY <1>2, <2>2, <3>3
  <2>3. CASE client.end # "open"
    BY <1>2, <2>1, <2>3
  <2> QED BY <2>2, <2>3
<1>12. EventIsWhole'
  BY <1>1 DEF EventIsWhole
<1>13. OpenOnce'
  <2>1. \A c \in Computers : IsOpen(c, client') <=> IsOpen(c, client)
    BY <1>6 DEF IsOpen
  <2>2. \A c \in Computers : asked'[c] # Nothing => asked[c] # Nothing
    BY <1>2, <1>4
  <2> QED BY <1>1, <1>4, <2>1, <2>2 DEF OpenOnce, Connected
<1>14. ConfigTyped' /\ ServerTyped'
  BY <1>1, <1>3, <1>4 DEF ConfigTyped, ServerTyped
<1>15. Started'
  BY <1>1, <1>4 DEF Started, Untouched
<1> QED BY <1>9, <1>10, <1>11, <1>12, <1>13, <1>14, <1>15 DEF ServerInv

\* The process takes all its sockets with it.
LEMMA ExitStep ==
    ASSUME ServerInv, Exit
    PROVE  ServerInv'
<1>1. /\ UNCHANGED <<config, mbState, threadState, event, lost, buffer, bytesLeft, frame,
                     orderCodes, calm, isModbusTcpSlave, peripheral>>
      /\ listening' = FALSE /\ client' = INVALID_SOCKET /\ backlog' = <<>> /\ ~Running'
      /\ asked' = [c \in Computers |-> Nothing]
  BY DEF Exit, Running
<1>2. /\ Requests' = Requests /\ Piece' = Piece /\ ConnectionType' = ConnectionType
      /\ Lines' = Lines /\ Taken' = Taken
  BY <1>1, SameRequests DEF Taken
<1>3. StreamsTyped'
  BY <1>1, <1>2, ConnectionFields, EmptySeq DEF ServerInv, StreamsTyped
<1>4. ClientServed' /\ BacklogWaits'
  BY <1>1, EmptySeq DEF ClientServed, BacklogWaits
<1>5. EventIsWhole'
  BY <1>1, <1>2 DEF ServerInv, EventIsWhole
<1>6. OpenOnce'
  <2>1. \A c \in Computers : asked'[c] = Nothing /\ ~IsOpen(c, client')
    BY <1>1, ConnectionFields DEF IsOpen
  <2> QED BY <1>1, <2>1, EmptySeq DEF OpenOnce
<1>7. ConfigTyped' /\ ServerTyped'
  BY <1>1, <1>2 DEF ServerInv, ConfigTyped, ServerTyped
<1>8. Started'
  BY <1>1 DEF ServerInv, Started, Untouched
<1> QED BY <1>3, <1>4, <1>5, <1>6, <1>7, <1>8 DEF ServerInv

-----------------------------------------------------------------------------
(***************************************************************************)
(* The remote computers.                                                   *)
(***************************************************************************)
LEMMA ConnectStep ==
    ASSUME ServerInv, NEW c \in Computers, Connect(c), UNCHANGED program
    PROVE  ServerInv'
<1> DEFINE n == Len(backlog)
           new == Connection(c)
<1>1. /\ UNCHANGED <<config, mbState, threadState, event, client, lost, buffer, bytesLeft,
                     frame, orderCodes, calm, listening, asked, isModbusTcpSlave, peripheral,
                     Running>>
      /\ listening /\ ~Connected(c) /\ backlog' = Append(backlog, new)
  BY DEF Connect, program, Running
<1>2. /\ Requests' = Requests /\ Piece' = Piece /\ ConnectionType' = ConnectionType
      /\ Lines' = Lines /\ Taken' = Taken
  BY <1>1, SameRequests DEF Taken
<1>3. /\ ConfigTyped /\ ServerTyped /\ StreamsTyped /\ ClientServed /\ BacklogWaits
      /\ EventIsWhole /\ OpenOnce /\ Started /\ backlog \in Seq(ConnectionType)
      /\ asked[c] = Nothing
  BY <1>1 DEF ServerInv, StreamsTyped, OpenOnce
<1>4. new \in ConnectionType /\ Streams(Requests, new, <<>>, asked) /\ new.of = c
  <2>1. new.of = c
    BY DEF Connection
  <2> QED BY <1>3, <2>1, NewConnection
<1> HIDE DEF new
<1>5. /\ n \in Nat /\ DOMAIN backlog = 1 .. n
      /\ backlog' \in Seq(ConnectionType) /\ DOMAIN backlog' = 1 .. n + 1
      /\ \A i \in 1 .. n : backlog'[i] = backlog[i]
      /\ backlog'[n + 1] = new
  <2>1. n \in Nat /\ DOMAIN backlog = 1 .. n
    BY <1>3, LenProperties
  <2>2. /\ backlog' \in Seq(ConnectionType) /\ Len(backlog') = n + 1
        /\ \A i \in 1 .. n : backlog'[i] = backlog[i]
        /\ backlog'[n + 1] = new
    BY <1>1, <1>3, <1>4, AppendProperties
  <2>3. DOMAIN backlog' = 1 .. n + 1
    BY <2>2, LenProperties
  <2> QED BY <2>1, <2>2, <2>3
<1> HIDE DEF n
<1>6. StreamsTyped'
  BY <1>1, <1>2, <1>3, <1>5 DEF StreamsTyped
<1>7. ClientServed' /\ EventIsWhole'
  BY <1>1, <1>2, <1>3 DEF ClientServed, EventIsWhole, BytesLeftFor
<1>8. BacklogWaits'
  <2> SUFFICES ASSUME NEW i \in 1 .. n + 1
               PROVE  Streams(Requests, backlog'[i], <<>>, asked)
    BY <1>1, <1>2, <1>5 DEF BacklogWaits
  <2>1. i \in 1 .. n \/ i = n + 1
    BY <1>5
  <2> QED BY <1>3, <1>4, <1>5, <2>1 DEF BacklogWaits
<1>9. OpenOnce'
  <2> SUFFICES ASSUME NEW d \in Computers
               PROVE  /\ asked[d] # Nothing => Connected(d)'
                      /\ IsOpen(d, client) => \A i \in 1 .. n + 1 : ~IsOpen(d, backlog'[i])
                      /\ \A i, k \in 1 .. n + 1 :
                            IsOpen(d, backlog'[i]) /\ IsOpen(d, backlog'[k]) => i = k
    BY <1>1, <1>5 DEF OpenOnce
  <2>1. Connected(d) => Connected(d)'
    BY <1>1, <1>5 DEF Connected
  <2>2. \A i \in 1 .. n + 1 : i \in 1 .. n \/ i = n + 1
    BY <1>5
  <2>3. ~(n + 1 \in 1 .. n)
    BY <1>5
  <2>4. CASE d = c
    <3>1. \A i \in 1 .. n : ~IsOpen(d, backlog'[i])
      BY <1>1, <1>5, <2>4 DEF Connected
    <3>2. ~IsOpen(d, client)
      BY <1>1, <2>4 DEF Connected
    <3> QED BY <1>3, <2>2, <2>4, <3>1, <3>2
  <2>5. CASE d # c
    <3>1. ~IsOpen(d, backlog'[n + 1])
      BY <1>4, <1>5, <2>5 DEF IsOpen
    <3> QED BY <1>3, <1>5, <2>1, <2>2, <3>1 DEF OpenOnce
  <2> QED BY <2>4, <2>5
<1>10. ConfigTyped' /\ ServerTyped'
  BY <1>1, <1>2, <1>3 DEF ConfigTyped, ServerTyped
<1>11. Started'
  <2>1. listening = TRUE
    BY <1>1, <1>3 DEF ServerTyped
  <2> QED BY <1>1, <1>3, <2>1 DEF Started, Untouched
<1> QED BY <1>6, <1>7, <1>8, <1>9, <1>10, <1>11 DEF ServerInv

\* What may become of the open connection of a computer that goes on waiting for
\* this request, or for nothing.
Becomes(d, new, taken, c, request) ==
    /\ new \in ConnectionType /\ new.of = d.of
    /\ request # Nothing => new.end = "open"
    /\ Streams(Requests, new, taken, [asked EXCEPT ![c] = request])

\* A request, or the end of the connection, on its way to the server.
LEMMA OnTheWay ==
    ASSUME ServerInv, NEW c \in Computers, NEW request \in Requests \union {Nothing},
           asked' = [asked EXCEPT ![c] = request],
           IF IsOpen(c, client) THEN Becomes(client, client', Taken, c, request)
                                ELSE client' = client,
           DOMAIN backlog' = DOMAIN backlog, backlog' = [i \in DOMAIN backlog |-> backlog'[i]],
           \A i \in DOMAIN backlog :
               IF IsOpen(c, backlog[i]) THEN Becomes(backlog[i], backlog'[i], <<>>, c, request)
                                        ELSE backlog'[i] = backlog[i],
           Connected(c), UNCHANGED program,
           UNCHANGED <<config, listening, mbState, threadState, event, lost, buffer, bytesLeft,
                       frame, orderCodes>>, calm' = calm
    PROVE  ServerInv'
<1>1. UNCHANGED <<isModbusTcpSlave, peripheral, Running>>
  BY DEF program, Running
<1>2. /\ Requests' = Requests /\ Piece' = Piece /\ ConnectionType' = ConnectionType
      /\ Lines' = Lines /\ Taken' = Taken
  BY SameRequests DEF Taken
<1>3. /\ ConfigTyped /\ ServerTyped /\ StreamsTyped /\ ClientServed /\ BacklogWaits
      /\ EventIsWhole /\ OpenOnce /\ Started
      /\ client \in ConnectionType /\ backlog \in Seq(ConnectionType)
      /\ asked \in [Computers -> Requests \union {Nothing}]
  BY DEF ServerInv, StreamsTyped
<1>4. DOMAIN backlog = 1 .. Len(backlog) /\ Len(backlog) \in Nat
      /\ \A i \in DOMAIN backlog : backlog[i] \in ConnectionType
  BY <1>3, LenProperties, ElementOfSeq
<1>5. backlog' \in Seq(ConnectionType)
  <2>1. backlog' \in [DOMAIN backlog -> ConnectionType]
    BY <1>4 DEF Becomes
  <2> QED BY <1>3, <2>1, MappedSeq
<1>6. client' \in ConnectionType
  BY <1>3 DEF Becomes
<1>7. asked' \in [Computers -> Requests \union {Nothing}]
  BY <1>3
<1>8. StreamsTyped'
  BY <1>2, <1>3, <1>5, <1>6, <1>7 DEF StreamsTyped
<1>9. DOMAIN asked = Computers
  BY <1>3
<1>10. ClientServed'
  <2> SUFFICES ASSUME client' # INVALID_SOCKET
               PROVE  /\ mbState = "ENABLED"
                      /\ Streams(Requests, client', Taken, asked')
                      /\ bytesLeft = BytesLeftFor(buffer)
    BY <1>2 DEF ClientServed, BytesLeftFor
  <2>1. CASE IsOpen(c, client)
    <3>1. client # INVALID_SOCKET
      BY <2>1, ConnectionFields DEF IsOpen
    <3> QED BY <1>3, <2>1, <3>1 DEF ClientServed, Becomes
  <2>2. CASE ~IsOpen(c, client)
    <3>1. Streams(Requests, client, Taken, asked)
      BY <1>3, <2>2 DEF ClientServed
    <3>2. Streams(Requests, client, Taken, [asked EXCEPT ![c] = request])
      BY <1>9, <2>2, <3>1, OtherAsks
    <3> QED BY <1>3, <2>2, <3>2 DEF ClientServed
  <2> QED BY <2>1, <2>2
<1>11. BacklogWaits'
  <2> SUFFICES ASSUME NEW i \in DOMAIN backlog
               PROVE  Streams(Requests, backlog'[i], <<>>, asked')
    BY <1>2 DEF BacklogWaits
  <2>1. CASE IsOpen(c, backlog[i])
    BY <2>1 DEF Becomes
  <2>2. CASE ~IsOpen(c, backlog[i])
    <3>1. Streams(Requests, backlog[i], <<>>, asked)
      BY <1>3 DEF BacklogWaits
    <3>2. Streams(Requests, backlog[i], <<>>, [asked EXCEPT ![c] = request])
      BY <1>9, <2>2, <3>1, OtherAsks
    <3> QED BY <2>2, <3>2
  <2> QED BY <2>1, <2>2
<1>12. EventIsWhole'
  <2>1. client # INVALID_SOCKET => client' # INVALID_SOCKET
    <3>1. CASE IsOpen(c, client)
      <4>1. client'.end # "none"
        BY <3>1 DEF Becomes, Streams
      <4> QED BY <4>1, ConnectionFields
    <3> QED BY <3>1
  <2> QED BY <1>1, <1>2, <1>3, <2>1 DEF EventIsWhole
<1>13. OpenOnce'
  <2>1. \A d \in Computers : IsOpen(d, client') => IsOpen(d, client)
    BY DEF IsOpen, Becomes
  <2>2. \A d \in Computers : \A i \in DOMAIN backlog :
           IsOpen(d, backlog'[i]) => IsOpen(d, backlog[i])
    BY DEF IsOpen, Becomes
  <2>3. ASSUME NEW d \in Computers, asked'[d] # Nothing PROVE Connected(d)'
    <3>1. CASE d = c
      <4>1. request # Nothing
        BY <1>3, <2>3, <3>1
      <4>2. IsOpen(c, client) => IsOpen(c, client')
        BY <4>1 DEF IsOpen, Becomes
      <4>3. \A i \in DOMAIN backlog : IsOpen(c, backlog[i]) => IsOpen(c, backlog'[i])
        BY <4>1 DEF IsOpen, Becomes
      <4> QED BY <3>1, <4>2, <4>3 DEF Connected
    <3>2. CASE d # c
      <4>1. asked[d] # Nothing
        BY <1>3, <2>3, <3>2
      <4>2. IsOpen(d, client) => IsOpen(d, client')
        BY <3>2 DEF IsOpen, Becomes
      <4>3. \A i \in DOMAIN backlog : IsOpen(d, backlog[i]) => IsOpen(d, backlog'[i])
        BY <3>2 DEF IsOpen, Becomes
      <4>4. Connected(d)
        BY <1>3, <4>1 DEF OpenOnce
      <4> QED BY <4>2, <4>3, <4>4 DEF Connected
    <3> QED BY <3>1, <3>2
  <2> QED BY <1>3, <2>1, <2>2, <2>3 DEF OpenOnce
<1>14. ConfigTyped' /\ ServerTyped'
  BY <1>1, <1>2, <1>3 DEF ConfigTyped, ServerTyped
<1>15. Started'
  <2>1. ~Untouched
    <3>1. ~IsOpen(c, INVALID_SOCKET)
      BY ConnectionFields DEF IsOpen
    <3> QED BY <3>1, EmptySeq DEF Untouched, Connected
  <2> QED BY <1>1, <1>3, <2>1 DEF Started
<1> QED BY <1>8, <1>10, <1>11, <1>12, <1>13, <1>14, <1>15 DEF ServerInv

\* A request is sent on a connection on which nothing is on its way.
LEMMA AskStep ==
    ASSUME ServerInv, NEW c \in Computers, NEW request \in RequestsOf(c), Ask(c, request),
           UNCHANGED program
    PROVE  ServerInv'
<1> DEFINE Change(d) == [d EXCEPT !.unread = @ \o Pieces(request)]
<1>1. /\ request \in Requests /\ Connected(c) /\ asked[c] = Nothing
      /\ asked' = [asked EXCEPT ![c] = request]
      /\ client' = (IF IsOpen(c, client) THEN Change(client) ELSE client)
      /\ backlog' = [i \in DOMAIN backlog |->
                        IF IsOpen(c, backlog[i]) THEN Change(backlog[i]) ELSE backlog[i]]
      /\ UNCHANGED <<config, listening, mbState, threadState, event, lost, buffer, bytesLeft,
                     frame, orderCodes>> /\ calm' = calm
  BY DEF Ask, WithOpenConnection, RequestsOf
<1>2. /\ ConfigTyped /\ ClientServed /\ BacklogWaits /\ client \in ConnectionType
      /\ backlog \in Seq(ConnectionType) /\ Taken \in Seq(Piece)
      /\ asked \in [Computers -> Requests \union {Nothing}]
  BY DEF ServerInv, StreamsTyped, Taken
<1>3. ASSUME NEW d \in ConnectionType, NEW taken \in Seq(Piece), IsOpen(c, d),
             Streams(Requests, d, taken, asked)
      PROVE  Becomes(d, Change(d), taken, c, request)
  <2>1. d.of = c /\ d.end = "open" /\ request # Nothing /\ Nothing \notin Requests
    BY <1>1, <1>2, <1>3, RequestsAre DEF IsOpen
  <2>2. /\ d.unread \in Seq(Piece) /\ Len(d.unread) \in Nat /\ Len(taken) \in Nat
    BY ConnectionFields, LenProperties
  <2>3. Len(taken) + Len(d.unread) = 0
    BY <1>1, <1>3, <2>1 DEF Streams
  <2>4. taken = <<>> /\ d.unread = <<>>
    BY <2>2, <2>3, EmptySeq
  <2>5. /\ Pieces(request) \in Seq(Piece) /\ Len(Pieces(request)) = HEADER + BODY
        /\ ArePieces(Pieces(request), request, 0) /\ <<>> \o Pieces(request) = Pieces(request)
    BY <1>1, PiecesOfRequest, ConcatEmptySeq
  <2> DEFINE new == Change(d)
  <2>6. /\ new \in ConnectionType /\ new.of = c /\ new.end = "open"
        /\ new.unread = Pieces(request)
    BY <2>1, <2>4, <2>5 DEF ConnectionType, Piece
  <2> HIDE DEF new
  <2>7. [asked EXCEPT ![c] = request][c] = request
    BY <1>2
  <2>8. Len(<<>>) = 0 /\ 0 + (HEADER + BODY) = HEADER + BODY /\ HEADER + BODY <= HEADER + BODY
    BY EmptySeq, RequestLength
  <2>9. Streams(Requests, new, taken, [asked EXCEPT ![c] = request])
    BY <1>1, <2>4, <2>5, <2>6, <2>7, <2>8, NoPieces DEF Streams
  <2> QED BY <2>1, <2>6, <2>9 DEF Becomes, new
<1>4. IF IsOpen(c, client) THEN Becomes(client, client', Taken, c, request)
                           ELSE client' = client
  <2>1. IsOpen(c, client) => client # INVALID_SOCKET
    BY ConnectionFields DEF IsOpen
  <2> QED BY <1>1, <1>2, <1>3, <2>1 DEF ClientServed
<1>5. \A i \in DOMAIN backlog :
         IF IsOpen(c, backlog[i]) THEN Becomes(backlog[i], backlog'[i], <<>>, c, request)
                                  ELSE backlog'[i] = backlog[i]
  <2>1. \A i \in DOMAIN backlog : backlog[i] \in ConnectionType
    BY <1>2, LenProperties, ElementOfSeq
  <2>2. <<>> \in Seq(Piece)
    BY EmptySeq
  <2> QED BY <1>1, <1>2, <1>3, <2>1, <2>2 DEF BacklogWaits
<1>6. DOMAIN backlog' = DOMAIN backlog /\ backlog' = [i \in DOMAIN backlog |-> backlog'[i]]
  BY <1>1
<1> QED BY <1>1, <1>4, <1>5, <1>6, OnTheWay

\* A connection that ends, and loses what was on its way from some piece on.
LEMMA Ended ==
    ASSUME NEW c \in Computers, asked \in [Computers -> Requests \union {Nothing}],
           NEW d \in ConnectionType, NEW taken \in Seq(Piece),
           Streams(Requests, d, taken, asked),
           NEW end \in {"closed", "vanished"}, NEW unread,
           unread = d.unread \/ \E n \in Nat : unread = FirstPieces(d.unread, n)
    PROVE  Becomes(d, [d EXCEPT !.end = end, !.unread = unread], taken, c, Nothing)
<1> DEFINE new == [d EXCEPT !.end = end, !.unread = unread]
<1>1. d.unread \in Seq(Piece) /\ Len(d.unread) \in Nat /\ Len(taken) \in Nat
  BY ConnectionFields, LenProperties
<1>2. /\ unread \in Seq(Piece) /\ Len(unread) <= Len(d.unread)
      /\ \A request, before : ArePieces(d.unread, request, before)
            => ArePieces(unread, request, before)
  <2>1. CASE unread = d.unread
    BY <1>1, <2>1
  <2>2. ASSUME NEW n \in Nat, unread = FirstPieces(d.unread, n) PROVE <1>2
    BY <1>1, <2>2, FirstPiecesAre
  <2> QED BY <2>1, <2>2
<1>3. Len(unread) \in Nat
  BY <1>2, LenProperties
<1>4. /\ new \in ConnectionType /\ new.of = d.of /\ new.end = end /\ new.unread = unread
  BY <1>2 DEF ConnectionType, Piece
<1> HIDE DEF new
<1>5. PICK request \in Requests :
         /\ ArePieces(taken, request, 0) /\ ArePieces(d.unread, request, Len(taken))
         /\ Len(taken) + Len(d.unread) <= HEADER + BODY
  BY DEF Streams
<1>6. Len(taken) + Len(unread) <= HEADER + BODY
  BY <1>1, <1>2, <1>3, <1>5, RequestLength
<1>7. new.end # "none" /\ new.end # "open"
  BY <1>4
<1>8. ArePieces(new.unread, request, Len(taken))
  BY <1>2, <1>4, <1>5
<1>9. Streams(Requests, new, taken, [asked EXCEPT ![c] = Nothing])
  BY <1>4, <1>5, <1>6, <1>7, <1>8 DEF Streams
<1> QED BY <1>4, <1>9 DEF Becomes, new

\* A computer closes its connection and waits no longer.
LEMMA DisconnectStep ==
    ASSUME ServerInv, NEW c \in Computers, Disconnect(c), UNCHANGED program
    PROVE  ServerInv'
<1> DEFINE Change(d) == [d EXCEPT !.end = "closed"]
<1>1. /\ Connected(c) /\ asked' = [asked EXCEPT ![c] = Nothing]
      /\ client' = (IF IsOpen(c, client) THEN Change(client) ELSE client)
      /\ backlog' = [i \in DOMAIN backlog |->
                        IF IsOpen(c, backlog[i]) THEN Change(backlog[i]) ELSE backlog[i]]
      /\ UNCHANGED <<config, listening, mbState, threadState, event, lost, buffer, bytesLeft,
                     frame, orderCodes>> /\ calm' = calm
  BY DEF Disconnect, WithOpenConnection
<1>2. /\ ClientServed /\ BacklogWaits /\ client \in ConnectionType
      /\ backlog \in Seq(ConnectionType) /\ Taken \in Seq(Piece)
      /\ asked \in [Computers -> Requests \union {Nothing}]
  BY DEF ServerInv, StreamsTyped, Taken
<1>3. ASSUME NEW d \in ConnectionType, NEW taken \in Seq(Piece),
             Streams(Requests, d, taken, asked)
      PROVE  Becomes(d, Change(d), taken, c, Nothing)
  <2>1. Change(d) = [d EXCEPT !.end = "closed", !.unread = d.unread]
    BY DEF ConnectionType
  <2>2. Becomes(d, [d EXCEPT !.end = "closed", !.unread = d.unread], taken, c, Nothing)
    BY <1>2, <1>3, Ended
  <2> QED BY <2>1, <2>2
<1>4. IF IsOpen(c, client) THEN Becomes(client, client', Taken, c, Nothing)
                           ELSE client' = client
  <2>1. IsOpen(c, client) => client # INVALID_SOCKET
    BY ConnectionFields DEF IsOpen
  <2> QED BY <1>1, <1>2, <1>3, <2>1 DEF ClientServed
<1>5. \A i \in DOMAIN backlog :
         IF IsOpen(c, backlog[i]) THEN Becomes(backlog[i], backlog'[i], <<>>, c, Nothing)
                                  ELSE backlog'[i] = backlog[i]
  <2>1. \A i \in DOMAIN backlog : backlog[i] \in ConnectionType
    BY <1>2, LenProperties, ElementOfSeq
  <2>2. <<>> \in Seq(Piece)
    BY EmptySeq
  <2> QED BY <1>1, <1>2, <1>3, <2>1, <2>2 DEF BacklogWaits
<1>6. DOMAIN backlog' = DOMAIN backlog /\ backlog' = [i \in DOMAIN backlog |-> backlog'[i]]
  BY <1>1
<1> QED BY <1>1, <1>4, <1>5, <1>6, OnTheWay

\* A computer vanishes, and with it the end of what it sent.
LEMMA VanishStep ==
    ASSUME ServerInv, NEW c \in Computers, Vanish(c), UNCHANGED program
    PROVE  ServerInv'
<1>1. PICK n \in 0 .. HEADER + BODY :
         WithOpenConnection(c, LAMBDA d :
            [d EXCEPT !.end = "vanished", !.unread = FirstPieces(@, n)])
  BY DEF Vanish
<1> DEFINE Change(d) == [d EXCEPT !.end = "vanished", !.unread = FirstPieces(d.unread, n)]
<1>2. /\ Connected(c) /\ asked' = [asked EXCEPT ![c] = Nothing]
      /\ client' = (IF IsOpen(c, client) THEN Change(client) ELSE client)
      /\ backlog' = [i \in DOMAIN backlog |->
                        IF IsOpen(c, backlog[i]) THEN Change(backlog[i]) ELSE backlog[i]]
      /\ UNCHANGED <<config, listening, mbState, threadState, event, lost, buffer, bytesLeft,
                     frame, orderCodes>> /\ calm' = calm
  BY <1>1 DEF Vanish, WithOpenConnection
<1>3. /\ ClientServed /\ BacklogWaits /\ client \in ConnectionType
      /\ backlog \in Seq(ConnectionType) /\ Taken \in Seq(Piece)
      /\ asked \in [Computers -> Requests \union {Nothing}] /\ n \in Nat
  BY RequestLength DEF ServerInv, StreamsTyped, Taken
<1>4. ASSUME NEW d \in ConnectionType, NEW taken \in Seq(Piece),
             Streams(Requests, d, taken, asked)
      PROVE  Becomes(d, Change(d), taken, c, Nothing)
  BY <1>3, <1>4, Ended
<1>5. IF IsOpen(c, client) THEN Becomes(client, client', Taken, c, Nothing)
                           ELSE client' = client
  <2>1. IsOpen(c, client) => client # INVALID_SOCKET
    BY ConnectionFields DEF IsOpen
  <2> QED BY <1>2, <1>3, <1>4, <2>1 DEF ClientServed
<1>6. \A i \in DOMAIN backlog :
         IF IsOpen(c, backlog[i]) THEN Becomes(backlog[i], backlog'[i], <<>>, c, Nothing)
                                  ELSE backlog'[i] = backlog[i]
  <2>1. \A i \in DOMAIN backlog : backlog[i] \in ConnectionType
    BY <1>3, LenProperties, ElementOfSeq
  <2>2. <<>> \in Seq(Piece)
    BY EmptySeq
  <2> QED BY <1>2, <1>3, <1>4, <2>1, <2>2 DEF BacklogWaits
<1>7. DOMAIN backlog' = DOMAIN backlog /\ backlog' = [i \in DOMAIN backlog |-> backlog'[i]]
  BY <1>2
<1> QED BY <1>2, <1>5, <1>6, <1>7, OnTheWay

-----------------------------------------------------------------------------
(***************************************************************************)
(* What the configuration file is made of.                                 *)
(***************************************************************************)
\* The table after each line: there is an entry for each channel, or it has been
\* overrun.
TableType ==
    {table \in [channels : Nat, descriptors : [Ports -> 0 .. CHANNEL_DESCRIPTION_MAX_LENGTH],
                overrun : BOOLEAN] :
        table.overrun \/ table.channels <= MAX_NUMBER_OF_SERIAL_PORTS}

\* A set of naturals that is not empty has a least element.
LEMMA Least ==
    ASSUME NEW S \in SUBSET Nat, S # {}
    PROVE  \E n \in S : \A m \in S : n <= m
<1> DEFINE R == {pair \in Nat \X Nat : pair[1] < pair[2]}
<1>1. IsWellFoundedOn(R, Nat)
  BY NatLessThanWellFounded DEF OpToRel
<1>2. \A m, n \in Nat : <<m, n>> \in R <=> m < n
  OBVIOUS
<1> HIDE DEF R
<1>3. PICK n \in S : \A m \in S : ~(<<m, n>> \in R)
  BY <1>1, WFMin
<1>4. ASSUME NEW m \in S PROVE n <= m
  <2>1. m \in Nat /\ n \in Nat
    OBVIOUS
  <2>2. ~(m < n)
    BY <1>2, <1>3, <2>1
  <2> QED BY <2>1, <2>2
<1> QED BY <1>4

\* A line leaves a table a table.
LEMMA WithLineTypes ==
    ASSUME NEW table \in TableType, NEW line \in FileLines
    PROVE  WithLine(table, line) \in TableType
<1>1. CASE line.kind # "supply"
  BY <1>1 DEF WithLine
<1>2. CASE line.kind = "supply"
  <2>1. line.id \in Nat /\ line.length \in Nat
    BY <1>2 DEF FileLines, Comment
  <2>2. Descriptor(line) \in 0 .. CHANNEL_DESCRIPTION_MAX_LENGTH
    BY <2>1 DEF Descriptor, CHANNEL_DESCRIPTION_MAX_LENGTH
  <2>3. [table.descriptors EXCEPT ![table.channels] = Descriptor(line)]
           \in [Ports -> 0 .. CHANNEL_DESCRIPTION_MAX_LENGTH]
    BY <2>2 DEF TableType
  <2>4. (IF line.id > 0 THEN table.channels + 1 ELSE table.channels) \in Nat
    BY <2>1 DEF TableType
  <2>5. /\ table.overrun \in BOOLEAN /\ table.channels \in Nat
        /\ table.overrun \/ table.channels <= 16
    BY DEF TableType, MAX_NUMBER_OF_SERIAL_PORTS
  <2>6. \/ table.overrun \/ table.channels \notin Ports
        \/ (IF line.id > 0 THEN table.channels + 1 ELSE table.channels) <= 16
    BY <2>1, <2>5 DEF Ports, MAX_NUMBER_OF_SERIAL_PORTS
  <2> DEFINE channels == IF line.id > 0 THEN table.channels + 1 ELSE table.channels
             descriptors == [table.descriptors EXCEPT ![table.channels] = Descriptor(line)]
             overrun == table.overrun \/ table.channels \notin Ports
  <2>7. WithLine(table, line)
           = [channels |-> channels, descriptors |-> descriptors, overrun |-> overrun]
    BY <1>2 DEF WithLine
  <2>8. overrun \in BOOLEAN /\ (overrun \/ channels <= 16)
    BY <2>5, <2>6
  <2> HIDE DEF channels, descriptors, overrun
  <2> QED
    BY <2>3, <2>4, <2>7, <2>8 DEF TableType, MAX_NUMBER_OF_SERIAL_PORTS, channels, descriptors
<1> QED BY <1>1, <1>2

\* The table after no line, after one, and so on: it exists, and is a table
\* throughout.
LEMMA TableTypes ==
    ASSUME NEW lines \in Seq(FileLines)
    PROVE  Table(lines) \in TableType
<1> DEFINE N == Len(lines)
           After(after) == [n \in 0 .. N |-> IF n = 0 THEN EmptyTable
                                             ELSE WithLine(after[n - 1], lines[n])]
           after == CHOOSE after : after = After(after)
           Tables(m) == {after_ \in [0 .. m -> TableType] :
                            /\ after_[0] = EmptyTable
                            /\ \A n \in 1 .. m : after_[n] = WithLine(after_[n - 1], lines[n])}
<1>1. N \in Nat /\ \A n \in 1 .. N : lines[n] \in FileLines
  BY LenProperties, ElementOfSeq
<1>2. EmptyTable \in TableType
  BY DEF EmptyTable, TableType, CHANNEL_DESCRIPTION_MAX_LENGTH, MAX_NUMBER_OF_SERIAL_PORTS
<1>3. Table(lines) = after[N]
  BY DEF Table
<1> HIDE DEF N
<1>4. \A m \in 0 .. N : Tables(m) # {}
  <2> DEFINE Missing == {m \in 0 .. N : Tables(m) = {}}
  <2> SUFFICES ASSUME Missing # {} PROVE FALSE
    OBVIOUS
  <2>1. PICK m \in Missing : \A k \in Missing : m <= k
    <3>1. Missing \in SUBSET Nat
      BY <1>1
    <3> HIDE DEF Missing
    <3> QED BY <3>1, Least
  <2>2. m \in 0 .. N /\ m \in Nat
    BY <1>1
  <2>3. CASE m = 0
    <3>1. [n \in 0 .. m |-> EmptyTable] \in Tables(m)
      BY <1>2, <2>3
    <3> QED BY <3>1
  <2>4. CASE m # 0
    <3>1. /\ m - 1 \in 0 .. N /\ ~(m <= m - 1) /\ m \in 1 .. N
          /\ \A n \in 0 .. m : n = m \/ n \in 0 .. m - 1
      BY <1>1, <2>2, <2>4
    <3>2. PICK before \in Tables(m - 1) : TRUE
      BY <2>1, <3>1
    <3> DEFINE longer == [n \in 0 .. m |-> IF n = m THEN WithLine(before[m - 1], lines[m])
                                           ELSE before[n]]
    <3>3. WithLine(before[m - 1], lines[m]) \in TableType
      <4>1. before[m - 1] \in TableType
        BY <2>2, <3>1, <3>2
      <4> QED BY <1>1, <3>1, <4>1, WithLineTypes
    <3>4. longer \in [0 .. m -> TableType]
      BY <3>1, <3>2, <3>3
    <3>5. longer[0] = EmptyTable
      BY <2>2, <2>4, <3>1, <3>2
    <3>6. ASSUME NEW n \in 1 .. m PROVE longer[n] = WithLine(longer[n - 1], lines[n])
      <4>1. n - 1 \in 0 .. m - 1 /\ n - 1 # m /\ n - 1 \in 0 .. m /\ n \in 0 .. m
        BY <2>2
      <4>2. longer[n - 1] = before[n - 1]
        BY <4>1
      <4>3. CASE n = m
        BY <4>1, <4>2, <4>3
      <4>4. CASE n # m
        <5>1. n \in 1 .. m - 1
          BY <2>2, <4>4
        <5> QED BY <3>2, <4>1, <4>2, <4>4, <5>1
      <4> QED BY <4>3, <4>4
    <3>7. longer \in Tables(m)
      BY <3>4, <3>5, <3>6
    <3> QED BY <3>7
  <2> QED BY <2>3, <2>4
<1>5. PICK real \in Tables(N) : TRUE
  <2>1. N \in 0 .. N
    BY <1>1
  <2>2. Tables(N) # {}
    BY <1>4, <2>1
  <2> HIDE DEF Tables
  <2> QED BY <2>2
<1>6. real = After(real)
  <2>1. \A n \in 0 .. N : n = 0 \/ n \in 1 .. N
    BY <1>1
  <2> QED BY <1>5, <2>1
<1>7. after = After(after)
  BY <1>6
<1> HIDE DEF after
<1>8. \A n \in 0 .. N : after[n] \in TableType
  <2> DEFINE Wrong == {n \in 0 .. N : after[n] \notin TableType}
  <2> SUFFICES ASSUME Wrong # {} PROVE FALSE
    OBVIOUS
  <2>1. PICK n \in Wrong : \A k \in Wrong : n <= k
    <3>1. Wrong \in SUBSET Nat
      BY <1>1
    <3> HIDE DEF Wrong
    <3> QED BY <3>1, Least
  <2>2. n \in 0 .. N /\ after[n] \notin TableType
    OBVIOUS
  <2>3. n # 0
    BY <1>2, <1>7, <2>2
  <2>4. n - 1 \in 0 .. N /\ ~(n <= n - 1) /\ n \in 1 .. N
    BY <1>1, <2>2, <2>3
  <2>5. after[n - 1] \in TableType
    BY <2>1, <2>4
  <2>6. after[n] = WithLine(after[n - 1], lines[n])
    BY <1>7, <2>2, <2>3
  <2> QED BY <1>1, <2>2, <2>4, <2>5, <2>6, WithLineTypes
<1> QED BY <1>1, <1>3, <1>8

\* What is left of a file behind a line is made of lines.
LEMMA BehindLines ==
    ASSUME NEW lines \in Seq(FileLines), NEW kind
    PROVE  Behind(lines, kind) \in Seq(FileLines)
<1> DEFINE I == {i \in 1 .. Len(lines) : lines[i].kind = kind}
<1>1. Len(lines) \in Nat /\ DOMAIN lines = 1 .. Len(lines)
  BY LenProperties
<1>2. CASE HasLine(lines, kind)
  <2>1. I # {} /\ I \in SUBSET Nat
    BY <1>1, <1>2 DEF HasLine
  <2>2. Min(I) \in I
    <3> HIDE DEF I
    <3>1. \E n \in I : \A m \in I : n <= m
      BY <2>1, Least
    <3> QED BY <3>1 DEF Min
  <2>3. SelectInSeq(lines, LAMBDA line : line.kind = kind) = Min(I)
    BY <2>1 DEF SelectInSeq
  <2>4. Min(I) + 1 \in 1 .. Len(lines) + 1
    BY <1>1, <2>2
  <2> HIDE DEF I
  <2>5. SubSeq(lines, Min(I) + 1, Len(lines)) \in Seq(FileLines)
    BY <1>1, <2>4, SubSeqProperties
  <2> QED BY <1>2, <2>3, <2>5 DEF Behind
<1>3. CASE ~HasLine(lines, kind)
  BY <1>3, EmptySeq DEF Behind
<1> QED BY <1>2, <1>3

\* What a file that is accepted is made into.
LEMMA ParsedIs ==
    ASSUME NEW file \in Seq(FileLines), NEW parsed \in ParsedFile(file), parsed.accepted
    PROVE  /\ parsed.isLocal \in BOOLEAN
           /\ parsed.channels \in Nat
           /\ ~TableOf(file).overrun => parsed.channels <= MAX_NUMBER_OF_SERIAL_PORTS
           /\ parsed.isLocal => parsed.channels # 0
           /\ parsed.lengths \in [Ports -> 0 .. CHANNEL_DESCRIPTION_MAX_LENGTH + 2]
           /\ \A port \in Ports : \E length \in Nat : parsed.lengths[port] = Padded(length)
<1> DEFINE lines == Behind(Behind(file, "mode"), "port")
<1>1. lines \in Seq(FileLines) /\ TableOf(file) = Table(lines)
  BY BehindLines DEF TableOf
<1>2. \/ parsed = Rejected
      \/ parsed \in LocalConfigurations(lines)
      \/ parsed \in RemoteConfigurations(lines)
  BY DEF ParsedFile
<1> HIDE DEF lines
<1>3. parsed # Rejected
  BY DEF Rejected
<1>4. CASE parsed \in LocalConfigurations(lines)
  <2> DEFINE table == Table(lines)
             lengths == [port \in Ports |-> Padded(table.descriptors[port])]
  <2>1. /\ table.channels \in Nat
        /\ ~TableOf(file).overrun => table.channels <= MAX_NUMBER_OF_SERIAL_PORTS
        /\ \A port \in Ports :
              table.descriptors[port] \in 0 .. CHANNEL_DESCRIPTION_MAX_LENGTH
    BY <1>1, TableTypes DEF TableType
  <2>2. /\ parsed = [accepted |-> TRUE, isLocal |-> TRUE, channels |-> table.channels,
                     lengths |-> lengths]
        /\ table.channels # 0
    BY <1>3, <1>4 DEF LocalConfigurations
  <2> HIDE DEF table
  <2>3. ASSUME NEW port \in Ports
        PROVE  /\ lengths[port] \in 0 .. CHANNEL_DESCRIPTION_MAX_LENGTH + 2
               /\ \E length \in Nat : lengths[port] = Padded(length)
    <3>1. PICK length \in 0 .. CHANNEL_DESCRIPTION_MAX_LENGTH :
             lengths[port] = Padded(length)
      BY <2>1
    <3>2. Padded(length) \in 0 .. CHANNEL_DESCRIPTION_MAX_LENGTH + 2 /\ length \in Nat
      BY DEF Padded, CHANNEL_DESCRIPTION_MAX_LENGTH
    <3> QED BY <3>1, <3>2
  <2> HIDE DEF lengths
  <2>4. lengths \in [Ports -> 0 .. CHANNEL_DESCRIPTION_MAX_LENGTH + 2]
    BY <2>3 DEF lengths
  <2> QED BY <2>1, <2>2, <2>3, <2>4
<1>5. CASE parsed \in RemoteConfigurations(lines)
  <2>1. parsed = [accepted |-> TRUE, isLocal |-> FALSE, channels |-> 0,
                  lengths |-> [port \in Ports |-> 0]]
    BY <1>3, <1>5 DEF RemoteConfigurations
  <2>2. Padded(0) = 0
    BY DEF Padded
  <2> QED BY <2>1, <2>2 DEF CHANNEL_DESCRIPTION_MAX_LENGTH, MAX_NUMBER_OF_SERIAL_PORTS
<1> QED BY <1>2, <1>3, <1>4, <1>5

\* Parsing comes before anything is done with the server.
LEMMA ParsingStep ==
    ASSUME ServerInv, configurationFileParsing
    PROVE  ServerInv'
<1>1. /\ peripheral = "parsing" /\ peripheral' \in {"initializing", "returned"}
      /\ UNCHANGED <<listening, mbState, threadState, event, client, lost, buffer, bytesLeft,
                     frame, backlog, asked, calm, Running>>
  BY DEF configurationFileParsing, GiveUp, Running
<1>2. /\ Untouched /\ ConfigTyped /\ ServerTyped /\ StreamsTyped
  BY <1>1 DEF ServerInv, Started
<1>3. /\ ConfigTyped'
      /\ orderCodes' \in [Lines' -> {RTU_ORDER_NONE, "power", "set value"}]
  <2>0. PICK file \in Files : \E parsed \in ParsedFile(file) \union {Rejected} :
           IF parsed.accepted
           THEN /\ isModbusTcpSlave' = parsed.isLocal
                /\ config' = [channels |-> parsed.channels, lengths |-> parsed.lengths]
                /\ orderCodes' = [line \in 1 .. parsed.channels |-> RTU_ORDER_NONE]
           ELSE UNCHANGED <<isModbusTcpSlave, config, orderCodes>>
    BY DEF configurationFileParsing
  <2>1. PICK parsed \in ParsedFile(file) \union {Rejected} :
           IF parsed.accepted
           THEN /\ isModbusTcpSlave' = parsed.isLocal
                /\ config' = [channels |-> parsed.channels, lengths |-> parsed.lengths]
                /\ orderCodes' = [line \in 1 .. parsed.channels |-> RTU_ORDER_NONE]
           ELSE UNCHANGED <<isModbusTcpSlave, config, orderCodes>>
    BY <2>0
  <2>2. CASE parsed.accepted
    <3>1. parsed # Rejected
      BY <2>2 DEF Rejected
    <3>2. file \in Seq(FileLines)
      BY FilesAssumption
    <3>3. /\ parsed.isLocal \in BOOLEAN /\ parsed.channels \in Nat
          /\ parsed.lengths \in [Ports -> 0 .. CHANNEL_DESCRIPTION_MAX_LENGTH + 2]
      BY <2>2, <3>1, <3>2, ParsedIs
    <3>4. 0 .. CHANNEL_DESCRIPTION_MAX_LENGTH + 2 \subseteq Nat
      BY DEF CHANNEL_DESCRIPTION_MAX_LENGTH
    <3>5. parsed.lengths \in [Ports -> Nat]
      BY <3>3, <3>4
    <3>6. config'.channels = parsed.channels
      BY <2>1, <2>2
    <3>7. Lines' = 1 .. parsed.channels
      BY <3>6 DEF Lines
    <3>8. ConfigTyped'
      BY <2>1, <2>2, <3>3, <3>5 DEF ConfigTyped
    <3>9. orderCodes' = [line \in Lines' |-> RTU_ORDER_NONE]
      BY <2>1, <2>2, <3>7
    <3> QED BY <3>8, <3>9
  <2>3. CASE ~parsed.accepted
    BY <1>2, <2>1, <2>3 DEF ConfigTyped, ServerTyped, Lines
  <2> QED BY <2>2, <2>3
<1>4. ServerTyped'
  BY <1>1, <1>2, <1>3 DEF ServerTyped
<1>5. StreamsTyped'
  BY <1>1, <1>2, EmptySeq, RequestLength, ConnectionFields
     DEF Untouched, StreamsTyped, ConnectionType, INVALID_SOCKET
<1>6. ClientServed' /\ BacklogWaits' /\ EventIsWhole'
  BY <1>1, <1>2, EmptySeq DEF Untouched, ClientServed, BacklogWaits, EventIsWhole
<1>7. OpenOnce'
  BY <1>1 DEF ServerInv, OpenOnce, Connected
<1>8. Started'
  BY <1>1, <1>2 DEF Started, Untouched
<1> QED BY <1>3, <1>4, <1>5, <1>6, <1>7, <1>8 DEF ServerInv

-----------------------------------------------------------------------------
(***************************************************************************)
(* The registers of the server, for any configuration.                     *)
(***************************************************************************)
\* Where the addresses of the sectors, of the lengths and of the texts are: the
\* texts begin behind the sectors of as many channels as there can be.
LEMMA SectorAddresses ==
    ASSUME NEW sector \in Nat, NEW offset \in Nat, sector <= 16, offset < 100
    PROVE  LET address == SectorAddress(sector) + offset IN
           /\ address \in Nat
           /\ address >= TCP_SERVER_START_ADDRESS
           /\ address < TCP_SERVER_DESCRIPTION_LENGTHS_ADDRESS
           /\ Sector(address) = sector
           /\ Offset(address) = offset
  BY SMT DEF SectorAddress, Sector, Offset, TCP_SERVER_START_ADDRESS,
         TCP_SERVER_SECTOR_ADDRESS_STEP, TCP_SERVER_DESCRIPTION_LENGTHS_ADDRESS

\* Each text has the addresses behind those of the text before.
LEMMA TextAddresses ==
    ASSUME NEW port \in Nat, port <= 15
    PROVE  /\ TextAddress(port) \in Nat
           /\ TextAddress(port) >= FirstText
           /\ Text(TextAddress(port)) = port
           /\ TextOffset(TextAddress(port)) = 0
  BY SMT DEF TextAddress, Text, TextOffset, FirstText,
         TCP_SERVER_DESCRIPTION_ADDRESS_STEP, TCP_SERVER_DESCRIPTION_LENGTHS_ADDRESS

\* The lengths lie between the sectors and the texts.
LEMMA Bounds ==
    /\ TCP_SERVER_DESCRIPTION_LENGTHS_ADDRESS \in Nat
    /\ FirstText \in Nat
    /\ TCP_SERVER_DESCRIPTION_LENGTHS_ADDRESS + 16 < FirstText
  BY SMT DEF FirstText, TCP_SERVER_DESCRIPTION_LENGTHS_ADDRESS,
     TCP_SERVER_DESCRIPTION_ADDRESS_STEP

\* The fields of the requests.
LEMMA Fields ==
    /\ \A address, count : /\ Read(address, count).function = 3
                           /\ Read(address, count).address = address
                           /\ Read(address, count).count = count
    /\ \A address : /\ Write(address).function = 6
                    /\ Write(address).address = address
                    /\ Write(address).count = 1
  BY DEF Read, Write

\* A sector is read from its first register to its last.
LEMMA SectorIsRead ==
    ASSUME NEW conf \in Configurations, NEW sector \in 0 .. conf.channels,
           NEW request, request = Read(SectorAddress(sector), READING_TCP_REGISTERS_NUMBER)
    PROVE  Granted(conf, request, Served(conf, request))
<1> DEFINE address == SectorAddress(sector)
<1>1. conf.channels \in Nat /\ conf.channels <= 16 /\ sector \in Nat /\ sector <= 16
  BY SMT DEF Configurations, MAX_NUMBER_OF_SERIAL_PORTS
<1>2. /\ address \in Nat
      /\ address < TCP_SERVER_DESCRIPTION_LENGTHS_ADDRESS
      /\ Sector(address) = sector
      /\ Offset(address) = 0
  <2>1. address + 0 = address
    BY SMT, <1>1 DEF SectorAddress, TCP_SERVER_START_ADDRESS, TCP_SERVER_SECTOR_ADDRESS_STEP
  <2> QED
    BY SMT, <1>1, <2>1, SectorAddresses
<1>3. InSectors(conf, address)
  BY SMT, <1>1 DEF InSectors, SectorAddress, TCP_SERVER_START_ADDRESS,
     TCP_SERVER_SECTOR_ADDRESS_STEP, MODBUS_TCP_SECTOR_SIZE
<1> HIDE DEF address
<1>4. request.function = 3 /\ request.address = address /\ request.count = 22
  BY Fields DEF READING_TCP_REGISTERS_NUMBER, address
<1>5. request = [function |-> 3, address |-> address, count |-> 22]
  BY DEF Read, READING_TCP_REGISTERS_NUMBER, address
<1>6. ReadSector(address, 22) = Answer("sector", sector, 0, 22)
  BY SMT, <1>2 DEF ReadSector, MODBUS_TCP_SECTOR_SIZE
<1>7. eMBRegHoldingCB(conf, request) = ReadSector(address, 22)
  BY <1>3, <1>4 DEF eMBRegHoldingCB
<1>8. Served(conf, request) = eMBRegHoldingCB(conf, request)
  <2>1. 22 % 256 = 22 /\ 22 \in 1 .. 125
    BY SMT
  <2>2. [request EXCEPT !.count = @ % 256] = request
    BY <1>5, <2>1
  <2> QED
    BY <1>4, <2>1, <2>2 DEF Served, MB_PDU_FUNC_READ_REGCNT_MAX
<1>9. Addressed(request) = Answer("sector", sector, 0, 22)
  <2>1. /\ address < TCP_SERVER_DESCRIPTION_LENGTHS_ADDRESS
        /\ address \notin TCP_SERVER_DESCRIPTION_LENGTHS_ADDRESS .. FirstText - 1
    BY SMT, <1>2, Bounds
  <2> QED
    BY <1>2, <1>4, <2>1 DEF Addressed
<1> QED
  BY SMT, <1>6, <1>7, <1>8, <1>9 DEF Granted, Answer, MODBUS_TCP_SECTOR_SIZE

\* The order registers of a channel, and no others, are written.
LEMMA OrderIsWritten ==
    ASSUME NEW conf \in Configurations, NEW sector \in 1 .. conf.channels,
           NEW offset \in {MODBUS_TCP_ADDRESS_ORDER_CODE, MODBUS_TCP_ADDRESS_ORDER_VALUE},
           NEW request, request = Write(SectorAddress(sector) + offset)
    PROVE  Granted(conf, request, Served(conf, request))
<1> DEFINE address == SectorAddress(sector) + offset
<1>1. /\ conf.channels \in Nat /\ conf.channels <= 16
      /\ sector \in Nat /\ sector <= 16 /\ sector # 0
      /\ offset \in Nat /\ offset < 22
  BY SMT DEF Configurations, MAX_NUMBER_OF_SERIAL_PORTS, MODBUS_TCP_ADDRESS_ORDER_CODE,
     MODBUS_TCP_ADDRESS_ORDER_VALUE
<1>2. /\ address \in Nat
      /\ address < TCP_SERVER_DESCRIPTION_LENGTHS_ADDRESS
      /\ Sector(address) = sector
      /\ Offset(address) = offset
  BY SMT, <1>1, SectorAddresses
<1>3. InSectors(conf, address)
  BY SMT, <1>1 DEF InSectors, SectorAddress, TCP_SERVER_START_ADDRESS,
     TCP_SERVER_SECTOR_ADDRESS_STEP, MODBUS_TCP_SECTOR_SIZE
<1> HIDE DEF address
<1>4. request.function = 6 /\ request.address = address /\ request.count = 1
  BY Fields DEF address
<1>5. WriteSector(address) = Answer("sector", sector, offset, 1)
  BY <1>1, <1>2 DEF WriteSector
<1>6. Served(conf, request) = WriteSector(address)
  BY <1>3, <1>4 DEF Served, eMBRegHoldingCB
<1>7. Addressed(request) = Answer("sector", sector, offset, 1)
  <2>1. /\ address < TCP_SERVER_DESCRIPTION_LENGTHS_ADDRESS
        /\ address \notin TCP_SERVER_DESCRIPTION_LENGTHS_ADDRESS .. FirstText - 1
    BY SMT, <1>2, Bounds
  <2> QED
    BY <1>2, <1>4, <2>1 DEF Addressed
<1> QED
  BY SMT, <1>1, <1>5, <1>6, <1>7 DEF Granted, Answer, MODBUS_TCP_SECTOR_SIZE

\* Behind the sectors of every channel there may be.
LEMMA BehindSectors ==
    ASSUME NEW conf \in Configurations, NEW address \in Nat,
           address >= TCP_SERVER_DESCRIPTION_LENGTHS_ADDRESS
    PROVE  ~InSectors(conf, address)
<1>1. conf.channels \in Nat /\ conf.channels <= 16
  BY SMT DEF Configurations, MAX_NUMBER_OF_SERIAL_PORTS
<1> QED
  BY SMT, <1>1 DEF InSectors, TCP_SERVER_START_ADDRESS, TCP_SERVER_SECTOR_ADDRESS_STEP,
     MODBUS_TCP_SECTOR_SIZE, TCP_SERVER_DESCRIPTION_LENGTHS_ADDRESS

\* The lengths of all descriptions are read at once.
LEMMA LengthsAreRead ==
    ASSUME NEW conf \in Configurations, NEW request,
           request = Read(TCP_SERVER_DESCRIPTION_LENGTHS_ADDRESS, MAX_NUMBER_OF_SERIAL_PORTS)
    PROVE  Granted(conf, request, Served(conf, request))
<1> DEFINE address == TCP_SERVER_DESCRIPTION_LENGTHS_ADDRESS
<1>1. request = [function |-> 3, address |-> address, count |-> 16]
  BY DEF Read, MAX_NUMBER_OF_SERIAL_PORTS
<1>2. request.function = 3 /\ request.address = address /\ request.count = 16
  BY <1>1
<1>3. ~InSectors(conf, address) /\ address \in Nat /\ address >= address
      /\ address + 16 <= address + MAX_NUMBER_OF_SERIAL_PORTS
  BY SMT, BehindSectors, Bounds DEF MAX_NUMBER_OF_SERIAL_PORTS
<1>4. eMBRegHoldingCB(conf, request) = Answer("lengths", 0, 0, 16)
  BY <1>2, <1>3 DEF eMBRegHoldingCB, ReadLengths
<1>5. Served(conf, request) = eMBRegHoldingCB(conf, request)
  <2>1. 16 % 256 = 16 /\ 16 \in 1 .. 125
    BY SMT
  <2>2. [request EXCEPT !.count = @ % 256] = request
    BY <1>1, <2>1
  <2> QED
    BY <1>2, <2>1, <2>2 DEF Served, MB_PDU_FUNC_READ_REGCNT_MAX
<1>6. Addressed(request) = Answer("lengths", 0, 0, 16)
  <2>1. /\ ~(address < TCP_SERVER_DESCRIPTION_LENGTHS_ADDRESS)
        /\ address \in TCP_SERVER_DESCRIPTION_LENGTHS_ADDRESS .. FirstText - 1
        /\ address - TCP_SERVER_DESCRIPTION_LENGTHS_ADDRESS = 0
    BY SMT, Bounds
  <2> QED
    BY <1>2, <2>1 DEF Addressed
<1> QED
  BY <1>4, <1>5, <1>6 DEF Granted, Answer

\* A text is read as long as its length says.
LEMMA TextIsRead ==
    ASSUME NEW conf \in Configurations, NEW port \in TextsAskedFor(conf),
           conf.lengths[port] % 2 = 0,
           NEW request, request = Read(TextAddress(port), conf.lengths[port] \div 2)
    PROVE  Granted(conf, request, Served(conf, request))
<1> DEFINE address == TextAddress(port)
           length == conf.lengths[port]
           count == length \div 2
<1>1. port \in Nat /\ port <= 15 /\ port \in Ports
  BY SMT DEF TextsAskedFor, Ports, MAX_NUMBER_OF_SERIAL_PORTS
<1>2. length \in Nat /\ length >= 1 /\ length <= 99
  BY SMT DEF TextsAskedFor, CHANNEL_DESCRIPTION_MAX_LENGTH
<1>3. count \in Nat /\ 2 * count = length /\ count >= 1 /\ count <= 49
  BY SMT, <1>2
<1>4. /\ address \in Nat /\ address >= FirstText
      /\ Text(address) = port /\ TextOffset(address) = 0
  BY <1>1, TextAddresses
<1>5. request = [function |-> 3, address |-> address, count |-> count]
  BY DEF Read
<1> HIDE DEF address, length, count
<1>6. request.function = 3 /\ request.address = address /\ request.count = count
  BY <1>5
<1>7. /\ address >= TCP_SERVER_DESCRIPTION_LENGTHS_ADDRESS
      /\ ~(address + count <= TCP_SERVER_DESCRIPTION_LENGTHS_ADDRESS + 16)
      /\ ~(address < TCP_SERVER_DESCRIPTION_LENGTHS_ADDRESS)
      /\ address \notin TCP_SERVER_DESCRIPTION_LENGTHS_ADDRESS .. FirstText - 1
  BY SMT, <1>3, <1>4, Bounds
<1>8. ~InSectors(conf, address)
  BY <1>4, <1>7, BehindSectors
<1>9. ReadText(conf, address, count) = Answer("text", port, 0, count)
  <2>1. 2 * (TextOffset(address) + count) <= length
    BY SMT, <1>2, <1>3, <1>4
  <2> QED
    BY <1>1, <1>4, <2>1 DEF ReadText, length
<1>10. eMBRegHoldingCB(conf, request) = ReadText(conf, address, count)
  BY <1>6, <1>7, <1>8 DEF eMBRegHoldingCB, MAX_NUMBER_OF_SERIAL_PORTS
<1>11. Served(conf, request) = eMBRegHoldingCB(conf, request)
  <2>1. count % 256 = count /\ count \in 1 .. 125
    BY SMT, <1>3
  <2>2. [request EXCEPT !.count = @ % 256] = request
    BY <1>5, <2>1
  <2> QED
    BY <1>6, <2>1, <2>2 DEF Served, MB_PDU_FUNC_READ_REGCNT_MAX
<1>12. Addressed(request) = Answer("text", port, 0, count)
  BY <1>4, <1>6, <1>7 DEF Addressed
<1> QED
  BY <1>3, <1>9, <1>10, <1>11, <1>12 DEF Granted, Answer, length

\* A padded text fills whole registers.
LEMMA PaddedIsEven == ASSUME NEW length \in Nat PROVE Padded(length) % 2 = 0
<1>1. PICK half \in Int : (length + 2) \div 2 = half
  BY SMT
<1>2. (2 * half) % 2 = 0 /\ 0 % 2 = 0
  BY SMT
<1> QED
  BY <1>1, <1>2 DEF Padded

\* Whatever the number of channels and the lengths of their descriptions: nothing
\* a remote computer asks for is refused, and the answer has the registers it
\* means (eMBRegHoldingCB).
THEOREM ClientIsServed ==
    ASSUME NEW conf \in Configurations,
           \A port \in Ports : \E length \in Nat : conf.lengths[port] = Padded(length),
           NEW request \in ClientRequests(conf)
    PROVE  Granted(conf, request, Served(conf, request))
<1>0. conf.channels \in Nat /\ 0 \in 0 .. conf.channels
  BY SMT DEF Configurations
<1>1. CASE request \in RunUpRequests(conf)
  <2>1. CASE request = Read(SectorAddress(0), READING_TCP_REGISTERS_NUMBER)
    BY <1>0, <2>1, SectorIsRead
  <2>2. CASE request = Read(TCP_SERVER_DESCRIPTION_LENGTHS_ADDRESS, MAX_NUMBER_OF_SERIAL_PORTS)
    BY <2>2, LengthsAreRead
  <2>3. ASSUME NEW port \in TextsAskedFor(conf),
               request = Read(TextAddress(port), conf.lengths[port] \div 2)
        PROVE  Granted(conf, request, Served(conf, request))
    <3>1. port \in Ports
      BY DEF TextsAskedFor
    <3>2. conf.lengths[port] % 2 = 0
      BY <3>1, PaddedIsEven
    <3> QED
      BY <2>3, <3>2, TextIsRead
  <2> QED
    BY <1>1, <2>1, <2>2, <2>3 DEF RunUpRequests
<1>2. CASE request \in RunTimeRequests(conf)
  <2>1. ASSUME NEW sector \in 0 .. conf.channels,
               request = Read(SectorAddress(sector), READING_TCP_REGISTERS_NUMBER)
        PROVE  Granted(conf, request, Served(conf, request))
    BY <2>1, SectorIsRead
  <2>2. ASSUME NEW sector \in 1 .. conf.channels,
               NEW offset \in {MODBUS_TCP_ADDRESS_ORDER_CODE, MODBUS_TCP_ADDRESS_ORDER_VALUE},
               request = Write(SectorAddress(sector) + offset)
        PROVE  Granted(conf, request, Served(conf, request))
    BY <2>2, OrderIsWritten
  <2> QED
    BY <1>2, <2>1, <2>2 DEF RunTimeRequests
<1> QED
  BY <1>1, <1>2 DEF ClientRequests

-----------------------------------------------------------------------------
(***************************************************************************)
(* The theorems.                                                           *)
(***************************************************************************)
LEMMA InitServerInv == Init => ServerInv
<1> SUFFICES ASSUME Init PROVE ServerInv
  OBVIOUS
<1>1. /\ Untouched /\ peripheral = "parsing" /\ isModbusTcpSlave = FALSE /\ calm = FALSE
      /\ config = NoConfig /\ orderCodes = <<>>
  BY DEF Init, InitServer, Untouched
<1>2. ConfigTyped
  <2>1. [port \in Ports |-> 0] \in [Ports -> Nat]
    OBVIOUS
  <2> QED BY <1>1, <2>1 DEF ConfigTyped, NoConfig
<1>3. ServerTyped
  <2> DEFINE Codes == {RTU_ORDER_NONE, "power", "set value"}
  <2>1. <<>> \in Seq(Codes) /\ Len(<<>>) = 0
    BY EmptySeq
  <2>2. <<>> \in [1 .. 0 -> Codes]
    BY <2>1, LenProperties
  <2>3. Lines = 1 .. 0
    BY <1>1 DEF Lines, NoConfig
  <2> QED BY <1>1, <2>2, <2>3 DEF ServerTyped, Untouched
<1>4. StreamsTyped
  BY <1>1, EmptySeq, RequestLength, ConnectionFields DEF Untouched, StreamsTyped
<1>5. ClientServed /\ BacklogWaits /\ EventIsWhole
  BY <1>1, EmptySeq DEF Untouched, ClientServed, BacklogWaits, EventIsWhole
<1>6. OpenOnce
  <2>1. \A c \in Computers : asked[c] = Nothing /\ ~IsOpen(c, client)
    BY <1>1, ConnectionFields DEF IsOpen, Untouched
  <2> QED BY <1>1, <2>1, EmptySeq DEF OpenOnce, Untouched
<1>7. Started
  BY <1>1 DEF Started, Untouched
<1> QED BY <1>2, <1>3, <1>4, <1>5, <1>6, <1>7 DEF ServerInv

\* Every step keeps the invariant of the server.
LEMMA NextServerInv == ServerInv /\ [Next]_vars => ServerInv'
<1> SUFFICES ASSUME ServerInv, [Next]_vars PROVE ServerInv'
  OBVIOUS
<1>1. CASE Running /\ PeripheralThread
  BY <1>1, ParsingStep, StartServerStep, QuietSteps DEF PeripheralThread
<1>2. CASE Running /\ PollingThread /\ UNCHANGED program
  BY <1>2, StartPollingStep, AcceptStep, AcceptFailsStep, ReceiveStep, ClientIsGoneStep,
     TakeRequestStep, ExecuteStep DEF PollingThread
<1>3. CASE CloseWindow
  BY <1>3, CloseWindowStep
<1>4. CASE Exit
  BY <1>4, ExitStep
<1>5. ASSUME NEW c \in Computers, RemoteComputer(c), UNCHANGED program
      PROVE  ServerInv'
  BY <1>5, ConnectStep, AskStep, DisconnectStep, VanishStep DEF RemoteComputer
<1>6. CASE CalmDown \/ UNCHANGED vars
  BY <1>6, QuietSteps
<1> QED BY <1>1, <1>2, <1>3, <1>4, <1>5, <1>6 DEF Next

\* The invariant of the server holds throughout.
LEMMA ServerAlways == Spec => []ServerInv
  BY InitServerInv, NextServerInv, PTL DEF Spec

\* Whatever the number of computers and the length of a request, however requests
\* are torn apart, given up or cut off: what the server puts together is the
\* beginning of one request, of the one that is waited for, and whole when it is
\* executed (xMBPortTCPPool, prvbMBPortAcceptClient).
THEOREM RequestsAreWhole == Spec => []RequestIsWhole
<1>1. ServerInv => RequestIsWhole
  <2> SUFFICES ASSUME ServerInv, client # INVALID_SOCKET, Taken # <<>>
               PROVE  /\ Taken = SubSeq(Pieces(Taken[1].request), 1, Len(Taken))
                      /\ client.end = "open" => asked[client.of] = Taken[1].request
                      /\ event # "none" => Len(Taken) = HEADER + BODY
    BY DEF RequestIsWhole, Taken
  <2>1. Taken \in Seq(Piece) /\ client.unread \in Seq(Piece) /\ client \in ConnectionType
    BY ConnectionFields DEF ServerInv, StreamsTyped, Taken
  <2>2. /\ Len(Taken) \in Nat /\ Len(client.unread) \in Nat /\ Len(Taken) # 0
        /\ DOMAIN Taken = 1 .. Len(Taken) /\ 1 \in DOMAIN Taken
    BY <2>1, EmptySeq, LenProperties
  <2>3. PICK request \in Requests :
           /\ ArePieces(Taken, request, 0)
           /\ Len(Taken) + Len(client.unread) <= HEADER + BODY
           /\ client.end = "open" =>
                 \/ Len(Taken) + Len(client.unread) = 0
                 \/ asked[client.of] = request
    BY DEF ServerInv, ClientServed, Streams
  <2>4. Taken[1].request = request
    BY <2>2, <2>3 DEF ArePieces
  <2>5. Len(Taken) \in 1 .. HEADER + BODY /\ Len(Taken) + Len(client.unread) # 0
    BY <2>2, <2>3, RequestLength
  <2>6. Taken = SubSeq(Pieces(request), 1, Len(Taken))
    <3> DEFINE first == SubSeq(Pieces(request), 1, Len(Taken))
    <3>1. /\ Pieces(request) \in Seq(Piece) /\ Len(Pieces(request)) = HEADER + BODY
          /\ ArePieces(Pieces(request), request, 0)
          /\ DOMAIN Pieces(request) = 1 .. HEADER + BODY
      BY PiecesOfRequest, LenProperties
    <3>2. /\ first \in Seq(Piece) /\ Len(first) = Len(Taken)
          /\ \A i \in 1 .. Len(Taken) : first[i] = Pieces(request)[i]
      BY <2>2, <2>5, <3>1, RequestLength, SubSeqProperties
    <3>3. \A i \in 1 .. Len(Taken) : i \in 1 .. HEADER + BODY
      BY <2>5, RequestLength
    <3>4. \A i \in 1 .. Len(Taken) : Taken[i] = first[i]
      BY <2>2, <2>3, <3>1, <3>2, <3>3 DEF ArePieces
    <3> HIDE DEF first
    <3>5. Taken = first
      BY <2>1, <3>2, <3>4, SeqEqual
    <3> QED BY <3>5 DEF first
  <2>7. event # "none" => Len(Taken) = HEADER + BODY
    BY DEF ServerInv, EventIsWhole
  <2> QED BY <2>3, <2>4, <2>5, <2>6, <2>7
<1> QED BY <1>1, ServerAlways, PTL

\* All that this computer waits for is at hand: part of it taken, the rest unread.
AtHand(c, connection, taken) ==
    /\ IsOpen(c, connection)
    /\ Len(taken) + Len(connection.unread) = HEADER + BODY
    /\ ArePieces(taken, asked[c], 0)
    /\ ArePieces(connection.unread, asked[c], Len(taken))

\* The safety half of WaitingIsAnswered: no piece of a request is lost while its
\* sender waits, neither in the backlog nor in the buffer nor in the frame, so
\* that an answer can only be late because the server is not free for it.
THEOREM NoPieceIsLost ==
    Spec => [](\A c \in Computers : asked[c] # Nothing =>
                  \/ AtHand(c, client, Taken)
                  \/ \E i \in DOMAIN backlog : AtHand(c, backlog[i], <<>>))
<1>1. ASSUME ServerInv, NEW c \in Computers, asked[c] # Nothing
      PROVE  \/ AtHand(c, client, Taken)
             \/ \E i \in DOMAIN backlog : AtHand(c, backlog[i], <<>>)
  <2>1. ASSUME NEW connection, NEW taken, IsOpen(c, connection),
               Streams(Requests, connection, taken, asked)
        PROVE  AtHand(c, connection, taken)
    <3>1. connection.end = "open" /\ connection.of = c
      BY <2>1 DEF IsOpen
    <3> QED BY <1>1, <2>1, <3>1 DEF Streams, AtHand
  <2>2. CASE IsOpen(c, client)
    <3>1. client # INVALID_SOCKET
      BY <2>2, ConnectionFields DEF IsOpen
    <3> QED BY <1>1, <2>1, <2>2, <3>1 DEF ServerInv, ClientServed
  <2>3. ASSUME NEW i \in DOMAIN backlog, IsOpen(c, backlog[i])
        PROVE  AtHand(c, backlog[i], <<>>)
    BY <1>1, <2>1, <2>3 DEF ServerInv, BacklogWaits
  <2> QED BY <1>1, <2>2, <2>3 DEF ServerInv, OpenOnce, Connected
<1>2. ServerInv => \A c \in Computers : asked[c] # Nothing =>
                      \/ AtHand(c, client, Taken)
                      \/ \E i \in DOMAIN backlog : AtHand(c, backlog[i], <<>>)
  BY <1>1
<1> QED BY <1>2, ServerAlways, PTL

\* The lengths are those of padded descriptions, and a server has a channel.
ConfigFits ==
    /\ config.lengths \in [Ports -> 0 .. CHANNEL_DESCRIPTION_MAX_LENGTH + 2]
    /\ \A port \in Ports : \E length \in Nat : config.lengths[port] = Padded(length)
    /\ config.channels <= MAX_NUMBER_OF_SERIAL_PORTS
    /\ isModbusTcpSlave => config.channels # 0

\* A parsed configuration fits the tables.
LEMMA ParsingFits ==
    ASSUME SixteenAtMost, ConfigFits, configurationFileParsing
    PROVE  ConfigFits'
<1>1. PICK file \in Files : \E parsed \in ParsedFile(file) \union {Rejected} :
         IF parsed.accepted
         THEN /\ isModbusTcpSlave' = parsed.isLocal
              /\ config' = [channels |-> parsed.channels, lengths |-> parsed.lengths]
         ELSE UNCHANGED <<isModbusTcpSlave, config>>
  BY DEF configurationFileParsing
<1>2. PICK parsed \in ParsedFile(file) \union {Rejected} :
         IF parsed.accepted
         THEN /\ isModbusTcpSlave' = parsed.isLocal
              /\ config' = [channels |-> parsed.channels, lengths |-> parsed.lengths]
         ELSE UNCHANGED <<isModbusTcpSlave, config>>
  BY <1>1
<1>3. CASE parsed.accepted
  <2>1. parsed \in ParsedFile(file)
    BY <1>3 DEF Rejected
  <2>2. file \in Seq(FileLines)
    BY FilesAssumption
  <2>3. /\ parsed.isLocal => parsed.channels # 0
        /\ parsed.lengths \in [Ports -> 0 .. CHANNEL_DESCRIPTION_MAX_LENGTH + 2]
        /\ \A port \in Ports : \E length \in Nat : parsed.lengths[port] = Padded(length)
    BY <1>3, <2>1, <2>2, ParsedIs
  <2>4. parsed.channels <= MAX_NUMBER_OF_SERIAL_PORTS
    BY <1>3, <2>1, <2>2, ParsedIs DEF SixteenAtMost
  <2>5. /\ config'.channels = parsed.channels /\ config'.lengths = parsed.lengths
        /\ isModbusTcpSlave' = parsed.isLocal
    BY <1>2, <1>3
  <2> QED BY <2>3, <2>4, <2>5 DEF ConfigFits
<1>4. CASE ~parsed.accepted
  BY <1>2, <1>4 DEF ConfigFits
<1> QED BY <1>3, <1>4

\* The configuration is made once.
LEMMA ConfigIsMade ==
    [Next]_vars => configurationFileParsing \/ UNCHANGED <<config, isModbusTcpSlave>>
<1> SUFFICES ASSUME [Next]_vars, ~configurationFileParsing
             PROVE  UNCHANGED <<config, isModbusTcpSlave>>
  OBVIOUS
<1>1. CASE Running /\ PeripheralThread
  BY <1>1 DEF PeripheralThread, StartServer, StartClient, PeripheralTurn,
              initializeModbusTcpSlave, program, serverVars
<1>2. CASE Running /\ PollingThread /\ UNCHANGED program
  BY <1>2 DEF PollingThread, StartPolling, prvbMBPortAcceptClient, AcceptFails, Receive,
              ClientIsGone, TakeRequest, Execute, program
<1>3. CASE CloseWindow \/ Exit \/ CalmDown \/ UNCHANGED vars
  BY <1>3 DEF CloseWindow, Exit, CalmDown, vars, program, serverVars
<1>4. ASSUME NEW c \in Computers, RemoteComputer(c), UNCHANGED program
      PROVE  UNCHANGED <<config, isModbusTcpSlave>>
  BY <1>4 DEF RemoteComputer, Connect, Ask, Disconnect, Vanish, WithOpenConnection, program
<1> QED BY <1>1, <1>2, <1>3, <1>4 DEF Next

\* The configuration fits the tables throughout.
LEMMA ConfigAlwaysFits == ASSUME SixteenAtMost PROVE Spec => []ConfigFits
<1>1. Init => ConfigFits
  <2>1. Init => config = NoConfig /\ isModbusTcpSlave = FALSE
    BY DEF Init
  <2>2. Padded(0) = 0
    BY DEF Padded
  <2> QED BY <2>1, <2>2
          DEF ConfigFits, NoConfig, CHANNEL_DESCRIPTION_MAX_LENGTH, MAX_NUMBER_OF_SERIAL_PORTS
<1>2. ConfigFits /\ [Next]_vars => ConfigFits'
  BY ParsingFits, ConfigIsMade DEF ConfigFits
<1> QED BY <1>1, <1>2, PTL DEF Spec

\* A server serves a configuration of the register map.
LEMMA ServedConfiguration ==
    ASSUME ConfigTyped, ConfigFits, isModbusTcpSlave
    PROVE  config \in Configurations
<1>1. config.channels \in 1 .. MAX_NUMBER_OF_SERIAL_PORTS
  BY DEF ConfigTyped, ConfigFits, MAX_NUMBER_OF_SERIAL_PORTS
<1> QED BY <1>1 DEF ConfigTyped, ConfigFits, Configurations

\* Whatever the configuration file, as long as it describes sixteen channels at
\* most: what the server executes is what a remote computer asks for, and it is
\* granted (eMBRegHoldingCB, configurationFileParsing).
THEOREM EveryRequestIsGranted == ASSUME SixteenAtMost PROVE Spec => []RequestsAreGranted
<1>1. ServerInv /\ ConfigFits => RequestsAreGranted
  <2> SUFFICES ASSUME ServerInv, ConfigFits, event = "EV_EXECUTE"
               PROVE  Granted(config, Executed, Served(config, Executed))
    BY DEF RequestsAreGranted
  <2>1. config \in Configurations
    BY ServedConfiguration DEF ServerInv, EventIsWhole, Started
  <2>2. PICK request \in Requests : ArePieces(frame, request, 0)
    BY DEF ServerInv, EventIsWhole, Taken
  <2>3. HEADER + BODY \in DOMAIN frame
    <3>1. frame \in Seq(Piece) /\ Len(frame) = HEADER + BODY
      BY DEF ServerInv, StreamsTyped, EventIsWhole, Taken
    <3>2. HEADER + BODY \in 1 .. HEADER + BODY
      BY RequestLength
    <3> QED BY <3>1, <3>2, LenProperties
  <2>4. Executed = request /\ request \in ClientRequests(config)
    BY <2>2, <2>3 DEF ArePieces, Executed, Requests
  <2> QED BY <2>1, <2>4, ClientIsServed DEF ConfigFits
<1> QED BY <1>1, ServerAlways, ConfigAlwaysFits, PTL

\* The variables of the main and the peripheral thread.
MainTyped ==
    /\ peripheral \in {"parsing", "initializing", "loop", "returned"}
    /\ activeModbusTcpServer \in BOOLEAN
    /\ message \in {"none", "configuration", "TCP"}
    /\ window \in {"open", "closing", "gone"}

\* No thread leaves anything else in the variables of the program.
LEMMA MainTypes == Spec => []MainTyped
<1>1. Init => MainTyped
  BY DEF Init, MainTyped
<1>2. ASSUME MainTyped, [Next]_vars PROVE MainTyped'
  <2>1. CASE Running /\ PeripheralThread
    <3>1. CASE configurationFileParsing
      BY <1>2, <3>1 DEF configurationFileParsing, GiveUp, MainTyped
    <3>2. CASE StartServer
      BY <1>2, <3>2 DEF StartServer, GiveUp, MainTyped
    <3>3. CASE StartClient \/ PeripheralTurn
      BY <1>2, <3>3 DEF StartClient, PeripheralTurn, program, MainTyped
    <3> QED BY <2>1, <3>1, <3>2, <3>3 DEF PeripheralThread
  <2>2. CASE UNCHANGED program
    BY <1>2, <2>2 DEF program, MainTyped
  <2>3. CASE CloseWindow \/ Exit
    BY <1>2, <2>3 DEF CloseWindow, Exit, MainTyped
  <2> QED BY <1>2, <2>1, <2>2, <2>3 DEF Next, CalmDown, vars
<1> QED BY <1>1, <1>2, PTL DEF Spec

\* Type correctness; that a server's configuration fits its tables needs what is
\* asked of the files.
THEOREM TypeCorrectness == ASSUME SixteenAtMost PROVE Spec => []TypeOK
<1>1. ServerInv => ServerTypeOK
  <2> SUFFICES ASSUME ServerInv PROVE ServerTypeOK
    OBVIOUS
  <2>1. \A i \in DOMAIN backlog : backlog[i] \in ConnectionType
    BY LenProperties, ElementOfSeq DEF ServerInv, StreamsTyped
  <2> QED BY <2>1 DEF ServerInv, ServerTyped, StreamsTyped, ServerTypeOK
<1>2. ServerInv /\ ConfigFits => config \in Configurations \/ ~isModbusTcpSlave
  BY ServedConfiguration DEF ServerInv
<1>3. ServerInv /\ ConfigFits /\ MainTyped => TypeOK
  BY <1>1, <1>2 DEF TypeOK, MainTyped, ServerInv, ConfigTyped
<1> QED BY <1>3, ServerAlways, ConfigAlwaysFits, MainTypes, PTL
=============================================================================
