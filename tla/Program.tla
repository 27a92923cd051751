------------------------------ MODULE Program ------------------------------
(***************************************************************************)
(* The program from start to end: the main thread, which owns the window;  *)
(* the peripheral thread, which parses the configuration file, starts the  *)
(* server or the client and then goes round its loop; and the server's     *)
(* polling thread with the remote computers (TcpServer).                   *)
(***************************************************************************)
EXTENDS ConfigurationFile, TcpServer

CONSTANT
    Files           \* the configuration files there may be

ASSUME FilesAssumption == Files \subseteq Seq(FileLines)

\* The tables of the program have sixteen entries, and nothing checks that the
\* file describes no more channels, and no supply that is rejected once there are
\* sixteen; what follows after the tables have been overrun is not modelled.
SixteenAtMost == \A file \in Files : ~TableOf(file).overrun

VARIABLES
    peripheral,     \* where the peripheral thread is
    isModbusTcpSlave,
    activeModbusTcpServer,
    message,        \* the error message that waits for the main thread or is shown
    window          \* the main window: open, its closing is handled, or gone

program == <<peripheral, isModbusTcpSlave, activeModbusTcpServer, message, window>>
vars == <<program, serverVars>>

NoConfig == [channels |-> 0, lengths |-> [port \in Ports |-> 0]]

Init ==
    /\ InitServer
    /\ config = NoConfig
    /\ peripheral = "parsing"
    /\ isModbusTcpSlave = FALSE
    /\ activeModbusTcpServer = FALSE
    /\ message = "none"
    /\ window = "open"

Running == window # "gone"

\* The thread returns after an error and leaves its message.
GiveUp(reason) ==
    /\ peripheral' = "returned"
    /\ message' = reason

-----------------------------------------------------------------------------
\* A file that is missing is rejected, like one without valid data.
configurationFileParsing ==
    /\ peripheral = "parsing"
    /\ \E file \in Files : \E parsed \in ParsedFile(file) \union {Rejected} :
          IF parsed.accepted
          THEN /\ peripheral' = "initializing"
               /\ isModbusTcpSlave' = parsed.isLocal
               /\ config' = [channels |-> parsed.channels, lengths |-> parsed.lengths]
               /\ orderCodes' = [line \in 1 .. parsed.channels |-> RTU_ORDER_NONE]
               /\ UNCHANGED message
          ELSE /\ GiveUp("configuration")
               /\ UNCHANGED <<isModbusTcpSlave, config, orderCodes>>
    /\ UNCHANGED <<activeModbusTcpServer, window, listening, mbState, threadState, event, client,
                   lost, buffer, bytesLeft, frame, backlog, asked, calm>>

StartServer ==
    /\ peripheral = "initializing" /\ isModbusTcpSlave
    /\ \/ /\ initializeModbusTcpSlave(TRUE)
          /\ activeModbusTcpServer' = TRUE
          /\ peripheral' = "loop"
          /\ UNCHANGED message
       \/ /\ ~calm
          /\ initializeModbusTcpSlave(FALSE)
          /\ GiveUp("TCP")
          /\ UNCHANGED activeModbusTcpServer
    /\ UNCHANGED <<isModbusTcpSlave, window>>

StartClient ==
    /\ peripheral = "initializing" /\ ~isModbusTcpSlave
    /\ peripheral' = "loop"
    /\ UNCHANGED <<isModbusTcpSlave, activeModbusTcpServer, message, window, serverVars>>

\* synchronizeDataAcrossThreads takes or throws away the orders written.
PeripheralTurn ==
    /\ peripheral = "loop" /\ isModbusTcpSlave
    /\ orderCodes' = [line \in Lines |-> RTU_ORDER_NONE]
    /\ UNCHANGED <<program, config, listening, mbState, threadState, event, client, lost, buffer,
                   bytesLeft, frame, backlog, asked, calm>>

PeripheralThread ==
    configurationFileParsing \/ StartServer \/ StartClient \/ PeripheralTurn

-----------------------------------------------------------------------------
\* exitProcedure; all threads go on for half a second.
CloseWindow ==
    /\ window = "open"
    /\ window' = "closing"
    /\ IF activeModbusTcpServer THEN eMBClose ELSE UNCHANGED <<listening, client>>
    /\ activeModbusTcpServer' = FALSE
    /\ UNCHANGED <<peripheral, isModbusTcpSlave, message, config, mbState, threadState, event,
                   lost, buffer, bytesLeft, frame, orderCodes, backlog, asked, calm>>

\* exit(0): all sockets are closed with the process, and the computers see it.
Exit ==
    /\ window = "closing"
    /\ window' = "gone"
    /\ listening' = FALSE
    /\ client' = INVALID_SOCKET
    /\ backlog' = <<>>
    /\ asked' = [c \in Computers |-> Nothing]
    /\ UNCHANGED <<peripheral, isModbusTcpSlave, activeModbusTcpServer, message, config, mbState,
                   threadState, event, lost, buffer, bytesLeft, frame, orderCodes, calm>>

CalmDown ==
    /\ ~calm
    /\ calm' = TRUE
    /\ UNCHANGED <<program, config, stack, asked>>

Next ==
    \/ Running /\ PeripheralThread
    \/ Running /\ PollingThread /\ UNCHANGED program
    \/ CloseWindow
    \/ Exit
    \/ \E c \in Computers : RemoteComputer(c) /\ UNCHANGED program
    \/ CalmDown

Spec ==
    /\ Init /\ [][Next]_vars
    /\ WF_vars(Running /\ PollingThread /\ UNCHANGED program)

-----------------------------------------------------------------------------
TypeOK ==
    /\ ServerTypeOK
    /\ config = NoConfig \/ config \in Configurations \/ ~isModbusTcpSlave
    /\ peripheral \in {"parsing", "initializing", "loop", "returned"}
    /\ {isModbusTcpSlave, activeModbusTcpServer} \subseteq BOOLEAN
    /\ message \in {"none", "configuration", "TCP"}
    /\ window \in {"open", "closing", "gone"}

\* A remote computer is refused nothing it asks for, and gets the very registers
\* it means, for every text whose length it was given, that of a rejected supply
\* included, up to the last channel (eMBRegHoldingCB).
RequestsAreGranted ==
    event = "EV_EXECUTE" => Granted(config, Executed, Served(config, Executed))

\* A computer that waits for an answer gets it, whatever dead connections and
\* stale requests come first, unless the server is held by a connection that is
\* not closed, waits in vain for socket -1, or the program is being closed
\* (eMBPoll, xMBPortTCPPool).
WaitingIsAnswered ==
    \A c \in Computers :
        calm /\ asked[c] # Nothing
            ~> asked[c] = Nothing \/ Held(c) \/ window # "open"
=============================================================================
