---------------------------- MODULE RegisterMap ----------------------------
(***************************************************************************)
(* The registers of the Modbus TCP server: where they are, how the server  *)
(* answers a request for them, and what the remote computer asks for.      *)
(*                                                                         *)
(* A configuration is what configurationFileParsing leaves for the server: *)
(* the number of channels, and for each port the length of the description *)
(* of its channel with padding, 0 if there is none.  An answer tells which *)
(* registers it carries, not their values.                                 *)
(***************************************************************************)
EXTENDS Integers

MAX_NUMBER_OF_SERIAL_PORTS             == 16
CHANNEL_DESCRIPTION_MAX_LENGTH         == 100
MODBUS_TCP_ADDRESS_ORDER_CODE          == 20
MODBUS_TCP_ADDRESS_ORDER_VALUE         == 21
MODBUS_TCP_SECTOR_SIZE                 == 22
READING_TCP_REGISTERS_NUMBER           == 22
TCP_SERVER_START_ADDRESS               == 1000
TCP_SERVER_SECTOR_ADDRESS_STEP         == 100
TCP_SERVER_DESCRIPTION_LENGTHS_ADDRESS == 4000
TCP_SERVER_DESCRIPTION_ADDRESS_STEP    == 100
MB_PDU_FUNC_READ_REGCNT_MAX            == 125

Ports == 0 .. MAX_NUMBER_OF_SERIAL_PORTS - 1
Sectors == 0 .. MAX_NUMBER_OF_SERIAL_PORTS

Configurations ==
    [channels : 1 .. MAX_NUMBER_OF_SERIAL_PORTS,
     lengths  : [Ports -> 0 .. CHANNEL_DESCRIPTION_MAX_LENGTH + 2]]

\* One more for the terminating zero, and an even number.
Padded(length) == IF length = 0 THEN 0 ELSE 2 * ((length + 2) \div 2)

-----------------------------------------------------------------------------
(***************************************************************************)
(* The remote computer.                                                    *)
(***************************************************************************)
Read(address, count) == [function |-> 3, address |-> address, count |-> count]
Write(address)       == [function |-> 6, address |-> address, count |-> 1]

SectorAddress(sector) ==
    TCP_SERVER_START_ADDRESS + sector * TCP_SERVER_SECTOR_ADDRESS_STEP

TextAddress(port) ==
    TCP_SERVER_DESCRIPTION_LENGTHS_ADDRESS + (port + 1) * TCP_SERVER_DESCRIPTION_ADDRESS_STEP

\* A text is asked for if the length the server has given looks right.
TextsAskedFor(conf) ==
    {port \in Ports : conf.lengths[port] \in 1 .. CHANNEL_DESCRIPTION_MAX_LENGTH - 1}

RunUpRequests(conf) ==
    {Read(SectorAddress(0), READING_TCP_REGISTERS_NUMBER),
     Read(TCP_SERVER_DESCRIPTION_LENGTHS_ADDRESS, MAX_NUMBER_OF_SERIAL_PORTS)}
    \union {Read(TextAddress(port), conf.lengths[port] \div 2) : port \in TextsAskedFor(conf)}

RunTimeRequests(conf) ==
    {Read(SectorAddress(sector), READING_TCP_REGISTERS_NUMBER) : sector \in 0 .. conf.channels}
    \union {Write(SectorAddress(sector) + offset) :
               sector \in 1 .. conf.channels,
               offset \in {MODBUS_TCP_ADDRESS_ORDER_CODE, MODBUS_TCP_ADDRESS_ORDER_VALUE}}

ClientRequests(conf) == RunUpRequests(conf) \union RunTimeRequests(conf)

-----------------------------------------------------------------------------
(***************************************************************************)
(* The server.                                                             *)
(***************************************************************************)
Areas == {"sector", "lengths", "text", "illegal address", "illegal value"}

Answer(area, part, first, count) ==
    [area |-> area, part |-> part, first |-> first, count |-> count]

IllegalAddress == Answer("illegal address", 0, 0, 0)
IllegalValue   == Answer("illegal value", 0, 0, 0)

InSectors_Short(conf, address) ==
    /\ address >= TCP_SERVER_START_ADDRESS
    /\ address < TCP_SERVER_START_ADDRESS + conf.channels * TCP_SERVER_SECTOR_ADDRESS_STEP

\* The address is in the range of the sectors, or in a gap between two.
InSectors(conf, address) ==
    /\ address >= TCP_SERVER_START_ADDRESS
    /\ address < TCP_SERVER_START_ADDRESS + conf.channels * TCP_SERVER_SECTOR_ADDRESS_STEP
                 + MODBUS_TCP_SECTOR_SIZE

Sector(address) == (address - TCP_SERVER_START_ADDRESS) \div TCP_SERVER_SECTOR_ADDRESS_STEP
Offset(address) == (address - TCP_SERVER_START_ADDRESS) % TCP_SERVER_SECTOR_ADDRESS_STEP

FirstText == TCP_SERVER_DESCRIPTION_LENGTHS_ADDRESS + TCP_SERVER_DESCRIPTION_ADDRESS_STEP
Text(address)       == (address - FirstText) \div TCP_SERVER_DESCRIPTION_ADDRESS_STEP
TextOffset(address) == (address - FirstText) % TCP_SERVER_DESCRIPTION_ADDRESS_STEP

\* The upper bound of a request to read a sector grows with its offset.
ReadSector(address, count) ==
    IF /\ Offset(address) < MODBUS_TCP_SECTOR_SIZE
       /\ count <= Offset(address) + MODBUS_TCP_SECTOR_SIZE
    THEN Answer("sector", Sector(address), Offset(address), count)
    ELSE IllegalAddress

WriteSector(address) ==
    IF /\ Sector(address) # 0
       /\ Offset(address) \in {MODBUS_TCP_ADDRESS_ORDER_CODE, MODBUS_TCP_ADDRESS_ORDER_VALUE}
    THEN Answer("sector", Sector(address), Offset(address), 1)
    ELSE IllegalAddress

\* The first length and the first characters are sent whatever the address.
ReadLengths(count) == Answer("lengths", 0, 0, count)

ReadText(conf, address, count) ==
    IF /\ address >= FirstText
       /\ Text(address) \in Ports
       /\ 2 * (TextOffset(address) + count) <= conf.lengths[Text(address)]
    THEN Answer("text", Text(address), 0, count)
    ELSE IllegalAddress

eMBRegHoldingCB(conf, request) ==
    CASE InSectors(conf, request.address) /\ request.function = 3 ->
            ReadSector(request.address, request.count)
      [] InSectors(conf, request.address) /\ request.function = 6 ->
            WriteSector(request.address)
      [] /\ ~InSectors(conf, request.address)
         /\ request.function = 3
         /\ request.address >= TCP_SERVER_DESCRIPTION_LENGTHS_ADDRESS ->
            IF request.address + request.count
               <= TCP_SERVER_DESCRIPTION_LENGTHS_ADDRESS + MAX_NUMBER_OF_SERIAL_PORTS
            THEN ReadLengths(request.count)
            ELSE ReadText(conf, request.address, request.count)
      [] OTHER -> IllegalAddress

\* Only the lower byte of the count of a request to read is looked at.
Served(conf, request) ==
    IF request.function = 6
    THEN eMBRegHoldingCB(conf, request)
    ELSE IF request.count % 256 \in 1 .. MB_PDU_FUNC_READ_REGCNT_MAX
         THEN eMBRegHoldingCB(conf, [request EXCEPT !.count = @ % 256])
         ELSE IllegalValue

\* The order register of a channel that a write changes to RTU_ORDER_SET_VALUE
\* or to the code written.
OrderWritten(request) ==
    IF Offset(request.address) = MODBUS_TCP_ADDRESS_ORDER_VALUE THEN "set value" ELSE "power"

-----------------------------------------------------------------------------
\* What the address map of modbusTcpSlave.h has at the address of a request.
Addressed(request) ==
    CASE request.address < TCP_SERVER_DESCRIPTION_LENGTHS_ADDRESS ->
            Answer("sector", Sector(request.address), Offset(request.address), request.count)
      [] request.address \in TCP_SERVER_DESCRIPTION_LENGTHS_ADDRESS .. FirstText - 1 ->
            Answer("lengths", 0, request.address - TCP_SERVER_DESCRIPTION_LENGTHS_ADDRESS,
                   request.count)
      [] OTHER ->
            Answer("text", Text(request.address), TextOffset(request.address), request.count)

Granted(conf, request, answer) ==
    /\ answer = Addressed(request)
    /\ answer.area = "sector" => answer.first + answer.count <= MODBUS_TCP_SECTOR_SIZE
    /\ answer.area = "text" => 2 * answer.count = conf.lengths[answer.part]
=============================================================================
