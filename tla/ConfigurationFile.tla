------------------------- MODULE ConfigurationFile -------------------------
(***************************************************************************)
(* The configuration file and what configurationFileParsing makes of it.   *)
(*                                                                         *)
(* A line is what the regular expressions tell apart: it sets the mode of  *)
(* the program, the TCP port, the address of the server, or describes the  *)
(* power supply of a channel; any other line is skipped.  A name is        *)
(* represented by its length.                                              *)
(***************************************************************************)
EXTENDS RegisterMap, Sequences, SequencesExt

ModeLine(isLocal)       == [kind |-> "mode", isLocal |-> isLocal]
PortLine(number)        == [kind |-> "port", number |-> number]
AddressLine(length)     == [kind |-> "address", length |-> length]
SupplyLine(id, length)  == [kind |-> "supply", id |-> id, length |-> length]
Comment                 == [kind |-> "other"]

FileLines ==
    [kind : {"mode"}, isLocal : BOOLEAN] \union [kind : {"port"}, number : Nat]
    \union [kind : {"address"}, length : Nat]
    \union [kind : {"supply"}, id : Nat, length : Nat] \union {Comment}

HasLine(lines, kind) == \E i \in DOMAIN lines : lines[i].kind = kind

FirstOf(lines, kind) == lines[SelectInSeq(lines, LAMBDA line : line.kind = kind)]

\* The lines that are left when a line of this kind has been looked for.
Behind(lines, kind) ==
    IF HasLine(lines, kind)
    THEN SubSeq(lines, SelectInSeq(lines, LAMBDA line : line.kind = kind) + 1, Len(lines))
    ELSE <<>>

\* The flag that a line matched is not initialised, and has any value if there
\* is no line left to look at.
Matches(lines, kind) == IF lines = <<>> THEN BOOLEAN ELSE {HasLine(lines, kind)}

Rejected == [accepted |-> FALSE]

-----------------------------------------------------------------------------
Descriptor_Untruncated(line) == line.length

\* resize() of a description that is too long.
Descriptor(line) ==
    IF line.length > CHANNEL_DESCRIPTION_MAX_LENGTH
    THEN CHANNEL_DESCRIPTION_MAX_LENGTH ELSE line.length

\* NumberOfChannels and the lengths in TableOfTransmissionChannel.  A supply that
\* is rejected leaves its description in the entry after the last channel, which
\* after the sixteenth one, like that of another channel, is behind the table.
EmptyTable == [channels |-> 0, descriptors |-> [port \in Ports |-> 0], overrun |-> FALSE]

WithLine(table, line) ==
    IF line.kind # "supply" THEN table
    ELSE [channels    |-> IF line.id > 0 THEN table.channels + 1 ELSE table.channels,
          descriptors |-> [table.descriptors EXCEPT ![table.channels] = Descriptor(line)],
          overrun     |-> table.overrun \/ table.channels \notin Ports]

Table(lines) ==
    LET after[n \in 0 .. Len(lines)] ==
            IF n = 0 THEN EmptyTable ELSE WithLine(after[n - 1], lines[n])
    IN  after[Len(lines)]

\* The table once all supplies of the file have been read.
TableOf(file) == Table(Behind(Behind(file, "mode"), "port"))

LocalConfigurations(lines) ==
    LET table == Table(lines) IN
    IF \/ \E i \in DOMAIN lines : lines[i].kind = "supply" /\ lines[i].id > 255
       \/ table.channels = 0
    THEN {Rejected}
    ELSE {[accepted |-> TRUE, isLocal |-> TRUE,
           channels |-> table.channels,
           lengths  |-> [port \in Ports |-> Padded(table.descriptors[port])]]}

\* A static, empty address is used if the flag happens to be set.
RemoteConfigurations(lines) ==
    {IF /\ matches
        /\ HasLine(lines, "address") => FirstOf(lines, "address").length <= 15
     THEN [accepted |-> TRUE, isLocal |-> FALSE, channels |-> 0,
           lengths |-> [port \in Ports |-> 0]]
     ELSE Rejected : matches \in Matches(lines, "address")}

ModesOf(lines) ==
    IF HasLine(lines, "mode") THEN {FirstOf(lines, "mode").isLocal} ELSE BOOLEAN

\* Port 0, which stands for the default port, is used likewise.
PortIsAccepted(lines, matches) ==
    /\ matches
    /\ HasLine(lines, "port") => FirstOf(lines, "port").number <= 65535

\* All that configurationFileParsing may make of these lines.
ParsedFile(file) ==
    LET afterMode == Behind(file, "mode")
        afterPort == Behind(afterMode, "port")
        Parsed(isLocal) ==
            IF isLocal THEN LocalConfigurations(afterPort) ELSE RemoteConfigurations(afterPort)
    IN  UNION {IF matchesMode /\ PortIsAccepted(afterMode, matchesPort)
               THEN UNION {Parsed(isLocal) : isLocal \in ModesOf(file)}
               ELSE {Rejected} :
                  matchesMode \in Matches(file, "mode"),
                  matchesPort \in Matches(afterMode, "port")}
=============================================================================
