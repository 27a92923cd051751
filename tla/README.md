# RSTL 488 power supplies: a TLA+ model

`powerSourceRSTL` controls up to sixteen laboratory power supplies. One computer,
the *local* one, has the supplies on serial lines and speaks Modbus RTU to them.
It may let a second computer, the *remote* one, watch and control them over
Modbus TCP. Both run the same program; the configuration file tells it which
part to play. This directory holds a model of the program, model-checked with
TLC; what is a matter of safety is proved with TLAPS.

## 1. The system

| part | source | state | operations |
|---|---|---|---|
| channel control | `multiChannel.cpp`, `TransmissionChannel` in `rstlProtocolMaster.cpp`, `DataSharingInterface` | per channel: the port, the request under way, consecutive errors, registers, the counter of the powering-down machine, the order and the reported states in the shared tables | four turns a second: synchronize, drive the machine, read the answer, send a request, synchronize |
| shutdown | `poweringDownTimingForAll`, `drivePoweringDownStateMachine` | the counter and the reported state | start, wait, time out, cancel, end |
| shared data | `synchronizeDataAcrossThreads`, `TableOfSharedDataFor{LowLevel,Gui,TcpServer}` | three mailboxes of one order per channel, and the flag who has control | place, take, copy, erase, hand over control |
| serial lines | `singleInquiryOfSlave`, `receiveResponse` | what is in the input buffers, the one frame for set-points | read, compare, flush, send |
| error statistics | `TransmissionErrorsMonitor` | a ring of bits | add a sample |
| Modbus TCP client | `modbusTcpMaster.cpp` | socket, flags for identification and run-up, communication state | connect, read sectors, write orders, give up |
| Modbus TCP server | `modbusTcpSlave.c`, FreeModbus | registers and descriptions; the stack's state and event; one socket, its buffer and counts | initialize, enable, accept, receive, execute, answer, close |
| panel and dialogs | `graphicalUserInterface.cpp` | per channel the visible and active widgets, the warning, the stored state; which panel is open, the error message, the title | callbacks, messages, updates |
| set-point entry | `SetPointInputGroup` in `graphicalUserInterface.cpp` | the text, the multiclick counter and the value that stands for the register | edit, accept, cancel, click, count down |
| configuration | `configurationFileParsing` | the mode, the port, the supplies; none after start | parse |
| start and exit | `powerSourceRSTL.cpp`, `peripheralThread` | where the peripheral thread is, whether the server is active | parse, start, give up, close, exit |

Three threads touch the shared data: the main thread (FLTK), the peripheral
thread, and on the local computer the thread of the TCP server. They call
`pthread_mutex_lock` on mutexes that are local variables of the functions, and
the server has one of its own: **nothing is mutually exclusive**. Messages go
from the peripheral thread to the main one with `Fl::awake`, in order, and from
one computer to the other over TCP, where the client waits a second for each
answer and closes the connection when none comes. The server has one socket for
a client; further connections wait in the backlog, and what is sent on them is
received when they are accepted, even if their sender has long given up.

What makes the program hard to test:

- *order mailboxes* hold one order and are overwritten by whoever comes next:
  user, remote user, powering-down machine;
- the *powering-down machine* reports its state only in some branches, and
  judges by registers that may be old;
- *answers on the serial lines* may be late, torn or lost, and are told apart by
  their first bytes;
- *failures in the middle of a turn* (a read, a write, a flush, an opening) leave
  it by an early return with part of the state changed;
- *the connection* may fail between any two requests, with an order taken out
  of one mailbox and not yet in the next, or between two pieces of a request;
- *widgets* are arranged by six callbacks and messages, each of which must undo
  what any other may have done, and are updated against a stored old state;
- *one counter and one value* protect the clicks of all channels, and every
  channel's answers count.

`PROJECT.json` lists these hazards one by one, at their lines.

What each part owes its users: the states shown are those of the machine and of
the line; a shutdown zeroes the current, waits a bounded time, and turns off
only at a low current or on the user's word; no order is executed that nobody
gave, none twice; an answer is accepted if and only if it is one; a request is
answered, exactly, and put together from its own pieces; what was entered is
what is ordered; nothing on the window covers or contradicts anything else;
whatever failed, the line and the link return to service by themselves.

## 2. Modules

| module | what it is |
|---|---|
| `PowerOrders` | order codes and states, shared vocabulary |
| `PowerDownProtocol` | abstract: what is promised of a delayed shutdown |
| `PowerChannel` | **core**: one channel, its user and its line |
| `OrderExchange` | the three mailboxes of one channel, store by store |
| `RtuLine` | several serial lines and their answers |
| `ErrorsMonitor` | the error statistics |
| `OrderDelivery` | abstract: an order is carried out at most once |
| `RemoteLink` | two computers and the connection between them |
| `GuiPanel` | the main window: groups, panels, warning, error message, title |
| `SetPointEntry` | the set-point dialog, the clicks, and the way of a set-point there and back |
| `RegisterMap` | the registers of the server: requests of the client, answers of the server |
| `ConfigurationFile` | what the parser makes of the lines of the file (EXTENDS `RegisterMap`) |
| `TcpServer` | the stack, its port to sockets, the polling thread, the remote computers (EXTENDS `RegisterMap`) |
| `Program` | start, loop and end around the two (EXTENDS `ConfigurationFile`, `TcpServer`) |
| `...Proofs` | theorems about `PowerChannel`, `OrderExchange`, `RtuLine`, `ErrorsMonitor`, `RemoteLink`, `SetPointEntry`, `GuiPanel`, `Program` with what it extends |
| `MC...` | values of the constants for TLC |

A definition whose name ends in `_` and a word (`TimeIsLeft_OffByOne`) is the one
after it with a plausible mistake. No specification uses it; each property is
shown to fail when the mistake is put in.

### PowerChannel

One action per handler or branch: `pc` walks through the turn of
`peripheralThread`, and the user may act between any two steps.

| code | model |
|---|---|
| `waitForSynchronization` | `WaitForSynchronization`; a turn takes one of `Skips` quarters |
| `synchronizeDataAcrossThreads` | `SynchronizeDataAcrossThreads`, one step here, taken apart in `OrderExchange` |
| the branches of `drivePoweringDownStateMachine`, with what `poweringDownTimingForAll` does on their result | `NoShutdownAsked`, `StartShutdown`, `WaitForCurrentToFall`, `WaitAfterTimeout`, `CancelAfterTimeout`, `EndShutdown` |
| `communicateAllPowerSources`, `open` | `OpenPort`, `LeavePortClosed` |
| `singleInquiryOfSlave` | `ExpectNothing`, `ReadFails`, `GoodAnswer`, `BadAnswer`, `SendRequest` |
| `powerOnCallback`, `powerOffCallback`, `acceptSetPointDialogCallback`, a client's write | the `User` actions |

Of the registers only three facts are kept: the switch is on, the current is at
most the limit, the identifier is the expected one. Any answer may come at any
time, so what holds here holds for every supply, sane or not. Channels do not
share what is modelled here (they share the set-point frame, see `RtuLine`), so
one is enough.

### OrderExchange

Every load and store of the code or the value of an order that two threads can
reach is a step; the two registers that are arguments of `placeNewOrder` are
loaded in either order, which C++ leaves open. A `uint16_t` store from two bytes is
two steps, as the code writes it. A `memcpy` over both fields is one step
(`CopyToGui`, `Export`): nobody reads both of them while it runs, and the
peripheral thread resets both before it looks at them again. What only the
peripheral thread can reach it changes in one step. The rest of the loop
(`RestOfTheLoop`) takes the order away from the mailbox. `owed` counts, for every
side and code, orders given but not yet executed, up to `MaxOwed`.

### RtuLine

A visit to a channel reads what is in the buffer, compares it, flushes, and sends
the next request. Answers are named by the request they are for, may come whole
or in two pieces, in time or not. `frameValue` is `WriteNewValueFrame`, shared by
the channels. Which supplies may be late or silent is a constant, `Disturbed`; the
others are those of a calm line. `READING_ALL` is left out: no part of the program asks for it, and
only an order torn in a mailbox can become it (finding 2).

### ErrorsMonitor

The loop over the ring is a recursive function of the number of its turns. `samples` is a history variable: the last
samples in the order they came, without ring or words.

### RemoteLink

`pc` names the request whose answer the client waits for. Every way to fail
(no socket, no connection, nothing sent, no answer in a second, a wrong answer)
ends in `GiveUp`. A write on its way stays there when the client gives up, and
the server may still act on it; a read is dropped, since serving it changes
nothing. The identification label and the number of channels are taken to match,
and every channel to have a description.

`synchronizeDataAcrossThreads` is taken apart, on both computers, where orders are
lost: channel by channel, what is in the mailbox is fetched
(`FetchFromGui`, `FetchFromClient`) and in a later step the mailbox is erased
(`EraseGuiBox`, `EraseTcpBox`), with whatever has come in between. A write is
stored in halves (`StartWrite`, `CompleteWrite`): if the register is erased between
them (`erasedHalf`), the order is there in the end or not, as the server had loaded
the register late or early. What finer interleavings there are inside these steps
is `OrderExchange`'s subject. In the code the registers keep an order that has been
fetched until they are erased; here it leaves the box at once, since nothing looks
at it again. So an order is in one place at a time, which is how "at most once" is
proved.

### GuiPanel

One action per callback of the user (`ChangeSetPoint`, `CloseSetPointDialog`,
`DiagnosticsButton`, `RemoteComputerControl`), one per message
(`UpdateMainApplicationLabel`, `DisplayChannelWidgets`,
`CloseSetpointDialogIfActive`, `HideChannelWidgets`, `UpdateChannelWidgets`), and
one per kind of turn of the peripheral thread, which fills `inbox` in the order
of its calls of `Fl::awake`; `restoreChannelWidgets` it calls itself, and so it is
part of `RemoteTurn`: one step with the rest of the turn, and before the messages
of the turn are handled. (In the code the main thread may handle them while the
widgets are still being shown; `RemoteTurn` leaves no message to hide them in a turn
that shows them.) A group is the record of what the properties tell apart:
its row, the buttons that work, the warning, the texts, and the state it was last
updated with. `StateChanges` is what `synchronizeDataAcrossThreads` may bring: any
of the states `TableStates` allows for the channel, on the local computer not
straight to the timeout.

### SetPointEntry

The user's callbacks and the peripheral thread, a channel at a time: a turn that
asks for `READING_FIRST`, a turn that reads the answer and sends the order. The
counter, the offline value and the dialog are one for all channels, as in the
code. Numbers are integers of milliamperes, and `Converted` is the code's rounding
to 1024 steps of 3125 mA with its clamp. `ordered` and `readings` are history
variables. A single dot is taken for a number by the test and not by `std::stod`:
`EnterDot` ends the program.

### RegisterMap, ConfigurationFile, TcpServer, Program

`RegisterMap` is data and operators only: which requests
`communicateTcpServer` makes for a configuration, what `eMBRegHoldingCB` answers
to any request, comparison by comparison, and what the address map of
`modbusTcpSlave.h` means by an address (`Addressed`), the reference.

`ConfigurationFile` has a line be what the parser's regular expressions tell
apart, and follows it through its loops: each kind is looked for behind the line
found before. `Table` is what the entries of the tables are after the last line,
computed a line at a time (`WithLine`), and whether a supply, accepted or rejected,
was written behind the sixteenth entry (`overrun`). `ParsedFile` is a *set* of outcomes: a flag the code does not
initialise has any value when no line is left to set it.

`TcpServer` has one action per way out of `xMBPortTCPPool`
(`prvbMBPortAcceptClient`, `AcceptFails`, `Receive`, `ClientIsGone`) and one per event of
`eMBPoll` (`TakeRequest`, `Execute`). A request travels in `HEADER + BODY` pieces,
of which `recv` returns any number up to the count the code asks for. Computers
connect, ask, give up, and vanish without a word; TCP keeps the order of what was
sent on a connection, and a connection in the backlog keeps it until it is accepted.

`Program` puts these together: the peripheral thread parses, starts the server or
gives up, and goes round; the window is closed, `eMBClose` does nothing since the
stack is enabled, and half a second later the process is gone.

## 3. Runs

| run | configuration | states | result |
|---|---|---|---|
| `channel` | GUI and a remote client with all orders | 473,802 | states shown agree with internal ones; no virtual order on the line; implements `PowerDownProtocol`; orders go out, power-off included; a lost port is noticed |
| `early_power_off` | GUI control | | **violated** (finding 1) |
| `order_exchange` | all interleavings | 172,070 | no order from nowhere, none twice; a completed order arrives |
| `torn_set_point` | all interleavings | | **violated** (finding 2) |
| `rtu_line` | two lines, one frame; overruns and one late supply until `calm` | 430,696 | what is accepted is of the right kind, and the right answer unless the other line has used the frame since; a line gets back into step, and is answered again |
| `errors_monitor` | 3 words of 3 bits | 9,216 | the statistics are right |
| `remote_link` | 2 channels, 2 orders | 232,992 | implements `OrderDelivery`; control is learned, channels return; on a working connection an order arrives, unless it meets one of the named exceptions |
| `gui_panel` | 2 channels, both computers | 147,000 | nothing overlaps, no warning outlives its timeout, the error message stands alone; buttons, texts and title settle |
| `warning_not_shown` | as `gui_panel` | | **violated** (finding 3) |
| `set_point_entry` | 2 channels | 3,488,752 | the offline value is the last order; what is entered is what is ordered |
| `click_lost` | as `set_point_entry` | | **violated** (finding 4) |
| `program` | 6 files, 2 remote computers | 337,066 | requests are whole, granted exactly, and answered unless the socket is held |

### Bounds

- *Timeout, CounterMax, tolerances* are small numbers in the order the code
  gives them. Only comparisons with them matter, and the proofs cover all values.
- *Skips*: one quarter in `channel`, because under overruns that always skip the
  quarters for orders nothing need ever be sent; the invariants are proved for
  any `Skips`.
- *Set-points*: zero, and one or two others. One in `channel`, which never looks
  at the value.
- *MaxOwed*: one order of a kind from one side. A second execution of it makes
  the count negative; each mailbox holds one.
- *MaxBehind, MaxBuffered*: a supply is at most two answers behind and the buffer
  holds at most two, which the 40 bytes of the second read empty surely. One stale
  answer is what confuses a line; two let it be followed by another.
- *Channels, Disturbed* in `rtu_line`: two lines, because the frame is shared. Only
  the supply of the first may be late, torn or silent; the second answers in time
  and does its part by filling the frame. So the echo of the first, late or not,
  meets a frame filled by the other, and a punctual echo of the second is refused
  because of the first. Lines share nothing else but the rhythm of the loop.
  `AnyLines` is proved for any number of lines, all of them disturbed.
- *PowerOrders*: one, since `POWER_ON` and `POWER_OFF` differ in nothing here.
- *Words, Bits*: 3 and 3, so that runs of errors span words and the end of the
  ring; every content of the ring is reached at every position of its head.
- *MaxOrders, MaxRequests*: two orders, so that one may overtake or replace the
  other, and two requests, so that one from a closed connection meets one from
  the next. `Connect` waits for room.
- *Channels* in `gui_panel`: two, so that a panel opens above, at and below another
  group; `TableStates` lets one supply shut down and turn out to be the wrong one
  while the other's port stays closed. The theorems have neither bound.
- *Entries, Increments*: 200 A and 120 A, the end of the scale and a click that
  reaches it in two; two channels, since one alone loses no click.
- *HEADER, BODY* in `program`: two pieces and one, so that a header comes torn and a
  body comes with it or apart. *Backlog*: two connections behind the one that is
  served, a dead one and a live one. *Asks*: the order register of the last
  channel, sector 0, and the text of a rejected supply. *Files*: a local and a
  remote computer, and one file for each way to be rejected or half read.
- `calm` in `RtuLine`, `RemoteLink` and `Program` is a switch that is thrown once, at
  any time: from then on the environment behaves. It is how *eventually good* is
  said.

`SetPointEntry` and `Program` end when the program does, so their runs do not look
for deadlock.

### Fairness

Weak fairness of the peripheral thread: its loop has no exit and it does not
block, except for at most a second on the TCP socket. Weak fairness of a GUI or
server thread that is in the middle of a handler, of the server's polling, and of
the main thread's handling of messages. Never fairness of a user, of `CalmDown`,
or of a kind answer. In `RemoteLink` the main thread is taken to handle a message
before the next turn that talks to the server, half a second later, and
`GuiPanel` takes the same: a turn begins when the messages of the last have been
handled. In `Program` only the polling thread is fair, and only while the process
runs; clients may stop at any time.

`WaitingIsAnswered` has two exceptions which are the code's: a server *held* by a
connection that comes first and is not closed (there is no timeout in
`xMBPortTCPPool`), or that waits for socket -1 after a failed `accept`; and a
program that is being closed.

## 4. Proofs

All for every value of the constants that satisfies the named assumptions of the
module; where a theorem asks for more, it says so. Each is an inductive argument
with one step per action. Every safety property of a run that is expected to
pass is a theorem.

`PowerChannelProofs` (the timeout is positive and below the counter's maximum; the
tolerances are ordered and below the saturation of the error count; 0 is a
set-point):

- `TypeCorrectness`: `[]TypeOK`;
- `ReportIsTrue`: `[]ReportedStateMatchesMachine`, from types and the fact that
  the counter passes `Timeout + 1` on its way up and only there announces;
- `RightSupply`: `[]HealthyMeansRightSupply`;
- `HealthIsEarned`: `[]ReportedHealthMatchesErrors`, with `SendsOnOpenPort`: the
  thread reaches the sending half of an inquiry only with an open port;
- `AssertionHolds`: `[]OnlyPrimitiveOrdersAreSent`, the assertion of
  `singleInquiryOfSlave`;
- `KeepsProtocol`: initial states and steps of the channel map to initial states
  and steps (or stutters) of `PowerDownProtocol`.

`OrderExchangeProofs` (any orders, bytes and set-points; any bound on what is asked
for and not delivered):

- `TypeCorrectness`: `[]TypeOK`;
- `OrdersComeFromTheirController`: `[]NoOrderFromNowhere`. That a count is not
  negative is not inductive: delivering lowers it. The invariant says that every
  order that may still be carried out is owed. For each code there are at most two
  of them on each side: one that the thread has yet to store, and one that is
  stored. What counts as stored depends on where the peripheral thread is: once
  it has loaded the code it is the loaded one that counts, and from the delivery
  until the mailbox is erased nothing does. No mutual exclusion is used, because
  the code has none.

`GuiPanelProofs` (any positive number of channels, any states of the supplies that
include the initial one):

- `TypeCorrectness`: `[]TypeOK`; each group stays in a row of the window;
- `WarningHasItsCause`: `[]WarningMeansTimeout`, inductive by itself;
- `NoOverlap`: `[]NothingOverlaps`, and `ErrorMessageAlone`:
  `[]ErrorMessageStandsAlone`. Neither is inductive: from a state with both panels
  open, or with groups arranged for a panel that is not there, the callbacks lead
  to overlaps. The invariant `Layout` adds that the groups are arranged for the
  panel that is open, or was the last one before all were hidden; that no button
  works while the dialog is open, so that no second panel can be opened; and that
  a remote computer without connection and without a message to hide has nothing
  visible, no panel open and nothing to show, so that `restoreChannelWidgets`,
  which arranges groups without closing panels, never meets one.

`SetPointEntryProofs` (a positive number of channels; entries up to 200 A, any
increments):

- `TypeCorrectness`: `[]TypeOK`, in particular 16 bits are enough;
- `StandInIsLastOrdered`: `[]OfflineIsLastOrdered`;
- `EntriesAreOrdered`: `[]EnteredIsOrdered`, from the lemma `ConversionRounds`
  about the arithmetic and the invariant that an order by entry is the conversion
  of the last accepted number.

`RemoteLinkProofs` (any number of channels, orders and requests under way):

- `TypeCorrectness`: `[]TypeOK`;
- `LinkImplementsDelivery`: initial states and steps map to those of
  `OrderDelivery`; `NeverTwice`, from the same invariant. That no order is
  carried out twice is not inductive: from a state with an order in two places it is. The
  invariant `OnePlace` says that an order is in a mailbox of the remote computer,
  or in one request, or in the mailbox of the local one, and in only one of its
  entries; `OnlyGiven`, that these are orders already given. A client that gives up
  leaves its request where it is and does not send the order again, which is what
  keeps the invariant; `CarriedOutOnce`, that what is still under way has not been
  carried out.

`RtuLineProofs` (any number of channels, any set-points, any bounds):

- `TypeCorrectness`: `[]TypeOK`;
- `AnyLines`: `AnswersAreJudged`, what may be accepted and what must be. The
  invariant `FreshAnswersLastRequest` says that an answer that is not old, in the buffer or still to come, belongs to the
  last request of its line: the flush before each request is what makes all
  others old. What is accepted is then told apart by its kind and, for an echo, by
  `WriteNewValueFrame`. While the frame holds the set-point last sent on the line
  (`FrameIsOf`), nothing is mistaken and nothing right refused. Without that both
  happen, with two lines and more (see below, *Seen on the way*);
- `InStepForGood`: once every supply answers in time and nothing old is left on
  any line, every line stays in step. With this, what `BackInStep` needs TLC for
  is only that such a state is reached.

`ErrorsMonitorProofs` (at least one word of at least one bit):

- `ErrorsAreCounted`: `[]CountsErrors`, `LongestRunIsFound`: `[]FindsLongestRun`,
  `SharesLag`: `ShownLagsByOne`, `TypeCorrectness`: `[]TypeOK`. There are two
  parts. The ring: `RingHoldsSamples` says that the bit `i` places from the head is
  the `i`-th of the last samples, across words and the end of the array. The loop:
  `Found` says in closed form what has been found after so many turns (a count, the
  longest run, the run that is still going on); `Turn` shows that one more turn of
  the loop takes it to the next, and `Loop`, that nothing else satisfies the
  loop's recursion. The last is an induction over the turns. The theorem of
  induction cannot be used, since it takes an operator; it is put as the absence
  of a *least* turn at which the two differ (`Least`).

`ProgramProofs` (any number of remote computers, any addresses they ask for, any
positive lengths of header, body and backlog, any files):

- `RequestsAreWhole`: `[]RequestIsWhole`. The property speaks of the buffer and
  the frame only and is not inductive. The invariant `ServerInv` follows the pieces
  from the computer that sent them: on every connection, what has been taken and
  what is unread follow one another in *one* request (`Streams`), and while the
  connection is open they are all of the request its computer waits for, or
  nothing. A connection in the backlog is one of which nothing has been taken, so
  accepting keeps the invariant only because the buffer is emptied; receiving
  keeps it because the count of bytes left is that of the header or of the rest
  (`BytesLeftFor`). In addition no computer has two open connections (`OpenOnce`),
  so that an answer ends no other's waiting; and there is no client unless the
  stack is enabled, so that closing the window closes nothing under way;
- `NoPieceIsLost`: from the same invariant, what a waiting computer has asked is
  there, piece by piece. What `WaitingIsAnswered` needs TLC for is only that the
  server comes to it;
- `ClientIsServed`, about `RegisterMap`: for every configuration whose lengths are
  padded as the parser pads them, every request of the client is granted and
  answered with the very registers it means;
- `EveryRequestIsGranted`: `[]RequestsAreGranted`, from the last two and
  `ParsedIs`: whatever the lines of the file, an accepted one leaves padded lengths
  and at least one channel. `TableTypes` is an induction over the lines, by a least
  counterexample as above. **This theorem and `TypeCorrectness` (`[]TypeOK`) ask
  of the files that they overrun no table** (`SixteenAtMost`): that they describe no
  more than sixteen channels, and no supply that is rejected once there are
  sixteen. The code does not check it (`multiChannel.cpp:349`, `:373`). That the
  table has an entry for each channel until it is overrun is part of `TableTypes`.
  `MCProgram` has TLC evaluate `SixteenAtMost` for the files of the run.

Only model-checked: liveness. The prover has no rule for `ENABLED`, so that
nothing can be concluded from weak fairness. This is the fairness part of
`ImplementsProtocol` with `PowerOffGoesOut`, `LostPortIsNoticed` and
`OrdersLeaveTheMailbox`; `GuiOrderArrives`, `TcpOrderArrives`; `BackInStep`,
`AnsweredAgain`; `ControlIsLearned`, `ChannelsReturn`, `OrderIsCarriedOut`;
`PanelSettles`, `TitleTellsControl`; `WaitingIsAnswered`.

## 5. What the runs found

1. **A second press turns off early** (`rstlProtocolMaster.cpp:445`). A delayed
   power-off order given again during the deceleration waits in the mailbox. At
   the tick at which the time is over it is taken for the user's answer to a
   warning that has not been shown.
2. **A set-point of 0 that nobody gave**: the value is erased between the stores
   of value and order code (`modbusTcpSlave.c:257`).
3. **A timeout without a warning** (`graphicalUserInterface.cpp:580`). The state
   is stored while the set-point dialog hides it, so that it counts as shown; and
   closing the dialog activates all buttons of the channel (`:1058`).
4. **A click is lost** (`graphicalUserInterface.cpp:822`). The answers of all
   channels end the protection, long before the set-point has been read back.
Seen on the way. The model has each of them as the code does; no run is spent on
them, because they contradict no document, or do so only in the letter, or, as the
first, are the exceptions of a property that is checked and proved:

- all channels compare their echoes with the one `WriteNewValueFrame`
  (`rstlProtocolMaster.cpp:66`), and two lines are enough for what follows; this
  is the exception `FrameIsOf` of `AnswersAreJudged`, which can be left out of
  neither part. *A response is mistaken*, against `:74`: a line is sent the
  set-point 1 and does not answer in time; it is sent 2, and another line 1. The
  late echo of 1 is compared with the frame of the other line and counts as the
  answer to 2. *A correct response counts as an error*, against
  `rstlProtocolMaster.h:95`: two lines are sent different set-points in the same
  turn; the echo of the first is compared with the frame of the second;
- the zeroing order may be replaced by the power-off order before it is sent, when
  a shutdown starts in an odd quarter at a low current
  (`rstlProtocolMaster.cpp:430`);
- registers may grow old while answers to other requests keep the channel healthy
  (`rstlProtocolMaster.cpp:287`);
- an order written without permission is carried out if control is handed over
  before it is fetched (`modbusTcpSlave.c:249`, `multiChannel.cpp:609`);
- an order is lost if it comes to a mailbox between the look at it and the copy over
  it (`multiChannel.cpp:591`, `:598`; `:609`, `:617`), or is stored in halves around
  that: these are the exceptions of `OrderIsCarriedOut` (`ErasedUnseen`), none of
  which can be left out;
- delayed orders wait without limit,
  also while the link is down; descriptions are assigned again when the run-up
  failed midway; those of 98 characters and more are never asked for; a wrong
  identifier passes as temporary errors; the error code shown is for ever the
  first; the server waits for ever after a failed `accept`, and closing the
  program does not close its sockets; a single dot as set-point ends it.

## 6. Not modelled

- CRC and byte layout of frames (an answer is named by what it answers),
  `configureSerialPort`, the command line and the path of the executable.
- The identification label and a change of the number of channels in
  `RemoteLink`: a server that fails them is refused, for good in the second case.
- Pixels, fonts, colours and wording of the widgets; the values of registers in
  texts; which of its texts the error message shows.
- What follows when a file overruns the tables, and the one
  `static const char*` of `inputFieldCallback`, which is taken to follow the field.
- The supply itself: in `PowerChannel` it answers anything, in `SetPointEntry` it
  obeys; nothing in the sources says how its current follows the set-point.
- The parts of FreeModbus that are not built or not enabled, and the handlers the
  client of this repository never reaches.
