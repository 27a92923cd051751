------------------------------ MODULE RtuLine ------------------------------
(***************************************************************************)
(* The serial lines of all channels: which answers lie in the input        *)
(* buffers, which of them singleInquiryOfSlave takes for the answer to its *)
(* request, and how it finds back into step after a failure.  A supply may *)
(* answer in time, late, not at all or in two pieces.                      *)
(*                                                                         *)
(* The thread serves the channels one after another; a visit to a channel  *)
(* reads what has come since the last one and sends the next request.  All *)
(* channels share one frame for set-points, WriteNewValueFrame, and the    *)
(* echo of such a request is compared with what the frame holds by then.   *)
(*                                                                         *)
(* The ports stay open here; PowerChannel has the failures of the calls.   *)
(***************************************************************************)
EXTENDS Integers, Sequences, SequencesExt

CONSTANTS
    Channels,       \* NumberOfChannels
    Disturbed,      \* lines whose supply may answer late, torn or not at all
    PowerOrders,    \* orders other than set-points that users give
    SetPoints,      \* the values a user asks for
    Skips,          \* quarters of a second one turn of the loop may take
    MaxBehind,      \* bound: requests a supply has yet to answer
    MaxBuffered     \* bound: answers in a buffer.  The second read takes 40
                    \* bytes, so that it surely empties one with two answers

ASSUME LineAssumption ==
    /\ Channels \in Nat \ {0}
    /\ Disturbed \subseteq 0 .. Channels - 1
    /\ PowerOrders \subseteq {"POWER_ON", "POWER_OFF"}
    /\ SetPoints \subseteq Nat
    /\ Skips \subseteq 1 .. 3 /\ Skips # {}
    /\ MaxBehind \in Nat \ {0}
    /\ MaxBuffered \in 1 .. 2

VARIABLES
    fraction,       \* FractionOfSecond
    visited,        \* the channel to visit next; Channels: the turn is over
    pending,        \* PresentOrder, and with it the value that was sent
    frameValue,     \* the value in WriteNewValueFrame
    accepted,       \* the last visit found a correct answer
    buffer,         \* what has been received and not yet read
    unanswered,     \* requests the supply has yet to answer, oldest first
    calm            \* from now on all supplies answer in time, and no
                    \* turn of the loop overruns its quarter of a second

thread == <<fraction, visited, pending, frameValue, accepted>>
vars   == <<thread, buffer, unanswered, calm>>

Quarters == 4
Lines == 0 .. Channels - 1

Request(code, value) == [code |-> code, value |-> value]
Nothing == Request("NONE", 0)

\* READING_ALL, which only an order torn in a mailbox can become, is left out: a
\* buffer with two such answers is not emptied by one more read.
Requests ==
    {Request(code, 0) : code \in {"READING_FIRST", "READING_LAST"} \union PowerOrders}
    \union {Request("SET_VALUE", value) : value \in SetPoints}

\* A whole answer, its first piece while the second is awaited, or the second
\* piece when the first one has been read away.  An answer is fresh while no
\* other request has been sent after the one it is for.
Answers == [to : Requests, piece : {"whole", "front", "rest"}, fresh : BOOLEAN]

TypeOK ==
    /\ fraction \in 0 .. Quarters - 1
    /\ visited \in 0 .. Channels
    /\ pending \in [Lines -> Requests \union {Nothing}]
    /\ frameValue \in SetPoints \union {0}
    /\ accepted \in [Lines -> BOOLEAN]
    /\ buffer \in [Lines -> Seq(Answers)]
    /\ unanswered \in [Lines -> Seq(Answers)]
    /\ calm \in BOOLEAN

Init ==
    /\ fraction = 0
    /\ visited = Channels
    /\ pending = [l \in Lines |-> Nothing]
    /\ frameValue = 0
    /\ accepted = [l \in Lines |-> FALSE]
    /\ buffer = [l \in Lines |-> <<>>]
    /\ unanswered = [l \in Lines |-> <<>>]
    /\ calm = FALSE

-----------------------------------------------------------------------------
(***************************************************************************)
(* Reading.  A whole answer that comes first is correct if it begins with  *)
(* the bytes FrameInfoTable lists: the function and the byte count for the *)
(* readings, all of the frame for a write.                                 *)
(***************************************************************************)
KnownResponse_HeaderOnly(request, answer) == answer.to.code = request.code

KnownResponse(request, answer) ==
    /\ answer.to.code = request.code
    /\ request.code = "SET_VALUE" => answer.to.value = frameValue

CorrectResponse(l) ==
    /\ buffer[l] # <<>>
    /\ Head(buffer[l]).piece = "whole"
    /\ KnownResponse(pending[l], Head(buffer[l]))

\* Bytes that are no correct answer are read away with all that follows.
LeftAfterError_Unflushed(l) ==
    IF buffer[l] = <<>> THEN <<>> ELSE Tail(buffer[l])

LeftAfterError(l) == <<>>

LeftInBuffer(l) ==
    IF pending[l] = Nothing THEN buffer[l]
    ELSE IF CorrectResponse(l) THEN Tail(buffer[l])
    ELSE LeftAfterError(l)

AwaitsRest(l) == buffer[l] # <<>> /\ Last(buffer[l]).piece = "front"

-----------------------------------------------------------------------------
(***************************************************************************)
(* Sending.                                                                *)
(***************************************************************************)
OrdersTurn == fraction % 2 = 0

NextRequests ==
    IF OrdersTurn THEN Requests \ {Request("READING_FIRST", 0)}
    ELSE {Request("READING_FIRST", 0)}

Aged(answers) == [i \in DOMAIN answers |-> [answers[i] EXCEPT !.fresh = FALSE]]

\* Of an answer whose first piece has been read away, the second will come.
PieceLeft(l) ==
    IF LeftInBuffer(l) = <<>> /\ AwaitsRest(l)
    THEN <<[Last(buffer[l]) EXCEPT !.piece = "rest"]>> ELSE <<>>

\* A supply that is MaxBehind answers behind loses the request.
Received(l, request) ==
    LET older == Aged(PieceLeft(l) \o unanswered[l]) IN
    IF Len(older) >= MaxBehind THEN older
    ELSE Append(older, [to |-> request, piece |-> "whole", fresh |-> TRUE])

Punctual(l) == calm \/ l \notin Disturbed

InTime(l) == unanswered[l] = <<>> /\ ~AwaitsRest(l)

Visit ==
    LET l == visited IN
    /\ l \in Lines
    /\ Punctual(l) => InTime(l)
    /\ visited' = l + 1
    /\ accepted' = [accepted EXCEPT ![l] = pending[l] # Nothing /\ CorrectResponse(l)]
    /\ buffer' = [buffer EXCEPT ![l] = Aged(LeftInBuffer(l))]
    /\ \E request \in NextRequests :
          /\ pending' = [pending EXCEPT ![l] = request]
          /\ frameValue' = IF request.code = "SET_VALUE" THEN request.value ELSE frameValue
          /\ unanswered' = [unanswered EXCEPT ![l] = Received(l, request)]
    /\ UNCHANGED <<fraction, calm>>

NextQuarter_Unwrapped(skip) == fraction + skip

NextQuarter(skip) == (fraction + skip) % Quarters

WaitForSynchronization ==
    /\ visited = Channels
    /\ visited' = 0
    /\ \E skip \in IF calm THEN {1} ELSE Skips : fraction' = NextQuarter(skip)
    /\ UNCHANGED <<pending, frameValue, accepted, buffer, unanswered, calm>>

-----------------------------------------------------------------------------
(***************************************************************************)
(* The supplies.                                                           *)
(***************************************************************************)
\* The second piece joins the first one, if that has not been read away.
RestComes(l) ==
    /\ AwaitsRest(l)
    /\ buffer' = [buffer EXCEPT ![l] = Append(Front(@), [Last(@) EXCEPT !.piece = "whole"])]
    /\ UNCHANGED <<thread, unanswered, calm>>

Answer(l) ==
    /\ unanswered[l] # <<>>
    /\ ~AwaitsRest(l)
    /\ Len(buffer[l]) < MaxBuffered
    /\ \/ buffer' = [buffer EXCEPT ![l] = Append(@, Head(unanswered[l]))]
       \/ /\ ~Punctual(l)
          /\ Head(unanswered[l]).piece = "whole"
          /\ buffer' = [buffer EXCEPT ![l] =
                            Append(@, [Head(unanswered[l]) EXCEPT !.piece = "front"])]
    /\ unanswered' = [unanswered EXCEPT ![l] = Tail(@)]
    /\ UNCHANGED <<thread, calm>>

LoseRequest(l) ==
    /\ ~Punctual(l)
    /\ unanswered[l] # <<>>
    /\ unanswered' = [unanswered EXCEPT ![l] = Tail(@)]
    /\ UNCHANGED <<thread, buffer, calm>>

\* The worst is over once no supply is more answers behind than fit a buffer.
CalmDown ==
    /\ ~calm
    /\ \A l \in Lines : Len(buffer[l]) + Len(unanswered[l]) <= MaxBuffered
    /\ calm' = TRUE
    /\ UNCHANGED <<thread, buffer, unanswered>>

Supply(l) == RestComes(l) \/ Answer(l)

Next ==
    \/ Visit
    \/ WaitForSynchronization
    \/ CalmDown
    \/ \E l \in Lines : Supply(l) \/ LoseRequest(l)

SafetySpec == Init /\ [][Next]_vars

\* The thread never blocks.  What a supply answers arrives.
Spec ==
    /\ SafetySpec
    /\ WF_vars(Visit \/ WaitForSynchronization)
    /\ \A l \in Lines : WF_vars(Supply(l))

-----------------------------------------------------------------------------
(***************************************************************************)
(* Properties.                                                             *)
(***************************************************************************)
Judged(l) == visited = l /\ visited' = l + 1 /\ pending[l] # Nothing

\* A whole answer to the very request that was sent last, and nothing else.
RightAnswerAlone(l) ==
    \E answer \in Answers :
        buffer[l] = <<answer>> /\ answer.piece = "whole" /\ answer.fresh

\* The shared frame still holds the set-point that was last sent on this line.
FrameIsOf(l) == pending[l].code = "SET_VALUE" => pending[l].value = frameValue

\* However many lines there are, and whatever is late, lost or left in a buffer:
\* what singleInquiryOfSlave accepts answers a command of the kind that was sent
\* last on the line, and that very command, unless another line has been sent a
\* set-point since; and with the same exception the right answer is accepted.
AnswersAreJudged ==
    [][\A l \in Lines : Judged(l) =>
          /\ accepted'[l] => Head(buffer[l]).to.code = pending[l].code
          /\ FrameIsOf(l) => /\ accepted'[l] => Head(buffer[l]).to = pending[l]
                             /\ RightAnswerAlone(l) => accepted'[l]]_vars

\* After whatever has been late, lost or torn, a line whose supply answers in
\* time again gets into step by itself, for good: at a visit there is nothing
\* in its buffer but the answer to the last request.
InStep(l) == \A i \in DOMAIN buffer[l] : buffer[l][i].fresh

BackInStep == calm ~> [](visited \in Lines => InStep(visited))

\* ... and its requests are answered again and again, so that its count of
\* consecutive errors returns to 0.
AnsweredAgain == calm ~> []<>(\A l \in Lines : accepted[l])
=============================================================================
