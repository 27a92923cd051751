--------------------------- MODULE RtuLineProofs ---------------------------
(***************************************************************************)
(* Theorems about RtuLine, for any number of channels, any set-points and  *)
(* any bounds: what the thread may take for the answer to a request, and   *)
(* that a line which is in step stays so.                                  *)
(*                                                                         *)
(* A fresh answer, wherever it lies, is the answer to the last request of  *)
(* its line.  An echo is recognised by the frame of WriteNewValueFrame,    *)
(* which belongs to the last line that set a value; where this is another  *)
(* line, nothing is promised but the kind of the command, and TLC shows    *)
(* that nothing more holds.                                                *)
(***************************************************************************)
EXTENDS RtuLine, SequenceTheorems, TLAPS

\* The fresh answers among these are those to this request.
FreshAreTo(answers, request) ==
    \A i \in DOMAIN answers : answers[i].fresh => answers[i].to = request

FreshAnswersLastRequest ==
    \A l \in Lines : FreshAreTo(buffer[l], pending[l]) /\ FreshAreTo(unanswered[l], pending[l])

-----------------------------------------------------------------------------
(***************************************************************************)
(* Answers in buffers.                                                     *)
(***************************************************************************)
LEMMA AgedAnswers ==
    ASSUME NEW answers \in Seq(Answers), NEW request
    PROVE  /\ Aged(answers) \in Seq(Answers)
           /\ Len(Aged(answers)) = Len(answers)
           /\ FreshAreTo(Aged(answers), request)
<1>1. /\ Len(answers) \in Nat /\ DOMAIN answers = 1 .. Len(answers)
      /\ \A i \in DOMAIN answers : answers[i] \in Answers
  BY LenProperties, ElementOfSeq
<1>2. /\ DOMAIN Aged(answers) = 1 .. Len(answers)
      /\ \A i \in DOMAIN answers : Aged(answers)[i] \in Answers /\ ~Aged(answers)[i].fresh
  BY <1>1 DEF Aged, Answers
<1>3. Aged(answers) \in [1 .. Len(answers) -> Answers]
  BY <1>1, <1>2 DEF Aged
<1>4. Aged(answers) \in Seq(Answers)
  BY <1>1, <1>3, SeqDef
<1> QED BY <1>1, <1>2, <1>4, LenProperties DEF FreshAreTo

\* An answer that arrives behind others.
LEMMA AppendedAnswer ==
    ASSUME NEW answers \in Seq(Answers), NEW answer \in Answers, NEW request
    PROVE  /\ Append(answers, answer) \in Seq(Answers)
           /\ FreshAreTo(answers, request) /\ (answer.fresh => answer.to = request)
                => FreshAreTo(Append(answers, answer), request)
<1>1. /\ Append(answers, answer) \in Seq(Answers)
      /\ Len(Append(answers, answer)) = Len(answers) + 1
      /\ \A i \in 1 .. Len(answers) : Append(answers, answer)[i] = answers[i]
      /\ Append(answers, answer)[Len(answers) + 1] = answer
  BY AppendProperties
<1>2. /\ Len(answers) \in Nat /\ DOMAIN answers = 1 .. Len(answers)
      /\ DOMAIN Append(answers, answer) = 1 .. Len(answers) + 1
  BY <1>1, LenProperties
<1> QED BY <1>1, <1>2 DEF FreshAreTo

\* The answer that is read, and those it leaves.
LEMMA FirstAnswer ==
    ASSUME NEW answers \in Seq(Answers), answers # <<>>, NEW request
    PROVE  /\ Head(answers) \in Answers /\ Tail(answers) \in Seq(Answers)
           /\ FreshAreTo(answers, request) =>
                 /\ Head(answers).fresh => Head(answers).to = request
                 /\ FreshAreTo(Tail(answers), request)
<1>1. /\ Head(answers) \in Answers /\ Tail(answers) \in Seq(Answers)
      /\ Len(Tail(answers)) = Len(answers) - 1
      /\ \A i \in 1 .. Len(Tail(answers)) : Tail(answers)[i] = answers[i + 1]
  BY HeadTailProperties
<1>2. /\ Len(answers) \in Nat \ {0} /\ DOMAIN answers = 1 .. Len(answers)
      /\ DOMAIN Tail(answers) = 1 .. Len(answers) - 1
  BY <1>1, LenProperties, EmptySeq
<1>3. Head(answers) = answers[1]
  OBVIOUS
<1> QED BY <1>1, <1>2, <1>3 DEF FreshAreTo

\* A piece that joins the last one makes a whole answer of it.
LEMMA CompletedAnswer ==
    ASSUME NEW answers \in Seq(Answers), answers # <<>>, NEW request
    PROVE  LET completed == Append(Front(answers), [Last(answers) EXCEPT !.piece = "whole"])
           IN  /\ completed \in Seq(Answers)
               /\ FreshAreTo(answers, request) => FreshAreTo(completed, request)
<1>1. Len(answers) \in Nat \ {0} /\ DOMAIN answers = 1 .. Len(answers)
  BY LenProperties, EmptySeq
<1>2. Last(answers) = answers[Len(answers)] /\ Last(answers) \in Answers
  BY <1>1, ElementOfSeq DEF Last
<1>3. /\ Front(answers) \in Seq(Answers) /\ Len(Front(answers)) = Len(answers) - 1
      /\ \A i \in 1 .. Len(answers) - 1 : Front(answers)[i] = answers[i]
  <2>1. \A i \in 1 .. Len(answers) - 1 : answers[i] \in Answers
    BY <1>1, ElementOfSeq
  <2> QED BY <1>1, <2>1, SubSeqProperties DEF Front
<1>4. FreshAreTo(answers, request) => FreshAreTo(Front(answers), request)
  <2>1. DOMAIN Front(answers) = 1 .. Len(answers) - 1
    BY <1>3, LenProperties
  <2> QED BY <1>1, <1>3, <2>1 DEF FreshAreTo
<1>5. LET last == [Last(answers) EXCEPT !.piece = "whole"]
      IN  /\ last \in Answers
          /\ FreshAreTo(answers, request) /\ last.fresh => last.to = request
  BY <1>1, <1>2 DEF Answers, FreshAreTo
<1> QED BY <1>3, <1>4, <1>5, AppendedAnswer

-----------------------------------------------------------------------------
(***************************************************************************)
(* Types, and to which requests the answers belong.                        *)
(***************************************************************************)
\* The part of the types that only the thread changes, and that of the lines.
ThreadTyped ==
    /\ fraction \in 0 .. Quarters - 1
    /\ visited \in 0 .. Channels
    /\ pending \in [Lines -> Requests \union {Nothing}]
    /\ frameValue \in SetPoints \union {0}
    /\ accepted \in [Lines -> BOOLEAN]
    /\ calm \in BOOLEAN

LinesTyped ==
    /\ buffer \in [Lines -> Seq(Answers)]
    /\ unanswered \in [Lines -> Seq(Answers)]

\* The two parts are TypeOK.
LEMMA TypedIsTypeOK ==
    (TypeOK <=> ThreadTyped /\ LinesTyped) /\ (TypeOK' <=> ThreadTyped' /\ LinesTyped')
  BY DEF TypeOK, ThreadTyped, LinesTyped

\* At the start nothing has been asked and nothing answered.
LEMMA InitLines == Init => ThreadTyped /\ LinesTyped /\ FreshAnswersLastRequest
<1> SUFFICES ASSUME Init PROVE ThreadTyped /\ LinesTyped /\ FreshAnswersLastRequest
  OBVIOUS
<1>1. ThreadTyped
  <2>1. fraction \in 0 .. Quarters - 1 /\ visited \in 0 .. Channels
    BY LineAssumption DEF Init, Quarters
  <2>2. pending \in [Lines -> Requests \union {Nothing}] /\ accepted \in [Lines -> BOOLEAN]
    BY DEF Init
  <2> QED BY <2>1, <2>2 DEF Init, ThreadTyped
<1>2. LinesTyped
  BY EmptySeq DEF Init, LinesTyped
<1>3. FreshAnswersLastRequest
  BY DEF Init, FreshAnswersLastRequest, FreshAreTo
<1> QED BY <1>1, <1>2, <1>3

\* What a visit sends is a request.
LEMMA RequestsSent == NextRequests \subseteq Requests
  BY DEF NextRequests, Requests

\* A visit reads answers away and ages those that it leaves.
LEMMA VisitReads ==
    ASSUME LinesTyped, NEW l \in Lines
    PROVE  LeftInBuffer(l) \in Seq(Answers)
<1>1. buffer[l] \in Seq(Answers)
  BY DEF LinesTyped
<1>2. buffer[l] # <<>> => Tail(buffer[l]) \in Seq(Answers)
  BY <1>1, FirstAnswer
<1>3. <<>> \in Seq(Answers)
  BY EmptySeq
<1> QED BY <1>1, <1>2, <1>3 DEF LeftInBuffer, LeftAfterError, CorrectResponse

\* The only fresh answer to come is the one to the request just sent.
LEMMA VisitSends ==
    ASSUME LinesTyped, NEW l \in Lines, NEW request \in Requests
    PROVE  Received(l, request) \in Seq(Answers) /\ FreshAreTo(Received(l, request), request)
<1>1. PieceLeft(l) \in Seq(Answers)
  <2>1. CASE LeftInBuffer(l) = <<>> /\ AwaitsRest(l)
    <3>1. buffer[l] \in Seq(Answers) /\ buffer[l] # <<>>
      BY <2>1 DEF LinesTyped, AwaitsRest
    <3>2. Last(buffer[l]) \in Answers
      BY <3>1, LenProperties, EmptySeq, ElementOfSeq DEF Last
    <3>3. [Last(buffer[l]) EXCEPT !.piece = "rest"] \in Answers
      BY <3>2 DEF Answers
    <3> QED BY <2>1, <3>3 DEF PieceLeft
  <2>2. CASE ~(LeftInBuffer(l) = <<>> /\ AwaitsRest(l))
    BY <2>2, EmptySeq DEF PieceLeft
  <2> QED BY <2>1, <2>2
<1>2. PieceLeft(l) \o unanswered[l] \in Seq(Answers)
  BY <1>1, ConcatProperties DEF LinesTyped
<1> DEFINE older == Aged(PieceLeft(l) \o unanswered[l])
           new == [to |-> request, piece |-> "whole", fresh |-> TRUE]
<1>3. older \in Seq(Answers) /\ FreshAreTo(older, request)
  BY <1>2, AgedAnswers
<1>4. new \in Answers /\ new.to = request
  BY DEF Answers
<1>5. Append(older, new) \in Seq(Answers) /\ FreshAreTo(Append(older, new), request)
  <2> HIDE DEF older, new
  <2> QED BY <1>3, <1>4, AppendedAnswer
<1> QED BY <1>3, <1>5 DEF Received

\* A visit of the thread to a line.
LEMMA VisitStep ==
    ASSUME ThreadTyped, LinesTyped, FreshAnswersLastRequest, Visit
    PROVE  ThreadTyped' /\ LinesTyped' /\ FreshAnswersLastRequest'
<1>1. visited \in Lines /\ visited' = visited + 1
  BY DEF Visit
<1>2. PICK request \in NextRequests :
         /\ pending' = [pending EXCEPT ![visited] = request]
         /\ frameValue' = IF request.code = "SET_VALUE" THEN request.value ELSE frameValue
         /\ unanswered' = [unanswered EXCEPT ![visited] = Received(visited, request)]
  BY DEF Visit
<1>3. request \in Requests
  BY RequestsSent
<1>4. /\ buffer' = [buffer EXCEPT ![visited] = Aged(LeftInBuffer(visited))]
      /\ accepted' = [accepted EXCEPT ![visited] =
                         pending[visited] # Nothing /\ CorrectResponse(visited)]
      /\ UNCHANGED <<fraction, calm>>
  BY DEF Visit
<1>5. /\ Aged(LeftInBuffer(visited)) \in Seq(Answers)
      /\ FreshAreTo(Aged(LeftInBuffer(visited)), request)
  BY <1>1, VisitReads, AgedAnswers
<1>6. Received(visited, request) \in Seq(Answers) /\ FreshAreTo(Received(visited, request), request)
  BY <1>1, <1>3, VisitSends
<1>7. ThreadTyped'
  <2>1. visited' \in 0 .. Channels
    BY <1>1, LineAssumption DEF Lines
  <2>2. frameValue' \in SetPoints \union {0}
    BY <1>2, <1>3 DEF Requests, Request, ThreadTyped
  <2>3. pending' \in [Lines -> Requests \union {Nothing}]
    BY <1>2, <1>3 DEF ThreadTyped
  <2>4. accepted' \in [Lines -> BOOLEAN]
    BY <1>4 DEF ThreadTyped
  <2> QED BY <1>4, <2>1, <2>2, <2>3, <2>4 DEF ThreadTyped
<1>8. LinesTyped'
  BY <1>2, <1>4, <1>5, <1>6 DEF LinesTyped
<1>9. FreshAnswersLastRequest'
  <2> SUFFICES ASSUME NEW l \in Lines
               PROVE  FreshAreTo(buffer'[l], pending'[l]) /\ FreshAreTo(unanswered'[l], pending'[l])
    BY DEF FreshAnswersLastRequest, FreshAreTo
  <2>1. CASE l = visited
    BY <1>2, <1>4, <1>5, <1>6, <2>1 DEF LinesTyped, ThreadTyped
  <2>2. CASE l # visited
    <3>1. buffer'[l] = buffer[l] /\ unanswered'[l] = unanswered[l] /\ pending'[l] = pending[l]
      BY <1>2, <1>4, <2>2 DEF LinesTyped, ThreadTyped
    <3> QED BY <3>1 DEF FreshAnswersLastRequest
  <2> QED BY <2>1, <2>2
<1> QED BY <1>7, <1>8, <1>9

\* What a supply does to the answers of its line; the other lines stay as they are.
LEMMA LineStep ==
    ASSUME ThreadTyped, LinesTyped, FreshAnswersLastRequest, UNCHANGED <<thread, calm>>,
           NEW l \in Lines, NEW inBuffer \in Seq(Answers), NEW toCome \in Seq(Answers),
           buffer' = [buffer EXCEPT ![l] = inBuffer],
           unanswered' = [unanswered EXCEPT ![l] = toCome],
           FreshAreTo(inBuffer, pending[l]), FreshAreTo(toCome, pending[l])
    PROVE  ThreadTyped' /\ LinesTyped' /\ FreshAnswersLastRequest'
<1>1. ThreadTyped' /\ UNCHANGED pending
  BY DEF thread, ThreadTyped
<1>2. LinesTyped'
  BY DEF LinesTyped
<1>3. \A m \in Lines :
         /\ buffer'[m] = IF m = l THEN inBuffer ELSE buffer[m]
         /\ unanswered'[m] = IF m = l THEN toCome ELSE unanswered[m]
  BY DEF LinesTyped
<1>4. FreshAnswersLastRequest'
  <2> SUFFICES ASSUME NEW m \in Lines
               PROVE  FreshAreTo(buffer'[m], pending[m]) /\ FreshAreTo(unanswered'[m], pending[m])
    BY <1>1 DEF FreshAnswersLastRequest, FreshAreTo
  <2> QED BY <1>3 DEF FreshAnswersLastRequest
<1> QED BY <1>1, <1>2, <1>4

\* A supply answers, in time, late or never.
LEMMA SupplyStep ==
    ASSUME ThreadTyped, LinesTyped, FreshAnswersLastRequest,
           NEW l \in Lines, Supply(l) \/ LoseRequest(l)
    PROVE  ThreadTyped' /\ LinesTyped' /\ FreshAnswersLastRequest'
<1>1. /\ buffer[l] \in Seq(Answers) /\ FreshAreTo(buffer[l], pending[l])
      /\ unanswered[l] \in Seq(Answers) /\ FreshAreTo(unanswered[l], pending[l])
      /\ buffer = [buffer EXCEPT ![l] = buffer[l]]
      /\ unanswered = [unanswered EXCEPT ![l] = unanswered[l]]
  BY DEF LinesTyped, FreshAnswersLastRequest
<1>2. CASE RestComes(l)
  <2> DEFINE completed == Append(Front(buffer[l]), [Last(buffer[l]) EXCEPT !.piece = "whole"])
  <2>1. buffer[l] # <<>> /\ buffer' = [buffer EXCEPT ![l] = completed]
        /\ unanswered' = [unanswered EXCEPT ![l] = unanswered[l]]
        /\ UNCHANGED <<thread, calm>>
    BY <1>1, <1>2 DEF RestComes, AwaitsRest
  <2>2. completed \in Seq(Answers) /\ FreshAreTo(completed, pending[l])
    BY <1>1, <2>1, CompletedAnswer
  <2> HIDE DEF completed
  <2> QED BY <1>1, <2>1, <2>2, LineStep
<1>3. CASE Answer(l)
  <2>1. unanswered[l] # <<>> /\ UNCHANGED <<thread, calm>>
        /\ unanswered' = [unanswered EXCEPT ![l] = Tail(unanswered[l])]
    BY <1>3 DEF Answer
  <2>2. /\ Head(unanswered[l]) \in Answers /\ Tail(unanswered[l]) \in Seq(Answers)
        /\ Head(unanswered[l]).fresh => Head(unanswered[l]).to = pending[l]
        /\ FreshAreTo(Tail(unanswered[l]), pending[l])
    BY <1>1, <2>1, FirstAnswer
  <2>3. PICK answer \in {Head(unanswered[l]), [Head(unanswered[l]) EXCEPT !.piece = "front"]} :
           buffer' = [buffer EXCEPT ![l] = Append(buffer[l], answer)]
    BY <1>3 DEF Answer
  <2>4. answer \in Answers /\ (answer.fresh => answer.to = pending[l])
    BY <2>2, <2>3 DEF Answers
  <2>5. /\ Append(buffer[l], answer) \in Seq(Answers)
        /\ FreshAreTo(Append(buffer[l], answer), pending[l])
    BY <1>1, <2>4, AppendedAnswer
  <2> QED BY <2>1, <2>2, <2>3, <2>5, LineStep
<1>4. CASE LoseRequest(l)
  <2>1. unanswered[l] # <<>> /\ UNCHANGED <<thread, calm>>
        /\ unanswered' = [unanswered EXCEPT ![l] = Tail(unanswered[l])]
        /\ buffer' = [buffer EXCEPT ![l] = buffer[l]]
    BY <1>1, <1>4 DEF LoseRequest
  <2>2. Tail(unanswered[l]) \in Seq(Answers) /\ FreshAreTo(Tail(unanswered[l]), pending[l])
    BY <1>1, <2>1, FirstAnswer
  <2> QED BY <1>1, <2>1, <2>2, LineStep
<1> QED BY <1>2, <1>3, <1>4 DEF Supply

\* Every step keeps the invariant, whatever the number of lines.
LEMMA Step ==
    ThreadTyped /\ LinesTyped /\ FreshAnswersLastRequest /\ [Next]_vars
        => ThreadTyped' /\ LinesTyped' /\ FreshAnswersLastRequest'
<1> SUFFICES ASSUME ThreadTyped, LinesTyped, FreshAnswersLastRequest, [Next]_vars
             PROVE  ThreadTyped' /\ LinesTyped' /\ FreshAnswersLastRequest'
  OBVIOUS
<1>1. CASE Visit
  BY <1>1, VisitStep
<1>2. CASE \E l \in Lines : Supply(l) \/ LoseRequest(l)
  BY <1>2, SupplyStep
<1>3. CASE WaitForSynchronization
  <2>1. PICK skip \in 1 .. 3 : fraction' = NextQuarter(skip)
    BY <1>3, LineAssumption DEF WaitForSynchronization
  <2>2. fraction' \in 0 .. Quarters - 1 /\ visited' \in 0 .. Channels
    BY <1>3, <2>1, LineAssumption DEF WaitForSynchronization, NextQuarter, Quarters, ThreadTyped
  <2>3. UNCHANGED <<pending, frameValue, accepted, buffer, unanswered, calm>>
    BY <1>3 DEF WaitForSynchronization
  <2> QED BY <2>2, <2>3 DEF ThreadTyped, LinesTyped, FreshAnswersLastRequest
<1>4. CASE CalmDown \/ UNCHANGED vars
  <2>1. calm' \in BOOLEAN /\ UNCHANGED <<thread, buffer, unanswered>>
    BY <1>4 DEF CalmDown, vars, ThreadTyped
  <2> QED BY <2>1 DEF thread, ThreadTyped, LinesTyped, FreshAnswersLastRequest
<1> QED BY <1>1, <1>2, <1>3, <1>4 DEF Next

\* Every variable keeps its type, whatever the supplies do.
THEOREM TypeCorrectness == Spec => []TypeOK
<1> DEFINE Inv == ThreadTyped /\ LinesTyped /\ FreshAnswersLastRequest
<1>1. Init => Inv
  BY InitLines
<1>2. Inv /\ [Next]_vars => Inv'
  BY Step
<1>3. Inv => TypeOK
  BY TypedIsTypeOK
<1> QED BY <1>1, <1>2, <1>3, PTL DEF Spec, SafetySpec

-----------------------------------------------------------------------------
(***************************************************************************)
(* What is taken for the answer to a request.                              *)
(***************************************************************************)
LEMMA OnlyVisitsJudge ==
    ASSUME ThreadTyped, [Next]_vars, NEW l \in Lines, Judged(l)
    PROVE  accepted'[l] = CorrectResponse(l) /\ pending[l] \in Requests
<1>1. l \in 0 .. Channels - 1 /\ visited = l /\ visited' = l + 1 /\ Channels \in Nat
  BY LineAssumption DEF Judged, Lines
<1>2. Visit
  <2>1. ~WaitForSynchronization
    BY <1>1 DEF WaitForSynchronization
  <2>2. visited' # visited
    BY <1>1
  <2> QED
    BY <2>1, <2>2
    DEF Next, CalmDown, Supply, RestComes, Answer, LoseRequest, vars, thread
<1>3. accepted' = [accepted EXCEPT ![l] = pending[l] # Nothing /\ CorrectResponse(l)]
  BY <1>1, <1>2 DEF Visit
<1>4. pending[l] # Nothing /\ pending[l] \in Requests \union {Nothing}
  BY DEF Judged, ThreadTyped
<1>5. accepted'[l] = (pending[l] # Nothing /\ CorrectResponse(l))
  BY <1>3 DEF ThreadTyped
<1> QED BY <1>4, <1>5 DEF CorrectResponse

\* Two requests of a kind are the same, if they set the same value.
LEMMA SameRequest ==
    ASSUME NEW r \in Requests, NEW q \in Requests, r.code = q.code,
           r.code = "SET_VALUE" => r.value = q.value
    PROVE  r = q
  BY LineAssumption DEF Requests, Request

\* An accepted answer is one to a request of the kind that was sent; and to that
\* very request, if the shared frame still holds what this line was sent.
LEMMA AcceptedAnswer ==
    ASSUME ThreadTyped, LinesTyped, [Next]_vars, NEW l \in Lines, Judged(l), accepted'[l]
    PROVE  /\ Head(buffer[l]).to.code = pending[l].code
           /\ FrameIsOf(l) => Head(buffer[l]).to = pending[l]
<1>1. CorrectResponse(l) /\ pending[l] \in Requests
  BY OnlyVisitsJudge
<1>2. buffer[l] \in Seq(Answers) /\ buffer[l] # <<>>
  BY <1>1 DEF CorrectResponse, LinesTyped
<1>3. Head(buffer[l]).to \in Requests
  BY <1>2, FirstAnswer DEF Answers
<1>4. /\ Head(buffer[l]).to.code = pending[l].code
      /\ pending[l].code = "SET_VALUE" => Head(buffer[l]).to.value = frameValue
  BY <1>1 DEF CorrectResponse, KnownResponse
<1> QED BY <1>1, <1>3, <1>4, SameRequest DEF FrameIsOf

\* A whole and fresh answer that lies alone is accepted, if the shared frame
\* still holds what this line was sent.
LEMMA FreshAnswer ==
    ASSUME ThreadTyped, LinesTyped, FreshAnswersLastRequest, [Next]_vars,
           NEW l \in Lines, Judged(l), FrameIsOf(l), RightAnswerAlone(l)
    PROVE  accepted'[l]
<1>1. PICK answer \in Answers :
         buffer[l] = <<answer>> /\ answer.piece = "whole" /\ answer.fresh
  BY DEF RightAnswerAlone
<1>2. answer.to = pending[l] /\ Head(buffer[l]) = answer /\ buffer[l] # <<>>
  BY <1>1 DEF FreshAnswersLastRequest, FreshAreTo
<1>3. CorrectResponse(l)
  BY <1>1, <1>2 DEF CorrectResponse, KnownResponse, FrameIsOf
<1> QED BY <1>3, OnlyVisitsJudge

\* AnswersAreJudged, for any number of lines and whatever is late, lost or torn:
\* an answer that singleInquiryOfSlave accepts is one to a command of the same
\* kind, and unless another line has been sent a set-point since, to the very
\* command; and then the right answer, alone in the buffer, is accepted.
THEOREM AnyLines == Spec => AnswersAreJudged
<1> DEFINE Inv == ThreadTyped /\ LinesTyped /\ FreshAnswersLastRequest
           Right(l) == /\ accepted'[l] => Head(buffer[l]).to.code = pending[l].code
                       /\ FrameIsOf(l) => /\ accepted'[l] => Head(buffer[l]).to = pending[l]
                                          /\ RightAnswerAlone(l) => accepted'[l]
<1>1. Init => Inv
  BY InitLines
<1>2. Inv /\ [Next]_vars => Inv'
  BY Step
<1>3. Inv /\ [Next]_vars => [\A l \in Lines : Judged(l) => Right(l)]_vars
  <2> SUFFICES ASSUME Inv, [Next]_vars, NEW l \in Lines, Judged(l) PROVE Right(l)
    OBVIOUS
  <2>1. accepted'[l] => /\ Head(buffer[l]).to.code = pending[l].code
                        /\ FrameIsOf(l) => Head(buffer[l]).to = pending[l]
    BY AcceptedAnswer
  <2>2. FrameIsOf(l) /\ RightAnswerAlone(l) => accepted'[l]
    BY FreshAnswer
  <2> QED BY <2>1, <2>2
<1> QED BY <1>1, <1>2, <1>3, PTL DEF Spec, SafetySpec, AnswersAreJudged

-----------------------------------------------------------------------------
(***************************************************************************)
(* In step for good.                                                       *)
(***************************************************************************)
\* At most one answer is in the buffer or to come, whole and to the last request.
AllNew(answers) == \A i \in DOMAIN answers : answers[i].fresh /\ answers[i].piece = "whole"

Settled(l) ==
    /\ Len(buffer[l]) + Len(unanswered[l]) <= 1
    /\ AllNew(buffer[l]) /\ AllNew(unanswered[l])

AllSettled == calm /\ \A l \in Lines : Settled(l)

\* Arithmetic of at most one.
LEMMA NoneOrOne == \A m, n \in Nat : m + n <= 1 => n <= 1 /\ (n = 0 \/ n = 1)
  OBVIOUS

\* What may lie on a settled line: nothing, or one whole, fresh answer.
LEMMA AtMostOne ==
    ASSUME NEW answers \in Seq(Answers), Len(answers) <= 1, AllNew(answers)
    PROVE  answers = <<>> \/ \E answer \in Answers :
               answers = <<answer>> /\ answer.fresh /\ answer.piece = "whole"
<1>1. Len(answers) = 0 \/ Len(answers) = 1
  <2>1. Len(answers) \in Nat
    BY LenProperties
  <2>2. 0 + Len(answers) <= 1
    BY <2>1
  <2> QED BY <2>1, <2>2, NoneOrOne
<1>2. CASE Len(answers) = 0
  BY <1>2, EmptySeq
<1>3. CASE Len(answers) = 1
  <2>1. answers = <<answers[1]>> /\ answers[1] \in Answers /\ 1 \in DOMAIN answers
    BY <1>3, LenProperties, ElementOfSeq
  <2> QED BY <2>1 DEF AllNew
<1> QED BY <1>1, <1>2, <1>3

\* A visit to a settled line empties its buffer, whether the answer is accepted
\* or read away, and asks for one answer.
LEMMA SettledVisit ==
    ASSUME ThreadTyped, LinesTyped, FreshAnswersLastRequest, AllSettled, Visit
    PROVE  AllSettled'
<1>1. PICK request \in NextRequests :
         unanswered' = [unanswered EXCEPT ![visited] = Received(visited, request)]
  BY DEF Visit
<1>2. /\ visited \in Lines
      /\ buffer' = [buffer EXCEPT ![visited] = Aged(LeftInBuffer(visited))]
      /\ unanswered[visited] = <<>> /\ ~AwaitsRest(visited) /\ calm'
  BY DEF Visit, AllSettled, InTime, Punctual
<1>3. /\ buffer[visited] \in Seq(Answers) /\ Len(buffer[visited]) \in Nat
      /\ unanswered[visited] \in Seq(Answers)
  BY <1>2, LenProperties DEF LinesTyped
<1>4. Len(buffer[visited]) <= 1 /\ AllNew(buffer[visited])
  <2>1. Settled(visited)
    BY <1>2 DEF AllSettled
  <2>2. Len(unanswered[visited]) = 0
    BY <1>2, <1>3, EmptySeq
  <2> QED BY <1>3, <2>1, <2>2 DEF Settled
<1>5. LeftInBuffer(visited) = <<>>
  <2>1. CASE buffer[visited] = <<>>
    BY <2>1 DEF LeftInBuffer, LeftAfterError, CorrectResponse
  <2>2. CASE buffer[visited] # <<>>
    <3>1. PICK answer \in Answers : buffer[visited] = <<answer>> /\ answer.fresh
      BY <1>3, <1>4, <2>2, AtMostOne
    <3>2. answer.to = pending[visited] /\ answer.to \in Requests
      BY <1>2, <3>1 DEF FreshAnswersLastRequest, FreshAreTo, Answers
    <3>3. pending[visited] # Nothing
      BY <3>2, LineAssumption DEF Requests, Request, Nothing
    <3>4. Tail(buffer[visited]) = <<>>
      BY <3>1
    <3> QED BY <3>3, <3>4 DEF LeftInBuffer, LeftAfterError
  <2> QED BY <2>1, <2>2
<1>6. Aged(<<>>) = <<>>
  BY DEF Aged
<1>7. PieceLeft(visited) \o unanswered[visited] = <<>>
  BY <1>2 DEF PieceLeft
<1>8. Received(visited, request) = <<[to |-> request, piece |-> "whole", fresh |-> TRUE]>>
  <2>1. Aged(PieceLeft(visited) \o unanswered[visited]) = <<>>
    BY <1>6, <1>7
  <2>2. ~(Len(<<>>) >= MaxBehind)
    BY LineAssumption
  <2>3. Append(<<>>, [to |-> request, piece |-> "whole", fresh |-> TRUE])
           = <<[to |-> request, piece |-> "whole", fresh |-> TRUE]>>
    OBVIOUS
  <2> QED BY <2>1, <2>2, <2>3, Zenon DEF Received
<1> SUFFICES ASSUME NEW l \in Lines PROVE Settled(l)'
  BY <1>2 DEF AllSettled
<1>9. CASE l = visited
  <2>1. /\ buffer'[l] = <<>>
        /\ unanswered'[l] = <<[to |-> request, piece |-> "whole", fresh |-> TRUE]>>
    BY <1>1, <1>2, <1>5, <1>6, <1>8, <1>9 DEF LinesTyped
  <2> QED BY <2>1 DEF Settled, AllNew
<1>10. CASE l # visited
  <2>1. buffer'[l] = buffer[l] /\ unanswered'[l] = unanswered[l]
    BY <1>1, <1>2, <1>10 DEF LinesTyped
  <2> QED BY <2>1 DEF Settled, AllSettled, AllNew
<1> QED BY <1>9, <1>10

\* A supply of a settled line leaves all lines settled.
LEMMA SettledSupply ==
    ASSUME LinesTyped, AllSettled, NEW l \in Lines, Supply(l) \/ LoseRequest(l)
    PROVE  AllSettled'
<1>1. /\ buffer[l] \in Seq(Answers) /\ unanswered[l] \in Seq(Answers)
      /\ Len(buffer[l]) \in Nat /\ Len(unanswered[l]) \in Nat
      /\ Len(buffer[l]) + Len(unanswered[l]) <= 1
      /\ AllNew(buffer[l]) /\ AllNew(unanswered[l])
  BY LenProperties DEF LinesTyped, AllSettled, Settled
<1>2. ~RestComes(l) /\ ~LoseRequest(l)
  <2>1. ~AwaitsRest(l)
    BY <1>1, LenProperties, EmptySeq DEF AwaitsRest, AllNew, Last
  <2> QED BY <2>1 DEF RestComes, LoseRequest, AllSettled, Punctual
<1>3. /\ unanswered[l] # <<>> /\ calm'
      /\ buffer' = [buffer EXCEPT ![l] = Append(buffer[l], Head(unanswered[l]))]
      /\ unanswered' = [unanswered EXCEPT ![l] = Tail(unanswered[l])]
  BY <1>2 DEF Supply, Answer, AllSettled, Punctual
<1>4. PICK answer \in Answers :
         unanswered[l] = <<answer>> /\ answer.fresh /\ answer.piece = "whole"
  <2>1. Len(unanswered[l]) <= 1
    BY <1>1, NoneOrOne
  <2> QED BY <1>1, <1>3, <2>1, AtMostOne
<1>5. buffer[l] = <<>>
  BY <1>1, <1>4, EmptySeq
<1>6. buffer'[l] = <<answer>> /\ unanswered'[l] = <<>>
  BY <1>3, <1>4, <1>5 DEF LinesTyped
<1> SUFFICES ASSUME NEW m \in Lines PROVE Settled(m)'
  BY <1>3 DEF AllSettled
<1>7. CASE m = l
  <2>1. buffer'[m] = <<answer>> /\ unanswered'[m] = <<>>
    BY <1>6, <1>7
  <2>2. /\ AllNew(<<answer>>) /\ AllNew(<<>>)
        /\ Len(<<answer>>) + Len(<<>>) <= 1
    BY <1>4 DEF AllNew
  <2> QED BY <2>1, <2>2 DEF Settled, AllNew
<1>8. CASE m # l
  <2>1. buffer'[m] = buffer[m] /\ unanswered'[m] = unanswered[m]
    BY <1>3, <1>8 DEF LinesTyped
  <2> QED BY <2>1 DEF Settled, AllSettled, AllNew
<1> QED BY <1>7, <1>8

\* Once all lines have settled, they stay so.
LEMMA SettledStays ==
    ThreadTyped /\ LinesTyped /\ FreshAnswersLastRequest /\ AllSettled /\ [Next]_vars => AllSettled'
<1> SUFFICES ASSUME ThreadTyped, LinesTyped, FreshAnswersLastRequest, AllSettled, [Next]_vars
             PROVE  AllSettled'
  OBVIOUS
<1>1. CASE WaitForSynchronization \/ CalmDown \/ UNCHANGED vars
  <2>1. UNCHANGED <<buffer, unanswered>> /\ calm'
    BY <1>1 DEF WaitForSynchronization, CalmDown, vars, AllSettled
  <2> QED BY <2>1 DEF AllSettled, Settled, AllNew
<1> QED BY <1>1, SettledVisit, SettledSupply DEF Next

\* The safety half of BackInStep, for any number of lines and set-points: once
\* every supply answers in time and nothing old is left on any line, no line ever
\* gets out of step again, also when its answers are rejected.
THEOREM InStepForGood == Spec => [](AllSettled => [](\A l \in Lines : InStep(l)))
<1> DEFINE Inv == ThreadTyped /\ LinesTyped /\ FreshAnswersLastRequest
<1>1. Init => Inv
  BY InitLines
<1>2. Inv /\ [Next]_vars => Inv'
  BY Step
<1>3. Inv /\ AllSettled /\ [Next]_vars => AllSettled'
  BY SettledStays
<1>4. AllSettled => \A l \in Lines : InStep(l)
  BY DEF AllSettled, Settled, AllNew, InStep
<1> QED BY <1>1, <1>2, <1>3, <1>4, PTL DEF Spec, SafetySpec
=============================================================================
