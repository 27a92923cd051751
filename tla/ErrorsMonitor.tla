--------------------------- MODULE ErrorsMonitor ---------------------------
(***************************************************************************)
(* TransmissionErrorsMonitor: the outcome of the last inquiries of a line, *)
(* one bit each, in a ring of words, and the two statistics computed from  *)
(* it at every new sample: how many errors there are, and how long the     *)
(* longest run of them is.  Both are shown to the user, and sent to the    *)
(* remote computer, with the next outcome.                                 *)
(***************************************************************************)
EXTENDS Integers, Sequences, FiniteSets, FiniteSetsExt

CONSTANTS
    Words,      \* TRANSMISSION_ERRORS_TABLE
    Bits        \* HISTORY_ELEMENT_BITS

ASSUME SizesAssumption ==
    /\ Words \in Nat \ {0}
    /\ Bits \in Nat \ {0}

VARIABLES
    history,    \* TransmissionErrorsHistory: the bits set in each word
    head,       \* TransmissionErrorsHead: the bit to write next
    value,      \* TransmissionErrorsValue
    sequence,   \* TransmissionErrorsSequence
    shown,      \* the statistics last given to loadRstlProtocolData
    samples     \* history: the last samples as they came, oldest first

vars == <<history, head, value, sequence, shown, samples>>

Size == Words * Bits

TypeOK ==
    /\ history \in [0 .. Words - 1 -> SUBSET (0 .. Bits - 1)]
    /\ head \in 0 .. Size - 1
    /\ value \in 0 .. Size
    /\ sequence \in 0 .. value
    /\ shown \in [perMille : 0 .. 1000, sequence : 0 .. Size]
    /\ samples \in Seq(BOOLEAN)

Init ==
    /\ history = [w \in 0 .. Words - 1 |-> {}]
    /\ head = 0
    /\ value = 0
    /\ sequence = 0
    /\ shown = [perMille |-> 0, sequence |-> 0]
    /\ samples = [i \in 1 .. Size |-> FALSE]

WithBit_NeverCleared(index, isError) ==
    [history EXCEPT ![index \div Bits] =
        IF isError THEN @ \union {index % Bits} ELSE @]

WithBit(index, isError) ==
    [history EXCEPT ![index \div Bits] =
        IF isError THEN @ \union {index % Bits} ELSE @ \ {index % Bits}]

NextHead_Unwrapped == head + 1

NextHead == (head + 1) % Size

\* The loop over the ring starts at the oldest sample, so that a run of errors
\* is not cut in two where the ring begins.
LoopOrder_FromZero == [i \in 1 .. Size |-> i - 1]

LoopOrder == [i \in 1 .. Size |-> (NextHead + i - 1) % Size]

CountBit_RunKept(bits, found, index) ==
    IF index % Bits \notin bits[index \div Bits]
    THEN found
    ELSE LET run == found.run + 1 IN
         [value |-> found.value + 1, run |-> run,
          sequence |-> IF run > found.sequence THEN run ELSE found.sequence]

CountBit(bits, found, index) ==
    IF index % Bits \notin bits[index \div Bits]
    THEN [found EXCEPT !.run = 0]
    ELSE LET run == found.run + 1 IN
         [value |-> found.value + 1, run |-> run,
          sequence |-> IF run > found.sequence THEN run ELSE found.sequence]

\* What is found after so many turns of the loop.
Statistics(bits) ==
    LET found[turns \in 0 .. Size] ==
            IF turns = 0 THEN [value |-> 0, run |-> 0, sequence |-> 0]
            ELSE CountBit(bits, found[turns - 1], LoopOrder[turns])
    IN  found[Size]

ErrorPerMille_OfWords == (1000 * value) \div Words

ErrorPerMille == (1000 * value) \div Size

\* The statistics are handed on before the outcome they come with is added.
AddSampleAndCalculateStatistics(isError) ==
    /\ shown' = [perMille |-> ErrorPerMille, sequence |-> sequence]
    /\ history' = WithBit(head, isError)
    /\ head' = NextHead
    /\ LET found == Statistics(history') IN
          /\ value' = found.value
          /\ sequence' = found.sequence
    /\ samples' = Append(Tail(samples), isError)

Next == \E isError \in BOOLEAN : AddSampleAndCalculateStatistics(isError)

Spec == Init /\ [][Next]_vars

-----------------------------------------------------------------------------
(***************************************************************************)
(* Properties.                                                             *)
(***************************************************************************)
IsRun(from, length) == \A i \in from .. from + length - 1 : samples[i]

Runs == {length \in 0 .. Size :
            \E from \in 1 .. Size - length + 1 : IsRun(from, length)}

\* However often the ring has wrapped around, the number of errors counted is
\* that among the last samples: none is forgotten or counted twice.
CountsErrors == value = Cardinality({i \in 1 .. Size : samples[i]})

\* The longest run found is that of the samples in the order they came, also
\* when it lies across words or across the end of the ring.
FindsLongestRun == sequence = Max(Runs)

\* What is shown is the share of errors rounded down, so at most 1000, and is
\* behind by exactly the sample it is shown with.
ShownLagsByOne ==
    [][\A errors \in 0 .. Size :
        errors = Cardinality({i \in 1 .. Size : samples[i]}) =>
            /\ shown'.perMille * Size <= 1000 * errors
            /\ 1000 * errors < (shown'.perMille + 1) * Size]_vars
=============================================================================
