------------------------ MODULE ErrorsMonitorProofs ------------------------
(***************************************************************************)
(* Theorems about ErrorsMonitor, for any number of words and of bits.      *)
(*                                                                         *)
(* The ring holds the last samples, the oldest of them at the head.  What  *)
(* the loop over the ring has found after each turn is what these samples  *)
(* say up to there: Found gives it in closed form, and is shown to do      *)
(* turn by turn what the loop does, so that it is what the loop finds.     *)
(***************************************************************************)
EXTENDS ErrorsMonitor, FiniteSetTheorems, SequenceTheorems, WellFoundedInduction, TLAPS

\* The remainder of a number below twice the divisor.
LEMMA Wraps ==
    ASSUME NEW n \in Nat \ {0}, NEW x \in 0 .. 2 * n - 1
    PROVE  x % n = IF x < n THEN x ELSE x - n
  OBVIOUS

\* Quotient and remainder, and the bounds of the quotient.
LEMMA Divides ==
    ASSUME NEW n \in Nat \ {0}, NEW x \in Nat
    PROVE  /\ x \div n \in Nat /\ x % n \in 0 .. n - 1
           /\ x = n * (x \div n) + (x % n)
           /\ n * (x \div n) <= x
           /\ x < n * (x \div n + 1)
<1>1. /\ x \div n \in Nat
      /\ x % n \in 0 .. n - 1
      /\ x = n * (x \div n) + (x % n)
  <2>1. x \div n \in Nat
    OBVIOUS
  <2>2. x % n \in 0 .. n - 1
    OBVIOUS
  <2>3. x = n * (x \div n) + (x % n)
    OBVIOUS
  <2> QED BY <2>1, <2>2, <2>3
<1>2. n * (x \div n) \in Nat /\ n * (x \div n + 1) = n * (x \div n) + n
  BY <1>1
<1> QED BY <1>1, <1>2

\* The quotient of a number below a product is below the other factor.
LEMMA Below ==
    ASSUME NEW m \in Nat, NEW n \in Nat \ {0}, NEW x \in 0 .. m * n - 1
    PROVE  x \div n \in 0 .. m - 1
  OBVIOUS

\* The ring has room for a sample.
LEMMA SizeType == Size \in Nat \ {0}
  BY SizesAssumption DEF Size

\* A set of naturals that is not empty has a least element.
LEMMA Least ==
    ASSUME NEW S \in SUBSET Nat, S # {}
    PROVE  \E n \in S : \A m \in S : n <= m
<1> DEFINE R == {pair \in Nat \X Nat : pair[1] < pair[2]}
<1>1. IsWellFoundedOn(R, Nat)
  BY NatLessThanWellFounded DEF OpToRel
<1>2. \A m, n \in Nat : <<m, n>> \in R <=> m < n
  OBVIOUS
<1> HIDE DEF R
<1>3. PICK n \in S : \A m \in S : ~(<<m, n>> \in R)
  BY <1>1, WFMin
<1>4. ASSUME NEW m \in S PROVE n <= m
  <2>1. m \in Nat /\ n \in Nat
    OBVIOUS
  <2>2. ~(m < n)
    BY <1>2, <1>3, <2>1
  <2> QED BY <2>1, <2>2
<1> QED BY <1>4

\* What Max is, once a greatest element is known.
LEMMA MaxIs ==
    ASSUME NEW S \in SUBSET Int, NEW max \in S, \A n \in S : n <= max
    PROVE  Max(S) = max
<1>1. \E n \in S : \A m \in S : n >= m
  OBVIOUS
<1>2. Max(S) \in S /\ \A m \in S : Max(S) >= m
  BY <1>1 DEF Max
<1>3. Max(S) \in Int /\ max \in Int /\ Max(S) >= max /\ Max(S) <= max
  BY <1>2
<1> QED BY <1>3

\* A bounded set of naturals has a greatest element.
LEMMA Greatest ==
    ASSUME NEW n \in Nat, NEW S \in SUBSET (0 .. n), S # {}
    PROVE  Max(S) \in S /\ \A m \in S : m <= Max(S)
<1> DEFINE Rests == {rest \in 0 .. n : n - rest \in S}
<1>1. Rests \in SUBSET Nat /\ Rests # {}
  <2>1. PICK m \in S : TRUE
    OBVIOUS
  <2>2. m \in 0 .. n /\ n - m \in 0 .. n /\ n - (n - m) = m
    BY <2>1
  <2> QED BY <2>1, <2>2
<1>2. PICK rest \in Rests : \A r \in Rests : rest <= r
  BY <1>1, Least
<1>3. PICK max \in S : rest = n - max
  <2>1. n - rest \in S /\ rest = n - (n - rest)
    BY <1>2
  <2> QED BY <2>1
<1>4. \A m \in S : m <= max
  <2> SUFFICES ASSUME NEW m \in S PROVE m <= max
    OBVIOUS
  <2>1. n - m \in Rests /\ m \in Int /\ max \in Int
    <3>1. m \in 0 .. n /\ max \in 0 .. n /\ n - m \in 0 .. n /\ n - (n - m) = m
      OBVIOUS
    <3> QED BY <3>1
  <2>2. n - max <= n - m
    BY <1>2, <1>3, <2>1
  <2> QED BY <2>1, <2>2
<1>5. S \in SUBSET Int
  OBVIOUS
<1>6. Max(S) = max
  BY <1>4, <1>5, MaxIs
<1> QED BY <1>4, <1>6

-----------------------------------------------------------------------------
Run(e, from, length) == \A i \in from .. from + length - 1 : e[i]

Errors(e, n) == {i \in 1 .. n : e[i]}

LastRuns(e, n) == {length \in 0 .. n : Run(e, n - length + 1, length)}

AllRuns(e, n) ==
    {length \in 0 .. n : \E from \in 1 .. n - length + 1 : Run(e, from, length)}

Found(e, n) ==
    [value |-> Cardinality(Errors(e, n)), run |-> Max(LastRuns(e, n)),
     sequence |-> Max(AllRuns(e, n))]

\* There is a longest run, and Max is its length.
LEMMA RunsHaveMax ==
    ASSUME NEW e, NEW n \in Nat
    PROVE  /\ LastRuns(e, n) \in SUBSET (0 .. n) /\ 0 \in LastRuns(e, n)
           /\ AllRuns(e, n) \in SUBSET (0 .. n) /\ 0 \in AllRuns(e, n)
<1>1. 0 \in LastRuns(e, n)
  BY DEF LastRuns, Run
<1>2. 0 \in AllRuns(e, n)
  <2>1. 1 \in 1 .. n - 0 + 1 /\ Run(e, 1, 0)
    BY DEF Run
  <2> QED BY <2>1 DEF AllRuns
<1> QED BY <1>1, <1>2 DEF LastRuns, AllRuns

\* The longest of the runs that end here, and of all.
LEMMA LongestRun ==
    ASSUME NEW e, NEW n \in Nat
    PROVE  /\ Max(LastRuns(e, n)) \in LastRuns(e, n) /\ Max(LastRuns(e, n)) \in 0 .. n
           /\ \A length \in LastRuns(e, n) : length \in Int /\ length <= Max(LastRuns(e, n))
           /\ Max(AllRuns(e, n)) \in AllRuns(e, n) /\ Max(AllRuns(e, n)) \in 0 .. n
           /\ \A length \in AllRuns(e, n) : length \in Int /\ length <= Max(AllRuns(e, n))
<1>1. LastRuns(e, n) \in SUBSET (0 .. n) /\ LastRuns(e, n) # {}
  BY RunsHaveMax
<1>2. AllRuns(e, n) \in SUBSET (0 .. n) /\ AllRuns(e, n) # {}
  BY RunsHaveMax
<1>3. /\ Max(LastRuns(e, n)) \in LastRuns(e, n)
      /\ \A length \in LastRuns(e, n) : length <= Max(LastRuns(e, n))
  BY <1>1, Greatest
<1>4. /\ Max(AllRuns(e, n)) \in AllRuns(e, n)
      /\ \A length \in AllRuns(e, n) : length <= Max(AllRuns(e, n))
  BY <1>2, Greatest
<1>5. \A length \in 0 .. n : length \in Int
  OBVIOUS
<1> QED BY <1>1, <1>2, <1>3, <1>4, <1>5

\* Before the first turn of the loop nothing has been found.
LEMMA FoundFirst ==
    ASSUME NEW e
    PROVE  Found(e, 0) = [value |-> 0, run |-> 0, sequence |-> 0]
<1>1. Errors(e, 0) = {}
  BY DEF Errors
<1>2. LastRuns(e, 0) = {0} /\ AllRuns(e, 0) = {0}
  BY RunsHaveMax
<1>3. Max({0}) = 0
  BY MaxIs
<1> QED BY <1>1, <1>2, <1>3, FS_EmptySet DEF Found

\* A run among the first n bits is one among the bits before, or the last one.
LEMMA AllRunsNext ==
    ASSUME NEW e, NEW n \in Nat \ {0}
    PROVE  AllRuns(e, n) = AllRuns(e, n - 1) \union LastRuns(e, n)
<1>1. ASSUME NEW length \in AllRuns(e, n), length \notin AllRuns(e, n - 1)
      PROVE  length \in LastRuns(e, n)
  <2>1. PICK from \in 1 .. n - length + 1 : Run(e, from, length)
    BY <1>1 DEF AllRuns
  <2>2. length \in 0 .. n /\ n - 1 \in Nat
    BY <1>1 DEF AllRuns
  <2>3. length # 0
    BY <1>1, <2>2, RunsHaveMax
  <2>4. CASE from = n - length + 1
    BY <2>1, <2>2, <2>4 DEF LastRuns
  <2>5. CASE from # n - length + 1
    <3>1. from \in 1 .. (n - 1) - length + 1 /\ length \in 0 .. n - 1
      BY <2>1, <2>2, <2>3, <2>5
    <3> QED BY <1>1, <2>1, <3>1 DEF AllRuns
  <2> QED BY <2>4, <2>5
<1>2. ASSUME NEW length \in AllRuns(e, n - 1) PROVE length \in AllRuns(e, n)
  <2>1. PICK from \in 1 .. (n - 1) - length + 1 : Run(e, from, length)
    BY <1>2 DEF AllRuns
  <2>2. length \in 0 .. n - 1
    BY <1>2 DEF AllRuns
  <2>3. from \in 1 .. n - length + 1 /\ length \in 0 .. n
    BY <2>1, <2>2
  <2> QED BY <2>1, <2>3 DEF AllRuns
<1>3. ASSUME NEW length \in LastRuns(e, n) PROVE length \in AllRuns(e, n)
  <2>1. length \in 0 .. n /\ Run(e, n - length + 1, length)
    BY <1>3 DEF LastRuns
  <2>2. n - length + 1 \in 1 .. n - length + 1
    BY <2>1
  <2> QED BY <2>1, <2>2 DEF AllRuns
<1> QED BY <1>1, <1>2, <1>3

\* The count and both runs after a bit that is set, and after one that is not.
LEMMA ErrorsNext ==
    ASSUME NEW e, NEW n \in Nat \ {0}
    PROVE  /\ Cardinality(Errors(e, n)) \in 0 .. n
           /\ Cardinality(Errors(e, n - 1)) \in Nat
           /\ Cardinality(Errors(e, n)) =
                 Cardinality(Errors(e, n - 1)) + (IF e[n] THEN 1 ELSE 0)
<1>1. /\ IsFiniteSet(1 .. n) /\ Cardinality(1 .. n) = n
      /\ IsFiniteSet(1 .. n - 1)
  BY FS_Interval
<1>2. /\ IsFiniteSet(Errors(e, n)) /\ Cardinality(Errors(e, n)) <= n
      /\ Cardinality(Errors(e, n)) \in Nat
  BY <1>1, FS_Subset, FS_CardinalityType DEF Errors
<1>3. IsFiniteSet(Errors(e, n - 1)) /\ Cardinality(Errors(e, n - 1)) \in Nat
  BY <1>1, FS_Subset, FS_CardinalityType DEF Errors
<1>4. CASE e[n]
  <2>1. Errors(e, n) = Errors(e, n - 1) \union {n} /\ n \notin Errors(e, n - 1)
    BY <1>4 DEF Errors
  <2> QED BY <1>2, <1>3, <1>4, <2>1, FS_AddElement
<1>5. CASE ~e[n]
  <2>1. Errors(e, n) = Errors(e, n - 1)
    BY <1>5 DEF Errors
  <2> QED BY <1>2, <1>3, <1>5, <2>1
<1> QED BY <1>4, <1>5

\* One more sample lengthens the last run or ends it.
LEMMA LastRunNext ==
    ASSUME NEW e, NEW n \in Nat \ {0}
    PROVE  Max(LastRuns(e, n)) = IF e[n] THEN Max(LastRuns(e, n - 1)) + 1 ELSE 0
<1> DEFINE before == Max(LastRuns(e, n - 1))
<1>1. /\ LastRuns(e, n) \in SUBSET Int
      /\ before \in LastRuns(e, n - 1) /\ before \in 0 .. n - 1
      /\ \A length \in LastRuns(e, n - 1) : length <= before
  <2>1. n - 1 \in Nat
    OBVIOUS
  <2>2. LastRuns(e, n) \in SUBSET (0 .. n) /\ \A length \in 0 .. n : length \in Int
    BY RunsHaveMax
  <2> QED BY <2>1, <2>2, LongestRun
<1> HIDE DEF before
<1>2. CASE e[n]
  <2>1. before + 1 \in LastRuns(e, n)
    <3>1. n - (before + 1) + 1 = n - before /\ before + 1 \in 0 .. n
      BY <1>1
    <3>2. Run(e, n - before, before + 1)
      <4> SUFFICES ASSUME NEW i \in n - before .. n - before + (before + 1) - 1
                   PROVE  e[i]
        BY DEF Run
      <4>1. CASE i = n
        BY <1>2, <4>1
      <4>2. CASE i # n
        <5>1. i \in (n - 1) - before + 1 .. (n - 1) - before + 1 + before - 1
          BY <1>1, <4>2
        <5> QED BY <1>1, <5>1 DEF LastRuns, Run
      <4> QED BY <4>1, <4>2
    <3> QED BY <3>1, <3>2 DEF LastRuns
  <2>2. ASSUME NEW length \in LastRuns(e, n) PROVE length <= before + 1
    <3>1. length \in 0 .. n
      BY DEF LastRuns
    <3>2. CASE length = 0
      BY <1>1, <3>2
    <3>3. CASE length # 0
      <4>1. length - 1 \in 0 .. n - 1 /\ (n - 1) - (length - 1) + 1 = n - length + 1
        BY <3>1, <3>3
      <4>2. Run(e, n - length + 1, length - 1)
        BY <3>1 DEF LastRuns, Run
      <4>3. length - 1 \in LastRuns(e, n - 1)
        BY <4>1, <4>2 DEF LastRuns
      <4> QED BY <1>1, <3>1, <4>3
    <3> QED BY <3>2, <3>3
  <2>3. Max(LastRuns(e, n)) = before + 1
    BY <1>1, <2>1, <2>2, MaxIs
  <2> QED BY <1>2, <2>3 DEF before
<1>3. CASE ~e[n]
  <2>1. ASSUME NEW length \in LastRuns(e, n) PROVE length <= 0
    <3>1. length \in 0 .. n /\ Run(e, n - length + 1, length)
      BY DEF LastRuns
    <3>2. length > 0 => n \in n - length + 1 .. n - length + 1 + length - 1
      BY <3>1
    <3> QED BY <1>3, <3>1, <3>2 DEF Run
  <2>2. Max(LastRuns(e, n)) = 0
    BY <1>1, <2>1, RunsHaveMax, MaxIs
  <2> QED BY <1>3, <2>2
<1> QED BY <1>2, <1>3

\* One more sample may make the last run the longest.
LEMMA LongestNext ==
    ASSUME NEW e, NEW n \in Nat \ {0}
    PROVE  /\ Max(LastRuns(e, n)) \in 0 .. n /\ Max(AllRuns(e, n - 1)) \in 0 .. n - 1
           /\ Max(AllRuns(e, n)) =
                 IF Max(LastRuns(e, n)) > Max(AllRuns(e, n - 1))
                 THEN Max(LastRuns(e, n)) ELSE Max(AllRuns(e, n - 1))
<1> DEFINE last == Max(LastRuns(e, n))
           all  == Max(AllRuns(e, n - 1))
<1>1. /\ last \in LastRuns(e, n) /\ last \in 0 .. n
      /\ \A length \in LastRuns(e, n) : length \in Int /\ length <= last
  BY LongestRun
<1>2. /\ all \in AllRuns(e, n - 1) /\ all \in 0 .. n - 1
      /\ \A length \in AllRuns(e, n - 1) : length \in Int /\ length <= all
  <2>1. n - 1 \in Nat
    OBVIOUS
  <2> QED BY <2>1, LongestRun
<1>3. AllRuns(e, n) = AllRuns(e, n - 1) \union LastRuns(e, n)
  BY AllRunsNext
<1> HIDE DEF last, all
<1> DEFINE longer == IF last > all THEN last ELSE all
<1>4. /\ longer \in AllRuns(e, n) /\ AllRuns(e, n) \in SUBSET Int
      /\ \A length \in AllRuns(e, n) : length <= longer
  <2>1. longer \in AllRuns(e, n)
    BY <1>1, <1>2, <1>3
  <2>2. AllRuns(e, n) \in SUBSET Int
    BY <1>1, <1>2, <1>3
  <2>3. last <= longer /\ all <= longer /\ longer \in Int /\ last \in Int /\ all \in Int
    BY <1>1, <1>2
  <2>4. ASSUME NEW length \in AllRuns(e, n) PROVE length <= longer
    <3> HIDE DEF longer
    <3>1. CASE length \in LastRuns(e, n)
      BY <1>1, <2>3, <3>1
    <3>2. CASE length \in AllRuns(e, n - 1)
      BY <1>2, <2>3, <3>2
    <3> QED BY <1>3, <3>1, <3>2
  <2> QED BY <2>1, <2>2, <2>4
<1> HIDE DEF longer
<1>5. Max(AllRuns(e, n)) = longer
  BY <1>4, MaxIs
<1> QED BY <1>1, <1>2, <1>5 DEF longer, last, all

-----------------------------------------------------------------------------
BitSet(bits, index) == index % Bits \in bits[index \div Bits]

\* The bits in the order in which the loop comes to them.
Looped(bits) == [turn \in 1 .. Size |-> BitSet(bits, LoopOrder[turn])]

\* A turn of the loop finds what there is up to the bit it looks at.
LEMMA Turn ==
    ASSUME NEW bits, NEW n \in 1 .. Size
    PROVE  Found(Looped(bits), n) = CountBit(bits, Found(Looped(bits), n - 1), LoopOrder[n])
<1> DEFINE e == Looped(bits)
<1>1. n \in Nat \ {0}
  BY SizeType
<1>2. e[n] <=> BitSet(bits, LoopOrder[n])
  BY DEF Looped
<1> HIDE DEF e
<1> DEFINE counted(m) == Cardinality(Errors(e, m))
           current(m) == Max(LastRuns(e, m))
           longest(m) == Max(AllRuns(e, m))
<1>3. /\ counted(n) = counted(n - 1) + (IF e[n] THEN 1 ELSE 0) /\ counted(n - 1) \in Nat
      /\ current(n) = IF e[n] THEN current(n - 1) + 1 ELSE 0
      /\ current(n) \in 0 .. n /\ longest(n - 1) \in 0 .. n - 1
      /\ longest(n) = IF current(n) > longest(n - 1) THEN current(n) ELSE longest(n - 1)
  BY <1>1, ErrorsNext, LastRunNext, LongestNext
<1>4. /\ Found(e, n) = [value |-> counted(n), run |-> current(n), sequence |-> longest(n)]
      /\ Found(e, n - 1) =
            [value |-> counted(n - 1), run |-> current(n - 1), sequence |-> longest(n - 1)]
  BY DEF Found
<1> HIDE DEF counted, current, longest
<1>5. CASE e[n]
  <2>1. /\ counted(n) = counted(n - 1) + 1 /\ current(n) = current(n - 1) + 1
        /\ longest(n) = IF current(n) > longest(n - 1) THEN current(n) ELSE longest(n - 1)
    BY <1>3, <1>5
  <2>2. CountBit(bits, Found(e, n - 1), LoopOrder[n]) =
           [value |-> counted(n - 1) + 1, run |-> current(n - 1) + 1,
            sequence |-> IF current(n - 1) + 1 > longest(n - 1)
                         THEN current(n - 1) + 1 ELSE longest(n - 1)]
    BY <1>2, <1>4, <1>5 DEF CountBit, BitSet
  <2> QED BY <1>4, <2>1, <2>2 DEF e
<1>6. CASE ~e[n]
  <2>1. counted(n) = counted(n - 1) /\ current(n) = 0 /\ longest(n) = longest(n - 1)
    <3>1. counted(n - 1) + 0 = counted(n - 1) /\ ~(0 > longest(n - 1))
      BY <1>3
    <3> QED BY <1>3, <1>6, <3>1
  <2>2. CountBit(bits, Found(e, n - 1), LoopOrder[n]) =
           [value |-> counted(n - 1), run |-> 0, sequence |-> longest(n - 1)]
    BY <1>2, <1>4, <1>6 DEF CountBit, BitSet
  <2> QED BY <1>4, <2>1, <2>2 DEF e
<1> QED BY <1>5, <1>6 DEF e

\* After its last turn it has found the number of errors and the longest run.
LEMMA Loop ==
    ASSUME NEW bits
    PROVE  Statistics(bits) = Found(Looped(bits), Size)
<1> DEFINE First == [value |-> 0, run |-> 0, sequence |-> 0]
           After(found) == [turns \in 0 .. Size |->
                               IF turns = 0 THEN First
                               ELSE CountBit(bits, found[turns - 1], LoopOrder[turns])]
           found == CHOOSE found : found = After(found)
           real  == [turns \in 0 .. Size |-> Found(Looped(bits), turns)]
<1>1. Statistics(bits) = found[Size]
  BY DEF Statistics
<1>2. real = After(real)
  <2> SUFFICES ASSUME NEW turns \in 0 .. Size PROVE real[turns] = After(real)[turns]
    OBVIOUS
  <2>1. CASE turns = 0
    BY <2>1, FoundFirst
  <2>2. CASE turns # 0
    <3>1. turns \in 1 .. Size /\ turns - 1 \in 0 .. Size
      BY <2>2, SizeType
    <3> QED BY <2>2, <3>1, Turn
  <2> QED BY <2>1, <2>2
<1>3. found = After(found)
  BY <1>2
<1> HIDE DEF found
<1>4. \A turns \in 0 .. Size : found[turns] = real[turns]
  <2> DEFINE Wrong == {turns \in 0 .. Size : found[turns] # real[turns]}
  <2> SUFFICES ASSUME Wrong # {} PROVE FALSE
    OBVIOUS
  <2>1. PICK turns \in Wrong : \A m \in Wrong : turns <= m
    <3>1. Wrong \in SUBSET Nat
      OBVIOUS
    <3> QED BY <3>1, Least
  <2>2. turns # 0
    BY <1>2, <1>3
  <2>3. turns - 1 \in 0 .. Size /\ ~(turns <= turns - 1) /\ turns \in 0 .. Size
    BY <2>2, SizeType
  <2>4. found[turns - 1] = real[turns - 1]
    BY <2>1, <2>3
  <2>5. found[turns] = real[turns]
    BY <1>2, <1>3, <2>2, <2>3, <2>4
  <2> QED BY <2>5
<1>5. found[Size] = real[Size] /\ Size \in 0 .. Size
  BY <1>4, SizeType
<1> QED BY <1>1, <1>5

-----------------------------------------------------------------------------
\* Writing one bit of the ring changes no other.
LEMMA WrittenBit ==
    ASSUME history \in [0 .. Words - 1 -> SUBSET (0 .. Bits - 1)],
           NEW index \in 0 .. Size - 1, NEW other \in 0 .. Size - 1, NEW isError \in BOOLEAN
    PROVE  /\ WithBit(index, isError) \in [0 .. Words - 1 -> SUBSET (0 .. Bits - 1)]
           /\ BitSet(WithBit(index, isError), index) <=> isError
           /\ other # index =>
                 (BitSet(WithBit(index, isError), other) <=> BitSet(history, other))
<1>1. /\ index \div Bits \in 0 .. Words - 1 /\ other \div Bits \in 0 .. Words - 1
      /\ Words \in Nat /\ Bits \in Nat \ {0}
  BY Below, SizesAssumption DEF Size
<1>2. /\ index % Bits \in 0 .. Bits - 1
      /\ index = Bits * (index \div Bits) + (index % Bits)
      /\ other = Bits * (other \div Bits) + (other % Bits)
  BY <1>1, SizeType, Divides
<1>3. other # index => other \div Bits # index \div Bits \/ other % Bits # index % Bits
  BY <1>2
<1> DEFINE word == index \div Bits
           bit  == index % Bits
<1>4. WithBit(index, isError) =
         [history EXCEPT ![word] = IF isError THEN @ \union {bit} ELSE @ \ {bit}]
  BY DEF WithBit
<1>5. /\ word \in 0 .. Words - 1 /\ bit \in 0 .. Bits - 1
      /\ WithBit(index, isError)[word] =
            IF isError THEN history[word] \union {bit} ELSE history[word] \ {bit}
      /\ \A w \in (0 .. Words - 1) \ {word} : WithBit(index, isError)[w] = history[w]
  BY <1>1, <1>2, <1>4
<1>6. WithBit(index, isError) \in [0 .. Words - 1 -> SUBSET (0 .. Bits - 1)]
  BY <1>4, <1>5
<1>7. bit \in WithBit(index, isError)[word] <=> isError
  BY <1>5
<1>8. other # index =>
         (other % Bits \in WithBit(index, isError)[other \div Bits]
            <=> other % Bits \in history[other \div Bits])
  BY <1>1, <1>3, <1>5
<1> QED BY <1>6, <1>7, <1>8 DEF BitSet

\* The last samples are the bits of the ring from its head on.
RingHoldsSamples ==
    /\ history \in [0 .. Words - 1 -> SUBSET (0 .. Bits - 1)]
    /\ head \in 0 .. Size - 1
    /\ samples \in [1 .. Size -> BOOLEAN]
    /\ \A i \in 1 .. Size : samples[i] <=> BitSet(history, (head + i - 1) % Size)

\* The statistics are those of the last samples.
StatisticsOfSamples ==
    /\ value = Found(samples, Size).value
    /\ sequence = Found(samples, Size).sequence

ShownTyped == shown \in [perMille : 0 .. 1000, sequence : 0 .. Size]

\* The samples after one more: the oldest is gone, the new one last.
LEMMA SamplesNext ==
    ASSUME samples \in [1 .. Size -> BOOLEAN], NEW isError \in BOOLEAN,
           samples' = Append(Tail(samples), isError)
    PROVE  /\ samples' \in [1 .. Size -> BOOLEAN]
           /\ samples'[Size] = isError
           /\ \A i \in 1 .. Size - 1 : samples'[i] = samples[i + 1]
<1>1. Size \in Nat \ {0}
  BY SizeType
<1>2. samples \in Seq(BOOLEAN) /\ Len(samples) = Size
  BY <1>1
<1>3. /\ Tail(samples) \in Seq(BOOLEAN) /\ Len(Tail(samples)) = Size - 1
      /\ \A i \in 1 .. Size - 1 : Tail(samples)[i] = samples[i + 1]
  BY <1>1, <1>2
<1>4. /\ samples' \in Seq(BOOLEAN) /\ Len(samples') = Size /\ samples'[Size] = isError
      /\ \A i \in 1 .. Size - 1 : samples'[i] = Tail(samples)[i]
  BY <1>1, <1>3
<1>5. samples' \in [1 .. Size -> BOOLEAN]
  BY <1>4, LenProperties
<1> QED BY <1>3, <1>4, <1>5

\* The head moves on by one position and wraps at the end of the ring.
LEMMA HeadNext ==
    ASSUME head \in 0 .. Size - 1
    PROVE  /\ NextHead \in 0 .. Size - 1
           /\ (NextHead + Size - 1) % Size = head
           /\ \A i \in 1 .. Size - 1 :
                 /\ (NextHead + i - 1) % Size = (head + (i + 1) - 1) % Size
                 /\ (NextHead + i - 1) % Size \in 0 .. Size - 1
                 /\ (NextHead + i - 1) % Size # head
<1>1. Size \in Nat \ {0}
  BY SizeType
<1>2. NextHead = IF head + 1 < Size THEN head + 1 ELSE 0
  <2> DEFINE next == head + 1
  <2>1. next \in 0 .. 2 * Size - 1
    BY <1>1
  <2> HIDE DEF next
  <2>2. next % Size = IF next < Size THEN next ELSE next - Size
    BY <1>1, <2>1, Wraps
  <2> QED BY <1>1, <2>2 DEF NextHead, next
<1>3. (NextHead + Size - 1) % Size = head
  BY <1>1, <1>2, Wraps
<1>4. ASSUME NEW i \in 1 .. Size - 1
      PROVE  /\ (NextHead + i - 1) % Size = (head + (i + 1) - 1) % Size
             /\ (NextHead + i - 1) % Size \in 0 .. Size - 1
             /\ (NextHead + i - 1) % Size # head
  <2> DEFINE from == NextHead + i - 1
             to   == head + (i + 1) - 1
  <2>1. from \in 0 .. 2 * Size - 1 /\ to \in 0 .. 2 * Size - 1
    BY <1>1, <1>2
  <2>2. /\ from % Size = IF from < Size THEN from ELSE from - Size
        /\ to % Size = IF to < Size THEN to ELSE to - Size
    BY <1>1, <2>1, Wraps
  <2>3. CASE head + 1 < Size
    <3>1. NextHead = head + 1 /\ from = to
      BY <1>1, <1>2, <2>3
    <3> QED BY <1>1, <2>1, <2>2, <3>1
  <2>4. CASE ~(head + 1 < Size)
    <3>1. NextHead = 0 /\ head = Size - 1 /\ from = i - 1 /\ to = Size - 1 + i
      BY <1>1, <1>2, <2>4
    <3> QED BY <1>1, <2>1, <2>2, <3>1
  <2> QED BY <2>3, <2>4
<1> QED BY <1>1, <1>2, <1>3, <1>4

MonitorInv == RingHoldsSamples /\ StatisticsOfSamples /\ ShownTyped

\* A run is not longer than there are errors.
LEMMA RunIsOfErrors ==
    ASSUME NEW e
    PROVE  /\ Found(e, Size).value \in 0 .. Size
           /\ Found(e, Size).sequence \in 0 .. Found(e, Size).value
<1> DEFINE count   == Cardinality(Errors(e, Size))
           longest == Max(AllRuns(e, Size))
<1>1. Size \in Nat \ {0} /\ count \in 0 .. Size
  BY SizeType, ErrorsNext
<1>2. longest \in AllRuns(e, Size) /\ longest \in 0 .. Size
  BY <1>1, LongestRun
<1>3. longest <= count
  <2>1. PICK from \in 1 .. Size - longest + 1 : Run(e, from, longest)
    BY <1>2 DEF AllRuns
  <2> HIDE DEF longest
  <2>2. from .. from + longest - 1 \in SUBSET Errors(e, Size)
    BY <1>1, <1>2, <2>1 DEF Run, Errors
  <2>3. IsFiniteSet(Errors(e, Size))
    <3>1. IsFiniteSet(1 .. Size) /\ Errors(e, Size) \in SUBSET (1 .. Size)
      BY <1>1, FS_Interval DEF Errors
    <3> QED BY <3>1, FS_Subset
  <2>4. Cardinality(from .. from + longest - 1) = longest
    <3>1. Cardinality(from .. from + longest - 1) =
             IF from > from + longest - 1 THEN 0
             ELSE (from + longest - 1) - from + 1
      BY <1>2, <2>1, FS_Interval
    <3> QED BY <1>2, <2>1, <3>1
  <2> QED BY <2>2, <2>3, <2>4, FS_Subset
<1> HIDE DEF count, longest
<1>4. longest \in 0 .. count
  BY <1>1, <1>2, <1>3
<1> QED BY <1>1, <1>4 DEF Found, count, longest

\* At the start the ring is empty of errors.
LEMMA InitMonitor == Init => MonitorInv
<1> SUFFICES ASSUME Init PROVE MonitorInv
  OBVIOUS
<1>1. Size \in Nat \ {0} /\ samples = [i \in 1 .. Size |-> FALSE] /\ head = 0
  BY SizeType DEF Init
<1>2. RingHoldsSamples
  <2>1. history = [w \in 0 .. Words - 1 |-> {}]
    BY DEF Init
  <2>2. ASSUME NEW i \in 1 .. Size PROVE ~BitSet(history, (head + i - 1) % Size)
    <3> DEFINE index == head + i - 1
    <3>1. index \in 0 .. Size - 1 /\ index \in 0 .. 2 * Size - 1 /\ index < Size
      BY <1>1
    <3>2. index % Size = index
      BY <1>1, <3>1, Wraps
    <3>3. index \div Bits \in 0 .. Words - 1
      BY <3>1, Below, SizesAssumption DEF Size
    <3> QED BY <2>1, <3>2, <3>3 DEF BitSet
  <2>3. history \in [0 .. Words - 1 -> SUBSET (0 .. Bits - 1)]
    BY <2>1
  <2>4. head \in 0 .. Size - 1 /\ samples \in [1 .. Size -> BOOLEAN]
    BY <1>1
  <2>5. \A i \in 1 .. Size : samples[i] = FALSE
    BY <1>1
  <2> QED BY <2>2, <2>3, <2>4, <2>5 DEF RingHoldsSamples
<1>3. StatisticsOfSamples
  <2>1. Errors(samples, Size) = {}
    BY <1>1 DEF Errors
  <2>2. Found(samples, Size).value = 0
    BY <2>1, FS_EmptySet DEF Found
  <2>3. Found(samples, Size).sequence = 0
    BY <2>2, RunIsOfErrors
  <2> QED BY <2>2, <2>3 DEF StatisticsOfSamples, Init
<1>4. ShownTyped
  BY <1>1 DEF Init, ShownTyped
<1> QED BY <1>2, <1>3, <1>4 DEF MonitorInv

\* The sample that is written is the one that was added.
LEMMA RingNext ==
    ASSUME RingHoldsSamples, NEW isError \in BOOLEAN, AddSampleAndCalculateStatistics(isError)
    PROVE  RingHoldsSamples'
<1>1. /\ history' = WithBit(head, isError) /\ head' = NextHead
      /\ samples' = Append(Tail(samples), isError)
      /\ head \in 0 .. Size - 1 /\ Size \in Nat \ {0}
      /\ samples \in [1 .. Size -> BOOLEAN]
      /\ history \in [0 .. Words - 1 -> SUBSET (0 .. Bits - 1)]
      /\ \A i \in 1 .. Size : samples[i] <=> BitSet(history, (head + i - 1) % Size)
  BY SizeType DEF RingHoldsSamples, AddSampleAndCalculateStatistics
<1>2. /\ head' \in 0 .. Size - 1
      /\ history' \in [0 .. Words - 1 -> SUBSET (0 .. Bits - 1)]
      /\ samples' \in [1 .. Size -> BOOLEAN]
  BY <1>1, WrittenBit, HeadNext, SamplesNext
<1>3. ASSUME NEW i \in 1 .. Size
      PROVE  samples'[i] <=> BitSet(history', (head' + i - 1) % Size)
  <2>1. CASE i = Size
    <3>1. samples'[i] = isError /\ (head' + i - 1) % Size = head
      BY <1>1, <2>1, SamplesNext, HeadNext
    <3>2. BitSet(history', head) <=> isError
      BY <1>1, WrittenBit
    <3> QED BY <3>1, <3>2
  <2>2. CASE i # Size
    <3> DEFINE index == (head' + i - 1) % Size
    <3>1. i \in 1 .. Size - 1 /\ i + 1 \in 1 .. Size
      BY <1>1, <2>2
    <3>2. samples'[i] = samples[i + 1]
      BY <1>1, <3>1, SamplesNext
    <3>3. /\ index = (head + (i + 1) - 1) % Size
          /\ index \in 0 .. Size - 1 /\ index # head
      BY <1>1, <3>1, HeadNext
    <3>4. samples[i + 1] <=> BitSet(history, index)
      BY <1>1, <3>1, <3>3
    <3> HIDE DEF index
    <3>5. BitSet(history', index) <=> BitSet(history, index)
      BY <1>1, <3>3, WrittenBit
    <3>6. samples'[i] <=> BitSet(history', index)
      BY <3>2, <3>4, <3>5
    <3> QED BY <3>6 DEF index
  <2> QED BY <2>1, <2>2
<1> QED BY <1>2, <1>3 DEF RingHoldsSamples

\* The statistics calculated are those of the samples, the new one included.
LEMMA StatisticsNext ==
    ASSUME RingHoldsSamples, NEW isError \in BOOLEAN, AddSampleAndCalculateStatistics(isError)
    PROVE  StatisticsOfSamples'
<1>1. /\ samples' \in [1 .. Size -> BOOLEAN]
      /\ \A i \in 1 .. Size : samples'[i] <=> BitSet(history', (head' + i - 1) % Size)
  BY RingNext DEF RingHoldsSamples
<1>2. head' = NextHead
  BY DEF AddSampleAndCalculateStatistics
<1>3. Looped(history') = samples'
  <2>1. ASSUME NEW i \in 1 .. Size PROVE Looped(history')[i] = samples'[i]
    <3>1. samples'[i] \in BOOLEAN
      BY <1>1
    <3>2. Looped(history')[i] = BitSet(history', (NextHead + i - 1) % Size)
      BY DEF Looped, LoopOrder
    <3>3. BitSet(history', (NextHead + i - 1) % Size) \in BOOLEAN
      BY DEF BitSet
    <3> QED BY <1>1, <1>2, <3>1, <3>2, <3>3
  <2> QED BY <1>1, <2>1 DEF Looped
<1>4. Statistics(history') = Found(samples', Size)
  BY <1>3, Loop
<1> QED BY <1>4 DEF AddSampleAndCalculateStatistics, StatisticsOfSamples

\* The share of errors per mille is rounded down.
LEMMA Share ==
    ASSUME value \in 0 .. Size
    PROVE  /\ ErrorPerMille \in 0 .. 1000
           /\ ErrorPerMille * Size <= 1000 * value
           /\ 1000 * value < (ErrorPerMille + 1) * Size
<1>1. Size \in Nat \ {0} /\ 1000 * value \in Nat /\ 1000 * value <= 1000 * Size
  BY SizeType
<1>2. /\ ErrorPerMille \in Nat
      /\ Size * ErrorPerMille <= 1000 * value
      /\ 1000 * value < Size * (ErrorPerMille + 1)
  <2> DEFINE errors == 1000 * value
  <2>1. errors \in Nat /\ ErrorPerMille = errors \div Size
    BY <1>1 DEF ErrorPerMille
  <2> HIDE DEF errors
  <2>2. /\ ErrorPerMille \in Nat
        /\ Size * ErrorPerMille <= errors
        /\ errors < Size * (ErrorPerMille + 1)
    BY <1>1, <2>1, Divides
  <2> QED BY <2>2 DEF errors
<1>3. Size * ErrorPerMille <= 1000 * Size
  BY <1>1, <1>2
<1>4. ErrorPerMille <= 1000
  BY <1>1, <1>2, <1>3
<1>5. /\ ErrorPerMille * Size = Size * ErrorPerMille
      /\ (ErrorPerMille + 1) * Size = Size * (ErrorPerMille + 1)
  BY <1>1, <1>2
<1> QED BY <1>2, <1>4, <1>5

\* Every step keeps the invariant.
LEMMA MonitorStep == MonitorInv /\ [Next]_vars => MonitorInv'
<1> SUFFICES ASSUME MonitorInv, [Next]_vars PROVE MonitorInv'
  OBVIOUS
<1>1. CASE UNCHANGED vars
  BY <1>1 DEF MonitorInv, RingHoldsSamples, StatisticsOfSamples, ShownTyped, vars
<1>2. ASSUME NEW isError \in BOOLEAN, AddSampleAndCalculateStatistics(isError)
      PROVE  MonitorInv'
  <2>1. value \in 0 .. Size /\ sequence \in 0 .. value
    BY RunIsOfErrors DEF MonitorInv, StatisticsOfSamples
  <2>2. ShownTyped'
    <3>1. sequence \in 0 .. Size /\ ErrorPerMille \in 0 .. 1000
      BY <2>1, SizeType, Share
    <3> QED BY <1>2, <3>1 DEF AddSampleAndCalculateStatistics, ShownTyped
  <2> QED BY <1>2, <2>2, RingNext, StatisticsNext DEF MonitorInv
<1> QED BY <1>1, <1>2 DEF Next

\* The invariant holds throughout.
LEMMA MonitorAlways == Spec => []MonitorInv
  BY InitMonitor, MonitorStep, PTL DEF Spec

-----------------------------------------------------------------------------
\* The number of errors counted is that among the last samples, for any size of
\* the ring, however it is cut into words and however often it has wrapped around
\* (TransmissionErrorsMonitor::addSampleAndCalculateStatistics).
THEOREM ErrorsAreCounted == Spec => []CountsErrors
<1>1. MonitorInv => CountsErrors
  BY DEF MonitorInv, StatisticsOfSamples, Found, Errors, CountsErrors
<1> QED BY <1>1, MonitorAlways, PTL

\* The longest run of errors found is that of the samples in the order they came,
\* although the loop looks at words of bits that begin somewhere in the middle.
THEOREM LongestRunIsFound == Spec => []FindsLongestRun
<1>1. AllRuns(samples, Size) = Runs
  BY DEF AllRuns, Runs, Run, IsRun
<1>2. MonitorInv => FindsLongestRun
  BY <1>1 DEF MonitorInv, StatisticsOfSamples, Found, FindsLongestRun
<1> QED BY <1>2, MonitorAlways, PTL

\* Every variable stays in its range, so that no index leaves the array of words
\* and the longest run never exceeds the number of errors.
THEOREM TypeCorrectness == Spec => []TypeOK
<1>1. ASSUME MonitorInv PROVE TypeOK
  <2>1. value \in 0 .. Size /\ sequence \in 0 .. value
    BY <1>1, RunIsOfErrors DEF MonitorInv, StatisticsOfSamples
  <2>2. samples \in Seq(BOOLEAN)
    BY <1>1, SizeType DEF MonitorInv, RingHoldsSamples
  <2> QED BY <1>1, <2>1, <2>2 DEF MonitorInv, RingHoldsSamples, ShownTyped, TypeOK
<1> QED BY <1>1, MonitorAlways, PTL

\* The share shown is that of the samples before the one it is shown with,
\* rounded down to a per mille (TransmissionErrorsMonitor::getErrorPerMille).
THEOREM SharesLag == Spec => ShownLagsByOne
<1>1. MonitorInv /\ [Next]_vars =>
         [\A errors \in 0 .. Size :
             errors = Cardinality({i \in 1 .. Size : samples[i]}) =>
                 /\ shown'.perMille * Size <= 1000 * errors
                 /\ 1000 * errors < (shown'.perMille + 1) * Size]_vars
  <2> SUFFICES ASSUME MonitorInv, NEW isError \in BOOLEAN,
                      AddSampleAndCalculateStatistics(isError),
                      NEW errors \in 0 .. Size,
                      errors = Cardinality({i \in 1 .. Size : samples[i]})
               PROVE  /\ shown'.perMille * Size <= 1000 * errors
                      /\ 1000 * errors < (shown'.perMille + 1) * Size
    BY DEF Next
  <2>1. errors = value
    BY DEF MonitorInv, StatisticsOfSamples, Found, Errors
  <2>2. shown'.perMille = ErrorPerMille
    BY DEF AddSampleAndCalculateStatistics
  <2> QED BY <2>1, <2>2, Share
<1> QED BY <1>1, MonitorAlways, PTL DEF Spec, ShownLagsByOne
=============================================================================
