------------------------------ MODULE PrintfProofs ------------------------------
(***************************************************************************)
(* For every format, every argument and every size of buffer: vsnprintf    *)
(* keeps within a buffer that is not empty, a string with a width fills    *)
(* just that width, and the format is read beyond its end only behind a    *)
(* conversion that is cut short.                                           *)
(***************************************************************************)
EXTENDS Printf, TLAPS

\* Where a conversion tests c and reads on if it likes it.
Testing == {"zero", "width", "width digits", "point", "precision",
            "precision digits", "length", "l", "h"}

\* What makes a conversion read on.
ReadsOn == Digits \cup {"star", "dot", "l", "h", "q"}

NumInv == width \in Nat /\ precision \in Nat

BufferInv == /\ size \in Nat /\ pos \in Nat
             /\ size > 0 => pos < size /\ (pc = "done" => nul = pos)

\* c is the character fmt is at, the one before it, or an end that was read.
ScanInv == /\ pc \in Testing => c \in {fmt, tail, NUL, Past}
           /\ fmt = Past => tail \in ReadsOn

IInv == NumInv /\ BufferInv /\ ScanInv

-----------------------------------------------------------------------------
\* A string with a width makes as many characters as the width says; with or
\* without one, not less than none.
LEMMA FieldLength ==
  ASSUME NumInv, NEW s \in Lengths
  PROVE  /\ StringField(s) \in Nat
         /\ width > 0 => StringField(s) = width
  <1> DEFINE most == IF precision = NoPrecision THEN Word \div 2 - 1 ELSE precision
             cut == Least(s, most)
             chars == IF width > 0 THEN Least(cut, width) ELSE cut
  <1>1. Word \div 2 - 1 \in Nat /\ s \in Nat
    BY PrintfAssumption
  <1>2. most \in Nat
    BY <1>1 DEF NumInv
  <1> HIDE DEF most
  <1>3. cut \in Nat
    BY <1>1, <1>2 DEF Least
  <1> HIDE DEF cut
  <1>4. chars \in Nat /\ (width > 0 => chars <= width /\ (cut >= width => chars = width))
    BY <1>3 DEF Least, NumInv
  <1>5. width > 0 /\ cut < width => chars = cut
    BY <1>3 DEF Least, NumInv
  <1> HIDE DEF chars
  <1>6. StringField(s) = (IF "LEFT" \in flags THEN 0 ELSE Pad(cut)) + chars
                           + (IF "LEFT" \in flags THEN Pad(chars) ELSE 0)
    BY DEF StringField, most, cut, chars
  <1>7. CASE "LEFT" \in flags
    <2>1. StringField(s) = chars + Pad(chars)
      BY <1>4, <1>6, <1>7 DEF Pad, NumInv
    <2> QED BY <1>4, <2>1 DEF Pad, NumInv
  <1>8. CASE "LEFT" \notin flags
    <2>1. StringField(s) = Pad(cut) + chars
      BY <1>3, <1>4, <1>6, <1>8 DEF Pad, NumInv
    <2> QED BY <1>3, <1>4, <1>5, <2>1 DEF Pad, NumInv
  <1> QED BY <1>7, <1>8

\* However many characters are put, there is room for the terminator.
LEMMA PutKeeps ==
  ASSUME BufferInv, NEW n \in Nat, Put(n)
  PROVE  size' = size /\ nul' = nul /\ pos' \in Nat /\ (size > 0 => pos' < size)
  <1>1. CASE size = 0
    <2>1. pos' \in {pos + n, SIZE_MAX, pos} /\ size' = size /\ nul' = nul
      BY <1>1 DEF Put
    <2> QED BY <1>1, <2>1, PrintfAssumption DEF BufferInv
  <1>2. CASE size > 0
    BY <1>2 DEF Put, BufferInv
  <1> QED BY <1>1, <1>2 DEF BufferInv

\* The call begins at the start of the buffer and of the format.
LEMMA InitIInv == Init => IInv
  <1> SUFFICES ASSUME Init PROVE IInv
    OBVIOUS
  <1>1. NumInv
    BY DEF Init, NumInv
  <1>2. BufferInv
    BY PrintfAssumption DEF Init, BufferInv
  <1>3. ScanInv
    BY DEF Init, ScanInv, Testing, NUL, Past, Chars, Letters, Digits, Value
  <1> QED BY <1>1, <1>2, <1>3 DEF IInv

\* Width and precision stay numbers: what the digits make of them is modulo Word.
LEMMA NextNum == NumInv /\ [Next]_vars => NumInv'
  <1> SUFFICES ASSUME NumInv, [Next]_vars PROVE NumInv'
    OBVIOUS
  <1>1. Args \subseteq Nat /\ Word \in Nat \ {0, 1} /\ NoPrecision \in Nat
    BY PrintfAssumption DEF NoPrecision
  <1>2. \A d \in Digits : Value[d] \in Nat
    BY DEF Digits, Value
  <1>3. \A m, n \in Nat : (10 * m + n) % Word \in Nat
    BY <1>1
  <1>4. CASE Width
    BY <1>1, <1>2, <1>3, <1>4 DEF Width, NumInv
  <1>5. CASE Precision
    BY <1>1, <1>2, <1>3, <1>5 DEF Precision, NumInv
  <1>6. CASE Percent
    BY <1>1, <1>6 DEF Percent, NumInv
  <1>7. CASE ~(Width \/ Precision \/ Percent)
    BY <1>7 DEF Next, vars, Text, Finish, ReadBeyond, Flag, Zero, Point, Length,
                String, Char, Number, Hex, Default, NumInv
  <1> QED BY <1>4, <1>5, <1>6, <1>7

\* Every character that is put leaves room for the NUL.
LEMMA NextBuffer == NumInv /\ BufferInv /\ [Next]_vars => BufferInv'
  <1> SUFFICES ASSUME NumInv, BufferInv, [Next]_vars PROVE BufferInv'
    OBVIOUS
  <1>1. ASSUME NEW n \in Nat, Put(n), pc' # "done" PROVE BufferInv'
    BY <1>1, PutKeeps DEF BufferInv
  <1>2. CASE String
    <2>1. PICK s \in Lengths : Put(StringField(s))
      BY <1>2 DEF String
    <2> QED BY <1>1, <1>2, <2>1, FieldLength DEF String, Goto
  <1>3. CASE Text \/ Char \/ Default
    BY <1>1, <1>3 DEF Text, Char, Default, Goto
  <1>4. CASE Hex
    <2>1. PICK n \in Nat : Put(n)
      BY <1>4 DEF Hex
    <2> QED BY <1>1, <1>4, <2>1 DEF Hex, Goto
  <1>5. CASE Finish
    BY <1>5 DEF Finish, BufferInv
  <1>6. ASSUME UNCHANGED buffer, pc' # "done" \/ UNCHANGED pc PROVE BufferInv'
    BY <1>6 DEF buffer, BufferInv
  <1>7. CASE Percent \/ ReadBeyond \/ Flag \/ Zero \/ Width \/ Point \/ Precision
               \/ Length \/ Number
    <2>1. UNCHANGED buffer /\ (pc' # "done" \/ UNCHANGED pc)
      BY <1>7 DEF Percent, ReadBeyond, Flag, Zero, Width, Point, Precision, Length,
                  Number, Optional, Goto
    <2> QED BY <1>6, <2>1
  <1>8. CASE UNCHANGED vars
    BY <1>6, <1>8 DEF vars
  <1> QED BY <1>2, <1>3, <1>4, <1>5, <1>7, <1>8 DEF Next

\* Taking a character: what is taken is the one before from then on, and the end
\* is passed only when the one before was one to read on behind.
LEMMA TakeKeeps ==
  ASSUME Take, fmt \in {NUL, Past} => tail \in ReadsOn
  PROVE  c' \in {tail', NUL, Past} /\ (fmt' = Past => tail' \in ReadsOn)
  BY DEF Take, Advance, NUL, Past, Chars, Letters, Digits, Value

\* The character tested is one that was read at fmt.
LEMMA NextScan == ScanInv /\ [Next]_vars => ScanInv'
  <1> SUFFICES ASSUME ScanInv, [Next]_vars PROVE ScanInv'
    OBVIOUS
  <1>1. \A t : t \in ReadsOn => t \notin {NUL, Past}
    BY DEF ReadsOn, NUL, Past, Digits, Value
  <1>2. ASSUME pc \in Testing, c \in ReadsOn, Take PROVE ScanInv'
    <2>1. fmt \in {NUL, Past} => tail \in ReadsOn
      BY <1>1, <1>2 DEF ScanInv
    <2> QED BY <1>2, <2>1, TakeKeeps DEF ScanInv
  <1>3. ASSUME UNCHANGED <<c, scanner>>, pc \in Testing \/ pc' \notin Testing
        PROVE  ScanInv'
    BY <1>3 DEF ScanInv, scanner
  <1>4. ASSUME NEW test \in BOOLEAN, NEW label, NEW else, Optional(test, label, else),
               pc \in Testing, test => c \in ReadsOn
        PROVE  ScanInv'
    BY <1>2, <1>3, <1>4 DEF Optional
  <1>5. CASE Zero
    BY <1>4, <1>5 DEF Zero, Testing, ReadsOn, Digits, Value
  <1>6. CASE Width
    BY <1>2, <1>3, <1>6 DEF Width, Testing, ReadsOn
  <1>7. CASE Point
    BY <1>4, <1>7 DEF Point, Testing, ReadsOn
  <1>8. CASE Precision
    BY <1>2, <1>3, <1>8 DEF Precision, Testing, ReadsOn
  <1>9. CASE Length
    BY <1>2, <1>4, <1>9 DEF Length, Testing, ReadsOn
  <1>10. CASE Flag
    <2>1. CASE fmt \in DOMAIN FlagOf
      <3>1. Advance /\ pc' = "flags" /\ fmt \notin {NUL, Past}
        BY <1>10, <2>1 DEF Flag, FlagOf, NUL, Past
      <3> QED BY <3>1 DEF Advance, ScanInv, Testing, NUL, Past, Chars, Letters,
                          Digits, Value
    <2>2. CASE fmt \notin DOMAIN FlagOf
      BY <1>10, <2>2 DEF Flag, ScanInv, scanner
    <2> QED BY <2>1, <2>2
  <1>11. ASSUME Advance, fmt \notin {NUL, Past}, pc' \notin Testing PROVE ScanInv'
    BY <1>11 DEF Advance, ScanInv, NUL, Past, Chars, Letters, Digits, Value
  <1>12. CASE Text
    BY <1>11, <1>12 DEF Text, Testing
  <1>13. CASE Percent
    BY <1>11, <1>13 DEF Percent, Goto, Testing, NUL, Past
  <1>14. ASSUME UNCHANGED scanner, pc' \notin Testing PROVE ScanInv'
    BY <1>14 DEF scanner, ScanInv
  <1>15. CASE Finish \/ ReadBeyond \/ String \/ Char \/ Number \/ Hex \/ Default
    BY <1>14, <1>15 DEF Finish, ReadBeyond, String, Char, Number, Hex, Default,
                        Goto, Testing, scanner
  <1>16. CASE UNCHANGED vars
    BY <1>16 DEF vars, scanner, ScanInv
  <1> QED BY <1>5, <1>6, <1>7, <1>8, <1>9, <1>10, <1>12, <1>13, <1>15, <1>16 DEF Next

\* Every step keeps the invariant.
LEMMA NextIInv == IInv /\ [Next]_vars => IInv'
  BY NextNum, NextBuffer, NextScan DEF IInv

-----------------------------------------------------------------------------
(* The theorems. *)

\* vsnprintf stays within a buffer that is not empty, and terminates it there.
THEOREM BufferSafe == Spec => []BufferKept
  <1>1. IInv => BufferKept
    BY DEF IInv, BufferInv, BufferKept
  <1> QED BY InitIInv, NextIInv, <1>1, PTL DEF Spec

\* Only a conversion cut short by the end of the format is read beyond it.
THEOREM FormatRead == Spec => []ReadsWithin
  <1> DEFINE Behind == pc = "beyond" => fmt = Past
  <1>1. Init => Behind
    BY DEF Init
  <1>2. Behind /\ [Next]_vars => Behind'
    <2> SUFFICES ASSUME Behind, [Next]_vars, pc' = "beyond" PROVE fmt' = Past
      OBVIOUS
    <2>1. CASE ReadBeyond
      BY <2>1 DEF ReadBeyond, scanner
    <2>2. CASE UNCHANGED vars
      BY <2>2 DEF vars, scanner
    <2>3. CASE Next /\ ~ReadBeyond
      BY <2>3 DEF Next, Text, Percent, Finish, Flag, Zero, Width, Point, Precision,
                  Length, String, Char, Number, Hex, Default, Optional, Goto
    <2> QED BY <2>1, <2>2, <2>3
  <1>3. IInv /\ Behind => ReadsWithin
    BY DEF IInv, ScanInv, ReadsWithin, ReadsOn
  <1> QED BY InitIInv, NextIInv, <1>1, <1>2, <1>3, PTL DEF Spec

\* A string with a width fills it, whatever the flags, the precision and the
\* string.
THEOREM FieldFilled == Spec => FieldExact
  <1>1. ASSUME IInv, [Next]_vars
        PROVE  [pc = "switch" /\ c = "s" /\ width > 0 => printed' = printed + width]_vars
    <2> SUFFICES ASSUME Next, pc = "switch", c = "s", width > 0
                 PROVE  printed' = printed + width
      BY <1>1
    <2>1. String
      BY DEF Next, Text, Percent, Finish, ReadBeyond, Flag, Zero, Width, Point,
             Precision, Length, Char, Number, Hex, Default
    <2>2. PICK s \in Lengths : printed' = printed + StringField(s)
      BY <2>1 DEF String
    <2> QED BY <1>1, <2>2, FieldLength DEF IInv
  <1> QED BY InitIInv, NextIInv, <1>1, PTL DEF Spec, FieldExact
=============================================================================
