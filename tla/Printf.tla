-------------------------------- MODULE Printf --------------------------------
(***************************************************************************)
(* printf.c: __printf_internal scanning a format, with vsnprintf's bounded *)
(* buffer behind putc.                                                     *)
(*                                                                         *)
(* The format is not given beforehand: fmt is the character the pointer is *)
(* at, and moving it on meets any character or the end, so that a run      *)
(* stands for every format of up to MaxFormat characters.  Of the output   *)
(* only its length matters.  Numbers are fetched and never printed, so     *)
(* ntype, base, padc, and the flags PLUS and SPACE decide nothing and are  *)
(* left out; their characters are read as flags all the same.  printed is  *)
(* without a bound: as an int it would overflow, but only after fields of  *)
(* 2^31 characters together.                                               *)
(***************************************************************************)
EXTENDS Integers

CONSTANTS
  Args,        \* values passed for a '*'
  Lengths,     \* lengths of the strings passed for an 's'
  Sizes,       \* sizes of the caller's buffer
  Word,        \* 2^32, the values of width and precision
  SIZE_MAX,    \* the largest size_t
  MaxFormat    \* bound on the length of a format

ASSUME PrintfAssumption ==
  /\ Word \in Nat \ {0, 1} /\ MaxFormat \in Nat /\ SIZE_MAX \in Nat \ {0}
  /\ Args \subseteq 0..(Word - 1) /\ Lengths \subseteq Nat
  /\ Sizes \subseteq 0..SIZE_MAX

NUL == "NUL"

Past == "past"    \* what follows the terminator in memory

\* Two digits stand for all, d for every letter of an integer, x for X as well, and
\* plus for '+' and ' '.
Value == [zero |-> 0, two |-> 2]

Digits == DOMAIN Value

\* What a character of a flag sets, of the flags that are ever tested.
FlagOf == [minus |-> {"LEFT"}, hash |-> {"ALT"}, plus |-> {}]

Letters == {"minus", "hash", "plus", "star", "dot", "l", "h", "q",
            "c", "s", "d", "p", "x", "other"}

Chars == {"%"} \cup Letters \cup Digits

VARIABLES
  pc,                  \* the part of the loop that is next
  fmt,                 \* *fmt
  at,                  \* how far fmt has moved
  tail,                \* history: the last character of the format so far
  c,                   \* the local c: often a character that fmt is still at
  flags,               \* never initialised, never reset
  width, precision,
  printed,             \* what is returned
  size, pos,           \* snprintf_arg_t
  nul                  \* where the terminator was stored, or -1

scanner == <<fmt, at, tail>>

buffer == <<size, pos, nul>>

vars == <<pc, scanner, c, flags, width, precision, printed, buffer>>

NoPrecision == Word - 1

Init == /\ pc = "text" /\ fmt \in Chars \cup {NUL} /\ at = 0 /\ tail = NUL
        /\ c = NUL /\ flags \in SUBSET {"LEFT", "ALT"}
        /\ width = 0 /\ precision = 0 /\ printed = 0
        /\ size \in Sizes /\ pos = 0 /\ nul = -1

-----------------------------------------------------------------------------
\* fmt++.
Advance == /\ at' = at + 1
           /\ fmt' \in IF fmt \in {NUL, Past} THEN {Past}
                       ELSE IF at' = MaxFormat THEN {NUL} ELSE Chars \cup {NUL}
           /\ tail' = IF fmt \in {NUL, Past} THEN tail ELSE fmt

\* c = *fmt++.
Take == c' = fmt /\ Advance

\* Variant: the buffer may be filled to its end.
Put_Full(n) == /\ pos' = IF pos + n < size THEN pos + n
                         ELSE IF pos < size THEN size ELSE pos
               /\ UNCHANGED <<size, nul>>

\* vsnprintf_internal, n times: size - 1 is a size_t.
Put(n) ==
  LET limit == IF size = 0 THEN SIZE_MAX ELSE size - 1
  IN  /\ pos' = IF pos + n < limit THEN pos + n
                ELSE IF pos < limit THEN limit ELSE pos
      /\ UNCHANGED <<size, nul>>

Goto(label) == pc' = label

\* The head of the loop.
Text == /\ pc = "text" /\ fmt \notin {"%", NUL, Past}
        /\ Put(1) /\ printed' = printed + 1 /\ Advance
        /\ UNCHANGED <<pc, c, flags, width, precision>>

Percent == /\ pc = "text" /\ fmt = "%" /\ Goto("flags")
           /\ Advance /\ width' = 0 /\ precision' = NoPrecision
           /\ UNCHANGED <<c, flags, printed, buffer>>

\* The end of vsnprintf.
Finish == /\ pc = "text" /\ fmt = NUL /\ Goto("done")
          /\ nul' = IF pos < size THEN pos ELSE -1
          /\ UNCHANGED <<scanner, c, flags, width, precision, printed, size, pos>>

\* The loop goes on with whatever lies behind the format.
ReadBeyond == /\ pc = "text" /\ fmt = Past /\ Goto("beyond")
              /\ UNCHANGED <<scanner, c, flags, width, precision, printed, buffer>>

\* Variant: the character behind the flags is consumed.
Flag_Consumes == /\ pc = "flags" /\ Take
                 /\ IF fmt \in DOMAIN FlagOf
                      THEN flags' = flags \cup FlagOf[fmt] /\ UNCHANGED pc
                      ELSE Goto("zero") /\ UNCHANGED flags
                 /\ UNCHANGED <<width, precision, printed, buffer>>

\* The first character that is no flag is read and not consumed.
Flag == /\ pc = "flags" /\ c' = fmt
        /\ IF fmt \in DOMAIN FlagOf
             THEN flags' = flags \cup FlagOf[fmt] /\ Advance /\ UNCHANGED pc
             ELSE Goto("zero") /\ UNCHANGED <<flags, scanner>>
        /\ UNCHANGED <<width, precision, printed, buffer>>

\* Whether the character in c is taken for what an optional part asks for.
Optional(test, label, else) ==
  IF test THEN Take /\ Goto(label) ELSE UNCHANGED <<c, scanner>> /\ Goto(else)

Zero == /\ pc = "zero" /\ Optional(c = "zero", "width", "width")
        /\ UNCHANGED <<flags, width, precision, printed, buffer>>

Width == /\ \/ /\ pc \in {"width", "width digits"} /\ c \in Digits
               /\ width' = (10 * width + Value[c]) % Word /\ Take /\ Goto("width digits")
            \/ /\ pc = "width" /\ c = "star"
               /\ width' \in Args /\ Take /\ Goto("point")
            \/ /\ \/ pc = "width" /\ c \notin Digits \cup {"star"}
                  \/ pc = "width digits" /\ c \notin Digits
               /\ Goto("point") /\ UNCHANGED <<width, c, scanner>>
         /\ UNCHANGED <<flags, precision, printed, buffer>>

Point == /\ pc = "point" /\ Optional(c = "dot", "precision", "length")
         /\ UNCHANGED <<flags, width, precision, printed, buffer>>

Precision ==
  /\ \/ /\ pc = "precision" /\ c \in Digits
        /\ precision' = Value[c] /\ Take /\ Goto("precision digits")
     \/ /\ pc = "precision digits" /\ c \in Digits
        /\ precision' = (10 * precision + Value[c]) % Word /\ Take /\ UNCHANGED pc
     \/ /\ pc = "precision" /\ c = "star"
        /\ precision' \in Args /\ Take /\ Goto("length")
     \/ /\ \/ pc = "precision" /\ c \notin Digits \cup {"star"}
           \/ pc = "precision digits" /\ c \notin Digits
        /\ Goto("length") /\ UNCHANGED <<precision, c, scanner>>
  /\ UNCHANGED <<flags, width, printed, buffer>>

\* One of l, h and q; a second l or h is tested for by itself.
Length == /\ \/ pc = "length" /\ c \in {"l", "h"} /\ Take /\ Goto(c)
             \/ pc = "length" /\ c \notin {"l", "h"} /\ Optional(c = "q", "switch", "switch")
             \/ pc \in {"l", "h"} /\ Optional(c = pc, "switch", "switch")
          /\ UNCHANGED <<flags, width, precision, printed, buffer>>

-----------------------------------------------------------------------------
(* The switch. *)

Least(m, n) == IF m < n THEN m ELSE n

Pad(n) == IF n < width THEN width - n ELSE 0

\* Variant: a string is not cut off at the width.
StringField_NotCut(s) ==
  LET most  == IF precision = NoPrecision THEN Word \div 2 - 1 ELSE precision
      chars == Least(s, most)
  IN  Pad(chars) + chars

\* How many characters a string of length s makes: the padding on the left, the
\* string, cut off at the precision and at the width, the padding on the right.
StringField(s) ==
  LET most  == IF precision = NoPrecision THEN Word \div 2 - 1 ELSE precision
      left  == IF "LEFT" \in flags THEN 0 ELSE Pad(Least(s, most))
      chars == IF width > 0 THEN Least(Least(s, most), width) ELSE Least(s, most)
      right == IF "LEFT" \in flags THEN Pad(chars) ELSE 0
  IN  left + chars + right

\* It falls through to the numbers, which fetch an argument and fall through to
\* the default.
String == /\ pc = "switch" /\ c = "s" /\ Goto("default")
          /\ \E s \in Lengths : /\ Put(StringField(s))
                                /\ printed' = printed + StringField(s)
          /\ UNCHANGED <<scanner, c, flags, width, precision>>

\* The argument itself is left in c.
Char == /\ pc = "switch" /\ c = "c" /\ Goto("text")
        /\ Put(1) /\ printed' = printed + 1 /\ c' = "other"
        /\ UNCHANGED <<scanner, flags, width, precision>>

Number == /\ pc = "switch" /\ c = "d" /\ Goto("default")
          /\ UNCHANGED <<scanner, c, flags, width, precision, printed, buffer>>

Hex == /\ pc = "switch" /\ c \in {"p", "x"} /\ Goto("text")
       /\ flags' = IF c = "p" THEN flags \cup {"ALT"} ELSE flags
       /\ Put(IF "ALT" \in flags' THEN 1 ELSE 0)
       /\ UNCHANGED <<scanner, c, width, precision, printed>>

\* The character is put and not counted.
Default == /\ \/ pc = "default"
              \/ pc = "switch" /\ c \notin {"s", "c", "d", "p", "x"}
           /\ Goto("text") /\ Put(1)
           /\ UNCHANGED <<scanner, c, flags, width, precision, printed>>

Next == \/ Text \/ Percent \/ Finish \/ ReadBeyond
        \/ Flag \/ Zero \/ Width \/ Point \/ Precision \/ Length
        \/ String \/ Char \/ Number \/ Hex \/ Default

Spec == Init /\ [][Next]_vars

-----------------------------------------------------------------------------
(* Properties. *)

\* Whatever a format makes of a field, vsnprintf stores nothing at or beyond the
\* end of the caller's buffer, and leaves it terminated inside; unless the size
\* is zero, when size - 1 wraps and nothing bounds it.
BufferKept == size > 0 => pos < size /\ (pc = "done" => nul = pos)

\* The terminator is passed only by a format that ends in the middle of a
\* conversion, with one of the characters whose handling reads another one.
ReadsWithin ==
  pc = "beyond" => tail \in Digits \cup {"star", "dot", "l", "h", "q"}

\* A string conversion that has a width makes exactly as many characters as the
\* width says, by any combination of LEFT, precision and length of the string.
FieldExact ==
  [][pc = "switch" /\ c = "s" /\ width > 0 => printed' = printed + width]_vars
=============================================================================
