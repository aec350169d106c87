---------------------------- MODULE ExceptionsProofs ----------------------------
(***************************************************************************)
(* However deep exceptions nest, and at whatever step of an entry or an    *)
(* exit they strike: the handler finds a true frame, and what was          *)
(* interrupted goes on as it was.                                          *)
(*                                                                         *)
(* The invariant compares the stack with what lies on it: above the words  *)
(* that were there at the interruption, the first Height of the words that *)
(* a complete entry pushes.  It holds between what runs and the entry it   *)
(* belongs to, and, since an entry keeps what it interrupted, between each *)
(* entry and the one that it interrupted.                                  *)
(***************************************************************************)
EXTENDS Exceptions, SequenceTheorems, FiniteSetTheorems, WellFoundedInduction, TLAPS

\* Where an entry is: in C, elsewhere with all registers as they were, or at the pops.
InC == {"handler", "callback", "return"}

Intact == {"stub", "vector", "save", "call", "drop", "iretq"}

Labels == InC \cup Intact \cup {"restore"}

Places == [at : Labels \cup {"setup_idt", "main"}, n : Nat]

\* All that registers and stack hold.

Words == ({"return"} \X Places \X BOOLEAN \X Nat)
           \cup ({"code", "vector"} \X Nat) \cup ({"main"} \X Registers)
           \cup {<<"junk">>, <<"frame">>, <<"restore">>}

Entries == [vector : Vectors, rip : Places, regs : [Registers -> Words],
            stack : Seq(Words), enabled : BOOLEAN]

\* Vectors are numbers.
LEMMA Numbers ==
  /\ NUM_ISR \in Nat /\ NUM_ISR > 32
  /\ \A v \in Vectors : v \in Nat /\ v \in 0..(NUM_ISR - 1)
  BY ExceptionsAssumption

\* A set of numbers that is not empty has a least one: what the proofs here take
\* for induction.  Of the orderings the library proves well-founded it uses the one
\* of finite sets, for 0..m is a proper subset of 0..n if m < n.
LEMMA Smallest ==
  ASSUME NEW T, T \subseteq Nat, T # {}
  PROVE  \E m \in T : \A n \in T : m <= n
  <1> DEFINE Below == {0..m : m \in T}
             R == StrictSubsetOrdering(Nat)
  <1>1. Below \subseteq FiniteSubsetsOf(Nat) /\ Below # {}
    <2>1. \A m \in T : 0..m \in SUBSET Nat /\ IsFiniteSet(0..m)
      BY FS_Interval
    <2> QED BY <2>1 DEF FiniteSubsetsOf
  <1>2. IsWellFoundedOn(R, FiniteSubsetsOf(Nat))
    BY FS_StrictSubsetOrderingWellFounded
  <1>3. PICK x \in Below : \A y \in Below : ~(<<y, x>> \in R)
    <2> HIDE DEF R, Below
    <2> QED BY <1>1, <1>2, WFMin
  <1>4. PICK m \in T : x = 0..m
    BY <1>3
  <1>5. ASSUME NEW n \in T, ~(m <= n) PROVE FALSE
    <2>1. m \in Nat /\ n \in Nat /\ n < m
      BY <1>5
    <2>2. 0..n \subseteq 0..m /\ m \in 0..m /\ m \notin 0..n
      BY <2>1
    <2>3. <<0..n, 0..m>> \in R
      BY <2>1, <2>2 DEF StrictSubsetOrdering
    <2> QED BY <1>3, <1>4, <2>3
  <1> QED BY <1>5

-----------------------------------------------------------------------------
(* The stubs. *)

\* Every stub fits in 16 bytes, whichever push it has.
LEMMA StubSize == \A v \in Nat : isr_entry_len(v) = 16
  <1> SUFFICES ASSUME NEW v \in Nat PROVE isr_entry_len(v) = 16
    OBVIOUS
  <1>1. StubBytes(v) \in {9, 12}
    BY ExceptionsAssumption DEF StubBytes
  <1>2. (9 + 15) \div 16 = 1 /\ (12 + 15) \div 16 = 1
    OBVIOUS
  <1> QED BY <1>1, <1>2 DEF isr_entry_len

\* They lie one after the other, as setup_idt expects them.
LEMMA StubPlace == \A v \in 0..(NUM_ISR - 1) : _isr[v] = v * 16
  <1> DEFINE D == 0..(NUM_ISR - 1)
             Is(f) == f = [v \in D |-> IF v = 0 THEN 0
                                       ELSE f[v - 1] + isr_entry_len(v - 1)]
             g == [v \in D |-> v * 16]
  <1>1. NUM_ISR \in Nat /\ \A v \in D : v \in Nat /\ (v # 0 => v - 1 \in D)
    BY ExceptionsAssumption
  <1>2. Is(g)
    <2>1. \A v \in D : v * 16 = IF v = 0 THEN 0
                                ELSE g[v - 1] + isr_entry_len(v - 1)
      BY <1>1, StubSize
    <2> QED BY <2>1
  <1>3. Is(_isr)
    <2>1. _isr = CHOOSE f : Is(f)
      BY DEF _isr
    <2> HIDE DEF Is
    <2> QED BY <1>2, <2>1
  <1> DEFINE Wrong == {v \in D : _isr[v] # v * 16}
  <1>4. Wrong = {}
    <2> SUFFICES ASSUME Wrong # {} PROVE FALSE
      OBVIOUS
    <2>1. Wrong \subseteq Nat
      BY <1>1
    <2>2. PICK m \in Wrong : \A n \in Wrong : m <= n
      <3> HIDE DEF Wrong
      <3> QED BY <2>1, Smallest
    <2>3. _isr[m] = IF m = 0 THEN 0 ELSE _isr[m - 1] + isr_entry_len(m - 1)
      BY <1>3
    <2>4. CASE m = 0
      BY <2>2, <2>3, <2>4
    <2>5. CASE m # 0
      <3>1. m - 1 \in D /\ m \in Nat /\ ~(m <= m - 1)
        BY <1>1, <2>5
      <3>2. _isr[m - 1] = (m - 1) * 16
        BY <2>2, <3>1
      <3> QED BY <2>3, <2>5, <3>1, <3>2, StubSize
    <2> QED BY <2>4, <2>5
  <1> QED BY <1>4

\* So that the place of a stub tells which it is.
LEMMA StubFound == \A v \in Vectors : StubAt(v * 16) = v
  <1> SUFFICES ASSUME NEW v \in Vectors PROVE StubAt(v * 16) = v
    OBVIOUS
  <1>1. \A w \in Vectors : w \in 0..(NUM_ISR - 1) /\ _isr[w] = w * 16
    BY ExceptionsAssumption, StubPlace
  <1>2. \A w \in Vectors : _isr[w] = v * 16 <=> w = v
    BY <1>1, ExceptionsAssumption
  <1>3. PICK w \in Vectors : w = StubAt(v * 16) /\ _isr[w] = v * 16
    BY <1>2 DEF StubAt
  <1> QED BY <1>2, <1>3

-----------------------------------------------------------------------------
(* The inductive invariant. *)

\* The words that an entry pushes: the processor, the stub, x86_exception.
Word(h, k) ==
  CASE k = 1       -> <<"return", h.rip, h.enabled, Len(h.stack)>>
    [] k = 2       -> <<"code", IF HasErrorCode(h.vector) THEN h.vector ELSE 0>>
    [] k = 3       -> <<"vector", h.vector>>
    [] k \in 4..18 -> h.regs[Pushed[k - 3]]
    [] OTHER       -> <<"restore">>

\* How many of them are on the stack where the processor is at p.
Height(p, h) ==
  CASE p.at = "stub"    -> IF HasErrorCode(h.vector) THEN 2 ELSE 1
    [] p.at = "vector"  -> 2
    [] p.at = "save"    -> 2 + p.n
    [] p.at = "call"    -> 18
    [] p.at = "restore" -> 19 - p.n
    [] p.at = "drop"    -> 3
    [] p.at = "iretq"   -> 1
    [] OTHER            -> 19

Holds(s, h, k) ==
  /\ Len(s) = Len(h.stack) + k
  /\ \A i \in 1..Len(h.stack) : s[i] = h.stack[i]
  /\ \A j \in 1..k : s[Len(h.stack) + j] = Word(h, j)

PlaceTrue(p, h) ==
  /\ p.at \in Labels
  /\ p.at = "stub" => p.n = h.vector * 16
  /\ p.at = "vector" => p.n = h.vector
  /\ p.at \in {"save", "restore"} => p.n \in 1..15

RegsTrue(p, r, h) ==
  /\ p.at \in Intact => r = h.regs
  /\ p.at = "restore" => \A i \in 1..(p.n - 1) : r[Popped[i]] = h.regs[Popped[i]]

Good(p, r, s, h) == PlaceTrue(p, h) /\ RegsTrue(p, r, h) /\ Holds(s, h, Height(p, h))

TypeInv == /\ rip \in Places /\ regs \in [Registers -> Words]
           /\ stack \in Seq(Words) /\ enabled \in BOOLEAN
           /\ held \in Seq(Entries)

\* The descriptors written so far lead to the stubs.
GateInv ==
  /\ idt \in [0..(NUM_ISR - 1) -> Nat]
  /\ rip.at = "setup_idt" =>
       /\ rip.n \in 0..(NUM_ISR - 1)
       /\ \A v \in 0..(rip.n - 1) : idt[v] = v * 16
  /\ rip.at # "setup_idt" => \A v \in 0..(NUM_ISR - 1) : idt[v] = v * 16

TopInv ==
  /\ held = <<>> => rip.at \in {"setup_idt", "main"}
  /\ held # <<>> => Good(rip, regs, stack, held[Len(held)]) /\ ~enabled

ChainInv ==
  \A i \in 1..Len(held) :
    /\ i = 1 => held[i].rip.at = "main"
    /\ i > 1 => /\ Good(held[i].rip, held[i].regs, held[i].stack, held[i-1])
                /\ held[i].vector < 32 /\ ~held[i].enabled

IInv == TypeInv /\ GateInv /\ TopInv /\ ChainInv

-----------------------------------------------------------------------------
(* Registers and the stack. *)

\* A place is known by its label and its number.
LEMMA AtFacts ==
  ASSUME NEW label \in Labels \cup {"setup_idt", "main"}, NEW n \in Nat
  PROVE  At(label, n) \in Places /\ At(label, n).at = label /\ At(label, n).n = n
  BY DEF At, Places

\* The pops undo the pushes, last first, and there is one for each register.
LEMMA RegisterOrder ==
  /\ Len(Pushed) = 15
  /\ \A i \in 1..15 : Pushed[i] \in Registers /\ Popped[i] = Pushed[16 - i]
  /\ \A r \in Registers : \E i \in 1..15 : r = Popped[i]
  <1>1. Len(Pushed) = 15 /\ DOMAIN Pushed = 1..15
    BY DEF Pushed
  <1>2. \A i \in 1..15 : Popped[i] = Pushed[16 - i]
    <2> SUFFICES ASSUME NEW i \in 1..15 PROVE Popped[i] = Pushed[16 - i]
      OBVIOUS
    <2>1. \/ i = 1 \/ i = 2 \/ i = 3 \/ i = 4 \/ i = 5 \/ i = 6 \/ i = 7 \/ i = 8
          \/ i = 9 \/ i = 10 \/ i = 11 \/ i = 12 \/ i = 13 \/ i = 14 \/ i = 15
      OBVIOUS
    <2> QED BY <2>1 DEF Popped, Pushed
  <1>3. \A r \in Registers : \E i \in 1..15 : r = Popped[i]
    <2> SUFFICES ASSUME NEW r \in Registers PROVE \E i \in 1..15 : r = Popped[i]
      OBVIOUS
    <2>1. PICK j \in 1..15 : r = Pushed[j]
      BY <1>1 DEF Registers
    <2>2. 16 - j \in 1..15 /\ 16 - (16 - j) = j
      OBVIOUS
    <2> QED BY <1>2, <2>1, <2>2
  <1>4. \A i \in 1..15 : Pushed[i] \in Registers
    BY <1>1 DEF Registers
  <1> QED BY <1>1, <1>2, <1>3, <1>4

\* The next word of an entry is pushed.
LEMMA PushNext ==
  ASSUME NEW s \in Seq(Words), NEW h \in Entries, NEW k \in Nat,
         Holds(s, h, k), Word(h, k + 1) \in Words
  PROVE  /\ Append(s, Word(h, k + 1)) \in Seq(Words)
         /\ Holds(Append(s, Word(h, k + 1)), h, k + 1)
  <1> DEFINE base == Len(h.stack)
             w == Word(h, k + 1)
             t == Append(s, w)
  <1>1. base \in Nat /\ Len(s) = base + k
    BY LenProperties DEF Entries, Holds
  <1>2. /\ t \in Seq(Words) /\ Len(t) = Len(s) + 1
        /\ \A i \in 1..Len(s) : t[i] = s[i]
        /\ t[Len(s) + 1] = w
    <2> HIDE DEF w
    <2> QED BY AppendProperties DEF w
  <1>3. /\ \A i \in 1..base : s[i] = h.stack[i]
        /\ \A j \in 1..k : s[base + j] = Word(h, j)
    BY DEF Holds
  <1> HIDE DEF t, base
  <1>4. Len(t) = base + (k + 1)
    BY <1>1, <1>2
  <1>5. \A i \in 1..base : t[i] = h.stack[i]
    BY <1>1, <1>2, <1>3
  <1>6. ASSUME NEW j \in 1..(k + 1) PROVE t[base + j] = Word(h, j)
    <2>1. CASE j \in 1..k
      <3>1. base + j \in 1..Len(s)
        BY <1>1, <2>1
      <3> QED BY <1>2, <1>3, <2>1, <3>1
    <2>2. CASE j = k + 1
      <3>1. base + j = Len(s) + 1
        BY <1>1, <2>2
      <3> QED BY <1>2, <2>2, <3>1, Zenon
    <2> QED BY <2>1, <2>2
  <1>7. Holds(t, h, k + 1)
    BY <1>4, <1>5, <1>6 DEF Holds, base
  <1> QED BY <1>2, <1>7 DEF t

\* The last n words of an entry are popped; the top was the last of them.
LEMMA PopLast ==
  ASSUME NEW s \in Seq(Words), NEW h \in Entries, NEW k \in Nat, NEW n \in 1..k,
         Holds(s, h, k)
  PROVE  /\ SubSeq(s, 1, Len(s) - n) \in Seq(Words)
         /\ Holds(SubSeq(s, 1, Len(s) - n), h, k - n)
         /\ s[Len(s)] = Word(h, k) /\ s[Len(s)] \in Words
  <1>1. Len(h.stack) \in Nat /\ Len(s) = Len(h.stack) + k /\ DOMAIN s = 1..Len(s)
    BY LenProperties DEF Entries, Holds
  <1> DEFINE m == Len(s) - n
             t == SubSeq(s, 1, m)
  <1>2. m \in Nat /\ m = Len(h.stack) + (k - n) /\ m <= Len(s)
    BY <1>1
  <1>3. \A i \in 1..m : s[i] \in Words
    BY <1>1, <1>2, ElementOfSeq
  <1>4. t \in Seq(Words) /\ Len(t) = m /\ \A i \in 1..m : t[i] = s[i]
    <2>1. /\ t \in Seq(Words)
          /\ Len(t) = IF 1 <= m THEN m - 1 + 1 ELSE 0
          /\ \A i \in 1..(m - 1 + 1) : t[i] = s[1 + i - 1]
      <3> HIDE DEF m
      <3> QED BY <1>2, <1>3, SubSeqProperties
    <2> QED BY <1>2, <2>1
  <1> HIDE DEF t
  <1>5. \A i \in 1..Len(h.stack) : t[i] = h.stack[i]
    BY <1>1, <1>2, <1>4 DEF Holds
  <1>6. ASSUME NEW j \in 1..(k - n) PROVE t[Len(h.stack) + j] = Word(h, j)
    <2>1. Len(h.stack) + j \in 1..m /\ j \in 1..k
      BY <1>1, <1>2
    <2> QED BY <1>4, <2>1 DEF Holds
  <1>7. s[Len(s)] = Word(h, k) /\ s[Len(s)] \in Words
    <2>1. k \in 1..k /\ Len(s) \in 1..Len(s)
      BY <1>1
    <2> QED BY <1>1, <2>1, ElementOfSeq DEF Holds
  <1>8. Holds(t, h, k - n)
    BY <1>2, <1>4, <1>5, <1>6 DEF Holds
  <1> QED BY <1>4, <1>7, <1>8 DEF t

\* The words of an entry one by one.
LEMMA WordFacts ==
  ASSUME NEW h \in Entries
  PROVE  /\ Word(h, 1) = <<"return", h.rip, h.enabled, Len(h.stack)>>
         /\ Word(h, 2) = <<"code", IF HasErrorCode(h.vector) THEN h.vector ELSE 0>>
         /\ Word(h, 3) = <<"vector", h.vector>>
         /\ \A i \in 1..15 : Word(h, i + 3) = h.regs[Pushed[i]]
         /\ Word(h, 19) = <<"restore">>
         /\ \A k \in 1..19 : Word(h, k) \in Words
  <1>1. Word(h, 1) = <<"return", h.rip, h.enabled, Len(h.stack)>>
    BY DEF Word
  <1>2. Word(h, 2) = <<"code", IF HasErrorCode(h.vector) THEN h.vector ELSE 0>>
    BY DEF Word
  <1>3. Word(h, 3) = <<"vector", h.vector>>
    BY DEF Word
  <1>4. ASSUME NEW i \in 1..15 PROVE Word(h, i + 3) = h.regs[Pushed[i]]
    <2>1. \A k \in 4..18 : Word(h, k) = h.regs[Pushed[k - 3]]
      BY DEF Word
    <2>2. PICK k \in 4..18 : k = i + 3 /\ k - 3 = i
      OBVIOUS
    <2>3. Word(h, k) = h.regs[Pushed[i]]
      BY <2>1, <2>2
    <2> QED BY <2>2, <2>3, Zenon
  <1>5. Word(h, 19) = <<"restore">>
    BY DEF Word
  <1>6. ASSUME NEW k \in 1..19 PROVE Word(h, k) \in Words
    <2>1. /\ h.vector \in Nat /\ h.rip \in Places /\ h.enabled \in BOOLEAN
          /\ Len(h.stack) \in Nat /\ h.regs \in [Registers -> Words]
      <3>1. h.vector \in Vectors /\ h.stack \in Seq(Words)
        BY DEF Entries
      <3>2. h.vector \in Nat /\ Len(h.stack) \in Nat
        BY <3>1, Numbers, LenProperties
      <3> QED BY <3>2 DEF Entries
    <2>2. CASE k = 1
      BY <1>1, <2>1, <2>2 DEF Words
    <2>3. CASE k = 2
      BY <1>2, <2>1, <2>3 DEF Words
    <2>4. CASE k = 3
      BY <1>3, <2>1, <2>4 DEF Words
    <2>5. CASE k \in 4..18
      <3>1. k - 3 \in 1..15 /\ k = (k - 3) + 3
        BY <2>5
      <3>2. Word(h, k) = h.regs[Pushed[k - 3]]
        BY <1>4, <3>1
      <3> QED BY <2>1, <3>1, <3>2, RegisterOrder
    <2>6. CASE k = 19
      BY <1>5, <2>6 DEF Words
    <2> QED BY <2>2, <2>3, <2>4, <2>5, <2>6
  <1> QED BY <1>1, <1>2, <1>3, <1>4, <1>5, <1>6

-----------------------------------------------------------------------------
(* The steps. *)

\* Between two interruptions the processor serves the last of them.
LEMMA Serving ==
  ASSUME IInv, rip.at \in Labels
  PROVE  /\ Len(held) \in Nat \ {0} /\ held # <<>>
         /\ held[Len(held)] \in Entries
         /\ Good(rip, regs, stack, held[Len(held)]) /\ ~enabled
  <1>1. held # <<>>
    BY DEF IInv, TopInv, Labels, InC, Intact
  <1>2. Len(held) \in Nat \ {0}
    BY <1>1, LenProperties, EmptySeq DEF IInv, TypeInv
  <1>3. held[Len(held)] \in Entries
    BY <1>2, ElementOfSeq DEF IInv, TypeInv
  <1> QED BY <1>1, <1>2, <1>3 DEF IInv, TopInv

\* A step of the entry or the exit that leaves the rest alone.
LEMMA Onward ==
  ASSUME IInv, rip.at \in Labels,
         rip' \in Places, regs' \in [Registers -> Words], stack' \in Seq(Words),
         Good(rip', regs', stack', held[Len(held)]),
         UNCHANGED <<enabled, idt, held>>
  PROVE  IInv'
  <1>1. rip'.at \in Labels
    BY DEF Good, PlaceTrue
  <1>2. rip.at # "setup_idt" /\ rip'.at # "setup_idt"
    BY <1>1 DEF Labels, InC, Intact
  <1>3. held # <<>> /\ ~enabled
    BY Serving
  <1>4. TypeInv'
    BY DEF IInv, TypeInv
  <1>5. GateInv'
    BY <1>2 DEF IInv, GateInv
  <1>6. TopInv'
    BY <1>3 DEF TopInv
  <1>7. ChainInv'
    BY DEF IInv, ChainInv
  <1> QED BY <1>4, <1>5, <1>6, <1>7 DEF IInv

\* The stub at the gate's offset is that of the vector delivered: the error code that
\* the processor did not push is pushed.
LEMMA StubStep == IInv /\ Stub => IInv'
  <1> SUFFICES ASSUME IInv, Stub PROVE IInv'
    OBVIOUS
  <1> DEFINE h == held[Len(held)]
  <1>1. rip.at = "stub" /\ rip.at \in Labels
    BY DEF Stub, Labels, Intact
  <1>2. h \in Entries /\ Good(rip, regs, stack, h)
    BY <1>1, Serving
  <1> HIDE DEF h
  <1>3. h.vector \in Vectors /\ rip.n = h.vector * 16 /\ regs = h.regs
    BY <1>1, <1>2 DEF Good, PlaceTrue, RegsTrue, Intact, Entries
  <1>4. rip' = At("vector", h.vector)
    BY <1>3, StubFound DEF Stub
  <1>5. stack' \in Seq(Words) /\ Holds(stack', h, 2)
    <2>1. CASE HasErrorCode(h.vector)
      <3>1. stack' = stack
        BY <1>3, <2>1, StubFound DEF Stub
      <3>2. Height(rip, h) = 2
        BY <1>1, <2>1 DEF Height
      <3> QED BY <1>2, <3>1, <3>2 DEF Good, IInv, TypeInv
    <2>2. CASE ~HasErrorCode(h.vector)
      <3>1. stack' = Append(stack, <<"code", 0>>)
        BY <1>3, <2>2, StubFound DEF Stub, Push
      <3>2. Height(rip, h) = 1
        BY <1>1, <2>2 DEF Height
      <3>3. Word(h, 1 + 1) = <<"code", 0>> /\ Word(h, 1 + 1) \in Words
        BY <1>2, <2>2, WordFacts
      <3>4. Holds(stack, h, 1) /\ stack \in Seq(Words)
        BY <1>2, <3>2 DEF Good, IInv, TypeInv
      <3>5. stack' \in Seq(Words) /\ Holds(stack', h, 1 + 1)
        BY <1>2, <3>1, <3>3, <3>4, PushNext
      <3> QED BY <3>5
    <2> QED BY <2>1, <2>2
  <1>6. rip' \in Places /\ rip'.at = "vector" /\ rip'.n = h.vector
    <2>1. h.vector \in Nat
      BY <1>3, Numbers
    <2> QED BY <1>4, <2>1, AtFacts DEF Labels, InC, Intact
  <1>7. Height(rip', h) = 2
    BY <1>6 DEF Height
  <1>8. Good(rip', regs', stack', h)
    <2>1. PlaceTrue(rip', h)
      BY <1>6 DEF PlaceTrue, Labels, Intact
    <2>2. RegsTrue(rip', regs', h)
      BY <1>3, <1>6 DEF RegsTrue, Stub
    <2> QED BY <1>5, <1>7, <2>1, <2>2 DEF Good
  <1>9. regs' \in [Registers -> Words] /\ UNCHANGED <<enabled, idt, held>>
    BY DEF Stub, IInv, TypeInv
  <1> QED BY <1>1, <1>5, <1>6, <1>8, <1>9, Onward DEF h

\* The vector goes on top of the error code.
LEMMA PushVectorStep == IInv /\ PushVector => IInv'
  <1> SUFFICES ASSUME IInv, PushVector PROVE IInv'
    OBVIOUS
  <1> DEFINE h == held[Len(held)]
  <1>1. rip.at = "vector" /\ rip.at \in Labels
    BY DEF PushVector, Labels, Intact
  <1>2. h \in Entries /\ Good(rip, regs, stack, h)
    BY <1>1, Serving
  <1> HIDE DEF h
  <1>3. rip.n = h.vector /\ regs = h.regs /\ Height(rip, h) = 2
    BY <1>1, <1>2 DEF Good, PlaceTrue, RegsTrue, Intact, Height
  <1>4. Holds(stack, h, 2) /\ stack \in Seq(Words)
    BY <1>2, <1>3 DEF Good, IInv, TypeInv
  <1>5. /\ stack' = Append(stack, <<"vector", h.vector>>) /\ rip' = At("save", 1)
        /\ UNCHANGED <<regs, enabled, idt, held>>
    BY <1>3 DEF PushVector, Push
  <1>6. stack' \in Seq(Words) /\ Holds(stack', h, 2 + 1)
    <2>1. Word(h, 2 + 1) = <<"vector", h.vector>> /\ Word(h, 2 + 1) \in Words
      BY <1>2, WordFacts
    <2> QED BY <1>2, <1>4, <1>5, <2>1, PushNext
  <1>7. rip' \in Places /\ rip'.at = "save" /\ rip'.n = 1
    BY <1>5, AtFacts DEF Labels, InC, Intact
  <1>8. Height(rip', h) = 2 + 1
    BY <1>7 DEF Height
  <1>9. Good(rip', regs', stack', h)
    <2>1. PlaceTrue(rip', h)
      BY <1>7 DEF PlaceTrue, Labels, Intact
    <2>2. RegsTrue(rip', regs', h)
      BY <1>3, <1>5, <1>7 DEF RegsTrue
    <2> QED BY <1>6, <1>8, <2>1, <2>2 DEF Good
  <1>10. regs' \in [Registers -> Words]
    BY <1>5 DEF IInv, TypeInv
  <1> QED BY <1>1, <1>5, <1>6, <1>7, <1>9, <1>10, Onward DEF h

\* One more register is on the stack, as it was when the processor was interrupted.
LEMMA SaveStep == IInv /\ Save => IInv'
  <1> SUFFICES ASSUME IInv, Save PROVE IInv'
    OBVIOUS
  <1> DEFINE h == held[Len(held)]
             i == rip.n
  <1>1. rip.at = "save" /\ rip.at \in Labels
    BY DEF Save, Labels, Intact
  <1>2. h \in Entries /\ Good(rip, regs, stack, h)
    BY <1>1, Serving
  <1> HIDE DEF h
  <1>3. i \in 1..15 /\ regs = h.regs /\ Height(rip, h) = 2 + i
    BY <1>1, <1>2 DEF Good, PlaceTrue, RegsTrue, Intact, Height
  <1>4. Holds(stack, h, 2 + i) /\ stack \in Seq(Words)
    BY <1>2, <1>3 DEF Good, IInv, TypeInv
  <1>5. /\ stack' = Append(stack, h.regs[Pushed[i]])
        /\ rip' = IF i < 15 THEN At("save", i + 1) ELSE At("call", 0)
        /\ UNCHANGED <<regs, enabled, idt, held>>
    BY <1>1, <1>3, RegisterOrder DEF Save, Push, Following
  <1> HIDE DEF i
  <1>6. stack' \in Seq(Words) /\ Holds(stack', h, 3 + i)
    <2>1. PICK k \in Nat : k = 2 + i /\ k + 1 = i + 3 /\ k + 1 = 3 + i /\ k + 1 \in 1..19
      BY <1>3
    <2>2. Word(h, k + 1) = h.regs[Pushed[i]] /\ Word(h, k + 1) \in Words
      BY <1>2, <1>3, <2>1, WordFacts
    <2>3. Holds(stack, h, k)
      BY <1>4, <2>1
    <2> QED BY <1>2, <1>4, <1>5, <2>1, <2>2, <2>3, PushNext
  <1>7. /\ rip' \in Places /\ Height(rip', h) = 3 + i /\ PlaceTrue(rip', h)
        /\ rip'.at \in {"save", "call"}
    <2>1. CASE i < 15
      <3>1. rip' \in Places /\ rip'.at = "save" /\ rip'.n = i + 1
        BY <1>3, <1>5, <2>1, AtFacts DEF Labels, InC, Intact
      <3> QED BY <1>3, <2>1, <3>1 DEF Height, PlaceTrue, Labels, Intact
    <2>2. CASE i = 15
      <3>1. rip' \in Places /\ rip'.at = "call"
        BY <1>5, <2>2, AtFacts DEF Labels, InC, Intact
      <3> QED BY <2>2, <3>1 DEF Height, PlaceTrue, Labels, Intact
    <2> QED BY <1>3, <2>1, <2>2
  <1>8. RegsTrue(rip', regs', h)
    BY <1>3, <1>5, <1>7 DEF RegsTrue
  <1>9. Good(rip', regs', stack', h)
    BY <1>6, <1>7, <1>8 DEF Good
  <1>10. regs' \in [Registers -> Words]
    BY <1>5 DEF IInv, TypeInv
  <1> QED BY <1>1, <1>5, <1>6, <1>7, <1>9, <1>10, Onward DEF h

\* The way back goes on top of the frame, and rdi to what it points to.
LEMMA CallStep == IInv /\ Call => IInv'
  <1> SUFFICES ASSUME IInv, Call PROVE IInv'
    OBVIOUS
  <1> DEFINE h == held[Len(held)]
  <1>1. rip.at = "call" /\ rip.at \in Labels
    BY DEF Call, Labels, Intact
  <1>2. h \in Entries /\ Good(rip, regs, stack, h)
    BY <1>1, Serving
  <1> HIDE DEF h
  <1>3. Holds(stack, h, 18) /\ stack \in Seq(Words)
    <2>1. Height(rip, h) = 18
      BY <1>1 DEF Height
    <2> QED BY <1>2, <2>1 DEF Good, IInv, TypeInv
  <1>4. /\ stack' = Append(stack, <<"restore">>) /\ rip' = At("handler", 0)
        /\ regs' = [regs EXCEPT !["rdi"] = <<"frame">>]
        /\ UNCHANGED <<enabled, idt, held>>
    BY DEF Call, Push
  <1>5. stack' \in Seq(Words) /\ Holds(stack', h, 19)
    <2>1. Word(h, 18 + 1) = <<"restore">> /\ Word(h, 18 + 1) \in Words
      BY <1>2, WordFacts
    <2>2. stack' \in Seq(Words) /\ Holds(stack', h, 18 + 1)
      BY <1>2, <1>3, <1>4, <2>1, PushNext
    <2> QED BY <2>2
  <1>6. rip' \in Places /\ rip'.at = "handler"
    BY <1>4, AtFacts DEF Labels, InC, Intact
  <1>7. Good(rip', regs', stack', h)
    <2>1. Height(rip', h) = 19
      BY <1>6 DEF Height
    <2>2. PlaceTrue(rip', h) /\ RegsTrue(rip', regs', h)
      BY <1>6 DEF PlaceTrue, RegsTrue, Labels, InC, Intact
    <2> QED BY <1>5, <2>1, <2>2 DEF Good
  <1>8. regs' \in [Registers -> Words]
    <2>1. regs \in [Registers -> Words] /\ <<"frame">> \in Words
      BY DEF IInv, TypeInv, Words
    <2> QED BY <1>4, <2>1
  <1> QED BY <1>1, <1>4, <1>5, <1>6, <1>7, <1>8, Onward DEF h

\* In C the stack is as high as at the call, and registers may be anything.
LEMMA CStep ==
  ASSUME IInv, Ignore \/ platform_int_handler \/ CallbackReturns
  PROVE  IInv'
  <1> DEFINE h == held[Len(held)]
  <1>1. rip.at \in InC /\ rip.at \in Labels
    BY DEF Ignore, platform_int_handler, CallbackReturns, Labels, InC
  <1>2. h \in Entries /\ Good(rip, regs, stack, h)
    BY <1>1, Serving
  <1> HIDE DEF h
  <1>3. /\ rip' \in {At("return", 0), At("callback", 0)}
        /\ regs' \in {Clobbered, regs}
        /\ UNCHANGED <<stack, enabled, idt, held>>
    BY DEF Ignore, platform_int_handler, CallbackReturns
  <1>4. rip' \in Places /\ rip'.at \in InC
    BY <1>3, AtFacts DEF Labels, InC, Intact
  <1>5. regs' \in [Registers -> Words]
    <2>1. regs \in [Registers -> Words] /\ <<"junk">> \in Words
      BY DEF IInv, TypeInv, Words
    <2> QED BY <1>3, <2>1 DEF Clobbered
  <1>6. Good(rip', regs', stack', h)
    <2>1. Height(rip, h) = 19 /\ Height(rip', h) = 19
      BY <1>1, <1>4 DEF Height, InC
    <2>2. PlaceTrue(rip', h) /\ RegsTrue(rip', regs', h)
      BY <1>4 DEF PlaceTrue, RegsTrue, Labels, InC, Intact
    <2>3. Holds(stack', h, 19)
      BY <1>2, <1>3, <2>1 DEF Good
    <2> QED BY <2>1, <2>2, <2>3 DEF Good
  <1>7. stack' \in Seq(Words)
    BY <1>3 DEF IInv, TypeInv
  <1> QED BY <1>1, <1>3, <1>4, <1>5, <1>6, <1>7, Onward DEF h

\* The way back is off again; the frame is as it was saved.
LEMMA ReturnStep == IInv /\ Return => IInv'
  <1> SUFFICES ASSUME IInv, Return PROVE IInv'
    OBVIOUS
  <1> DEFINE h == held[Len(held)]
  <1>1. rip.at = "return" /\ rip.at \in Labels
    BY DEF Return, Labels, InC
  <1>2. h \in Entries /\ Good(rip, regs, stack, h)
    BY <1>1, Serving
  <1> HIDE DEF h
  <1>3. Holds(stack, h, 19) /\ stack \in Seq(Words)
    <2>1. Height(rip, h) = 19
      BY <1>1 DEF Height
    <2> QED BY <1>2, <2>1 DEF Good, IInv, TypeInv
  <1>4. stack' \in Seq(Words) /\ Holds(stack', h, 18)
    <2>1. /\ SubSeq(stack, 1, Len(stack) - 1) \in Seq(Words)
          /\ Holds(SubSeq(stack, 1, Len(stack) - 1), h, 19 - 1)
      BY <1>2, <1>3, PopLast
    <2>2. Holds(SubSeq(stack, 1, Len(stack) - 1), h, 18)
      BY <2>1
    <2> QED BY <2>1, <2>2 DEF Return, Pop
  <1>5. rip' \in Places /\ rip'.at = "restore" /\ rip'.n = 1
    BY AtFacts DEF Return, Labels, InC, Intact
  <1>6. Good(rip', regs', stack', h)
    <2>1. Height(rip', h) = 18
      BY <1>5 DEF Height
    <2>2. PlaceTrue(rip', h) /\ RegsTrue(rip', regs', h)
      BY <1>5 DEF PlaceTrue, RegsTrue, Labels, InC, Intact
    <2> QED BY <1>4, <2>1, <2>2 DEF Good
  <1>7. regs' \in [Registers -> Words] /\ UNCHANGED <<enabled, idt, held>>
    BY DEF Return, IInv, TypeInv
  <1> QED BY <1>1, <1>4, <1>5, <1>6, <1>7, Onward DEF h

\* The word on top at the n-th pop is that of the register popped.
LEMMA RestoreStep == IInv /\ Restore => IInv'
  <1> SUFFICES ASSUME IInv, Restore PROVE IInv'
    OBVIOUS
  <1> DEFINE h == held[Len(held)]
             i == rip.n
  <1>1. rip.at = "restore" /\ rip.at \in Labels
    BY DEF Restore, Labels
  <1>2. h \in Entries /\ Good(rip, regs, stack, h)
    BY <1>1, Serving
  <1> HIDE DEF h
  <1>3. /\ i \in 1..15 /\ Height(rip, h) = 19 - i
        /\ \A j \in 1..(i - 1) : regs[Popped[j]] = h.regs[Popped[j]]
    BY <1>1, <1>2 DEF Good, PlaceTrue, RegsTrue, Height
  <1>4. Holds(stack, h, 19 - i) /\ stack \in Seq(Words)
    BY <1>2, <1>3 DEF Good, IInv, TypeInv
  <1>5. /\ stack' = SubSeq(stack, 1, Len(stack) - 1)
        /\ regs' = [regs EXCEPT ![Popped[i]] = stack[Len(stack)]]
        /\ rip' = IF i < 15 THEN At("restore", i + 1) ELSE At("drop", 0)
        /\ UNCHANGED <<enabled, idt, held>>
    BY <1>1, RegisterOrder DEF Restore, Pop, Top, Following
  <1> HIDE DEF i
  <1>6. /\ stack' \in Seq(Words) /\ Holds(stack', h, 18 - i)
        /\ stack[Len(stack)] = h.regs[Popped[i]] /\ stack[Len(stack)] \in Words
    <2>1. PICK k \in Nat : k = 19 - i /\ k - 1 = 18 - i /\ 1 \in 1..k
      BY <1>3
    <2>2. Holds(stack, h, k)
      BY <1>4, <2>1
    <2>3. /\ stack' \in Seq(Words) /\ Holds(stack', h, k - 1)
          /\ stack[Len(stack)] = Word(h, k) /\ stack[Len(stack)] \in Words
      BY <1>2, <1>4, <1>5, <2>1, <2>2, PopLast
    <2>4. Word(h, k) = h.regs[Popped[i]]
      <3>1. PICK j \in 1..15 : j = 16 - i /\ k = j + 3
        BY <1>3, <2>1
      <3>2. Word(h, k) = h.regs[Pushed[j]]
        BY <1>2, <3>1, WordFacts
      <3>3. Popped[i] = Pushed[j]
        BY <1>3, <3>1, RegisterOrder
      <3> QED BY <3>2, <3>3
    <2> QED BY <2>1, <2>3, <2>4
  <1>7. \A j \in 1..15 : Popped[j] \in Registers
    BY RegisterOrder
  <1>8. regs \in [Registers -> Words] /\ regs' \in [Registers -> Words]
    BY <1>5, <1>6, <1>7 DEF IInv, TypeInv
  <1>9. \A j \in 1..i : regs'[Popped[j]] = h.regs[Popped[j]]
    <2> SUFFICES ASSUME NEW j \in 1..i PROVE regs'[Popped[j]] = h.regs[Popped[j]]
      OBVIOUS
    <2>1. Popped[i] \in Registers /\ Popped[j] \in Registers
      BY <1>3, <1>7
    <2>2. j = i \/ j \in 1..(i - 1)
      BY <1>3
    <2> QED BY <1>3, <1>5, <1>6, <1>8, <2>1, <2>2
  <1>10. /\ rip' \in Places /\ Height(rip', h) = 18 - i /\ PlaceTrue(rip', h)
         /\ RegsTrue(rip', regs', h)
    <2>1. CASE i < 15
      <3>1. rip' \in Places /\ rip'.at = "restore" /\ rip'.n = i + 1
        BY <1>3, <1>5, <2>1, AtFacts DEF Labels, InC, Intact
      <3>2. Height(rip', h) = 18 - i /\ PlaceTrue(rip', h)
        BY <1>3, <2>1, <3>1 DEF Height, PlaceTrue, Labels
      <3>3. RegsTrue(rip', regs', h)
        BY <1>3, <1>9, <3>1 DEF RegsTrue, Intact
      <3> QED BY <3>1, <3>2, <3>3
    <2>2. CASE i = 15
      <3>1. rip' \in Places /\ rip'.at = "drop"
        BY <1>5, <2>2, AtFacts DEF Labels, InC, Intact
      <3>2. Height(rip', h) = 18 - i /\ PlaceTrue(rip', h)
        BY <2>2, <3>1 DEF Height, PlaceTrue, Labels, Intact
      <3>3. regs' = h.regs
        <4>1. h.regs \in [Registers -> Words]
          BY <1>2 DEF Entries
        <4>2. \A r \in Registers : regs'[r] = h.regs[r]
          BY <1>9, <2>2, RegisterOrder
        <4> QED BY <1>8, <4>1, <4>2
      <3> QED BY <3>1, <3>2, <3>3 DEF RegsTrue
    <2> QED BY <1>3, <2>1, <2>2
  <1>11. Good(rip', regs', stack', h)
    BY <1>6, <1>10 DEF Good
  <1> QED BY <1>1, <1>5, <1>6, <1>8, <1>10, <1>11, Onward DEF h

\* Vector and error code are off: on top is what the processor pushed.
LEMMA DropStep == IInv /\ Drop => IInv'
  <1> SUFFICES ASSUME IInv, Drop PROVE IInv'
    OBVIOUS
  <1> DEFINE h == held[Len(held)]
  <1>1. rip.at = "drop" /\ rip.at \in Labels
    BY DEF Drop, Labels, Intact
  <1>2. h \in Entries /\ Good(rip, regs, stack, h)
    BY <1>1, Serving
  <1> HIDE DEF h
  <1>3. Holds(stack, h, 3) /\ stack \in Seq(Words) /\ regs = h.regs
    <2>1. Height(rip, h) = 3
      BY <1>1 DEF Height
    <2> QED BY <1>1, <1>2, <2>1 DEF Good, RegsTrue, Intact, IInv, TypeInv
  <1>4. stack' \in Seq(Words) /\ Holds(stack', h, 1)
    <2>1. /\ SubSeq(stack, 1, Len(stack) - 2) \in Seq(Words)
          /\ Holds(SubSeq(stack, 1, Len(stack) - 2), h, 3 - 2)
      BY <1>2, <1>3, PopLast
    <2>2. Holds(SubSeq(stack, 1, Len(stack) - 2), h, 1)
      BY <2>1
    <2> QED BY <2>1, <2>2 DEF Drop, Pop
  <1>5. rip' \in Places /\ rip'.at = "iretq"
    BY AtFacts DEF Drop, Labels, InC, Intact
  <1>6. regs' \in [Registers -> Words] /\ UNCHANGED <<regs, enabled, idt, held>>
    BY DEF Drop, IInv, TypeInv
  <1>7. Good(rip', regs', stack', h)
    <2>1. Height(rip', h) = 1
      BY <1>5 DEF Height
    <2>2. PlaceTrue(rip', h) /\ RegsTrue(rip', regs', h)
      BY <1>3, <1>5, <1>6 DEF PlaceTrue, RegsTrue, Labels, Intact
    <2> QED BY <1>4, <2>1, <2>2 DEF Good
  <1> QED BY <1>1, <1>4, <1>5, <1>6, <1>7, Onward DEF h

\* iretq finds what the processor pushed, and below it the stack as it was.
LEMMA ReturnsTo ==
  ASSUME IInv, iretq
  PROVE  /\ rip' = Interrupted.rip /\ regs' = Interrupted.regs
         /\ stack' = Interrupted.stack /\ enabled' = Interrupted.enabled
  <1> DEFINE h == Interrupted
  <1>1. rip.at = "iretq" /\ rip.at \in Labels
    BY DEF iretq, Labels, Intact
  <1>2. h \in Entries /\ Good(rip, regs, stack, h)
    BY <1>1, Serving DEF Interrupted
  <1> HIDE DEF h
  <1>3. Holds(stack, h, 1) /\ stack \in Seq(Words) /\ regs = h.regs
    <2>1. Height(rip, h) = 1
      BY <1>1 DEF Height
    <2> QED BY <1>1, <1>2, <2>1 DEF Good, RegsTrue, Intact, IInv, TypeInv
  <1>4. Top = <<"return", h.rip, h.enabled, Len(h.stack)>>
    <2>1. 1 \in 1..1
      OBVIOUS
    <2>2. stack[Len(stack)] = Word(h, 1)
      BY <1>2, <1>3, <2>1, PopLast
    <2> QED BY <1>2, <2>2, WordFacts DEF Top
  <1>5. /\ rip' = h.rip /\ enabled' = h.enabled /\ regs' = regs
        /\ stack' = SubSeq(stack, 1, Len(h.stack))
    BY <1>4 DEF iretq
  <1>6. stack' = h.stack
    <2>1. h.stack \in Seq(Words) /\ Len(h.stack) \in Nat
      BY <1>2, LenProperties DEF Entries
    <2>2. Len(stack) = Len(h.stack) + 1
      BY <1>3 DEF Holds
    <2>3. /\ SubSeq(stack, 1, Len(stack) - 1) \in Seq(Words)
          /\ Holds(SubSeq(stack, 1, Len(stack) - 1), h, 1 - 1)
      BY <1>2, <1>3, PopLast
    <2>4. Len(stack) - 1 = Len(h.stack)
      BY <2>1, <2>2
    <2>5. stack' \in Seq(Words) /\ Holds(stack', h, 0)
      BY <1>5, <2>3, <2>4
    <2>6. Len(stack') = Len(h.stack) /\ \A i \in 1..Len(h.stack) : stack'[i] = h.stack[i]
      BY <2>1, <2>5 DEF Holds
    <2> QED BY <2>1, <2>5, <2>6, SeqEqual
  <1> QED BY <1>3, <1>5, <1>6 DEF h

\* What was interrupted is on: its own frame, if it was a handler, lies below untouched.
LEMMA IretqStep == IInv /\ iretq => IInv'
  <1> SUFFICES ASSUME IInv, iretq PROVE IInv'
    OBVIOUS
  <1> DEFINE l == Len(held)
             h == held[l]
  <1>1. l \in Nat \ {0} /\ h \in Entries /\ held \in Seq(Entries)
    <2>1. rip.at \in Labels
      BY DEF iretq, Labels, Intact
    <2> QED BY <2>1, Serving DEF IInv, TypeInv
  <1>2. /\ rip' = h.rip /\ regs' = h.regs /\ stack' = h.stack
        /\ enabled' = h.enabled /\ idt' = idt
    BY ReturnsTo DEF Interrupted, iretq
  <1>3. /\ held' \in Seq(Entries) /\ Len(held') = l - 1
        /\ \A i \in 1..(l - 1) : held'[i] = held[i]
    <2>1. PICK m \in Nat : m = l - 1
      BY <1>1
    <2>2. \A i \in 1..m : held[i] \in Entries
      BY <1>1, <2>1, ElementOfSeq
    <2>3. held' = SubSeq(held, 1, m)
      BY <2>1 DEF iretq
    <2>4. /\ held' \in Seq(Entries)
          /\ Len(held') = IF 1 <= m THEN m - 1 + 1 ELSE 0
          /\ \A i \in 1..(m - 1 + 1) : held'[i] = held[1 + i - 1]
      BY <1>1, <2>2, <2>3, SubSeqProperties
    <2>5. Len(held') = m
      BY <2>4
    <2>6. \A i \in 1..m : held'[i] = held[i]
      BY <2>4
    <2> QED BY <2>1, <2>4, <2>5, <2>6
  <1> HIDE DEF h, l
  <1>4. /\ l = 1 => h.rip.at = "main"
        /\ l > 1 => Good(h.rip, h.regs, h.stack, held[l - 1]) /\ ~h.enabled
    <2>1. l \in 1..Len(held)
      BY <1>1 DEF l
    <2> QED BY <2>1 DEF h, IInv, ChainInv
  <1>5. TypeInv'
    BY <1>1, <1>2, <1>3 DEF TypeInv, Entries
  <1>6. TopInv'
    <2>1. CASE l = 1
      <3>1. held' = <<>>
        BY <1>3, <2>1, EmptySeq
      <3> QED BY <1>2, <1>4, <2>1, <3>1 DEF TopInv
    <2>2. CASE l > 1
      <3>1. l - 1 \in 1..(l - 1) /\ held'[Len(held')] = held[l - 1]
        BY <1>1, <1>3, <2>2
      <3>2. Len(held') # 0
        BY <1>1, <1>3, <2>2
      <3>3. held' # <<>>
        BY <1>3, <3>2, EmptySeq
      <3> QED BY <1>2, <1>4, <2>2, <3>1, <3>3 DEF TopInv
    <2> QED BY <1>1, <2>1, <2>2
  <1>7. GateInv'
    <2>1. rip.at # "setup_idt"
      BY DEF iretq
    <2>2. rip'.at # "setup_idt"
      <3>1. l = 1 \/ l > 1
        BY <1>1
      <3> QED BY <1>2, <1>4, <3>1 DEF Good, PlaceTrue, Labels, InC, Intact
    <2> QED BY <1>2, <2>1, <2>2 DEF IInv, GateInv
  <1>8. ChainInv'
    <2> SUFFICES ASSUME NEW i \in 1..(l - 1)
                 PROVE  /\ i = 1 => held'[i].rip.at = "main"
                        /\ i > 1 => /\ Good(held'[i].rip, held'[i].regs, held'[i].stack,
                                            held'[i-1])
                                    /\ held'[i].vector < 32 /\ ~held'[i].enabled
      BY <1>3 DEF ChainInv
    <2>1. i \in 1..Len(held) /\ held'[i] = held[i] /\ i \in Nat
      BY <1>1, <1>3 DEF l
    <2>2. i > 1 => held'[i-1] = held[i-1]
      BY <1>1, <1>3
    <2> QED BY <2>1, <2>2 DEF IInv, ChainInv
  <1> QED BY <1>5, <1>6, <1>7, <1>8 DEF IInv

\* What the processor pushes are the first words of the new entry.
LEMMA DeliverStep == \A v \in Vectors : IInv /\ Deliver(v) => IInv'
  <1> SUFFICES ASSUME NEW v \in Vectors, IInv, Deliver(v) PROVE IInv'
    OBVIOUS
  <1> DEFINE h == [vector |-> v, rip |-> rip, regs |-> regs,
                   stack |-> stack, enabled |-> enabled]
             w == <<"return", rip, enabled, Len(stack)>>
             l == Len(held)
  <1>1. /\ rip.at # "setup_idt" /\ (v >= 32 => enabled)
        /\ stack' = (stack \o <<w>>)
                      \o (IF HasErrorCode(v) THEN << <<"code", v>> >> ELSE <<>>)
        /\ held' = Append(held, h) /\ rip' = At("stub", idt[v]) /\ enabled' = FALSE
        /\ UNCHANGED <<regs, idt>>
    BY DEF Deliver, HasErrorCode, Gate
  <1>2. /\ h \in Entries /\ h.vector = v /\ h.rip = rip /\ h.regs = regs
        /\ h.stack = stack /\ h.enabled = enabled
    BY DEF IInv, TypeInv, Entries
  <1> HIDE DEF h
  <1>3. Word(h, 1) = w /\ w \in Words
    BY <1>2, WordFacts DEF w
  <1>4. stack \in Seq(Words) /\ held \in Seq(Entries) /\ l \in Nat
    BY LenProperties DEF IInv, TypeInv
  <1> DEFINE s == Append(stack, w)
  <1>5. s \in Seq(Words) /\ Holds(s, h, 1) /\ stack \o <<w>> = s
    <2>1. Holds(stack, h, 0)
      BY <1>2, <1>4, LenProperties DEF Holds
    <2>2. Word(h, 0 + 1) = w
      BY <1>3
    <2>3. s \in Seq(Words) /\ Holds(s, h, 0 + 1)
      BY <1>2, <1>3, <1>4, <2>1, <2>2, PushNext
    <2>4. stack \o <<w>> = s
      <3> HIDE DEF w
      <3> QED BY <1>3, <1>4, AppendIsConcat
    <2> QED BY <2>3, <2>4
  <1> HIDE DEF s, w
  <1>6. stack' \in Seq(Words) /\ Holds(stack', h, IF HasErrorCode(v) THEN 2 ELSE 1)
    <2>1. CASE HasErrorCode(v)
      <3>1. Word(h, 1 + 1) = <<"code", v>> /\ Word(h, 1 + 1) \in Words
        BY <1>2, <2>1, WordFacts
      <3>2. /\ Append(s, Word(h, 1 + 1)) \in Seq(Words)
            /\ Holds(Append(s, Word(h, 1 + 1)), h, 1 + 1)
        BY <1>2, <1>5, <3>1, PushNext
      <3>3. stack' = s \o <<Word(h, 1 + 1)>>
        BY <1>1, <1>5, <2>1, <3>1
      <3>4. stack' = Append(s, Word(h, 1 + 1))
        BY <1>5, <3>1, <3>3, AppendIsConcat
      <3> QED BY <2>1, <3>2, <3>4
    <2>2. CASE ~HasErrorCode(v)
      <3>1. stack' = s
        BY <1>1, <1>5, <2>2, ConcatEmptySeq
      <3> QED BY <1>5, <2>2, <3>1
    <2> QED BY <2>1, <2>2
  <1>7. rip' \in Places /\ rip'.at = "stub" /\ rip'.n = v * 16
    <2>1. v \in Nat /\ idt[v] = v * 16
      BY <1>1, Numbers DEF IInv, GateInv
    <2> QED BY <1>1, <2>1, AtFacts DEF Labels, InC, Intact
  <1>8. /\ held' \in Seq(Entries) /\ Len(held') = l + 1 /\ held' # <<>>
        /\ \A i \in 1..l : held'[i] = held[i]
        /\ held'[l + 1] = h
    BY <1>1, <1>2, <1>4, AppendProperties
  <1>9. TypeInv'
    BY <1>1, <1>6, <1>7, <1>8 DEF IInv, TypeInv
  <1>10. GateInv'
    BY <1>1, <1>7 DEF IInv, GateInv
  <1>11. TopInv'
    <2>1. Height(rip', h) = IF HasErrorCode(v) THEN 2 ELSE 1
      BY <1>2, <1>7 DEF Height
    <2>2. PlaceTrue(rip', h)
      BY <1>2, <1>7 DEF PlaceTrue, Labels, Intact
    <2>3. RegsTrue(rip', regs', h)
      BY <1>1, <1>2, <1>7 DEF RegsTrue
    <2>4. Good(rip', regs', stack', h)
      BY <1>6, <2>1, <2>2, <2>3 DEF Good
    <2> QED BY <1>1, <1>8, <2>4 DEF TopInv
  <1>12. ChainInv'
    <2>1. ASSUME NEW i \in 1..l
          PROVE  /\ i = 1 => held'[i].rip.at = "main"
                 /\ i > 1 => /\ Good(held'[i].rip, held'[i].regs, held'[i].stack,
                                     held'[i-1])
                             /\ held'[i].vector < 32 /\ ~held'[i].enabled
      <3>1. held'[i] = held[i]
        BY <1>8
      <3>2. i > 1 => held'[i-1] = held[i-1]
        BY <1>4, <1>8
      <3> QED BY <3>1, <3>2 DEF IInv, ChainInv
    <2>2. CASE l = 0
      <3>1. held = <<>>
        BY <1>4, <2>2, EmptySeq
      <3>2. rip.at = "main"
        BY <1>1, <3>1 DEF IInv, TopInv
      <3> QED BY <1>2, <1>8, <2>2, <3>2 DEF ChainInv
    <2>3. CASE l > 0
      <3>1. held # <<>>
        BY <2>3, EmptySeq
      <3>2. Good(rip, regs, stack, held[l]) /\ ~enabled
        BY <3>1 DEF IInv, TopInv
      <3>3. v < 32 /\ v \in Nat
        BY <1>1, <3>2, Numbers
      <3>4. l \in 1..l /\ held'[l] = held[l] /\ (l + 1) - 1 = l
        BY <1>4, <1>8, <2>3
      <3>5. /\ Good(held'[l + 1].rip, held'[l + 1].regs, held'[l + 1].stack, held'[l])
            /\ held'[l + 1].vector < 32 /\ ~held'[l + 1].enabled
        BY <1>2, <1>8, <3>2, <3>3, <3>4
      <3>6. \A i \in 1..(l + 1) : i \in 1..l \/ i = l + 1
        BY <1>4
      <3>7. l + 1 # 1
        BY <1>4, <2>3
      <3> QED BY <1>8, <2>1, <3>4, <3>5, <3>6, <3>7 DEF ChainInv
    <2> QED BY <1>4, <2>2, <2>3
  <1> QED BY <1>9, <1>10, <1>11, <1>12 DEF IInv

\* The kernel code itself: nothing is held.
LEMMA MainStep ==
  ASSUME IInv,
         \/ x86_sti \/ x86_cli
         \/ \E v \in Vectors, callback \in Callbacks : v >= 32 /\ register_isr(v, callback)
  PROVE  IInv'
  <1>1. rip.at = "main" /\ enabled' \in BOOLEAN /\ UNCHANGED <<rip, regs, stack, idt, held>>
    BY DEF x86_sti, x86_cli, register_isr, IInv, TypeInv
  <1>2. held = <<>>
    <2>1. rip.at \notin Labels
      BY <1>1 DEF Labels, InC, Intact
    <2> QED BY <2>1 DEF IInv, TopInv, Good, PlaceTrue
  <1>3. TypeInv'
    BY <1>1 DEF IInv, TypeInv
  <1>4. GateInv'
    BY <1>1 DEF IInv, GateInv
  <1>5. TopInv'
    BY <1>1, <1>2 DEF TopInv
  <1>6. ChainInv'
    BY <1>1 DEF IInv, ChainInv
  <1> QED BY <1>3, <1>4, <1>5, <1>6 DEF IInv

\* A gate is computed from its number; it is where the stub is, for each stub takes
\* 16 bytes.
LEMMA SetupStep == IInv /\ SetupIdt => IInv'
  <1> SUFFICES ASSUME IInv, SetupIdt PROVE IInv'
    OBVIOUS
  <1> DEFINE n == rip.n
  <1>1. /\ rip.at = "setup_idt" /\ n \in Nat /\ n \in 0..(NUM_ISR - 1)
        /\ idt \in [0..(NUM_ISR - 1) -> Nat]
        /\ \A v \in 0..(n - 1) : idt[v] = v * 16
    BY Numbers DEF SetupIdt, IInv, GateInv
  <1>2. held = <<>>
    <2>1. rip.at \notin Labels
      BY <1>1 DEF Labels, InC, Intact
    <2> QED BY <2>1 DEF IInv, TopInv, Good, PlaceTrue
  <1>3. /\ idt' = [idt EXCEPT ![n] = n * 16]
        /\ rip' = IF n < NUM_ISR - 1 THEN At("setup_idt", n + 1) ELSE At("main", 0)
        /\ UNCHANGED <<regs, stack, enabled, held>>
    <2>1. isr_entry_len(NUM_ISR - 1) = 16
      BY Numbers, StubSize
    <2> QED BY <2>1 DEF SetupIdt
  <1> HIDE DEF n
  <1>4. idt' \in [0..(NUM_ISR - 1) -> Nat] /\ \A v \in 0..n : idt'[v] = v * 16
    BY <1>1, <1>3, Numbers
  <1>5. /\ rip' \in Places /\ rip'.at \in {"setup_idt", "main"}
        /\ rip'.at = "setup_idt" => rip'.n = n + 1 /\ n < NUM_ISR - 1
        /\ rip'.at # "setup_idt" => n = NUM_ISR - 1
    <2>1. CASE n < NUM_ISR - 1
      <3>1. rip' = At("setup_idt", n + 1) /\ n + 1 \in Nat
        BY <1>1, <1>3, <2>1
      <3>2. rip' \in Places /\ rip'.at = "setup_idt" /\ rip'.n = n + 1
        BY <3>1, AtFacts
      <3> QED BY <2>1, <3>2
    <2>2. CASE ~(n < NUM_ISR - 1)
      <3>1. n = NUM_ISR - 1
        BY <1>1, <2>2, Numbers
      <3>2. rip' = At("main", 0)
        BY <1>3, <2>2
      <3>3. rip' \in Places /\ rip'.at = "main"
        BY <3>2, AtFacts
      <3> QED BY <3>1, <3>3
    <2> QED BY <2>1, <2>2
  <1>6. GateInv'
    <2>1. CASE rip'.at = "setup_idt"
      <3>1. rip'.n = n + 1 /\ n < NUM_ISR - 1
        BY <1>5, <2>1
      <3>2. n \in Nat /\ NUM_ISR \in Nat
        BY <1>1, Numbers
      <3>3. n + 1 \in 0..(NUM_ISR - 1) /\ (n + 1) - 1 = n
        BY <3>1, <3>2
      <3>4. rip'.n \in 0..(NUM_ISR - 1) /\ rip'.n - 1 = n
        BY <3>1, <3>3
      <3> QED BY <1>4, <2>1, <3>4 DEF GateInv
    <2>2. CASE rip'.at # "setup_idt"
      BY <1>4, <1>5, <2>2 DEF GateInv
    <2> QED BY <2>1, <2>2
  <1>7. TypeInv'
    BY <1>3, <1>5 DEF IInv, TypeInv
  <1>8. TopInv'
    BY <1>2, <1>3, <1>5 DEF TopInv
  <1>9. ChainInv'
    BY <1>3 DEF IInv, ChainInv
  <1> QED BY <1>6, <1>7, <1>8, <1>9 DEF IInv

\* Nothing is interrupted at first.
LEMMA InitIInv == Init => IInv
  <1> SUFFICES ASSUME Init PROVE IInv
    OBVIOUS
  <1>1. rip \in Places /\ rip.at = "setup_idt" /\ rip.n = 0
    BY AtFacts DEF Init
  <1>2. regs \in [Registers -> Words]
    BY DEF Init, Words
  <1>3. TypeInv
    <2>1. stack = <<>> /\ held = <<>> /\ enabled \in BOOLEAN
      BY DEF Init
    <2>2. stack \in Seq(Words) /\ held \in Seq(Entries)
      BY <2>1, EmptySeq
    <2> QED BY <1>1, <1>2, <2>1, <2>2 DEF TypeInv
  <1>4. GateInv
    BY <1>1, Numbers DEF Init, GateInv
  <1>5. TopInv
    BY <1>1 DEF Init, TopInv
  <1>6. ChainInv
    <2>1. Len(held) = 0
      BY DEF Init
    <2> QED BY <2>1 DEF ChainInv
  <1> QED BY <1>3, <1>4, <1>5, <1>6 DEF IInv

\* Every step keeps the invariant.
LEMMA NextIInv == IInv /\ [Next]_vars => IInv'
  <1> SUFFICES ASSUME IInv, [Next]_vars PROVE IInv'
    OBVIOUS
  <1>1. CASE Handling
    BY <1>1, StubStep, PushVectorStep, SaveStep, CallStep, CStep, ReturnStep,
       RestoreStep, DropStep, IretqStep DEF Handling
  <1>2. CASE UNCHANGED vars
    BY <1>2 DEF vars, IInv, TypeInv, GateInv, TopInv, ChainInv
  <1> QED BY <1>1, <1>2, MainStep, SetupStep, DeliverStep DEF Next

-----------------------------------------------------------------------------
(* The theorems. *)

\* What was interrupted goes on as it was, however deep and wherever it was.
THEOREM ResumesAsItWas == Spec => Resumes
  <1>1. ASSUME IInv, [Next]_vars
        PROVE  [Len(held') < Len(held) =>
                  /\ rip' = Interrupted.rip /\ regs' = Interrupted.regs
                  /\ stack' = Interrupted.stack
                  /\ enabled' = Interrupted.enabled]_vars
    <2> SUFFICES ASSUME Next, Len(held') < Len(held) PROVE iretq
      BY <1>1, ReturnsTo
    <2>1. held \in Seq(Entries) /\ Len(held) \in Nat
      BY <1>1, LenProperties DEF IInv, TypeInv
    <2>2. held' # held
      BY <2>1
    <2>3. ASSUME NEW v \in Vectors, Deliver(v) PROVE FALSE
      <3>1. IInv'
        BY <1>1, <2>3, DeliverStep
      <3>2. /\ held' \in Seq(Entries)
            /\ \E h : held' = Append(held, h)
        BY <2>3, <3>1 DEF Deliver, IInv, TypeInv
      <3>3. Len(held') = Len(held) + 1
        BY <2>1, <3>2
      <3> QED BY <2>1, <3>3
    <2> QED BY <2>2, <2>3
        DEF Next, SetupIdt, x86_sti, x86_cli, register_isr, Handling, Stub,
            PushVector, Save, Call, Ignore, platform_int_handler, CallbackReturns,
            Return, Restore, Drop
  <1> QED BY InitIInv, NextIInv, <1>1, PTL DEF Spec, Resumes

\* The frame that x86_int_handler is given is that of what was interrupted.
THEOREM FrameIsTrue == Spec => []FrameTrue
  <1>1. ASSUME IInv PROVE FrameTrue
    <2> SUFFICES ASSUME rip.at = "handler", NEW i \in DOMAIN Fields
                 PROVE  Field(i) =
                          CASE Fields[i] = "vector" -> <<"vector", Interrupted.vector>>
                            [] Fields[i] = "error_code" ->
                                 <<"code", IF Interrupted.vector \in {8, 17} \cup 10..14
                                             THEN Interrupted.vector ELSE 0>>
                            [] OTHER -> Interrupted.regs[Fields[i]]
      BY DEF FrameTrue
    <2> DEFINE h == Interrupted
    <2>1. rip.at \in Labels
      BY DEF Labels, InC
    <2>2. h \in Entries /\ Good(rip, regs, stack, h)
      BY <1>1, <2>1, Serving DEF Interrupted
    <2> HIDE DEF h
    <2>3. Holds(stack, h, 19)
      <3>1. Height(rip, h) = 19
        BY DEF Height
      <3> QED BY <2>2, <3>1 DEF Good
    <2>4. i \in 1..17
      BY DEF Fields
    <2>5. Field(i) = Word(h, 19 - i)
      <3>1. PICK b \in Nat : b = Len(h.stack)
        BY <2>2, LenProperties DEF Entries
      <3>2. PICK j \in 1..19 : j = 19 - i /\ (b + 19) - i = b + j
        <4>1. 19 - i \in 1..19 /\ (b + 19) - i = b + (19 - i)
          BY <2>4
        <4> QED BY <4>1
      <3>3. Len(stack) = b + 19 /\ stack[b + j] = Word(h, j)
        BY <2>3, <3>1 DEF Holds
      <3> QED BY <3>2, <3>3 DEF Field
    <2>6. CASE i = 16
      BY <2>2, <2>5, <2>6, WordFacts DEF Fields, h
    <2>7. CASE i = 17
      BY <2>2, <2>5, <2>7, WordFacts DEF Fields, HasErrorCode, h
    <2>8. CASE i \in 1..15
      <3>1. PICK j \in 1..15 : j = 16 - i /\ 19 - i = j + 3
        BY <2>8
      <3>2. Field(i) = h.regs[Pushed[j]]
        BY <2>2, <2>5, <3>1, WordFacts
      <3>3. Pushed[j] = Fields[i] /\ Fields[i] \notin {"vector", "error_code"}
        <4>1. Fields[i] = Popped[i] /\ Fields[i] \notin {"vector", "error_code"}
          <5>1. \/ i = 1 \/ i = 2 \/ i = 3 \/ i = 4 \/ i = 5 \/ i = 6 \/ i = 7 \/ i = 8
                \/ i = 9 \/ i = 10 \/ i = 11 \/ i = 12 \/ i = 13 \/ i = 14 \/ i = 15
            BY <2>8
          <5> QED BY <5>1 DEF Fields, Popped
        <4> QED BY <2>8, <3>1, <4>1, RegisterOrder
      <3> QED BY <3>2, <3>3 DEF h
    <2> QED BY <2>4, <2>6, <2>7, <2>8
  <1> QED BY InitIInv, NextIInv, <1>1, PTL DEF Spec

\* No device interrupts a handler.
THEOREM NoReentryEver == Spec => []NoReentry
  <1>1. ASSUME IInv PROVE NoReentry
    <2> SUFFICES ASSUME NEW i \in DOMAIN held, held[i].vector >= 32 PROVE i = 1
      BY DEF NoReentry
    <2>1. i \in 1..Len(held) /\ i \in Nat /\ held[i].vector \in Nat
      <3>1. held \in Seq(Entries)
        BY <1>1 DEF IInv, TypeInv
      <3>2. i \in 1..Len(held) /\ held[i] \in Entries
        BY <3>1, LenProperties, ElementOfSeq
      <3>3. held[i].vector \in Vectors
        BY <3>2 DEF Entries
      <3> QED BY <3>2, <3>3, Numbers
    <2>2. i > 1 => held[i].vector < 32
      BY <1>1, <2>1 DEF IInv, ChainInv
    <2> QED BY <2>1, <2>2
  <1> QED BY InitIInv, NextIInv, <1>1, PTL DEF Spec
=============================================================================
