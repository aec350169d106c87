------------------------------ MODULE QsortProofs ------------------------------
(***************************************************************************)
(* For arrays of any length: the pointers of a partition never leave its   *)
(* segment, the partition is what it says whether or not the pivot is      *)
(* copied, the elements are only moved, and an array with no segment left  *)
(* to sort is sorted.                                                      *)
(***************************************************************************)
EXTENDS Qsort, SequenceTheorems, FunctionTheorems, FiniteSetTheorems,
        WellFoundedInduction, TLAPS

\* A set of numbers that is not empty has a least one: what the proofs here take
\* for induction.  Of the orderings the library proves well-founded it uses the one
\* of finite sets, for 0..m is a proper subset of 0..n if m < n.
LEMMA Smallest ==
  ASSUME NEW T, T \subseteq Nat, T # {}
  PROVE  \E m \in T : \A j \in T : m <= j
  <1> DEFINE Below == {0..m : m \in T}
             R == StrictSubsetOrdering(Nat)
  <1>1. Below \subseteq FiniteSubsetsOf(Nat) /\ Below # {}
    <2>1. \A m \in T : 0..m \in SUBSET Nat /\ IsFiniteSet(0..m)
      BY FS_Interval
    <2> QED BY <2>1 DEF FiniteSubsetsOf
  <1>2. IsWellFoundedOn(R, FiniteSubsetsOf(Nat))
    BY FS_StrictSubsetOrderingWellFounded
  <1>3. PICK x \in Below : \A y \in Below : ~(<<y, x>> \in R)
    <2> HIDE DEF R, Below
    <2> QED BY <1>1, <1>2, WFMin
  <1>4. PICK m \in T : x = 0..m
    BY <1>3
  <1>5. ASSUME NEW j \in T, ~(m <= j) PROVE FALSE
    <2>1. m \in Nat /\ j \in Nat /\ j < m
      BY <1>5
    <2>2. 0..j \subseteq 0..m /\ m \in 0..m /\ m \notin 0..j
      BY <2>1
    <2>3. <<0..j, 0..m>> \in R
      BY <2>1, <2>2 DEF StrictSubsetOrdering
    <2> QED BY <1>3, <1>4, <2>3
  <1> QED BY <1>5

-----------------------------------------------------------------------------
(* Moving elements. *)

\* p, with the inverse q, moves elements at S and no others.
Moves(p, q, D, S) ==
  /\ p \in [D -> D] /\ q \in [D -> D]
  /\ \A i \in D : p[q[i]] = i /\ q[p[i]] = i
  /\ \A i \in D \ S : p[i] = i

\* b is a with the elements at S in another order.
Rearranged(a, b, S) ==
  \E p, q \in [DOMAIN a -> DOMAIN a] :
     /\ Moves(p, q, DOMAIN a, S)
     /\ b = [i \in DOMAIN a |-> a[p[i]]]

\* What is at S afterwards was at S before; the rest stays.
LEMMA Within ==
  ASSUME NEW a, NEW b, NEW S, Rearranged(a, b, S)
  PROVE  /\ DOMAIN b = DOMAIN a
         /\ \A i \in DOMAIN a \ S : b[i] = a[i]
         /\ \A i \in DOMAIN a : i \in S => \E k \in DOMAIN a : k \in S /\ b[i] = a[k]
  <1>1. PICK p, q \in [DOMAIN a -> DOMAIN a] :
            Moves(p, q, DOMAIN a, S) /\ b = [i \in DOMAIN a |-> a[p[i]]]
    BY DEF Rearranged
  <1>2. ASSUME NEW i \in DOMAIN a, i \in S, p[i] \notin S
        PROVE  FALSE
    <2>1. p[i] \in DOMAIN a /\ p[p[i]] = p[i]
      BY <1>1, <1>2 DEF Moves
    <2>2. q[p[p[i]]] = p[i] /\ q[p[i]] = i
      BY <1>1, <2>1 DEF Moves
    <2> QED BY <1>2, <2>1, <2>2
  <1> QED BY <1>1, <1>2 DEF Moves

\* Each value occurs as often as before.
LEMMA SameOccurrences ==
  ASSUME NEW a, NEW b, NEW S, NEW v, IsFiniteSet(DOMAIN a), Rearranged(a, b, S)
  PROVE  Occurrences(b, v) = Occurrences(a, v)
  <1>1. PICK p, q \in [DOMAIN a -> DOMAIN a] :
            Moves(p, q, DOMAIN a, S) /\ b = [i \in DOMAIN a |-> a[p[i]]]
    BY DEF Rearranged
  <1> DEFINE B == {i \in DOMAIN b : b[i] = v}
             A == {i \in DOMAIN a : a[i] = v}
             f == [i \in B |-> p[i]]
  <1>2. DOMAIN b = DOMAIN a /\ \A i \in DOMAIN a : b[i] = a[p[i]]
    BY <1>1
  <1>3. f \in [B -> A]
    BY <1>1, <1>2 DEF Moves
  <1>4. \A i, j \in B : f[i] = f[j] => i = j
    BY <1>1, <1>2 DEF Moves
  <1>5. \A k \in A : q[k] \in B /\ f[q[k]] = k
    BY <1>1, <1>2 DEF Moves
  <1>6. f \in Bijection(B, A)
    <2> HIDE DEF f, A, B
    <2>1. f \in Injection(B, A)
      BY <1>3, <1>4 DEF Injection, IsInjective
    <2>2. f \in Surjection(B, A)
      BY <1>3, <1>5 DEF Surjection
    <2> QED BY <2>1, <2>2 DEF Bijection
  <1>7. IsFiniteSet(B)
    BY <1>2, FS_Subset
  <1>8. Cardinality(A) = Cardinality(B)
    <2> HIDE DEF f, A, B
    <2>1. ExistsBijection(B, A)
      BY <1>6 DEF ExistsBijection
    <2> QED BY <1>7, <2>1, FS_Bijection
  <1> QED BY <1>8 DEF Occurrences

\* p and q are the witnesses of a move.
LEMMA MovedBy ==
  ASSUME NEW a, NEW b, NEW S,
         NEW p \in [DOMAIN a -> DOMAIN a], NEW q \in [DOMAIN a -> DOMAIN a],
         Moves(p, q, DOMAIN a, S), b = [i \in DOMAIN a |-> a[p[i]]]
  PROVE  Rearranged(a, b, S)
  BY DEF Rearranged

\* A move at S is one at a larger set.
LEMMA Wider ==
  ASSUME NEW a, NEW b, NEW S, NEW T, S \subseteq T, Rearranged(a, b, S)
  PROVE  Rearranged(a, b, T)
  BY DEF Rearranged, Moves

\* Nothing moved.
LEMMA Still ==
  ASSUME NEW a, NEW S, a = [i \in DOMAIN a |-> a[i]]
  PROVE  Rearranged(a, a, S)
  <1> DEFINE p == [i \in DOMAIN a |-> i]
  <1>1. p \in [DOMAIN a -> DOMAIN a] /\ Moves(p, p, DOMAIN a, S)
    BY DEF Moves
  <1>2. a = [i \in DOMAIN a |-> a[p[i]]]
    OBVIOUS
  <1> QED BY <1>1, <1>2, MovedBy

\* A self-inverse move.
LEMMA Involution ==
  ASSUME NEW a, NEW S, NEW p \in [DOMAIN a -> DOMAIN a],
         \A i \in DOMAIN a : p[p[i]] = i,
         \A i \in DOMAIN a \ S : p[i] = i
  PROVE  Rearranged(a, [i \in DOMAIN a |-> a[p[i]]], S)
  <1>1. Moves(p, p, DOMAIN a, S)
    BY DEF Moves
  <1> QED BY <1>1 DEF Rearranged

\* One move after the other.
LEMMA Twice ==
  ASSUME NEW a, NEW b, NEW c, NEW S, Rearranged(a, b, S), Rearranged(b, c, S)
  PROVE  Rearranged(a, c, S)
  <1>1. PICK p, q \in [DOMAIN a -> DOMAIN a] :
            Moves(p, q, DOMAIN a, S) /\ b = [i \in DOMAIN a |-> a[p[i]]]
    BY DEF Rearranged
  <1>2. DOMAIN b = DOMAIN a
    BY <1>1
  <1>3. PICK r, s \in [DOMAIN a -> DOMAIN a] :
            Moves(r, s, DOMAIN a, S) /\ c = [i \in DOMAIN a |-> b[r[i]]]
    BY <1>2 DEF Rearranged
  <1> DEFINE D == DOMAIN a
             to == [i \in D |-> p[r[i]]]
             from == [i \in D |-> s[q[i]]]
  <1>4. to \in [D -> D] /\ from \in [D -> D]
    BY <1>1, <1>3
  <1>5. \A i \in D : to[from[i]] = i /\ from[to[i]] = i
    BY <1>1, <1>3 DEF Moves
  <1>6. \A i \in D \ S : to[i] = i
    BY <1>1, <1>3 DEF Moves
  <1>7. c = [i \in D |-> a[to[i]]]
    BY <1>1, <1>3
  <1> HIDE DEF to, from
  <1>8. Moves(to, from, DOMAIN a, S)
    BY <1>4, <1>5, <1>6 DEF Moves
  <1> QED BY <1>4, <1>7, <1>8, MovedBy

-----------------------------------------------------------------------------
(* What the helpers of the sort do to an array. *)

\* An exchange of two elements.
LEMMA ExchMoves ==
  ASSUME NEW a, NEW i \in DOMAIN a, NEW j \in DOMAIN a, NEW S, i \in S, j \in S
  PROVE  Rearranged(a, Exch(a, i, j), S)
  <1> DEFINE p == [k \in DOMAIN a |-> IF k = i THEN j ELSE IF k = j THEN i ELSE k]
  <1>1. Exch(a, i, j) = [k \in DOMAIN a |-> a[p[k]]]
    BY DEF Exch
  <1>2. p \in [DOMAIN a -> DOMAIN a] /\ \A k \in DOMAIN a : p[p[k]] = k
    OBVIOUS
  <1>3. \A k \in DOMAIN a \ S : p[k] = k
    OBVIOUS
  <1> HIDE DEF p
  <1> QED BY <1>1, <1>2, <1>3, Involution

\* The result of an exchange of two blocks.
LEMMA VecSwapIs ==
  ASSUME NEW a, NEW i \in Int, NEW j \in Int, NEW s \in Nat, i + s <= j
  PROVE  \A k \in DOMAIN a : k \in Int =>
           VecSwap(a, i, j, s)[k] = IF k \in i..(i+s-1) THEN a[k - i + j]
                                    ELSE IF k \in j..(j+s-1) THEN a[k - j + i] ELSE a[k]
  BY DEF VecSwap

\* An exchange of two blocks that do not overlap.
LEMMA VecSwapMoves ==
  ASSUME NEW a, NEW l \in Nat, NEW h \in Int, l..h \subseteq DOMAIN a, DOMAIN a \subseteq Int,
         NEW i \in Int, NEW j \in Int, NEW s \in Nat,
         l <= i, i + s <= j, j + s <= h + 1
  PROVE  Rearranged(a, VecSwap(a, i, j, s), l..h)
  <1> DEFINE p == [k \in DOMAIN a |-> IF k \in i..(i+s-1) THEN k - i + j
                                     ELSE IF k \in j..(j+s-1) THEN k - j + i ELSE k]
             b == [k \in DOMAIN a |-> IF k \in i..(i+s-1) THEN a[k - i + j]
                                 ELSE IF k \in j..(j+s-1) THEN a[k - j + i] ELSE a[k]]
  <1>1. VecSwap(a, i, j, s) = b
    BY DEF VecSwap
  <1>2. b = [k \in DOMAIN a |-> a[p[k]]]
    OBVIOUS
  <1>3. \A k \in DOMAIN a : p[k] \in DOMAIN a /\ p[p[k]] = k
    <2> TAKE k \in DOMAIN a
    <2>1. CASE k \in i..(i+s-1)
      <3>1. k - i + j \in j..(j+s-1) /\ k - i + j \in l..h /\ k - i + j \notin i..(i+s-1)
        BY <2>1
      <3>2. p[k] = k - i + j /\ p[k - i + j] = (k - i + j) - j + i
        BY <2>1, <3>1
      <3> QED BY <2>1, <3>1, <3>2
    <2>2. CASE k \in j..(j+s-1)
      <3>1. k - j + i \in i..(i+s-1) /\ k - j + i \in l..h /\ k \notin i..(i+s-1)
        BY <2>2
      <3>2. p[k] = k - j + i /\ p[k - j + i] = (k - j + i) - i + j
        BY <2>2, <3>1
      <3> QED BY <2>2, <3>1, <3>2
    <2>3. CASE k \notin i..(i+s-1) /\ k \notin j..(j+s-1)
      BY <2>3
    <2> QED BY <2>1, <2>2, <2>3
  <1>4. \A k \in DOMAIN a \ (l..h) : p[k] = k
    OBVIOUS
  <1>5. p \in [DOMAIN a -> DOMAIN a]
    BY <1>3
  <1> HIDE DEF p
  <1>6. Rearranged(a, [k \in DOMAIN a |-> a[p[k]]], l..h)
    BY <1>3, <1>4, <1>5, Involution
  <1> QED BY <1>1, <1>2, <1>6

\* The element at m sinks to a place k, where it is in order.
LEMMA SinkMoves ==
  ASSUME NEW N \in Nat, NEW a \in [0..(N-1) -> Int],
         NEW l \in Nat, NEW m \in Nat, l <= m, m < N,
         \A i, j \in l..(m-1) : i < j => a[i] <= a[j]
  PROVE  /\ Rearranged(a, Sink(a, l, m), l..m)
         /\ \A i, j \in l..m : i < j => Sink(a, l, m)[i] <= Sink(a, l, m)[j]
  <1> DEFINE Fits(k) == /\ \A i \in k..(m-1) : a[i] > a[m]
                        /\ k > l => a[k-1] <= a[m]
             T == {k \in l..m : \A i \in k..(m-1) : a[i] > a[m]}
             k0 == CHOOSE k \in l..m : Fits(k)
             b == Sink(a, l, m)
  <1>1. \E k \in l..m : Fits(k)
    <2>1. T \subseteq Nat /\ m \in T
      OBVIOUS
    <2>2. PICK k \in T : \A i \in T : k <= i
      BY <2>1, Smallest
    <2>3. ASSUME k > l, ~(a[k-1] <= a[m]) PROVE FALSE
      <3>1. k - 1 \in l..m /\ a[k-1] \in Int /\ a[m] \in Int
        BY <2>3
      <3>2. \A i \in (k-1)..(m-1) : i = k - 1 \/ i \in k..(m-1)
        BY <3>1
      <3>3. k - 1 \in T
        BY <2>3, <3>1, <3>2
      <3> HIDE DEF T
      <3>4. k <= k - 1
        BY <2>2, <3>3
      <3> QED BY <2>1, <2>2, <3>4
    <2> QED BY <2>2, <2>3
  <1>2. k0 \in l..m /\ Fits(k0)
    BY <1>1
  <1>3. b = [i \in DOMAIN a |-> IF i = k0 THEN a[m]
                               ELSE IF i \in (k0+1)..m THEN a[i-1] ELSE a[i]]
    <2>1. Sink(a, l, m) = [i \in DOMAIN a |-> CASE i = k0 -> a[m]
                            [] i \in (k0+1)..m -> a[i-1]
                            [] OTHER -> a[i]]
      BY DEF Sink
    <2> HIDE DEF k0
    <2> QED BY <1>2, <2>1
  <1> HIDE DEF k0, b
  <1>4. Rearranged(a, b, l..m)
    <2> DEFINE p == [i \in DOMAIN a |-> IF i = k0 THEN m
                               ELSE IF i \in (k0+1)..m THEN i-1 ELSE i]
               q == [i \in DOMAIN a |-> IF i = m THEN k0
                               ELSE IF i \in k0..(m-1) THEN i+1 ELSE i]
    <2>1. p \in [DOMAIN a -> DOMAIN a] /\ q \in [DOMAIN a -> DOMAIN a]
      BY <1>2
    <2>2. \A i \in DOMAIN a : p[q[i]] = i /\ q[p[i]] = i
      BY <1>2
    <2>3. \A i \in DOMAIN a \ (l..m) : p[i] = i
      BY <1>2
    <2>4. b = [i \in DOMAIN a |-> a[p[i]]]
      BY <1>2, <1>3
    <2> HIDE DEF p, q
    <2>5. Moves(p, q, DOMAIN a, l..m)
      BY <2>1, <2>2, <2>3 DEF Moves
    <2> QED BY <2>1, <2>4, <2>5, MovedBy
  <1>5. ASSUME NEW i \in l..m, NEW j \in l..m, i < j
        PROVE  b[i] <= b[j]
    <2>1. \A k \in l..m : k \in DOMAIN a /\ a[k] \in Int
      OBVIOUS
    <2>2. \A k \in l..(k0-1) : a[k] <= a[m]
      <3> TAKE k \in l..(k0-1)
      <3>1. a[k0-1] <= a[m] /\ k0 - 1 \in l..(m-1) /\ k \in l..(m-1)
        BY <1>2
      <3>2. k = k0 - 1 \/ k < k0 - 1
        BY <1>2
      <3> QED BY <2>1, <3>1, <3>2
    <2>3. CASE j < k0
      BY <1>2, <1>3, <1>5, <2>1, <2>3
    <2>4. CASE j = k0
      BY <1>2, <1>3, <1>5, <2>1, <2>2, <2>4
    <2>5. CASE j > k0 /\ i < k0
      <3>1. b[i] = a[i] /\ b[j] = a[j-1] /\ j - 1 \in l..(m-1) /\ i \in l..(m-1) /\ i < j - 1
        BY <1>2, <1>3, <2>1, <2>5
      <3> QED BY <3>1
    <2>6. CASE j > k0 /\ i = k0
      <3>1. b[i] = a[m] /\ b[j] = a[j-1] /\ j - 1 \in k0..(m-1)
        BY <1>2, <1>3, <2>1, <2>6
      <3> QED BY <1>2, <3>1, <2>1
    <2>7. CASE j > k0 /\ i > k0
      <3>1. b[i] = a[i-1] /\ b[j] = a[j-1] /\ j - 1 \in l..(m-1) /\ i - 1 \in l..(m-1)
        BY <1>2, <1>3, <2>1, <2>7
      <3> QED BY <1>5, <3>1
    <2> QED BY <1>2, <2>3, <2>4, <2>5, <2>6, <2>7
  <1> QED BY <1>4, <1>5 DEF b

-----------------------------------------------------------------------------
(* The segments still to be sorted. *)

Segments == [lo : Nat, n : Nat]

End(s) == s.lo + s.n

\* The segments lie between b and e, one behind the other.
Ahead(q, b, e) ==
  /\ q \in Seq(Segments)
  /\ \A k \in 1..Len(q) : /\ b <= q[k].lo /\ End(q[k]) <= e
                          /\ \A j \in 1..(k-1) : End(q[j]) <= q[k].lo

\* Some segment holds both.
Together(i, j, q) == \E k \in DOMAIN q : {i, j} \subseteq Segment(q[k])

\* Behind the first segment lie the others.
LEMMA First ==
  ASSUME NEW q, NEW b \in Nat, NEW e \in Nat, Ahead(q, b, e), q # <<>>
  PROVE  /\ Head(q) \in Segments /\ Head(q) = q[1]
         /\ b <= Head(q).lo /\ End(Head(q)) <= e
         /\ Ahead(Tail(q), End(Head(q)), e)
         /\ \A i, j : Together(i, j, q) <=> \/ {i, j} \subseteq Segment(Head(q))
                                          \/ Together(i, j, Tail(q))
  <1>1. /\ q \in Seq(Segments) /\ Len(q) \in Nat \ {0} /\ DOMAIN q = 1..Len(q)
        /\ Head(q) = q[1] /\ Head(q) \in Segments
        /\ Tail(q) \in Seq(Segments) /\ Len(Tail(q)) = Len(q) - 1
        /\ DOMAIN Tail(q) = 1..(Len(q) - 1)
        /\ \A k \in 1..(Len(q) - 1) : Tail(q)[k] = q[k+1]
    <2>1. q \in Seq(Segments)
      BY DEF Ahead
    <2>2. Len(q) \in Nat \ {0} /\ DOMAIN q = 1..Len(q) /\ Head(q) = q[1]
      BY <2>1, EmptySeq, LenProperties
    <2>3. Tail(q) \in Seq(Segments) /\ Head(q) \in Segments /\ Len(Tail(q)) = Len(q) - 1
      BY <2>1, HeadTailProperties
    <2> QED BY <2>1, <2>2, <2>3, HeadTailProperties, LenProperties
  <1>2. b <= q[1].lo /\ End(q[1]) <= e
    BY <1>1 DEF Ahead
  <1>3. ASSUME NEW k \in 1..Len(Tail(q))
        PROVE  /\ End(q[1]) <= Tail(q)[k].lo /\ End(Tail(q)[k]) <= e
               /\ \A j \in 1..(k-1) : End(Tail(q)[j]) <= Tail(q)[k].lo
    <2>1. k + 1 \in 1..Len(q) /\ Tail(q)[k] = q[k+1] /\ 1 \in 1..(k + 1 - 1)
      BY <1>1
    <2>2. \A j \in 1..(k-1) : j + 1 \in 1..(k + 1 - 1) /\ Tail(q)[j] = q[j+1]
      BY <1>1
    <2> QED BY <2>1, <2>2 DEF Ahead
  <1>4. Ahead(Tail(q), End(Head(q)), e)
    BY <1>1, <1>3 DEF Ahead
  <1>5. ASSUME NEW i, NEW j
        PROVE  Together(i, j, q) <=> \/ {i, j} \subseteq Segment(Head(q))
                                    \/ Together(i, j, Tail(q))
    <2>1. ASSUME NEW k \in DOMAIN q, {i, j} \subseteq Segment(q[k]), k # 1
          PROVE  Together(i, j, Tail(q))
      <3>1. k - 1 \in DOMAIN Tail(q) /\ Tail(q)[k - 1] = q[k]
        BY <1>1, <2>1
      <3> QED BY <2>1, <3>1 DEF Together
    <2>2. ASSUME NEW k \in DOMAIN Tail(q), {i, j} \subseteq Segment(Tail(q)[k])
          PROVE  Together(i, j, q)
      <3>1. k + 1 \in DOMAIN q /\ Tail(q)[k] = q[k+1]
        BY <1>1, <2>2
      <3> QED BY <2>2, <3>1 DEF Together
    <2>3. 1 \in DOMAIN q
      BY <1>1
    <2> QED BY <1>1, <2>1, <2>2, <2>3 DEF Together
  <1> QED BY <1>1, <1>2, <1>4, <1>5

\* What lies behind b lies behind anything less.
LEMMA AheadOfLess ==
  ASSUME NEW q, NEW b \in Nat, NEW c \in Nat, c <= b, NEW e \in Nat, Ahead(q, b, e)
  PROVE  Ahead(q, c, e)
  <1>1. q \in Seq(Segments) /\ \A k \in 1..Len(q) : q[k] \in Segments
    BY ElementOfSeq DEF Ahead
  <1>2. \A k \in 1..Len(q) : q[k].lo \in Nat
    BY <1>1 DEF Segments
  <1> QED BY <1>1, <1>2 DEF Ahead

\* A call before the others.
LEMMA CallBefore ==
  ASSUME NEW q, NEW b \in Nat, NEW e \in Nat, Ahead(q, b, e),
         NEW s \in Segments, End(s) <= b, b <= e
  PROVE  /\ Ahead(Calls(s) \o q, s.lo, e)
         /\ \A i, j : Together(i, j, q) => Together(i, j, Calls(s) \o q)
         /\ \A i, j \in Segment(s) : i # j => Together(i, j, Calls(s) \o q)
  <1>1. q \in Seq(Segments) /\ Len(q) \in Nat /\ DOMAIN q = 1..Len(q)
    BY LenProperties DEF Ahead
  <1>2. s.lo \in Nat /\ s.n \in Nat /\ s.lo <= b
    BY DEF Segments, End
  <1>3. \A k \in 1..Len(q) : q[k] \in Segments
    BY <1>1, ElementOfSeq
  <1>4. CASE s.n > 1
    <2> DEFINE t == <<s>> \o q
    <2>1. <<s>> \in Seq(Segments) /\ Len(<<s>>) = 1 /\ <<s>>[1] = s
      OBVIOUS
    <2>2. /\ t \in Seq(Segments) /\ Len(t) = Len(q) + 1
          /\ \A k \in 1..(Len(q) + 1) : t[k] = IF k <= 1 THEN s ELSE q[k - 1]
      BY <1>1, <2>1, ConcatProperties
    <2>3. DOMAIN t = 1..(Len(q) + 1) /\ Calls(s) \o q = t
      BY <1>4, <2>2, LenProperties DEF Calls
    <2> HIDE DEF t
    <2>4. t[1] = s
      BY <1>1, <2>2
    <2>5. \A k \in 1..Len(q) : k + 1 \in DOMAIN t /\ t[k+1] = q[k]
      BY <1>1, <2>2, <2>3
    <2>6. ASSUME NEW k \in 1..Len(t)
          PROVE  /\ s.lo <= t[k].lo /\ End(t[k]) <= e
                 /\ \A j \in 1..(k-1) : End(t[j]) <= t[k].lo
      <3>1. CASE k = 1
        BY <1>2, <2>4, <3>1 DEF Segments, End
      <3>2. CASE k # 1
        <4>1. k - 1 \in 1..Len(q) /\ t[k] = q[k-1]
          BY <1>1, <2>2, <3>2
        <4>2. b <= q[k-1].lo /\ End(q[k-1]) <= e /\ q[k-1].lo \in Nat
          BY <1>3, <4>1 DEF Ahead, Segments
        <4>3. ASSUME NEW j \in 1..(k-1), j # 1
              PROVE  End(t[j]) <= t[k].lo
          <5>1. j - 1 \in 1..(k - 1 - 1) /\ t[j] = q[j-1]
            BY <1>1, <2>2, <4>1, <4>3
          <5> QED BY <4>1, <5>1 DEF Ahead
        <4>4. End(t[1]) <= t[k].lo
          BY <1>2, <2>4, <4>1, <4>2 DEF End
        <4> QED BY <1>2, <4>1, <4>2, <4>3, <4>4
      <3> QED BY <3>1, <3>2
    <2>7. Ahead(t, s.lo, e)
      BY <2>2, <2>6 DEF Ahead
    <2>8. ASSUME NEW i, NEW j, Together(i, j, q)
          PROVE  Together(i, j, t)
      BY <1>1, <2>5, <2>8 DEF Together
    <2>9. 1 \in DOMAIN t
      BY <1>1, <2>3
    <2> QED BY <2>3, <2>4, <2>7, <2>8, <2>9 DEF Together
  <1>5. CASE ~(s.n > 1)
    <2>1. Calls(s) \o q = q
      BY <1>1, <1>5, ConcatEmptySeq DEF Calls
    <2>2. Ahead(q, s.lo, e)
      BY <1>1, <1>2, <1>3 DEF Ahead, Segments
    <2>3. \A i, j \in Segment(s) : i = j
      BY <1>2, <1>5 DEF Segment
    <2> QED BY <2>1, <2>2, <2>3
  <1> QED BY <1>4, <1>5

-----------------------------------------------------------------------------
(* The partition, of the elements from l to e - 1 by a pivot P. *)

Classes(a, P, l, e, qa, qb, qc, qd) ==
  /\ \A i \in l..(qa - 1) : a[i] = P
  /\ \A i \in qa..(qb - 1) : a[i] < P
  /\ \A i \in (qc + 1)..qd : a[i] > P
  /\ \A i \in (qd + 1)..(e - 1) : a[i] = P

InRow(l, e, qa, qb, qc, qd) ==
  /\ l <= qa /\ qa <= qb /\ qb <= qc + 1 /\ qc <= qd /\ qd < e

\* pb goes on: an equal element joins those on the left, a lesser one stays.
LEMMA UpStep ==
  ASSUME NEW N \in Nat, NEW a \in [0..(N-1) -> Int], NEW P \in Int,
         NEW l \in Nat, NEW e \in Nat, e <= N,
         NEW qa \in Int, NEW qb \in Int, NEW qc \in Int, NEW qd \in Int,
         Classes(a, P, l, e, qa, qb, qc, qd), InRow(l, e, qa, qb, qc, qd), qb <= qc
  PROVE  /\ a[qb] = P => Classes(Exch(a, qa, qb), P, l, e, qa + 1, qb + 1, qc, qd)
         /\ a[qb] < P => Classes(a, P, l, e, qa, qb + 1, qc, qd)
  <1>1. CASE a[qb] = P
    <2> DEFINE b == Exch(a, qa, qb)
    <2>1. /\ qa \in 0..(N-1) /\ qb \in 0..(N-1)
          /\ \A i \in 0..(N-1) : b[i] = IF i = qb THEN a[qa] ELSE IF i = qa THEN a[qb] ELSE a[i]
      BY DEF Exch, InRow
    <2> HIDE DEF b
    <2>2. b[qa] = P
      BY <1>1, <2>1
    <2>3. qa < qb => b[qb] < P
      BY <2>1 DEF Classes, InRow
    <2> QED BY <2>1, <2>2, <2>3 DEF Classes, InRow, b
  <1>2. CASE a[qb] < P
    BY <1>2 DEF Classes, InRow
  <1> QED BY <1>1, <1>2

\* pc goes down: an equal element joins those on the right, a greater one stays.
LEMMA DownStep ==
  ASSUME NEW N \in Nat, NEW a \in [0..(N-1) -> Int], NEW P \in Int,
         NEW l \in Nat, NEW e \in Nat, e <= N,
         NEW qa \in Int, NEW qb \in Int, NEW qc \in Int, NEW qd \in Int,
         Classes(a, P, l, e, qa, qb, qc, qd), InRow(l, e, qa, qb, qc, qd), qb <= qc
  PROVE  /\ a[qc] = P => Classes(Exch(a, qc, qd), P, l, e, qa, qb, qc - 1, qd - 1)
         /\ a[qc] > P => Classes(a, P, l, e, qa, qb, qc - 1, qd)
  <1>1. CASE a[qc] = P
    <2> DEFINE b == Exch(a, qc, qd)
    <2>1. /\ qc \in 0..(N-1) /\ qd \in 0..(N-1)
          /\ \A i \in 0..(N-1) : b[i] = IF i = qd THEN a[qc] ELSE IF i = qc THEN a[qd] ELSE a[i]
      BY DEF Exch, InRow
    <2> HIDE DEF b
    <2>2. b[qd] = P
      BY <1>1, <2>1
    <2>3. qc < qd => b[qc] > P
      BY <2>1 DEF Classes, InRow
    <2> QED BY <2>1, <2>2, <2>3 DEF Classes, InRow, b
  <1>2. CASE a[qc] > P
    BY <1>2 DEF Classes, InRow
  <1> QED BY <1>1, <1>2

\* A greater element on the left and a lesser one on the right change places.
LEMMA CrossStep ==
  ASSUME NEW N \in Nat, NEW a \in [0..(N-1) -> Int], NEW P \in Int,
         NEW l \in Nat, NEW e \in Nat, e <= N,
         NEW qa \in Int, NEW qb \in Int, NEW qc \in Int, NEW qd \in Int,
         Classes(a, P, l, e, qa, qb, qc, qd), InRow(l, e, qa, qb, qc, qd), qb <= qc,
         a[qb] > P, a[qc] < P
  PROVE  /\ qb < qc
         /\ Classes(Exch(a, qb, qc), P, l, e, qa, qb + 1, qc - 1, qd)
  <1> DEFINE b == Exch(a, qb, qc)
  <1>1. /\ qb \in 0..(N-1) /\ qc \in 0..(N-1) /\ a[qb] \in Int /\ a[qc] \in Int
        /\ \A i \in 0..(N-1) : b[i] = IF i = qc THEN a[qb] ELSE IF i = qb THEN a[qc] ELSE a[i]
    BY DEF Exch, InRow
  <1>2. qb < qc
    BY <1>1
  <1> HIDE DEF b
  <1>3. b[qb] < P /\ b[qc] > P
    BY <1>1, <1>2
  <1> QED BY <1>1, <1>2, <1>3 DEF Classes, InRow, b

\* The elements from l to e - 1 are all less than, equal to or greater than P.
Lessers(a, P, l, e) == \A i \in l..(e - 1) : a[i] < P

Equals(a, P, l, e) == \A i \in l..(e - 1) : a[i] = P

Greaters(a, P, l, e) == \A i \in l..(e - 1) : a[i] > P

\* s is the lesser of two lengths.
IsLesser(s, x, y) == /\ s \in Nat /\ s <= x /\ s <= y
                     /\ s = x \/ s = y

\* min is the lesser of its arguments.
LEMMA Lesser ==
  ASSUME NEW x \in Nat, NEW y \in Nat
  PROVE  IsLesser(min(x, y), x, y)
  BY DEF min, IsLesser

\* The block on the left, equal before lesser, becomes lesser before equal.
LEMMA FrontSwap ==
  ASSUME NEW N \in Nat, NEW a \in [0..(N-1) -> Int], NEW P \in Int,
         NEW l \in Nat, NEW qa \in Int, NEW qb \in Int, l <= qa, qa <= qb, qb <= N,
         Equals(a, P, l, qa), Lessers(a, P, qa, qb),
         NEW s \in Nat, IsLesser(s, qa - l, qb - qa),
         NEW b, b = VecSwap(a, l, qb - s, s)
  PROVE  /\ Rearranged(a, b, l..(qb - 1))
         /\ Lessers(b, P, l, l + (qb - qa))
         /\ Equals(b, P, l + (qb - qa), qb)
  <1>1. /\ \A i \in l..(qa - 1) : a[i] = P
        /\ \A i \in qa..(qb - 1) : a[i] < P
        /\ s \in Nat /\ s <= qa - l /\ s <= qb - qa
        /\ s = qa - l \/ s = qb - qa
    BY DEF Equals, Lessers, IsLesser
  <1>2. /\ Rearranged(a, b, l..(qb - 1))
        /\ \A k \in DOMAIN a :
              b[k] = IF k \in l..(l+s-1) THEN a[k - l + (qb - s)]
                     ELSE IF k \in (qb-s)..((qb-s)+s-1) THEN a[k - (qb - s) + l] ELSE a[k]
    <2> DEFINE g == qb - 1
               j == qb - s
    <2>0. s \in Nat
      OBVIOUS
    <2>1. g \in Int /\ j \in Int /\ l + s <= j /\ j + s <= g + 1 /\ l <= l /\ l \in Int
      BY <1>1
    <2>2. l..g \subseteq DOMAIN a /\ DOMAIN a \subseteq Int
      BY <1>1
    <2> HIDE DEF g, j
    <2>3. Rearranged(a, VecSwap(a, l, j, s), l..g)
      BY <2>0, <2>1, <2>2, VecSwapMoves, ZenonT(30)
    <2>4. \A k \in DOMAIN a : k \in Int =>
             VecSwap(a, l, j, s)[k] = IF k \in l..(l+s-1) THEN a[k - l + j]
                                      ELSE IF k \in j..(j+s-1) THEN a[k - j + l] ELSE a[k]
      BY <2>0, <2>1, VecSwapIs, ZenonT(30)
    <2> QED BY <1>1, <2>2, <2>3, <2>4 DEF g, j
  <1>3. ASSUME NEW i \in l..(l + (qb - qa) - 1)
        PROVE  b[i] < P
    <2>1. CASE i < l + s
      <3>1. i \in DOMAIN a /\ b[i] = a[i - l + (qb - s)]
        BY <1>1, <1>2, <2>1
      <3>2. i - l + (qb - s) \in qa..(qb - 1)
        BY <1>1, <2>1
      <3> QED BY <1>1, <3>1, <3>2
    <2>2. CASE i >= l + s
      <3>1. s = qa - l /\ i \in qa..(qb - s - 1)
        BY <1>1, <2>2
      <3>2. i \in DOMAIN a /\ b[i] = a[i]
        BY <1>1, <1>2, <2>2, <3>1
      <3> QED BY <1>1, <3>1, <3>2
    <2> QED BY <1>1, <2>1, <2>2
  <1>4. ASSUME NEW i \in (l + (qb - qa))..(qb - 1)
        PROVE  b[i] = P
    <2>1. CASE i >= qb - s
      <3>1. i \in DOMAIN a /\ b[i] = a[i - (qb - s) + l]
        BY <1>1, <1>2, <2>1
      <3>2. i - (qb - s) + l \in l..(qa - 1)
        BY <1>1, <2>1
      <3> QED BY <1>1, <3>1, <3>2
    <2>2. CASE i < qb - s
      <3>1. s = qb - qa /\ i \in l..(qa - 1) /\ i >= l + s
        BY <1>1, <2>2
      <3>2. i \in DOMAIN a /\ b[i] = a[i]
        BY <1>1, <1>2, <2>2, <3>1
      <3> QED BY <1>1, <3>1, <3>2
    <2> QED BY <1>1, <2>1, <2>2
  <1> QED BY <1>2, <1>3, <1>4 DEF Lessers, Equals

\* The block on the right, greater before equal, becomes equal before greater.
LEMMA BackSwap ==
  ASSUME NEW N \in Nat, NEW a \in [0..(N-1) -> Int], NEW P \in Int,
         NEW qb \in Nat, NEW qd \in Int, NEW h \in Int, qb <= qd + 1, qd < h, h <= N,
         Greaters(a, P, qb, qd + 1), Equals(a, P, qd + 1, h),
         NEW s \in Nat, IsLesser(s, (qd + 1) - qb, h - (qd + 1)),
         NEW b, b = VecSwap(a, qb, h - s, s)
  PROVE  /\ Rearranged(a, b, qb..(h - 1))
         /\ Equals(b, P, qb, qb + (h - (qd + 1)))
         /\ Greaters(b, P, qb + (h - (qd + 1)), h)
  <1>1. /\ \A i \in qb..qd : a[i] > P
        /\ \A i \in (qd + 1)..(h - 1) : a[i] = P
        /\ s \in Nat /\ s <= (qd + 1) - qb /\ s <= h - (qd + 1)
        /\ s = (qd + 1) - qb \/ s = h - (qd + 1)
    BY DEF Equals, Greaters, IsLesser
  <1>2. /\ Rearranged(a, b, qb..(h - 1))
        /\ \A k \in DOMAIN a :
              b[k] = IF k \in qb..(qb+s-1) THEN a[k - qb + (h - s)]
                     ELSE IF k \in (h-s)..((h-s)+s-1) THEN a[k - (h - s) + qb] ELSE a[k]
    <2> DEFINE g == h - 1
               j == h - s
    <2>0. s \in Nat
      OBVIOUS
    <2>1. g \in Int /\ j \in Int /\ qb + s <= j /\ j + s <= g + 1 /\ qb <= qb /\ qb \in Int
      BY <1>1
    <2>2. qb..g \subseteq DOMAIN a /\ DOMAIN a \subseteq Int
      BY <1>1
    <2> HIDE DEF g, j
    <2>3. Rearranged(a, VecSwap(a, qb, j, s), qb..g)
      BY <2>0, <2>1, <2>2, VecSwapMoves, ZenonT(30)
    <2>4. \A k \in DOMAIN a : k \in Int =>
             VecSwap(a, qb, j, s)[k] = IF k \in qb..(qb+s-1) THEN a[k - qb + j]
                                      ELSE IF k \in j..(j+s-1) THEN a[k - j + qb] ELSE a[k]
      BY <2>0, <2>1, VecSwapIs, ZenonT(30)
    <2> QED BY <1>1, <2>2, <2>3, <2>4 DEF g, j
  <1>3. ASSUME NEW i \in qb..(qb + (h - (qd + 1)) - 1)
        PROVE  b[i] = P
    <2>1. CASE i < qb + s
      <3>1. i \in DOMAIN a /\ b[i] = a[i - qb + (h - s)]
        BY <1>1, <1>2, <2>1
      <3>2. i - qb + (h - s) \in (qd + 1)..(h - 1)
        BY <1>1, <2>1
      <3> QED BY <1>1, <3>1, <3>2
    <2>2. CASE i >= qb + s
      <3>1. s = qd - qb + 1 /\ i \in (qd + 1)..(h - s - 1)
        BY <1>1, <2>2
      <3>2. i \in DOMAIN a /\ b[i] = a[i]
        BY <1>1, <1>2, <2>2, <3>1
      <3> QED BY <1>1, <3>1, <3>2
    <2> QED BY <1>1, <2>1, <2>2
  <1>4. ASSUME NEW i \in (qb + (h - (qd + 1)))..(h - 1)
        PROVE  b[i] > P
    <2>1. CASE i >= h - s
      <3>1. i \in DOMAIN a /\ b[i] = a[i - (h - s) + qb]
        BY <1>1, <1>2, <2>1
      <3>2. i - (h - s) + qb \in qb..qd
        BY <1>1, <2>1
      <3> QED BY <1>1, <3>1, <3>2
    <2>2. CASE i < h - s
      <3>1. s = h - (qd + 1) /\ i \in qb..qd /\ i >= qb + s
        BY <1>1, <2>2
      <3>2. i \in DOMAIN a /\ b[i] = a[i]
        BY <1>1, <1>2, <2>2, <3>1
      <3> QED BY <1>1, <3>1, <3>2
    <2> QED BY <1>1, <2>1, <2>2
  <1> QED BY <1>2, <1>3, <1>4 DEF Greaters, Equals

-----------------------------------------------------------------------------
(* The inductive invariant. *)

Parts == [pv : Int, pm : Int, pa : Int, pb : Int, pc : Int, pd : Int]

\* The array keeps its length.
ArrInv == /\ Size \in Nat /\ input \in [0..(Size - 1) -> Int]
          /\ arr \in [0..(Size - 1) -> Int] /\ direct \in BOOLEAN

\* The segments still to be sorted lie within it, one behind the other.
TodoInv == Ahead(todo, 0, Size)

PcInv == /\ pc \in {"call", "insert", "up", "down"}
         /\ pc # "call" => todo # <<>>
         /\ part \in Parts

\* Behind pm the segment is not sorted yet.
InsertInv ==
  pc = "insert" => /\ part.pm \in Nat /\ lo < part.pm
                   /\ \A i, j \in lo..(part.pm - 1) : i < j => arr[i] <= arr[j]

\* The pivot, unless it is copied, is at the front.  When pc moves down, pb is
\* at a greater element, unless it has passed pc.
PivotInv ==
  pc \in {"up", "down"} =>
     /\ n >= 7 /\ (~direct => part.pv = lo)
     /\ pc = "down" => part.pb > part.pc \/ arr[part.pb] > Pivot

IInv == /\ ArrInv /\ TodoInv /\ PcInv /\ InsertInv /\ PivotInv
        /\ PointersInOrder /\ Partitioned /\ OrderedAcross /\ SameElements

\* The segment in progress is part of the array.
LEMMA Current ==
  ASSUME ArrInv, TodoInv, todo # <<>>
  PROVE  /\ lo \in Nat /\ n \in Nat /\ lo + n <= Size
         /\ Segment(Head(todo)) = lo..(lo + n - 1)
         /\ lo..(lo + n - 1) \subseteq 0..(Size - 1)
         /\ DOMAIN arr = 0..(Size - 1) /\ DOMAIN input = 0..(Size - 1)
  <1>1. Head(todo) \in Segments /\ End(Head(todo)) <= Size
    BY First DEF ArrInv, TodoInv
  <1>2. lo \in Nat /\ n \in Nat /\ lo + n <= Size
    BY <1>1 DEF Segments, End, lo, n
  <1>3. Segment(Head(todo)) = lo..(lo + n - 1)
    BY DEF Segment, lo, n
  <1>4. lo..(lo + n - 1) \subseteq 0..(Size - 1)
    BY <1>2 DEF ArrInv
  <1> QED BY <1>2, <1>3, <1>4 DEF ArrInv

\* Whatever is moved within the first segment, elements that are not both in it
\* are in order or in one of the others.
LEMMA KeepsOrder ==
  ASSUME ArrInv, TodoInv, OrderedAcross, todo # <<>>,
         NEW b, Rearranged(arr, b, Segment(Head(todo))),
         NEW i \in 0..(Size - 1), NEW j \in 0..(Size - 1), i < j,
         ~({i, j} \subseteq Segment(Head(todo)))
  PROVE  b[i] <= b[j] \/ Together(i, j, Tail(todo))
  <1> DEFINE H == Segment(Head(todo))
  <1>1. /\ lo \in Nat /\ n \in Nat /\ H = lo..(lo + n - 1) /\ DOMAIN arr = 0..(Size - 1)
        /\ Size \in Nat
    BY Current DEF ArrInv
  <1>2. /\ \A k, m : Together(k, m, todo) <=> {k, m} \subseteq H \/ Together(k, m, Tail(todo))
        /\ Ahead(Tail(todo), lo + n, Size)
    BY First DEF ArrInv, TodoInv, End, lo, n
  <1>9. \A k \in Int : k \in H <=> lo <= k /\ k < lo + n
    BY <1>1
  <1>10. Rearranged(arr, b, H)
    OBVIOUS
  <1> HIDE DEF H
  <1>3. /\ \A k \in 0..(Size - 1) : k \notin H => b[k] = arr[k]
        /\ \A k \in 0..(Size - 1) : k \in H => \E m \in 0..(Size - 1) : m \in H /\ b[k] = arr[m]
    <2>1. /\ \A k \in DOMAIN arr \ H : b[k] = arr[k]
          /\ \A k \in DOMAIN arr : k \in H => \E m \in DOMAIN arr : m \in H /\ b[k] = arr[m]
      BY <1>10, Within
    <2>2. \A k \in DOMAIN arr : k \notin H => b[k] = arr[k]
      BY <2>1, Zenon
    <2>3. DOMAIN arr = 0..(Size - 1)
      BY <1>1
    <2> QED BY <2>1, <2>2, <2>3, Zenon
  <1>4. \A k, m \in 0..(Size - 1) : k < m => arr[k] <= arr[m] \/ Together(k, m, todo)
    BY <1>1 DEF OrderedAcross, Together
  <1>5. ASSUME NEW k \in H, NEW m, Together(k, m, Tail(todo)) \/ Together(m, k, Tail(todo))
        PROVE  FALSE
    <2>1. PICK x \in DOMAIN Tail(todo) : k \in Segment(Tail(todo)[x])
      BY <1>5 DEF Together
    <2>2. Tail(todo) \in Seq(Segments) /\ DOMAIN Tail(todo) = 1..Len(Tail(todo))
      BY <1>2, LenProperties DEF Ahead
    <2>3. Tail(todo)[x].lo >= lo + n /\ Tail(todo)[x] \in Segments
      BY <1>2, <2>1, <2>2, ElementOfSeq DEF Ahead
    <2>4. k \in Int /\ Tail(todo)[x].lo <= k
      BY <2>1, <2>3 DEF Segment, Segments
    <2> QED BY <1>1, <1>5, <1>9, <2>3, <2>4 DEF Segments
  <1>6. CASE i \notin H /\ j \notin H
    BY <1>2, <1>3, <1>4, <1>6
  <1>7. CASE i \in H /\ j \notin H
    <2>1. PICK m \in 0..(Size - 1) : m \in H /\ b[i] = arr[m]
      BY <1>3, <1>7
    <2>2. m < j /\ b[j] = arr[j]
      <3>1. lo <= i /\ i < lo + n /\ lo <= m /\ m < lo + n /\ ~(lo <= j /\ j < lo + n)
        BY <1>7, <1>9, <2>1
      <3>2. m < j
        BY <1>1, <3>1
      <3> QED BY <1>3, <1>7, <3>2
    <2> QED BY <1>2, <1>4, <1>5, <1>7, <2>1, <2>2
  <1>8. CASE i \notin H /\ j \in H
    <2>1. PICK m \in 0..(Size - 1) : m \in H /\ b[j] = arr[m]
      BY <1>3, <1>8
    <2>2. i < m /\ b[i] = arr[i]
      <3>1. lo <= j /\ j < lo + n /\ lo <= m /\ m < lo + n /\ ~(lo <= i /\ i < lo + n)
        BY <1>8, <1>9, <2>1
      <3>2. i < m
        BY <1>1, <3>1
      <3> QED BY <1>3, <1>8, <3>2
    <2> QED BY <1>2, <1>4, <1>5, <1>8, <2>1, <2>2
  <1> QED BY <1>6, <1>7, <1>8 DEF H

\* A move within the first segment, whatever else a step does.
LEMMA Move ==
  ASSUME ArrInv, TodoInv, OrderedAcross, SameElements, todo # <<>>,
         Rearranged(arr, arr', Segment(Head(todo))), UNCHANGED <<input, direct>>
  PROVE  /\ ArrInv' /\ SameElements'
         /\ UNCHANGED todo => OrderedAcross'
  <1>1. /\ Size \in Nat /\ Size' = Size /\ DOMAIN arr = 0..(Size - 1)
        /\ DOMAIN input = 0..(Size - 1)
    BY Current DEF ArrInv, Size
  <1>2. /\ DOMAIN arr' = 0..(Size - 1)
        /\ \A k \in 0..(Size - 1) : k \notin Segment(Head(todo)) => arr'[k] = arr[k]
        /\ \A k \in 0..(Size - 1) : k \in Segment(Head(todo)) =>
                \E m \in 0..(Size - 1) : arr'[k] = arr[m]
    BY <1>1, Within
  <1>3. arr' \in [0..(Size - 1) -> Int]
    <2>1. \A k \in 0..(Size - 1) : arr'[k] \in Int
      BY <1>2 DEF ArrInv
    <2>2. arr' = [k \in DOMAIN arr' |-> arr'[k]]
      BY DEF Rearranged
    <2> QED BY <1>2, <2>1, <2>2
  <1>4. ArrInv'
    BY <1>1, <1>3 DEF ArrInv
  <1>5. SameElements'
    <2>1. IsFiniteSet(DOMAIN arr)
      BY <1>1, FS_Interval
    <2>2. \A v : Occurrences(arr', v) = Occurrences(arr, v)
      BY <2>1, SameOccurrences
    <2> QED BY <2>2 DEF SameElements
  <1>6. ASSUME UNCHANGED todo PROVE OrderedAcross'
    <2>1. ASSUME NEW i \in 0..(Size - 1), NEW j \in 0..(Size - 1), i < j
          PROVE  arr'[i] <= arr'[j] \/ Together(i, j, todo)
      <3>1. CASE {i, j} \subseteq Segment(Head(todo))
        BY <3>1, First DEF ArrInv, TodoInv
      <3>2. CASE ~({i, j} \subseteq Segment(Head(todo)))
        BY <1>3, <2>1, <3>2, KeepsOrder, First DEF ArrInv, TodoInv
      <3> QED BY <3>1, <3>2
    <2> QED BY <1>2, <1>6, <2>1 DEF OrderedAcross, Together
  <1> QED BY <1>4, <1>5, <1>6

\* The pivot is chosen from the segment.
LEMMA MiddleWithin ==
  ASSUME lo \in Nat, n \in Nat, n >= 7
  PROVE  Middle \in lo..(lo + n - 1)
  <1>1. \A i, j, k \in lo..(lo + n - 1) : med3(i, j, k) \in lo..(lo + n - 1)
    BY DEF med3
  <1>2. n \div 2 \in 0..(n - 1) /\ lo + n \div 2 \in lo..(lo + n - 1)
    OBVIOUS
  <1>3. CASE n = 7
    BY <1>2, <1>3 DEF Middle
  <1>4. CASE n > 7 /\ n <= 40
    <2>1. Middle = med3(lo, lo + n \div 2, lo + n - 1)
      BY <1>4 DEF Middle
    <2>2. lo \in lo..(lo + n - 1) /\ lo + n - 1 \in lo..(lo + n - 1)
      BY <1>4
    <2> QED BY <1>1, <1>2, <2>1, <2>2
  <1>5. CASE n > 40
    <2> DEFINE s == n \div 8
               m == lo + n \div 2
               r == lo + n - 1
    <2>1. Middle = med3(med3(lo, lo + s, lo + 2*s), med3(m - s, m, m + s),
                        med3(r - 2*s, r - s, r))
      BY <1>5 DEF Middle
    <2>2. /\ s \in Nat /\ 8 * s <= n /\ m \in Int /\ 2 * (n \div 2) <= n
          /\ n <= 2 * (n \div 2) + 1 /\ r = lo + n - 1
      OBVIOUS
    <2>3. /\ lo \in lo..r /\ lo + s \in lo..r /\ lo + 2*s \in lo..r
          /\ r \in lo..r /\ r - s \in lo..r /\ r - 2*s \in lo..r
          /\ m - s \in lo..r /\ m \in lo..r /\ m + s \in lo..r
      BY <1>5, <2>2
    <2> HIDE DEF s, m
    <2> QED BY <1>1, <2>1, <2>3
  <1> QED BY <1>3, <1>4, <1>5

-----------------------------------------------------------------------------
(* The steps. *)

\* The segment of the first call is the whole array, unsorted.
LEMMA InitHolds == Init => IInv
  <1> SUFFICES ASSUME Init PROVE IInv
    OBVIOUS
  <1>1. /\ IsFiniteSet(DOMAIN input)
        /\ input \in [0..(Cardinality(DOMAIN input) - 1) -> Int]
    BY QsortAssumption DEF Init
  <1>2. Size \in Nat /\ input \in [0..(Size - 1) -> Int]
    BY <1>1, FS_CardinalityType DEF Size
  <1>3. ArrInv
    BY <1>2 DEF Init, ArrInv
  <1> DEFINE s == [lo |-> 0, n |-> Size]
  <1>4. todo = <<s>> /\ s \in Segments /\ s.lo = 0 /\ s.n = Size
    BY <1>2 DEF Init, Segments
  <1> HIDE DEF s
  <1>5. todo \in Seq(Segments) /\ Len(todo) = 1 /\ todo[1] = s /\ DOMAIN todo = 1..1
    BY <1>4
  <1>6. TodoInv
    BY <1>2, <1>4, <1>5 DEF TodoInv, Ahead, End
  <1>7. PcInv /\ InsertInv /\ PivotInv /\ PointersInOrder /\ Partitioned
    BY DEF Init, PcInv, InsertInv, PivotInv, PointersInOrder, Partitioned, Parts
  <1>8. OrderedAcross
    <2>1. \A i \in DOMAIN arr : i \in Segment(todo[1])
      BY <1>2, <1>3, <1>4, <1>5 DEF ArrInv, Segment
    <2> QED BY <1>5, <2>1 DEF OrderedAcross
  <1>9. SameElements
    BY DEF Init, SameElements
  <1> QED BY <1>3, <1>6, <1>7, <1>8, <1>9 DEF IInv

\* The first element of a short segment is sorted by itself.
LEMMA StartInsertionKeeps == IInv /\ StartInsertion => IInv'
  <1> SUFFICES ASSUME IInv, StartInsertion PROVE IInv'
    OBVIOUS
  <1>1. /\ lo \in Nat /\ todo # <<>> /\ part \in Parts
    BY Current DEF IInv, StartInsertion, PcInv
  <1>2. UNCHANGED <<input, arr, direct, todo>> /\ pc' = "insert" /\ part' = [part EXCEPT !.pm = lo + 1]
    BY DEF StartInsertion
  <1>3. lo' = lo /\ Size' = Size
    BY <1>2 DEF lo, Size
  <1>4. part'.pm = lo + 1 /\ PcInv'
    BY <1>1, <1>2 DEF PcInv, Parts
  <1>5. InsertInv'
    BY <1>1, <1>3, <1>4 DEF InsertInv
  <1>6. ArrInv' /\ TodoInv'
    BY <1>2, <1>3 DEF IInv, ArrInv, TodoInv
  <1>7. PivotInv' /\ PointersInOrder' /\ Partitioned'
    BY <1>2 DEF PivotInv, PointersInOrder, Partitioned
  <1>8. OrderedAcross' /\ SameElements'
    BY <1>2 DEF IInv, OrderedAcross, SameElements
  <1> QED BY <1>4, <1>5, <1>6, <1>7, <1>8 DEF IInv

\* One more element sinks to its place among those sorted.
LEMMA InsertKeeps == IInv /\ Insert => IInv'
  <1> SUFFICES ASSUME IInv, Insert PROVE IInv'
    OBVIOUS
  <1>1. /\ pc = "insert" /\ todo # <<>> /\ UNCHANGED <<input, direct>>
        /\ part \in Parts
        /\ part.pm \in Nat /\ lo < part.pm
        /\ \A i, j \in lo..(part.pm - 1) : i < j => arr[i] <= arr[j]
    BY DEF IInv, Insert, PcInv, InsertInv
  <1>2. /\ lo \in Nat /\ n \in Nat /\ lo + n <= Size /\ Size \in Nat
        /\ Segment(Head(todo)) = lo..(lo + n - 1)
        /\ DOMAIN arr = 0..(Size - 1) /\ arr \in [0..(Size - 1) -> Int]
    BY <1>1, Current DEF IInv, ArrInv
  <1>3. CASE part.pm < lo + n
    <2>1. /\ arr' = Sink(arr, lo, part.pm) /\ part' = [part EXCEPT !.pm = part.pm + 1]
          /\ UNCHANGED <<todo, pc>>
      BY <1>3 DEF Insert
    <2>2. /\ Rearranged(arr, arr', lo..part.pm)
          /\ \A i, j \in lo..part.pm : i < j => arr'[i] <= arr'[j]
      <3> DEFINE m == part.pm
      <3>1. m \in Nat /\ lo <= m /\ m < Size
        BY <1>1, <1>2, <1>3
      <3>2. arr' = Sink(arr, lo, m) /\ \A i, j \in lo..(m - 1) : i < j => arr[i] <= arr[j]
        BY <1>1, <2>1
      <3> HIDE DEF m
      <3>3. /\ Rearranged(arr, arr', lo..m)
            /\ \A i, j \in lo..m : i < j => arr'[i] <= arr'[j]
        BY <1>2, <3>1, <3>2, SinkMoves
      <3> QED BY <3>3 DEF m
    <2>3. Rearranged(arr, arr', Segment(Head(todo)))
      <3>1. lo..part.pm \subseteq Segment(Head(todo))
        BY <1>1, <1>2, <1>3
      <3> QED BY <2>2, <3>1, Wider
    <2>4. ArrInv' /\ SameElements' /\ OrderedAcross'
      BY <1>1, <2>1, <2>3, Move DEF IInv
    <2>5. lo' = lo /\ n' = n /\ Size' = Size
      BY <1>1, <2>1 DEF lo, n, Size
    <2>6. PcInv' /\ part'.pm = part.pm + 1
      BY <1>1, <2>1 DEF IInv, PcInv, Parts
    <2>7. InsertInv'
      BY <1>1, <1>2, <2>2, <2>5, <2>6 DEF InsertInv
    <2>8. TodoInv'
      BY <2>1, <2>5 DEF IInv, TodoInv
    <2>9. PivotInv' /\ PointersInOrder' /\ Partitioned'
      BY <1>1, <2>1 DEF PivotInv, PointersInOrder, Partitioned
    <2> QED BY <2>4, <2>6, <2>7, <2>8, <2>9 DEF IInv
  <1>4. CASE ~(part.pm < lo + n)
    <2>1. pc' = "call" /\ todo' = Tail(todo) /\ UNCHANGED <<arr, part>>
      BY <1>4 DEF Insert
    <2>2. Size' = Size /\ ArrInv' /\ SameElements'
      BY <1>1, <2>1 DEF IInv, ArrInv, SameElements, Size
    <2>3. TodoInv'
      <3>1. Ahead(Tail(todo), lo + n, Size)
        BY <1>1, First DEF IInv, ArrInv, TodoInv, End, lo, n
      <3>2. Ahead(Tail(todo), 0, Size)
        BY <1>2, <3>1, AheadOfLess
      <3> QED BY <2>1, <2>2, <3>2 DEF TodoInv
    <2>4. ASSUME NEW i \in 0..(Size - 1), NEW j \in 0..(Size - 1), i < j
          PROVE  arr[i] <= arr[j] \/ Together(i, j, Tail(todo))
      <3>1. CASE {i, j} \subseteq Segment(Head(todo))
        <4>1. i \in lo..(part.pm - 1) /\ j \in lo..(part.pm - 1)
          BY <1>1, <1>2, <1>4, <3>1
        <4> QED BY <1>1, <2>4, <4>1
      <3>2. CASE ~({i, j} \subseteq Segment(Head(todo)))
        <4>1. Rearranged(arr, arr, Segment(Head(todo)))
          BY <1>2, Still
        <4> QED BY <1>1, <2>4, <3>2, <4>1, KeepsOrder DEF IInv
      <3> QED BY <3>1, <3>2
    <2>5. OrderedAcross'
      BY <1>2, <2>1, <2>4 DEF OrderedAcross, Together
    <2>6. PcInv' /\ InsertInv' /\ PivotInv' /\ PointersInOrder' /\ Partitioned'
      BY <1>1, <2>1 DEF PcInv, InsertInv, PivotInv, PointersInOrder, Partitioned
    <2> QED BY <2>2, <2>3, <2>5, <2>6 DEF IInv
  <1> QED BY <1>3, <1>4

\* What is known of the partition in progress.
LEMMA Underway ==
  ASSUME IInv, pc \in {"up", "down"}
  PROVE  /\ todo # <<>> /\ Size \in Nat /\ arr \in [0..(Size - 1) -> Int]
         /\ lo \in Nat /\ n \in Nat /\ n >= 7 /\ lo + n <= Size
         /\ Segment(Head(todo)) = lo..(lo + n - 1) /\ lo \in DOMAIN arr
         /\ part \in Parts
         /\ Pivot \in Int /\ (~direct => Pivot = arr[lo])
         /\ InRow(lo, lo + n, part.pa, part.pb, part.pc, part.pd)
         /\ Classes(arr, Pivot, lo, lo + n, part.pa, part.pb, part.pc, part.pd)
  <1>1. todo # <<>> /\ part \in Parts
    BY DEF IInv, PcInv
  <1>2. /\ lo \in Nat /\ n \in Nat /\ lo + n <= Size /\ Segment(Head(todo)) = lo..(lo + n - 1)
        /\ Size \in Nat /\ arr \in [0..(Size - 1) -> Int]
    BY <1>1, Current DEF IInv, ArrInv
  <1>3. n >= 7 /\ (~direct => part.pv = lo)
    BY DEF IInv, PivotInv
  <1>4. lo \in DOMAIN arr /\ arr[lo] \in Int
    BY <1>2, <1>3
  <1>5. Pivot \in Int /\ (~direct => Pivot = arr[lo])
    BY <1>1, <1>3, <1>4 DEF Pivot, Parts
  <1>6. InRow(lo, lo + n, part.pa, part.pb, part.pc, part.pd)
    BY DEF IInv, PointersInOrder, InRow
  <1>7. Classes(arr, Pivot, lo, lo + n, part.pa, part.pb, part.pc, part.pd)
    <2>1. Partitioned /\ (lo + n) - 1 = lo + (n - 1)
      BY <1>2 DEF IInv
    <2> QED BY <2>1, Zenon DEF Partitioned, Classes
  <1> QED BY <1>1, <1>2, <1>3, <1>4, <1>5, <1>6, <1>7

\* A step from one partition to the next, or to the first.
LEMMA Onwards ==
  ASSUME IInv, todo # <<>>, UNCHANGED <<input, direct, todo>>, pc' \in {"up", "down"}, n >= 7,
         Rearranged(arr, arr', Segment(Head(todo))),
         part' \in Parts,
         ~direct => part'.pv = lo,
         InRow(lo, lo + n, part'.pa, part'.pb, part'.pc, part'.pd),
         Classes(arr', Pivot', lo, lo + n, part'.pa, part'.pb, part'.pc, part'.pd),
         pc' = "down" => part'.pb > part'.pc \/ arr'[part'.pb] > Pivot'
  PROVE  IInv'
  <1>1. lo' = lo /\ n' = n /\ Size' = Size
    BY DEF lo, n, Size
  <1>2. ArrInv' /\ SameElements' /\ OrderedAcross'
    BY Move DEF IInv
  <1>3. TodoInv' /\ PcInv' /\ InsertInv'
    BY <1>1 DEF IInv, TodoInv, PcInv, InsertInv
  <1>4. PivotInv'
    BY <1>1 DEF PivotInv
  <1>5. PointersInOrder'
    <2>1. Segment(Head(todo)) \subseteq DOMAIN arr /\ DOMAIN arr' = DOMAIN arr
      BY Current, Within DEF IInv
    <2> QED BY <1>1, <2>1 DEF PointersInOrder, InRow, Segment
  <1>6. Partitioned'
    <2>1. /\ \A i \in lo..(part'.pa - 1) : arr'[i] = Pivot'
          /\ \A i \in part'.pa..(part'.pb - 1) : arr'[i] < Pivot'
          /\ \A i \in (part'.pc + 1)..part'.pd : arr'[i] > Pivot'
          /\ \A i \in (part'.pd + 1)..(lo + n - 1) : arr'[i] = Pivot'
      <3>1. (lo + n) - 1 = lo + (n - 1)
        BY Current DEF IInv
      <3> QED BY <3>1, Zenon DEF Classes
    <2> QED BY <1>1, <2>1, Zenon DEF Partitioned
  <1> QED BY <1>2, <1>3, <1>4, <1>5, <1>6 DEF IInv

\* The pivot is in front, or copied, and nothing is compared yet.
LEMMA StartPartitionKeeps == IInv /\ StartPartition => IInv'
  <1> SUFFICES ASSUME IInv, StartPartition PROVE IInv'
    OBVIOUS
  <1>1. /\ todo # <<>> /\ n >= 7 /\ UNCHANGED <<input, direct, todo>> /\ pc' = "up"
        /\ arr' = IF direct THEN arr ELSE Exch(arr, lo, Middle)
        /\ part' = [pv |-> IF direct THEN arr[Middle] ELSE lo, pm |-> Middle,
                    pa |-> lo, pb |-> lo, pc |-> lo + n - 1, pd |-> lo + n - 1]
    BY DEF StartPartition
  <1>2. /\ lo \in Nat /\ n \in Nat /\ lo + n <= Size /\ Segment(Head(todo)) = lo..(lo + n - 1)
        /\ Size \in Nat /\ arr \in [0..(Size - 1) -> Int] /\ direct \in BOOLEAN
    BY <1>1, Current DEF IInv, ArrInv
  <1>3. Middle \in lo..(lo + n - 1)
    BY <1>1, <1>2, MiddleWithin
  <1>4. lo \in DOMAIN arr /\ Middle \in DOMAIN arr /\ arr[Middle] \in Int /\ Middle \in Int
        /\ lo \in Segment(Head(todo)) /\ Middle \in Segment(Head(todo))
    BY <1>1, <1>2, <1>3
  <1> HIDE DEF Middle
  <1>5. Rearranged(arr, arr', Segment(Head(todo)))
    <2>1. CASE direct
      BY <1>1, <1>2, <2>1, Still
    <2>2. CASE ~direct
      BY <1>1, <1>4, <2>2, ExchMoves
    <2> QED BY <2>1, <2>2
  <1>6. part' \in Parts
    BY <1>1, <1>2, <1>4 DEF Parts
  <1>7. /\ part'.pa = lo /\ part'.pb = lo /\ part'.pc = lo + n - 1 /\ part'.pd = lo + n - 1
        /\ ~direct => part'.pv = lo
    BY <1>1
  <1>8. InRow(lo, lo + n, part'.pa, part'.pb, part'.pc, part'.pd)
    BY <1>1, <1>2, <1>7 DEF InRow
  <1>9. Classes(arr', Pivot', lo, lo + n, part'.pa, part'.pb, part'.pc, part'.pd)
    BY <1>2, <1>7 DEF Classes
  <1> QED BY <1>1, <1>5, <1>6, <1>7, <1>8, <1>9, Onwards

\* The pivot stays what it is, because the cell at the front does.
LEMMA PivotStays ==
  ASSUME IInv, pc \in {"up", "down"}, UNCHANGED direct, part'.pv = part.pv,
         ~direct => arr'[lo] = arr[lo]
  PROVE  Pivot' = Pivot /\ (~direct => part'.pv = lo)
  <1>1. ~direct => part.pv = lo
    BY DEF IInv, PivotInv
  <1> QED BY <1>1 DEF Pivot

\* An element that is not greater stays, or joins the equal ones in front.
LEMMA UpKeeps == IInv /\ Up => IInv'
  <1> SUFFICES ASSUME IInv, Up PROVE IInv'
    OBVIOUS
  <1>1. pc = "up" /\ pc \in {"up", "down"} /\ UNCHANGED <<input, direct, todo>>
    BY DEF Up
  <1> DEFINE qa == part.pa
             qb == part.pb
             qc == part.pc
             qd == part.pd
             e == lo + n
  <1>2. /\ todo # <<>> /\ Size \in Nat /\ arr \in [0..(Size - 1) -> Int]
        /\ lo \in Nat /\ n \in Nat /\ n >= 7 /\ e <= Size /\ e \in Nat
        /\ Segment(Head(todo)) = lo..(e - 1) /\ lo \in DOMAIN arr
        /\ Pivot \in Int /\ (~direct => Pivot = arr[lo])
        /\ qa \in Int /\ qb \in Int /\ qc \in Int /\ qd \in Int
    BY <1>1, Underway
  <1>3. InRow(lo, e, qa, qb, qc, qd) /\ Classes(arr, Pivot, lo, e, qa, qb, qc, qd)
    BY <1>1, Underway
  <1>4. part \in Parts
    BY <1>1, Underway
  <1> HIDE DEF e, qa, qb, qc, qd
  <1>5. CASE qb <= qc /\ arr[qb] = Pivot
    <2>1. arr[qb] <= Pivot
      BY <1>2, <1>5
    <2>2. /\ arr' = Exch(arr, qa, qb) /\ pc' = "up"
          /\ part' = [part EXCEPT !.pa = part.pa + 1, !.pb = part.pb + 1]
      BY <1>1, <1>5, <2>1 DEF Up, qb, qc, qa
    <2>3. /\ part' \in Parts
          /\ part'.pv = part.pv /\ part'.pa = qa + 1 /\ part'.pb = qb + 1
          /\ part'.pc = qc /\ part'.pd = qd
      <3> DEFINE x == part.pa + 1
                 y == part.pb + 1
      <3>1. x \in Int /\ y \in Int /\ part' = [part EXCEPT !.pa = x, !.pb = y]
        <4>1. part.pa \in Int /\ part.pb \in Int
          BY <1>4 DEF Parts
        <4>2. x \in Int /\ y \in Int
          BY <4>1
        <4>3. part' = [part EXCEPT !.pa = x, !.pb = y]
          BY <2>2
        <4> QED BY <4>2, <4>3
      <3> HIDE DEF x, y
      <3>2. /\ part' \in Parts /\ part'.pv = part.pv /\ part'.pa = x /\ part'.pb = y
            /\ part'.pc = part.pc /\ part'.pd = part.pd
        BY <1>4, <3>1 DEF Parts
      <3> QED BY <3>2 DEF x, y, qa, qb, qc, qd
    <2>4. /\ qa \in DOMAIN arr /\ qb \in DOMAIN arr /\ qa \in lo..(e - 1) /\ qb \in lo..(e - 1)
      BY <1>2, <1>3, <1>5 DEF InRow
    <2>5. Rearranged(arr, arr', Segment(Head(todo)))
      BY <1>2, <2>2, <2>4, ExchMoves
    <2>6. ~direct => arr'[lo] = arr[lo]
      <3> SUFFICES ASSUME ~direct PROVE Exch(arr, qa, qb)[lo] = arr[lo]
        BY <2>2
      <3>1. qa = lo => qb = lo
        <4> SUFFICES ASSUME qa = lo, qb # lo PROVE FALSE
          OBVIOUS
        <4>1. lo \in qa..(qb - 1)
          BY <1>2, <1>3 DEF InRow
        <4>2. arr[lo] < Pivot
          BY <1>3, <4>1 DEF Classes
        <4> QED BY <1>2, <4>2
      <3>2. lo <= qa /\ qa <= qb
        BY <1>3 DEF InRow
      <3> QED BY <1>2, <2>4, <3>1, <3>2 DEF Exch
    <2>7. Pivot' = Pivot /\ (~direct => part'.pv = lo)
      BY <1>1, <2>3, <2>6, PivotStays
    <2>8. Classes(arr', Pivot', lo, e, qa + 1, qb + 1, qc, qd)
      BY <1>2, <1>3, <1>5, <2>2, <2>7, UpStep
    <2>9. InRow(lo, e, qa + 1, qb + 1, qc, qd)
      BY <1>2, <1>3, <1>5 DEF InRow
    <2> QED BY <1>1, <1>2, <2>2, <2>3, <2>5, <2>7, <2>8, <2>9, Onwards DEF e
  <1>6. CASE qb <= qc /\ arr[qb] < Pivot
    <2>1. arr[qb] <= Pivot /\ arr[qb] # Pivot
      <3>1. arr[qb] \in Int
        BY <1>2, <1>3, <1>6 DEF InRow
      <3> QED BY <1>2, <1>6, <3>1
    <2>2. arr' = arr /\ pc' = "up" /\ part' = [part EXCEPT !.pb = @ + 1]
      BY <1>1, <1>6, <2>1 DEF Up, qb, qc
    <2>3. /\ part' \in Parts
          /\ part'.pv = part.pv /\ part'.pa = qa /\ part'.pb = qb + 1
          /\ part'.pc = qc /\ part'.pd = qd
      BY <1>4, <2>2 DEF qa, qb, qc, qd, Parts
    <2>4. Rearranged(arr, arr', Segment(Head(todo)))
      BY <1>2, <2>2, Still
    <2>5. Pivot' = Pivot /\ (~direct => part'.pv = lo)
      BY <1>1, <2>2, <2>3, PivotStays
    <2>6. Classes(arr', Pivot', lo, e, qa, qb + 1, qc, qd)
      BY <1>2, <1>3, <1>6, <2>2, <2>5, UpStep
    <2>7. InRow(lo, e, qa, qb + 1, qc, qd)
      BY <1>2, <1>3, <1>6 DEF InRow
    <2> QED BY <1>1, <1>2, <2>2, <2>3, <2>4, <2>5, <2>6, <2>7, Onwards DEF e
  <1>7. CASE ~(qb <= qc /\ arr[qb] <= Pivot)
    <2>1. UNCHANGED <<arr, part>> /\ pc' = "down"
      BY <1>1, <1>7 DEF Up, qb, qc
    <2>2. Rearranged(arr, arr', Segment(Head(todo)))
      BY <1>2, <2>1, Still
    <2>3. Pivot' = Pivot /\ (~direct => part'.pv = lo)
      BY <1>1, <2>1, PivotStays
    <2>4. qb > qc \/ arr[qb] > Pivot
      <3>1. qb <= qc => arr[qb] \in Int
        BY <1>2, <1>3 DEF InRow
      <3> QED BY <1>2, <1>7, <3>1
    <2> QED BY <1>1, <1>2, <1>3, <1>4, <2>1, <2>2, <2>3, <2>4, Onwards DEF e, qa, qb, qc, qd
  <1>8. qb <= qc => arr[qb] \in Int
    BY <1>2, <1>3 DEF InRow
  <1> QED BY <1>2, <1>5, <1>6, <1>7, <1>8

\* An element that is not less stays, or joins the equal ones at the end.
LEMMA DownKeeps == IInv /\ Down => IInv'
  <1> SUFFICES ASSUME IInv, Down PROVE IInv'
    OBVIOUS
  <1>1. pc = "down" /\ pc \in {"up", "down"} /\ UNCHANGED <<input, direct, todo, pc>>
    BY DEF Down
  <1> DEFINE qa == part.pa
             qb == part.pb
             qc == part.pc
             qd == part.pd
             e == lo + n
  <1>2. /\ todo # <<>> /\ Size \in Nat /\ arr \in [0..(Size - 1) -> Int]
        /\ lo \in Nat /\ n \in Nat /\ n >= 7 /\ e <= Size /\ e \in Nat
        /\ Segment(Head(todo)) = lo..(e - 1) /\ lo \in DOMAIN arr
        /\ Pivot \in Int /\ (~direct => Pivot = arr[lo])
        /\ qa \in Int /\ qb \in Int /\ qc \in Int /\ qd \in Int
    BY <1>1, Underway
  <1>3. InRow(lo, e, qa, qb, qc, qd) /\ Classes(arr, Pivot, lo, e, qa, qb, qc, qd)
    BY <1>1, Underway
  <1>4. part \in Parts
    BY <1>1, Underway
  <1>5. qb <= qc /\ arr[qc] >= Pivot
    BY <1>2 DEF Down, qb, qc
  <1>6. arr[qb] > Pivot
    BY <1>1, <1>2, <1>5 DEF IInv, PivotInv, qb, qc
  <1> HIDE DEF e, qa, qb, qc, qd
  <1>7. /\ qc \in DOMAIN arr /\ qd \in DOMAIN arr /\ qc \in lo..(e - 1) /\ qd \in lo..(e - 1)
        /\ arr[qc] \in Int /\ arr[qb] \in Int
    BY <1>2, <1>3, <1>5 DEF InRow
  <1>8. CASE arr[qc] = Pivot
    <2>1. arr' = Exch(arr, qc, qd) /\ part' = [part EXCEPT !.pc = part.pc - 1, !.pd = part.pd - 1]
      BY <1>8 DEF Down, qc, qd
    <2>2. /\ part' \in Parts
          /\ part'.pv = part.pv /\ part'.pa = qa /\ part'.pb = qb
          /\ part'.pc = qc - 1 /\ part'.pd = qd - 1
      <3> DEFINE x == part.pc - 1
                 y == part.pd - 1
      <3>1. x \in Int /\ y \in Int /\ part' = [part EXCEPT !.pc = x, !.pd = y]
        <4>1. part.pc \in Int /\ part.pd \in Int
          BY <1>4 DEF Parts
        <4>2. x \in Int /\ y \in Int
          BY <4>1
        <4>3. part' = [part EXCEPT !.pc = x, !.pd = y]
          BY <2>1
        <4> QED BY <4>2, <4>3
      <3> HIDE DEF x, y
      <3>2. /\ part' \in Parts /\ part'.pv = part.pv /\ part'.pa = part.pa /\ part'.pb = part.pb
            /\ part'.pc = x /\ part'.pd = y
        BY <1>4, <3>1 DEF Parts
      <3> QED BY <3>2 DEF x, y, qa, qb, qc, qd
    <2>3. Rearranged(arr, arr', Segment(Head(todo)))
      BY <1>2, <1>7, <2>1, ExchMoves
    <2>4. qb < qc /\ lo <= qb /\ qc <= qd
      <3>1. qb # qc
        BY <1>2, <1>6, <1>7, <1>8
      <3> QED BY <1>2, <1>3, <1>5, <3>1 DEF InRow
    <2>5. arr'[lo] = arr[lo] /\ arr'[qb] = arr[qb]
      <3>1. lo # qc /\ lo # qd /\ qb # qc /\ qb # qd /\ qb \in DOMAIN arr
        BY <1>2, <1>7, <2>4
      <3> QED BY <1>2, <1>7, <2>1, <3>1 DEF Exch
    <2>6. Pivot' = Pivot /\ (~direct => part'.pv = lo)
      BY <1>1, <2>2, <2>5, PivotStays
    <2>7. Classes(arr', Pivot', lo, e, qa, qb, qc - 1, qd - 1)
      BY <1>2, <1>3, <1>5, <1>8, <2>1, <2>6, DownStep
    <2>8. InRow(lo, e, qa, qb, qc - 1, qd - 1)
      BY <1>2, <1>3, <1>5, <2>4 DEF InRow
    <2> QED BY <1>1, <1>2, <1>6, <2>2, <2>3, <2>5, <2>6, <2>7, <2>8, Onwards DEF e
  <1>9. CASE arr[qc] > Pivot
    <2>1. arr' = arr /\ part' = [part EXCEPT !.pc = @ - 1]
      <3>1. arr[qc] # Pivot
        BY <1>2, <1>7, <1>9
      <3> QED BY <3>1 DEF Down, qc
    <2>2. /\ part' \in Parts
          /\ part'.pv = part.pv /\ part'.pa = qa /\ part'.pb = qb
          /\ part'.pc = qc - 1 /\ part'.pd = qd
      BY <1>4, <2>1 DEF qa, qb, qc, qd, Parts
    <2>3. Rearranged(arr, arr', Segment(Head(todo)))
      BY <1>2, <2>1, Still
    <2>4. Pivot' = Pivot /\ (~direct => part'.pv = lo)
      BY <1>1, <2>1, <2>2, PivotStays
    <2>5. Classes(arr', Pivot', lo, e, qa, qb, qc - 1, qd)
      BY <1>2, <1>3, <1>5, <1>9, <2>1, <2>4, DownStep
    <2>6. InRow(lo, e, qa, qb, qc - 1, qd)
      BY <1>2, <1>3, <1>5 DEF InRow
    <2> QED BY <1>1, <1>2, <1>6, <2>1, <2>2, <2>3, <2>4, <2>5, <2>6, Onwards DEF e
  <1> QED BY <1>2, <1>5, <1>7, <1>8, <1>9

\* The greater and the lesser element change sides.
LEMMA CrossKeeps == IInv /\ Cross => IInv'
  <1> SUFFICES ASSUME IInv, Cross PROVE IInv'
    OBVIOUS
  <1>1. /\ pc = "down" /\ pc \in {"up", "down"} /\ UNCHANGED <<input, direct, todo>>
        /\ pc' = "up"
    BY DEF Cross
  <1> DEFINE qa == part.pa
             qb == part.pb
             qc == part.pc
             qd == part.pd
             e == lo + n
  <1>2. /\ todo # <<>> /\ Size \in Nat /\ arr \in [0..(Size - 1) -> Int]
        /\ lo \in Nat /\ n \in Nat /\ n >= 7 /\ e <= Size /\ e \in Nat
        /\ Segment(Head(todo)) = lo..(e - 1) /\ lo \in DOMAIN arr
        /\ Pivot \in Int /\ (~direct => Pivot = arr[lo])
        /\ qa \in Int /\ qb \in Int /\ qc \in Int /\ qd \in Int
    BY <1>1, Underway DEF Parts
  <1>3. InRow(lo, e, qa, qb, qc, qd) /\ Classes(arr, Pivot, lo, e, qa, qb, qc, qd)
    BY <1>1, Underway
  <1>4. part \in Parts
    BY <1>1, Underway
  <1>5. qb <= qc /\ arr[qc] < Pivot
    BY <1>2 DEF Cross, qb, qc
  <1>6. arr[qb] > Pivot
    BY <1>1, <1>2, <1>5 DEF IInv, PivotInv, qb, qc
  <1>7. arr' = Exch(arr, qb, qc) /\ part' = [part EXCEPT !.pb = part.pb + 1, !.pc = part.pc - 1]
    BY DEF Cross, qb, qc
  <1>8. /\ part' \in Parts
        /\ part'.pv = part.pv /\ part'.pa = qa /\ part'.pb = qb + 1
        /\ part'.pc = qc - 1 /\ part'.pd = qd
    <2> DEFINE x == part.pb + 1
               y == part.pc - 1
    <2>1. x \in Int /\ y \in Int /\ part' = [part EXCEPT !.pb = x, !.pc = y]
      <3>1. part.pb \in Int /\ part.pc \in Int
        BY <1>4 DEF Parts
      <3>2. x \in Int /\ y \in Int
        BY <3>1
      <3>3. part' = [part EXCEPT !.pb = x, !.pc = y]
        BY <1>7
      <3> QED BY <3>2, <3>3
    <2> HIDE DEF x, y
    <2>2. /\ part' \in Parts /\ part'.pv = part.pv /\ part'.pa = part.pa /\ part'.pb = x
          /\ part'.pc = y /\ part'.pd = part.pd
      BY <1>4, <2>1 DEF Parts
    <2> QED BY <2>2 DEF x, y, qa, qb, qc, qd
  <1> HIDE DEF e, qa, qb, qc, qd
  <1>9. /\ qb \in DOMAIN arr /\ qc \in DOMAIN arr /\ qb \in lo..(e - 1) /\ qc \in lo..(e - 1)
    BY <1>2, <1>3, <1>5 DEF InRow
  <1>10. Rearranged(arr, arr', Segment(Head(todo)))
    BY <1>2, <1>7, <1>9, ExchMoves
  <1>11. qb < qc /\ Classes(Exch(arr, qb, qc), Pivot, lo, e, qa, qb + 1, qc - 1, qd)
    BY <1>2, <1>3, <1>5, <1>6, CrossStep
  <1>12. ~direct => arr'[lo] = arr[lo]
    <2> SUFFICES ASSUME ~direct PROVE arr'[lo] = arr[lo]
      OBVIOUS
    <2>1. Pivot = arr[lo] /\ qb # lo /\ qc # lo
      BY <1>2, <1>5, <1>6
    <2> QED BY <1>2, <1>7, <1>9, <2>1 DEF Exch
  <1>13. Pivot' = Pivot /\ (~direct => part'.pv = lo)
    BY <1>1, <1>8, <1>12, PivotStays
  <1>14. Classes(arr', Pivot', lo, e, qa, qb + 1, qc - 1, qd)
    BY <1>7, <1>11, <1>13
  <1>15. InRow(lo, e, qa, qb + 1, qc - 1, qd)
    BY <1>2, <1>3, <1>11 DEF InRow
  <1> QED BY <1>1, <1>2, <1>8, <1>10, <1>13, <1>14, <1>15, Onwards DEF e

\* The swaps that end a partition leave lesser, equal and greater elements in
\* this order.
LEMMA Gathered ==
  ASSUME IInv, Gather
  PROVE  LET less == part.pb - part.pa
             greater == part.pd - part.pc
             e == lo + n
         IN  /\ Rearranged(arr, arr', Segment(Head(todo)))
             /\ less \in Nat /\ greater \in Nat /\ less + greater <= n
             /\ Lessers(arr', Pivot, lo, lo + less)
             /\ Equals(arr', Pivot, lo + less, e - greater)
             /\ Greaters(arr', Pivot, e - greater, e)
  <1> DEFINE qa == part.pa
             qb == part.pb
             qc == part.pc
             qd == part.pd
             e == lo + n
             val == Pivot
             s == min(qa - lo, qb - qa)
             t == min(qd - qc, e - qd - 1)
             mid == VecSwap(arr, lo, qb - s, s)
             out == VecSwap(mid, qb, e - t, t)
  <1>1. pc \in {"up", "down"} /\ qb > qc
    BY DEF Gather
  <1>2. /\ Size \in Nat /\ arr \in [0..(Size - 1) -> Int]
        /\ lo \in Nat /\ n \in Nat /\ n >= 7 /\ e <= Size /\ e \in Nat
        /\ Segment(Head(todo)) = lo..(e - 1) /\ val \in Int
        /\ qa \in Int /\ qb \in Int /\ qc \in Int /\ qd \in Int
    BY <1>1, Underway DEF Parts
  <1>3. InRow(lo, e, qa, qb, qc, qd) /\ Classes(arr, val, lo, e, qa, qb, qc, qd)
    BY <1>1, Underway
  <1>4. arr' = out
    <2>1. arr' = LET greater == part.pd - part.pc
                     end     == lo + n
                     left    == min(part.pa - lo, Less)
                     right   == min(greater, end - part.pd - 1)
                 IN  VecSwap(VecSwap(arr, lo, part.pb - left, left),
                             part.pb, end - right, right)
      BY DEF Gather
    <2> QED BY <2>1 DEF Less
  <1>5. s \in Nat /\ IsLesser(s, qa - lo, qb - qa)
    <2>1. qa - lo \in Nat /\ qb - qa \in Nat
      BY <1>2, <1>3 DEF InRow
    <2> QED BY <2>1, Lesser DEF IsLesser
  <1>6. t \in Nat /\ IsLesser(t, qd - qc, e - qd - 1)
    <2>1. qd - qc \in Nat /\ e - qd - 1 \in Nat
      BY <1>2, <1>3 DEF InRow
    <2> QED BY <2>1, Lesser DEF IsLesser
  <1> HIDE DEF qa, qb, qc, qd, e, val, s, t, mid, out
  <1>7. /\ qc = qb - 1 /\ qb \in Nat /\ lo <= qa /\ qa <= qb /\ qb <= qd + 1 /\ qd < e
        /\ qb <= Size /\ qb <= e
    BY <1>1, <1>2, <1>3 DEF InRow
  <1>8. /\ Rearranged(arr, mid, lo..(qb - 1))
        /\ Lessers(mid, val, lo, lo + (qb - qa))
        /\ Equals(mid, val, lo + (qb - qa), qb)
    <2>1. Equals(arr, val, lo, qa) /\ Lessers(arr, val, qa, qb)
      BY <1>3 DEF Classes, Equals, Lessers
    <2>2. mid = VecSwap(arr, lo, qb - s, s)
      BY DEF mid
    <2> QED BY <1>2, <1>5, <1>7, <2>1, <2>2, FrontSwap
  <1>9. /\ mid \in [0..(Size - 1) -> Int]
        /\ \A i \in qb..(Size - 1) : mid[i] = arr[i]
    <2> DEFINE H == lo..(qb - 1)
    <2>0. DOMAIN arr = 0..(Size - 1)
      BY <1>2
    <2>1. Rearranged(arr, mid, H)
      BY <1>8
    <2> HIDE DEF H
    <2>2. /\ DOMAIN mid = DOMAIN arr
          /\ \A i \in DOMAIN arr \ H : mid[i] = arr[i]
          /\ \A i \in DOMAIN arr : i \in H => \E k \in DOMAIN arr : mid[i] = arr[k]
      BY <2>1, Within
    <2>3. \A i \in 0..(Size - 1) : mid[i] \in Int
      BY <1>2, <2>0, <2>2
    <2>4. mid = [i \in DOMAIN mid |-> mid[i]]
      BY <1>8 DEF Rearranged
    <2>5. \A i \in qb..(Size - 1) : i \in DOMAIN arr \ H
      BY <1>7, <2>0 DEF H
    <2> QED BY <2>0, <2>2, <2>3, <2>4, <2>5
  <1>10. /\ Rearranged(mid, out, qb..(e - 1))
         /\ Equals(out, val, qb, qb + (e - (qd + 1)))
         /\ Greaters(out, val, qb + (e - (qd + 1)), e)
    <2>1. \A i \in qb..qd : i \in qb..(Size - 1) /\ i \in (qc + 1)..qd
      BY <1>2, <1>7
    <2>2. \A i \in (qd + 1)..(e - 1) : i \in qb..(Size - 1)
      BY <1>2, <1>7
    <2>3. Greaters(mid, val, qb, qd + 1)
      <3>1. \A i \in qb..qd : mid[i] > val
        BY <1>3, <1>9, <2>1 DEF Classes
      <3> QED BY <1>2, <3>1 DEF Greaters
    <2>4. Equals(mid, val, qd + 1, e)
      BY <1>3, <1>9, <2>2 DEF Classes, Equals
    <2>5. IsLesser(t, (qd + 1) - qb, e - (qd + 1))
      <3>1. (qd + 1) - qb = qd - qc /\ e - (qd + 1) = e - qd - 1
        BY <1>2, <1>7
      <3> QED BY <1>6, <3>1
    <2>6. out = VecSwap(mid, qb, e - t, t)
      BY DEF out
    <2>7. e \in Int
      BY <1>2
    <2> QED BY <1>2, <1>6, <1>7, <1>9, <2>3, <2>4, <2>5, <2>6, <2>7, BackSwap
  <1>11. Rearranged(arr, out, lo..(e - 1))
    <2>1. lo..(qb - 1) \subseteq lo..(e - 1) /\ qb..(e - 1) \subseteq lo..(e - 1)
      BY <1>2, <1>7
    <2>2. Rearranged(arr, mid, lo..(e - 1))
      BY <1>8, <2>1, Wider
    <2>3. Rearranged(mid, out, lo..(e - 1))
      BY <1>10, <2>1, Wider
    <2> QED BY <2>2, <2>3, Twice
  <1>12. \A i \in lo..(qb - 1) : out[i] = mid[i]
    <2>1. \A i \in lo..(qb - 1) : i \in DOMAIN mid \ qb..(e - 1)
      BY <1>2, <1>7, <1>9
    <2> DEFINE S == qb..(e - 1)
    <2>2. Rearranged(mid, out, S)
      BY <1>10
    <2> HIDE DEF S
    <2>3. \A i \in DOMAIN mid \ S : out[i] = mid[i]
      BY <2>2, Within, ZenonT(30)
    <2> QED BY <2>1, <2>3 DEF S
  <1>13. /\ qb - qa \in Nat /\ qd - qc \in Nat /\ (qb - qa) + (qd - qc) <= n
    BY <1>2, <1>7 DEF e
  <1>14. Lessers(out, val, lo, lo + (qb - qa))
    <2> SUFFICES ASSUME NEW i \in lo..((lo + (qb - qa)) - 1) PROVE out[i] < val
      BY DEF Lessers
    <2>1. mid[i] < val
      BY <1>8 DEF Lessers
    <2>2. i \in lo..(qb - 1)
      BY <1>2, <1>7
    <2> QED BY <1>12, <2>1, <2>2
  <1>15. Equals(out, val, lo + (qb - qa), e - (qd - qc))
    <2> SUFFICES ASSUME NEW i \in (lo + (qb - qa))..(e - (qd - qc) - 1) PROVE out[i] = val
      BY DEF Equals
    <2>1. CASE i \in (lo + (qb - qa))..(qb - 1)
      <3>1. mid[i] = val
        BY <1>8, <2>1 DEF Equals
      <3>2. i \in lo..(qb - 1)
        BY <1>2, <1>7, <2>1
      <3> QED BY <1>12, <3>1, <3>2
    <2>2. CASE i \in qb..((qb + (e - (qd + 1))) - 1)
      BY <1>10, <2>2 DEF Equals
    <2>3. i \in (lo + (qb - qa))..(qb - 1) \/ i \in qb..((qb + (e - (qd + 1))) - 1)
      BY <1>2, <1>7
    <2> QED BY <2>1, <2>2, <2>3
  <1>16. Greaters(out, val, e - (qd - qc), e)
    <2>1. qb + (e - (qd + 1)) = e - (qd - qc)
      BY <1>2, <1>7
    <2> QED BY <1>10, <2>1
  <1> QED BY <1>2, <1>4, <1>11, <1>13, <1>14, <1>15, <1>16 DEF qa, qb, qc, qd, e, val

\* The equal elements meet in the middle: lesser ones before, greater ones behind, each
\* side a segment of its own that is still to be sorted.
LEMMA GatherKeeps == IInv /\ Gather => IInv'
  <1> SUFFICES ASSUME IInv, Gather PROVE IInv'
    OBVIOUS
  <1> DEFINE less == part.pb - part.pa
             greater == part.pd - part.pc
             e == lo + n
             left == [lo |-> lo, n |-> less]
             right == [lo |-> e - greater, n |-> greater]
             rest == Tail(todo)
             behind == Calls(right) \o rest
             H == Segment(Head(todo))
  <1>1. /\ pc = "down" /\ pc' = "call" /\ UNCHANGED <<input, direct, part>>
        /\ todo' = Calls(left) \o behind
    BY DEF Gather, Less
  <1>2. /\ todo # <<>> /\ ArrInv /\ TodoInv /\ OrderedAcross /\ SameElements /\ part \in Parts
    BY <1>1 DEF IInv, PcInv
  <1>3. /\ lo \in Nat /\ n \in Nat /\ e \in Nat /\ e <= Size /\ Size \in Nat
        /\ H = lo..(e - 1) /\ Ahead(rest, e, Size) /\ Pivot \in Int
    <2>1. lo \in Nat /\ n \in Nat /\ lo + n <= Size /\ Segment(Head(todo)) = lo..(lo + n - 1)
      BY <1>2, Current
    <2>2. Ahead(Tail(todo), lo + n, Size)
      BY <1>2, First DEF ArrInv, TodoInv, End, lo, n
    <2>3. Pivot \in Int
      BY <1>1, Underway
    <2> QED BY <1>2, <2>1, <2>2, <2>3 DEF ArrInv
  <1>4. /\ Rearranged(arr, arr', H)
        /\ less \in Nat /\ greater \in Nat /\ less + greater <= n
        /\ Lessers(arr', Pivot, lo, lo + less)
        /\ Equals(arr', Pivot, lo + less, e - greater)
        /\ Greaters(arr', Pivot, e - greater, e)
    BY Gathered
  <1>5. /\ left \in Segments /\ left.lo = lo /\ End(left) = lo + less
        /\ Segment(left) = lo..((lo + less) - 1)
    BY <1>3, <1>4 DEF Segments, End, Segment
  <1>6. /\ right \in Segments /\ right.lo = e - greater /\ End(right) = e
        /\ Segment(right) = (e - greater)..(e - 1)
    <2>1. e - greater \in Nat /\ (e - greater) + greater = e
      BY <1>3, <1>4
    <2> HIDE DEF e
    <2> QED BY <1>4, <2>1 DEF Segments, End, Segment
  <1>7. lo + less <= e - greater /\ e - greater \in Nat /\ lo + less \in Nat
    BY <1>3, <1>4
  <1> HIDE DEF less, greater, e, left, right, rest, behind, H
  <1>8. /\ Ahead(behind, e - greater, Size)
        /\ \A i, j : Together(i, j, rest) => Together(i, j, behind)
        /\ \A i, j \in Segment(right) : i # j => Together(i, j, behind)
    <2>1. End(right) <= e
      BY <1>3, <1>6
    <2>2. /\ Ahead(Calls(right) \o rest, right.lo, Size)
          /\ \A i, j : Together(i, j, rest) => Together(i, j, Calls(right) \o rest)
          /\ \A i, j \in Segment(right) : i # j => Together(i, j, Calls(right) \o rest)
      BY <1>3, <1>6, <2>1, CallBefore
    <2> QED BY <1>6, <2>2 DEF behind
  <1>9. /\ Ahead(todo', lo, Size)
        /\ \A i, j : Together(i, j, behind) => Together(i, j, todo')
        /\ \A i, j \in Segment(left) : i # j => Together(i, j, todo')
    <2>1. e - greater <= Size /\ End(left) <= e - greater
      BY <1>3, <1>4, <1>5, <1>7
    <2>2. /\ Ahead(Calls(left) \o behind, left.lo, Size)
          /\ \A i, j : Together(i, j, behind) => Together(i, j, Calls(left) \o behind)
          /\ \A i, j \in Segment(left) : i # j => Together(i, j, Calls(left) \o behind)
      BY <1>3, <1>5, <1>7, <1>8, <2>1, CallBefore
    <2> QED BY <1>1, <1>5, <2>2
  <1>10. ArrInv' /\ SameElements' /\ Size' = Size
    BY <1>1, <1>2, <1>4, Move DEF Size, H
  <1>11. TodoInv'
    <2>1. Ahead(todo', 0, Size)
      BY <1>3, <1>9, AheadOfLess
    <2> QED BY <1>10, <2>1 DEF TodoInv
  <1>12. ASSUME NEW i \in 0..(Size - 1), NEW j \in 0..(Size - 1), i < j
         PROVE  arr'[i] <= arr'[j] \/ Together(i, j, todo')
    <2>1. CASE {i, j} \subseteq H
      <3>1. i \in lo..(e - 1) /\ j \in lo..(e - 1)
        BY <1>3, <2>1
      <3>2. arr'[i] \in Int /\ arr'[j] \in Int
        BY <1>10 DEF ArrInv
      <3>3. \A k \in lo..(e - 1) :
               \/ k \in Segment(left) /\ arr'[k] < Pivot
               \/ k \in (lo + less)..((e - greater) - 1) /\ arr'[k] = Pivot
               \/ k \in Segment(right) /\ arr'[k] > Pivot
        <4> TAKE k \in lo..(e - 1)
        <4>1. \/ k \in lo..((lo + less) - 1)
              \/ k \in (lo + less)..((e - greater) - 1)
              \/ k \in (e - greater)..(e - 1)
          BY <1>3, <1>7
        <4> QED BY <1>4, <1>5, <1>6, <4>1 DEF Lessers, Equals, Greaters
      <3>4. CASE i \in Segment(left) /\ j \in Segment(left)
        BY <1>9, <1>12, <3>4
      <3>5. CASE i \in Segment(right) /\ j \in Segment(right)
        BY <1>8, <1>9, <1>12, <3>5
      <3>6. CASE i \notin Segment(left) /\ j \notin Segment(right)
        <4>1. arr'[i] = Pivot \/ i \in Segment(right)
          BY <3>1, <3>3, <3>6
        <4>2. i \notin Segment(right)
          BY <1>3, <1>6, <1>7, <1>12, <3>1, <3>6
        <4>3. j \notin Segment(left)
          BY <1>3, <1>5, <1>7, <1>12, <3>1, <3>6
        <4>4. arr'[j] = Pivot
          BY <3>1, <3>3, <3>6, <4>3
        <4> QED BY <1>3, <3>2, <4>1, <4>2, <4>4
      <3>7. CASE i \in Segment(left) /\ j \notin Segment(left)
        <4>1. arr'[i] < Pivot \/ i \notin Segment(left) \/ i \in (lo + less)..((e - greater) - 1)
                \/ i \in Segment(right)
          BY <3>1, <3>3
        <4>2. arr'[i] < Pivot
          BY <1>3, <1>5, <1>6, <1>7, <3>7, <4>1
        <4>3. arr'[j] = Pivot \/ arr'[j] > Pivot
          BY <3>1, <3>3, <3>7
        <4> QED BY <1>3, <3>2, <4>2, <4>3
      <3>8. CASE i \notin Segment(right) /\ j \in Segment(right)
        <4>1. arr'[i] = Pivot \/ arr'[i] < Pivot
          BY <3>1, <3>3, <3>8
        <4>2. arr'[j] > Pivot
          BY <1>3, <1>5, <1>6, <1>7, <3>1, <3>3, <3>8
        <4> QED BY <1>3, <3>2, <4>1, <4>2
      <3> QED BY <3>4, <3>5, <3>6, <3>7, <3>8
    <2>2. CASE ~({i, j} \subseteq H)
      <3>1. arr'[i] <= arr'[j] \/ Together(i, j, rest)
        BY <1>2, <1>4, <1>12, <2>2, KeepsOrder DEF H, rest
      <3> QED BY <1>8, <1>9, <3>1
    <2> QED BY <2>1, <2>2
  <1>13. OrderedAcross'
    <2>1. DOMAIN arr' = 0..(Size - 1)
      BY <1>10 DEF ArrInv
    <2> QED BY <1>12, <2>1 DEF OrderedAcross, Together
  <1>14. PcInv' /\ InsertInv' /\ PivotInv' /\ PointersInOrder' /\ Partitioned'
    BY <1>1, <1>2 DEF PcInv, InsertInv, PivotInv, PointersInOrder, Partitioned
  <1> QED BY <1>10, <1>11, <1>13, <1>14 DEF IInv

-----------------------------------------------------------------------------
(* The theorems. *)

\* Every step keeps the invariant.
LEMMA StepHolds == IInv /\ [Next]_vars => IInv'
  <1>1. CASE UNCHANGED vars
    <2> SUFFICES ASSUME IInv, UNCHANGED vars PROVE IInv'
      BY <1>1
    <2>1. ArrInv' /\ TodoInv' /\ PcInv' /\ InsertInv' /\ PivotInv'
      BY DEF IInv, vars, ArrInv, TodoInv, PcInv, InsertInv, PivotInv, Size, lo, n, Pivot
    <2>2. PointersInOrder' /\ Partitioned' /\ OrderedAcross' /\ SameElements'
      BY DEF IInv, vars, PointersInOrder, Partitioned, OrderedAcross, SameElements,
             lo, n, Pivot
    <2> QED BY <2>1, <2>2 DEF IInv
  <1> QED BY <1>1, StartInsertionKeeps, InsertKeeps, StartPartitionKeeps, UpKeeps, DownKeeps,
             CrossKeeps, GatherKeeps DEF Next

\* The inductive invariant, whatever the array and whichever way the pivot is kept.
THEOREM Invariant == Spec => []IInv
  BY InitHolds, StepHolds, PTL DEF Spec

\* pa, pb, pc and pd stay in their order and in the segment: the loops of a
\* partition neither read nor swap beyond its ends, however equal its elements are.
THEOREM PointersStay == Spec => []PointersInOrder
  <1>1. IInv => PointersInOrder
    BY DEF IInv
  <1> QED BY <1>1, Invariant, PTL

\* The elements passed are equal, lesser, greater and equal to a pivot that does
\* not change, copied or moved to the front of the elements being moved.
THEOREM PartitionTrue == Spec => []Partitioned
  <1>1. IInv => Partitioned
    BY DEF IInv
  <1> QED BY <1>1, Invariant, PTL

\* Elements that no remaining call sorts together are in order.
THEOREM OrderedThroughout == Spec => []OrderedAcross
  <1>1. IInv => OrderedAcross
    BY DEF IInv
  <1> QED BY <1>1, Invariant, PTL

\* Sinks, exchanges and block swaps lose and double no element.
THEOREM NothingLost == Spec => []SameElements
  <1>1. IInv => SameElements
    BY DEF IInv
  <1> QED BY <1>1, Invariant, PTL

Sorted == \A i, j \in DOMAIN arr : i < j => arr[i] <= arr[j]

\* When qsort returns, with no call left to make, the array is sorted.
THEOREM SortedAtLast == Spec => [](todo = <<>> => Sorted)
  <1>1. IInv => (todo = <<>> => Sorted)
    <2> SUFFICES ASSUME IInv, todo = <<>> PROVE Sorted
      OBVIOUS
    <2>1. DOMAIN todo = {}
      BY EmptySeq
    <2> QED BY <2>1 DEF IInv, OrderedAcross, Sorted
  <1> QED BY <1>1, Invariant, PTL
=============================================================================
