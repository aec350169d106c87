----------------------------- MODULE ListProofs -----------------------------
(***************************************************************************)
(* The pointers of list.h stay well linked, and behave as the sequences of *)
(* ListSpec, for every number of heads and entries.                        *)
(*                                                                         *)
(* WellLinked is not inductive as it stands.  Splicing a list into itself  *)
(* would break it, and only SameList says that pos is not on the list      *)
(* being spliced.  And list_replace breaks it on an entry that is its own  *)
(* neighbour, in a ring that has no head.  That there is no such ring is   *)
(* Ascending: the entries can be ranked so that a list climbs from its     *)
(* first entry to its last, which no ring of entries does.                 *)
(*                                                                         *)
(* For the sequences the invariant is stated the other way round: some     *)
(* sequences are such that the pointers lead along them (Held).  Every     *)
(* function keeps that, with the sequences that its comment names, and a   *)
(* walk finds them (WalkOfList).                                           *)
(***************************************************************************)
EXTENDS ListRefinement, SequenceTheorems, FiniteSetTheorems,
        WellFoundedInduction, TLAPS

\* The rank r increases along every list, from an entry to the next.
Climbs(r) == \A e \in Entries :
                on[e] # NULL /\ next[e] \in Entries => r[e] < r[next[e]]

\* No ring of entries is cut off from its head: list_for_each comes back.
Ascending == \E m \in Nat : \E r \in [Entries -> 0..m] : Climbs(r)

IInv == TypeOK /\ WellLinked /\ SameList /\ Ascending

USE DEF Cells, Contract_Linked, Contract_Free, Contract_Unused, Ready,
        OwnerOf, Members

\* To show Ascending in the next state, give a rank for it.
LEMMA NextRank ==
  ASSUME NEW m \in Nat, NEW r \in [Entries -> 0..m], Climbs(r)'
  PROVE  Ascending'
  BY DEF Ascending

\* Initially only self-linked heads are in use.
LEMMA InitIInv == Init => IInv
  <1> SUFFICES ASSUME Init PROVE IInv
    OBVIOUS
  <1>1. TypeOK /\ WellLinked /\ SameList
    BY ListAssumption DEF Init, TypeOK, WellLinked, SameList
  <1>2. Climbs([e \in Entries |-> 0])
    BY DEF Init, Climbs
  <1>3. Ascending
    BY <1>2 DEF Ascending
  <1> QED BY <1>1, <1>3 DEF IInv

\* Initialising a head that has no entries concerns that head alone: it is
\* nobody else's neighbour.
LEMMA InitStep ==
  ASSUME IInv, NEW h \in Heads, list_init(h)
  PROVE  IInv'
  <1>1. TypeOK'
    BY ListAssumption DEF IInv, TypeOK, list_init
  <1>2. WellLinked' /\ SameList'
    BY ListAssumption DEF IInv, TypeOK, WellLinked, SameList, list_init
  <1>3. Ascending'
    BY ListAssumption DEF IInv, TypeOK, Ascending, Climbs, list_init
  <1> QED BY <1>1, <1>2, <1>3 DEF IInv

\* A rank for the lists once e has come to stand right after pos: below all
\* others when pos is a head, else in the room that doubling makes above pos.
RankWith(r, pos, e) ==
  [c \in Entries |-> IF pos \in Heads
                       THEN IF c = e THEN 0 ELSE r[c] + 1
                       ELSE IF c = e THEN 2 * r[pos] + 1 ELSE 2 * r[c]]

\* Insertion after a cell in use.
LEMMA AddStep ==
  ASSUME IInv, NEW pos \in Cells, NEW e \in Entries, list_add(pos, e)
  PROVE  IInv'
  <1>1. TypeOK'
    BY ListAssumption DEF IInv, TypeOK, list_add
  <1>2. WellLinked' /\ SameList'
    BY ListAssumption DEF IInv, TypeOK, WellLinked, SameList, list_add
  <1>3. Ascending'
    <2>1. PICK m \in Nat : \E r \in [Entries -> 0..m] : Climbs(r)
      BY DEF IInv, Ascending
    <2>2. PICK r \in [Entries -> 0..m] : Climbs(r)
      BY <2>1
    <2>3. RankWith(r, pos, e) \in [Entries -> 0..(2 * m + 1)]
      BY <2>2, ListAssumption DEF RankWith
    <2>4. Climbs(RankWith(r, pos, e))'
      <3> SUFFICES ASSUME NEW c \in Entries, on'[c] # NULL, next'[c] \in Entries
                   PROVE  RankWith(r, pos, e)[c] < RankWith(r, pos, e)[next'[c]]
        BY DEF Climbs
      <3>1. /\ pos # e /\ next'[e] = next[pos] /\ next'[pos] = e
            /\ pos \in Entries => on[pos] # NULL
            /\ next[pos] # e
        BY ListAssumption DEF IInv, TypeOK, WellLinked, list_add
      <3>2. c # e /\ c # pos =>
              on[c] # NULL /\ next'[c] = next[c] /\ next[c] # e
        BY ListAssumption DEF IInv, TypeOK, WellLinked, list_add
      <3> QED BY <2>2, <3>1, <3>2, ListAssumption DEF Climbs, RankWith
    <2> QED BY <2>3, <2>4, NextRank
  <1> QED BY <1>1, <1>2, <1>3 DEF IInv

\* Insertion before a cell in use: after the cell that precedes it.
LEMMA AddTailStep ==
  ASSUME IInv, NEW pos \in Cells, NEW e \in Entries, list_add_tail(pos, e)
  PROVE  IInv'
  <1>1. TypeOK'
    BY ListAssumption DEF IInv, TypeOK, list_add_tail
  <1>2. WellLinked' /\ SameList'
    BY ListAssumption DEF IInv, TypeOK, WellLinked, SameList, list_add_tail
  <1>3. Ascending'
    <2>1. PICK m \in Nat : \E r \in [Entries -> 0..m] : Climbs(r)
      BY DEF IInv, Ascending
    <2>2. PICK r \in [Entries -> 0..m] : Climbs(r)
      BY <2>1
    <2>3. PICK q \in Cells : /\ q = prev[pos] /\ Contract_Linked(q)
                             /\ next[q] = pos /\ q # e /\ pos # e
      BY ListAssumption DEF IInv, WellLinked, list_add_tail
    <2>4. RankWith(r, q, e) \in [Entries -> 0..(2 * m + 1)]
      BY <2>2, <2>3, ListAssumption DEF RankWith
    <2>5. Climbs(RankWith(r, q, e))'
      <3> SUFFICES ASSUME NEW c \in Entries, on'[c] # NULL, next'[c] \in Entries
                   PROVE  RankWith(r, q, e)[c] < RankWith(r, q, e)[next'[c]]
        BY DEF Climbs
      <3>1. next'[e] = pos /\ next'[q] = e
        BY <2>3, ListAssumption DEF IInv, TypeOK, list_add_tail
      <3>2. c # e /\ c # q =>
              on[c] # NULL /\ next'[c] = next[c] /\ next[c] # e
        BY <2>3, ListAssumption DEF IInv, TypeOK, WellLinked, list_add_tail
      <3> QED BY <2>2, <2>3, <3>1, <3>2, ListAssumption DEF Climbs, RankWith
    <2> QED BY <2>4, <2>5, NextRank
  <1> QED BY <1>1, <1>2, <1>3 DEF IInv

\* Substituting a free entry for one that is on a list.  The only cells whose
\* pointers matter and change are new and the two neighbours of old.
LEMMA ReplaceStep ==
  ASSUME IInv, NEW old \in Entries, NEW new \in Entries,
         list_replace(old, new)
  PROVE  IInv'
  <1> DEFINE n == next[old]
             p == prev[old]
  <1>1. PICK m \in Nat : \E r \in [Entries -> 0..m] : Climbs(r)
    BY DEF IInv, Ascending
  <1>2. PICK r \in [Entries -> 0..m] : Climbs(r)
    BY <1>1
  <1>3. /\ n \in Cells /\ Contract_Linked(n) /\ prev[n] = old
        /\ p \in Cells /\ Contract_Linked(p) /\ next[p] = old
        /\ n # new /\ p # new /\ old # new
        /\ OwnerOf(n) = on[old] /\ OwnerOf(p) = on[old]
    BY ListAssumption DEF IInv, TypeOK, WellLinked, SameList, list_replace
  <1>4. n # old /\ p # old
    BY <1>2, <1>3 DEF Climbs, list_replace
  <1>5. TypeOK'
    BY <1>3, ListAssumption DEF IInv, TypeOK, list_replace
  <1>6. WellLinked'
    BY <1>3, <1>4, ListAssumption DEF IInv, TypeOK, WellLinked, list_replace
  <1>7. SameList'
    BY <1>3, <1>4, ListAssumption
    DEF IInv, TypeOK, WellLinked, SameList, list_replace
  <1>8. Ascending'
    <2> DEFINE s == [r EXCEPT ![new] = r[old]]
    <2>1. s \in [Entries -> 0..m]
      BY <1>2
    <2>2. Climbs(s)'
      <3> SUFFICES ASSUME NEW c \in Entries, on'[c] # NULL, next'[c] \in Entries
                   PROVE  s[c] < s[next'[c]]
        BY DEF Climbs
      <3>1. next'[new] = n /\ next'[p] = new
        BY <1>3, ListAssumption DEF IInv, TypeOK, list_replace
      <3>2. c # new /\ c # p =>
              on[c] # NULL /\ next'[c] = next[c] /\ next[c] # new
        BY <1>3, ListAssumption DEF IInv, TypeOK, WellLinked, list_replace
      <3>3. s[new] = r[old] /\ \A d \in Entries : d # new => s[d] = r[d]
        BY <1>2
      <3>4. CASE c = new
        BY <1>2, <1>3, <3>1, <3>3, <3>4 DEF Climbs, list_replace
      <3>5. CASE c # new /\ c = p
        BY <1>2, <1>3, <3>1, <3>3, <3>5, ListAssumption DEF Climbs, list_replace
      <3>6. CASE c # new /\ c # p
        BY <1>2, <3>2, <3>3, <3>6 DEF Climbs
      <3> QED BY <3>4, <3>5, <3>6
    <2> QED BY <2>1, <2>2, NextRank
  <1> QED BY <1>5, <1>6, <1>7, <1>8 DEF IInv

\* Unlinking an entry that is on a list.
LEMMA UnlinkStep ==
  ASSUME IInv, NEW e \in Entries, on[e] # NULL, Unlink(e),
         ret' \in Entries \cup {NULL}
  PROVE  IInv'
  <1>1. TypeOK'
    BY ListAssumption DEF IInv, TypeOK, Unlink
  <1>2. WellLinked' /\ SameList'
    BY ListAssumption DEF IInv, TypeOK, WellLinked, SameList, Unlink
  <1>3. Ascending'
    <2>1. PICK m \in Nat : \E r \in [Entries -> 0..m] : Climbs(r)
      BY DEF IInv, Ascending
    <2>2. PICK r \in [Entries -> 0..m] : Climbs(r)
      BY <2>1
    <2>3. Climbs(r)'
      <3> SUFFICES ASSUME NEW c \in Entries, on'[c] # NULL, next'[c] \in Entries
                   PROVE  r[c] < r[next'[c]]
        BY DEF Climbs
      <3>1. c # e /\ on[c] # NULL
        BY DEF IInv, TypeOK, Unlink
      <3>2. next'[c] = IF c = prev[e] THEN next[e] ELSE next[c]
        BY <3>1 DEF IInv, TypeOK, WellLinked, Unlink
      <3>3. c = prev[e] => next[c] = e
        BY ListAssumption DEF IInv, WellLinked
      <3> QED BY <2>2, <3>1, <3>2, <3>3 DEF Climbs
    <2> QED BY <2>2, <2>3, NextRank
  <1> QED BY <1>1, <1>2, <1>3 DEF IInv

\* Splitting a list after one of its cells.
LEMMA SplitStep ==
  ASSUME IInv, NEW h \in Heads, NEW to \in Heads, NEW pos \in Cells,
         list_split_after(h, pos, to)
  PROVE  IInv'
  <1>1. PICK m \in Nat : \E r \in [Entries -> 0..m] : Climbs(r)
    BY DEF IInv, Ascending
  <1>2. PICK r \in [Entries -> 0..m] : Climbs(r)
    BY <1>1
  <1>3. CASE next[pos] = h
    <2>1. TypeOK' /\ WellLinked' /\ SameList'
      BY <1>3, ListAssumption
      DEF IInv, TypeOK, WellLinked, SameList, list_split_after, Stretch
    <2>2. Climbs(r)'
      BY <1>2, <1>3, ListAssumption
      DEF IInv, TypeOK, Climbs, list_split_after, Stretch
    <2> QED BY <1>2, <2>1, <2>2, NextRank DEF IInv
  <1>4. CASE next[pos] # h
    <2> DEFINE n    == next[pos]
               last == prev[h]
    <2>1. PICK S \in SUBSET Members(h) :
             /\ Stretch(h, pos, S)
             /\ on' = [e \in Entries |-> IF e \in S THEN to ELSE on[e]]
      BY <1>4 DEF list_split_after
    <2>2. /\ n \in Entries /\ n \in S /\ on[n] = h /\ prev[n] = pos
          /\ last \in Entries /\ last \in S /\ on[last] = h /\ next[last] = h
          /\ pos \notin S /\ pos # last /\ h # to
      BY <1>4, <2>1, ListAssumption
      DEF IInv, TypeOK, WellLinked, list_split_after, Stretch
    <2>3. /\ next' = [next EXCEPT ![last] = to, ![to] = n, ![pos] = h]
          /\ prev' = [prev EXCEPT ![to] = last, ![n] = to, ![h] = pos]
          /\ ret' = ret
      BY <1>4 DEF list_split_after
    <2>4. pos # to
      BY DEF list_split_after
    <2>5. TypeOK'
      BY <2>1, <2>2, <2>3, ListAssumption DEF IInv, TypeOK
    <2>6. /\ \A c \in Entries : on'[c] # NULL <=> on[c] # NULL
          /\ \A c \in Heads : c # to => (next'[c] # NULL <=> next[c] # NULL)
          /\ next'[to] # NULL
      BY <2>1, <2>2, <2>3, <2>4, ListAssumption DEF IInv, TypeOK, list_split_after
    <2>7. \A c \in Cells : c # to /\ Contract_Linked(c) =>
              next[c] # to /\ prev[c] # to
      BY ListAssumption DEF IInv, TypeOK, WellLinked, SameList, list_split_after
    <2>8. WellLinked'
      BY <2>2, <2>3, <2>4, <2>6, <2>7, ListAssumption
      DEF IInv, TypeOK, WellLinked, list_split_after
    <2>9. SameList'
      BY <2>1, <2>2, <2>3, <2>4, <2>6, <2>7, ListAssumption
      DEF IInv, TypeOK, WellLinked, SameList, list_split_after, Stretch
    <2>10. Climbs(r)'
      BY <1>2, <2>2, <2>3, <2>4, <2>6, ListAssumption
      DEF IInv, TypeOK, WellLinked, Climbs
    <2> QED BY <1>2, <2>5, <2>8, <2>9, <2>10, NextRank DEF IInv
  <1> QED BY <1>3, <1>4

\* A rank for the lists once the entries of from stand right after pos: they
\* come first when pos is a head; else they fill a gap of m + 1 above pos.
RankSpliced(r, m, from, pos) ==
  [c \in Entries |->
     IF pos \in Heads
       THEN IF on[c] = from THEN r[c] ELSE r[c] + m + 1
       ELSE IF on[c] = from THEN r[c] + r[pos] + 1
            ELSE IF r[c] <= r[pos] THEN r[c] ELSE r[c] + m + 1]

\* Splicing the entries of from after a cell of another list.
LEMMA SpliceStep ==
  ASSUME IInv, NEW from \in Heads, NEW pos \in Cells,
         Ready(from), Contract_Linked(pos), OwnerOf(pos) # from,
         ~list_is_empty(from), SpliceStores(next, prev, from, pos),
         UNCHANGED ret
  PROVE  IInv'
  <1> DEFINE first == next[from]
             last  == prev[from]
             n     == next[pos]
  <1>1. PICK m \in Nat : \E r \in [Entries -> 0..m] : Climbs(r)
    BY DEF IInv, Ascending
  <1>2. PICK r \in [Entries -> 0..m] : Climbs(r)
    BY <1>1
  <1>3. /\ first \in Entries /\ on[first] = from /\ prev[first] = from
        /\ last \in Entries /\ on[last] = from /\ next[last] = from
    BY ListAssumption
    DEF IInv, TypeOK, WellLinked, SameList, list_is_empty
  <1>4. /\ n \in Cells /\ Contract_Linked(n) /\ prev[n] = pos
        /\ OwnerOf(n) = OwnerOf(pos) /\ n # from
    BY ListAssumption DEF IInv, TypeOK, WellLinked, SameList
  <1>5. TypeOK'
    BY <1>3, <1>4, ListAssumption DEF IInv, TypeOK, SpliceStores
  <1>6. WellLinked'
    BY <1>3, <1>4, ListAssumption
    DEF IInv, TypeOK, WellLinked, SameList, SpliceStores
  <1>7. SameList'
    BY <1>3, <1>4, ListAssumption
    DEF IInv, TypeOK, WellLinked, SameList, SpliceStores
  <1>8. PICK s \in [Entries -> 0..(2 * m + 1)] :
           \A c \in Entries : s[c] = RankSpliced(r, m, from, pos)[c]
    <2>1. RankSpliced(r, m, from, pos) \in [Entries -> 0..(2 * m + 1)]
      BY <1>2, ListAssumption DEF RankSpliced
    <2> QED BY <2>1
  <1>9. Climbs(s)'
    <2> SUFFICES ASSUME NEW c \in Entries, on'[c] # NULL, next'[c] \in Entries
                 PROVE  s[c] < s[next'[c]]
      BY DEF Climbs
    <2>1. on[c] # NULL
      BY ListAssumption DEF IInv, TypeOK, SpliceStores
    <2>2. next'[last] = n /\ next'[pos] = first
      BY <1>3, <1>4, ListAssumption DEF IInv, TypeOK, SpliceStores
    <2>3. c # last /\ c # pos => next'[c] = next[c]
      BY <1>3, <1>4, ListAssumption DEF IInv, TypeOK, SpliceStores
    <2>4. CASE c = last
      BY <1>2, <1>3, <1>4, <1>8, <2>2, <2>4, ListAssumption
      DEF Climbs, RankSpliced
    <2>5. CASE c = pos
      BY <1>2, <1>3, <1>4, <1>8, <2>2, <2>5, ListAssumption
      DEF Climbs, RankSpliced
    <2>6. CASE c # last /\ c # pos
      <3>1. next[c] \in Entries /\ on[next[c]] = on[c] /\ r[c] < r[next[c]]
        BY <1>2, <2>1, <2>3, <2>6, ListAssumption DEF IInv, SameList, Climbs
      <3> QED BY <1>2, <1>8, <2>3, <2>6, <3>1, ListAssumption DEF RankSpliced
    <2> QED BY <2>4, <2>5, <2>6
  <1>10. Ascending'
    <2> DEFINE top == 2 * m + 1
    <2>1. top \in Nat /\ s \in [Entries -> 0..top]
      OBVIOUS
    <2> HIDE DEF top
    <2> QED BY <1>9, <2>1, NextRank
  <1> QED BY <1>5, <1>6, <1>7, <1>10 DEF IInv

\* Moving a list to a head that has no entries.
LEMMA MoveStep ==
  ASSUME IInv, NEW old \in Heads, NEW new \in Heads, list_move(old, new)
  PROVE  IInv'
  <1> DEFINE first == next[old]
             last  == prev[old]
  <1>1. PICK m \in Nat : \E r \in [Entries -> 0..m] : Climbs(r)
    BY DEF IInv, Ascending
  <1>2. PICK r \in [Entries -> 0..m] : Climbs(r)
    BY <1>1
  <1>3. CASE list_is_empty(old)
    <2>1. /\ next' = [next EXCEPT ![new] = new]
          /\ prev' = [prev EXCEPT ![new] = new]
          /\ UNCHANGED <<ret, on>>
      BY <1>3 DEF list_move
    <2>2. TypeOK' /\ WellLinked' /\ SameList'
      BY <2>1, ListAssumption
      DEF IInv, TypeOK, WellLinked, SameList, list_move
    <2>3. Climbs(r)'
      BY <1>2, <2>1, ListAssumption DEF IInv, TypeOK, Climbs
    <2> QED BY <1>2, <2>2, <2>3, NextRank DEF IInv
  <1>4. CASE ~list_is_empty(old)
    <2>1. /\ next' = [[next EXCEPT ![new] = new]
                        EXCEPT ![last] = new, ![new] = first, ![old] = old]
          /\ prev' = [[prev EXCEPT ![new] = new]
                        EXCEPT ![first] = new, ![new] = last, ![old] = old]
          /\ on' = [e \in Entries |-> IF on[e] = old THEN new ELSE on[e]]
          /\ ret' = ret /\ new # old
      BY <1>4 DEF list_move, SpliceStores, IInv, TypeOK
    <2>2. /\ first \in Entries /\ on[first] = old /\ prev[first] = old
          /\ last \in Entries /\ on[last] = old /\ next[last] = old
      BY <1>4, ListAssumption
      DEF IInv, TypeOK, WellLinked, SameList, list_is_empty, list_move
    <2>3. \A c \in Cells : c # new /\ Contract_Linked(c) =>
              next[c] # new /\ prev[c] # new
      BY ListAssumption DEF IInv, TypeOK, WellLinked, SameList, list_move
    <2>4. TypeOK'
      BY <2>1, <2>2, ListAssumption DEF IInv, TypeOK
    <2>5. WellLinked'
      BY <2>1, <2>2, <2>3, ListAssumption
      DEF IInv, TypeOK, WellLinked, list_move
    <2>6. SameList'
      BY <2>1, <2>2, <2>3, ListAssumption
      DEF IInv, TypeOK, WellLinked, SameList, list_move
    <2>7. Climbs(r)'
      BY <1>2, <2>1, <2>2, ListAssumption DEF IInv, TypeOK, WellLinked, Climbs
    <2> QED BY <1>2, <2>4, <2>5, <2>6, <2>7, NextRank DEF IInv
  <1> QED BY <1>3, <1>4

\* Every operation preserves the inductive invariant.
LEMMA NextIInv == IInv /\ [Next]_vars => IInv'
  <1> SUFFICES ASSUME IInv, [Next]_vars PROVE IInv'
    OBVIOUS
  <1>1. ASSUME NEW h \in Heads, list_init(h) PROVE IInv'
    BY <1>1, InitStep
  <1>2. ASSUME NEW h \in Heads, list_remove_head(h) PROVE IInv'
    <2>1. CASE next[h] # h
      <3>1. next[h] \in Entries /\ on[next[h]] # NULL
        BY <1>2, <2>1, ListAssumption
        DEF IInv, TypeOK, WellLinked, SameList, list_remove_head
      <3>2. Unlink(next[h]) /\ ret' = next[h]
        BY <1>2, <2>1 DEF list_remove_head
      <3> QED BY <3>1, <3>2, UnlinkStep
    <2>2. CASE next[h] = h
      <3>1. UNCHANGED <<next, prev, on>> /\ ret' = NULL
        BY <1>2, <2>2 DEF list_remove_head
      <3> QED BY <3>1
          DEF IInv, TypeOK, WellLinked, SameList, Ascending, Climbs
    <2> QED BY <2>1, <2>2
  <1>3. ASSUME NEW h \in Heads, list_remove_tail(h) PROVE IInv'
    <2>1. CASE prev[h] # h
      <3>1. prev[h] \in Entries /\ on[prev[h]] # NULL
        BY <1>3, <2>1, ListAssumption
        DEF IInv, TypeOK, WellLinked, SameList, list_remove_tail
      <3>2. Unlink(prev[h]) /\ ret' = prev[h]
        BY <1>3, <2>1 DEF list_remove_tail
      <3> QED BY <3>1, <3>2, UnlinkStep
    <2>2. CASE prev[h] = h
      <3>1. UNCHANGED <<next, prev, on>> /\ ret' = NULL
        BY <1>3, <2>2 DEF list_remove_tail
      <3> QED BY <3>1
          DEF IInv, TypeOK, WellLinked, SameList, Ascending, Climbs
    <2> QED BY <2>1, <2>2
  <1>4. ASSUME NEW pos \in Cells, NEW e \in Entries, list_add(pos, e)
        PROVE  IInv'
    BY <1>4, AddStep
  <1>5. ASSUME NEW pos \in Cells, NEW e \in Entries, list_add_tail(pos, e)
        PROVE  IInv'
    BY <1>5, AddTailStep
  <1>6. ASSUME NEW old \in Entries, NEW new \in Entries,
               list_replace(old, new)
        PROVE  IInv'
    BY <1>6, ReplaceStep
  <1>7. ASSUME NEW e \in Entries, list_delete(e) PROVE IInv'
    BY <1>7, UnlinkStep DEF list_delete, IInv, TypeOK
  <1>8. ASSUME NEW h \in Heads, NEW to \in Heads, NEW pos \in Cells,
               list_split_after(h, pos, to)
        PROVE  IInv'
    BY <1>8, SplitStep
  <1>9. ASSUME NEW from \in Heads, NEW pos \in Cells,
               list_splice_after(from, pos)
        PROVE  IInv'
    <2>1. CASE list_is_empty(from)
      <3>1. UNCHANGED vars
        BY <1>9, <2>1 DEF list_splice_after, vars
      <3> QED BY <3>1
          DEF vars, IInv, TypeOK, WellLinked, SameList, Ascending, Climbs
    <2>2. CASE ~list_is_empty(from)
      BY <1>9, <2>2, SpliceStep DEF list_splice_after
    <2> QED BY <2>1, <2>2
  <1>10. ASSUME NEW old \in Heads, NEW new \in Heads, list_move(old, new)
         PROVE  IInv'
    BY <1>10, MoveStep
  <1>11. CASE UNCHANGED vars
    BY <1>11 DEF vars, IInv, TypeOK, WellLinked, SameList, Ascending, Climbs
  <1> QED
    BY <1>1, <1>2, <1>3, <1>4, <1>5, <1>6, <1>7, <1>8, <1>9, <1>10, <1>11
    DEF Next

\* Every pointer stays a cell or NULL.
THEOREM TypeCorrect == Spec => []TypeOK
  <1>1. IInv => TypeOK
    BY DEF IInv
  <1> QED BY InitIInv, NextIInv, <1>1, PTL DEF Spec

\* next and prev stay inverse of one another on the cells in use, and never
\* lead to a cell that is not (list.h, every operation).
THEOREM Linked == Spec => []WellLinked
  <1>1. IInv => WellLinked
    BY DEF IInv
  <1> QED BY InitIInv, NextIInv, <1>1, PTL DEF Spec

\* No sequence of operations makes one list run into another.
THEOREM Separate == Spec => []SameList
  <1>1. IInv => SameList
    BY DEF IInv
  <1> QED BY InitIInv, NextIInv, <1>1, PTL DEF Spec

\* Every list climbs a bounded rank from its head back to its head, so that
\* list_for_each always ends: no ring of entries is cut off from its head.
THEOREM NoRing == Spec => []Ascending
  <1>1. IInv => Ascending
    BY DEF IInv
  <1> QED BY InitIInv, NextIInv, <1>1, PTL DEF Spec

-----------------------------------------------------------------------------
(* Lists as sequences of entries. *)

\* The cell at place i of the list s of h: the head stands before the first entry
\* and after the last.
At(h, s, i) == IF i \in 1..Len(s) THEN s[i] ELSE h

\* The pointers n and p lead along s from h and back to it, and the other way.
Along(n, p, h, s) ==
  \A i \in 0..Len(s) : n[At(h, s, i)] = At(h, s, i + 1)
                       /\ p[At(h, s, i + 1)] = At(h, s, i)

Distinct(s) == \A i, j \in 1..Len(s) : s[i] = s[j] => i = j

\* h is the head of the list s.
Chained(h, s) ==
  /\ s \in Seq(Entries) /\ Distinct(s)
  /\ Along(next, prev, h, s)
  /\ \A e \in Entries : on[e] = h <=> \E i \in 1..Len(s) : s[i] = e

\* The list of h is s, or NULL when h has not been initialised.
ListIs(h, s) == IF s = NULL THEN ~Ready(h) /\ Members(h) = {} ELSE Chained(h, s)

\* The lists are the sequences l.
Holds(l) == /\ l \in [Heads -> Seq(Entries) \cup {NULL}]
            /\ \A h \in Heads : ListIs(h, l[h])

\* A set of numbers that is not empty has a least one: what the proofs here take
\* for induction.  Of the orderings the library proves well-founded it uses the one
\* of finite sets, for 0..m is a proper subset of 0..n if m < n.
LEMMA Smallest ==
  ASSUME NEW T, T \subseteq Nat, T # {}
  PROVE  \E m \in T : \A j \in T : m <= j
  <1> DEFINE Below == {0..m : m \in T}
             R == StrictSubsetOrdering(Nat)
  <1>1. Below \subseteq FiniteSubsetsOf(Nat) /\ Below # {}
    <2>1. \A m \in T : 0..m \in SUBSET Nat /\ IsFiniteSet(0..m)
      BY FS_Interval
    <2> QED BY <2>1 DEF FiniteSubsetsOf
  <1>2. IsWellFoundedOn(R, FiniteSubsetsOf(Nat))
    BY FS_StrictSubsetOrderingWellFounded
  <1>3. PICK x \in Below : \A y \in Below : ~(<<y, x>> \in R)
    <2> HIDE DEF R, Below
    <2> QED BY <1>1, <1>2, WFMin
  <1>4. PICK m \in T : x = 0..m
    BY <1>3
  <1>5. ASSUME NEW j \in T, ~(m <= j) PROVE FALSE
    <2>1. m \in Nat /\ j \in Nat /\ j < m
      BY <1>5
    <2>2. 0..j \subseteq 0..m /\ m \in 0..m /\ m \notin 0..j
      BY <2>1
    <2>3. <<0..j, 0..m>> \in R
      BY <2>1, <2>2 DEF StrictSubsetOrdering
    <2> QED BY <1>3, <1>4, <2>3
  <1> QED BY <1>5

\* f lists the first m advances along n from h.
Walks(f, n, h, m) == f = [i \in 0..m |-> IF i = 0 THEN h ELSE n[f[i-1]]]

\* There is a walk of every number of advances.
LEMMA WalkExists ==
  ASSUME NEW n, NEW h, NEW m \in Nat
  PROVE  \E f : Walks(f, n, h, m)
  <1> DEFINE T == {k \in Nat : ~\E f : Walks(f, n, h, k)}
  <1> SUFFICES ASSUME T # {} PROVE FALSE
    OBVIOUS
  <1>1. PICK k \in T : \A j \in T : k <= j
    <2> HIDE DEF T
    <2>1. T \subseteq Nat
      BY DEF T
    <2> QED BY <2>1, Smallest
  <1>2. k # 0
    <2>1. Walks([i \in 0..0 |-> h], n, h, 0)
      BY DEF Walks
    <2> QED BY <2>1
  <1>3. k - 1 \in Nat /\ \E f : Walks(f, n, h, k - 1)
    BY <1>1, <1>2
  <1>4. PICK f : Walks(f, n, h, k - 1)
    BY <1>3
  <1> DEFINE g == [i \in 0..k |-> IF i = 0 THEN h ELSE n[f[i-1]]]
  <1>5. \A i \in 0..(k - 1) : f[i] = g[i]
    <2> SUFFICES ASSUME NEW i \in 0..(k - 1) PROVE f[i] = g[i]
      OBVIOUS
    <2>1. f[i] = IF i = 0 THEN h ELSE n[f[i-1]]
      BY <1>4 DEF Walks
    <2>2. i \in 0..k
      BY <1>3
    <2> QED BY <2>1, <2>2
  <1>6. \A i \in 0..k : i # 0 => i - 1 \in 0..(k - 1)
    BY <1>3
  <1>7. Walks(g, n, h, k)
    BY <1>5, <1>6 DEF Walks
  <1> QED BY <1>1, <1>7

\* What list_for_each meets: pos starts at h and advances along next.
LEMMA Advances ==
  ASSUME NEW h
  PROVE  /\ Cardinality(Cells) \in Nat
         /\ Visit(h)[0] = h
         /\ \A i \in 1..Cardinality(Cells) : Visit(h)[i] = next[Visit(h)[i-1]]
  <1> DEFINE C == Cardinality(Cells)
  <1>1. C \in Nat
    BY RefinementAssumption, FS_Union, FS_CardinalityType
  <1>2. Visit(h) = CHOOSE f : Walks(f, next, h, C)
    BY DEF Visit, Walks
  <1> HIDE DEF C
  <1>3. \E f : Walks(f, next, h, C)
    BY <1>1, WalkExists
  <1>4. Walks(Visit(h), next, h, C)
    BY <1>2, <1>3
  <1>5. \A i \in 0..C : Visit(h)[i] = IF i = 0 THEN h ELSE next[Visit(h)[i-1]]
    BY <1>4 DEF Walks
  <1>6. 0 \in 0..C /\ \A i \in 1..C : i \in 0..C /\ i # 0
    BY <1>1
  <1> QED BY <1>1, <1>5, <1>6 DEF C

\* A list has no more entries than there are, and its head is a further cell.
LEMMA Fits ==
  ASSUME NEW h \in Heads, NEW s \in Seq(Entries), Distinct(s)
  PROVE  /\ Cardinality(Entries) \in Nat /\ Len(s) <= Cardinality(Entries)
         /\ Len(s) + 1 <= Cardinality(Cells)
  <1>1. Len(s) \in Nat
    OBVIOUS
  <1>2. s \in Injection(1..Len(s), Entries)
    BY DEF Distinct, Injection, IsInjective
  <1>3. Cardinality(1..Len(s)) = Len(s)
    BY <1>1, FS_Interval
  <1>4. Len(s) <= Cardinality(Entries)
    BY <1>2, <1>3, RefinementAssumption, FS_Injection
  <1> DEFINE f == [i \in 0..Len(s) |-> At(h, s, i)]
  <1>5. f \in Injection(0..Len(s), Cells)
    <2>1. f \in [0..Len(s) -> Cells]
      BY DEF At
    <2>2. ASSUME NEW i \in 0..Len(s), NEW j \in 0..Len(s), f[i] = f[j]
          PROVE  i = j
      BY <2>2, ListAssumption DEF At, Distinct
    <2> QED BY <2>1, <2>2 DEF Injection, IsInjective
  <1>6. Cardinality(0..Len(s)) = Len(s) + 1
    BY <1>1, FS_Interval
  <1>7. IsFiniteSet(Cells)
    BY RefinementAssumption, FS_Union
  <1>8. Len(s) + 1 <= Cardinality(Cells)
    <2> HIDE DEF f
    <2> QED BY <1>5, <1>6, <1>7, FS_Injection
  <1>9. Cardinality(Entries) \in Nat
    BY RefinementAssumption, FS_CardinalityType
  <1> QED BY <1>4, <1>8, <1>9

\* A walk of a list meets its entries, in order, and its length is their number.
LEMMA WalkOfList ==
  ASSUME NEW h \in Heads, NEW s, Chained(h, s)
  PROVE  list_length(h) = Len(s) /\ Forward(h) = s
  <1> DEFINE C == Cardinality(Cells)
             E == Cardinality(Entries)
             L == Len(s)
             pos == Visit(h)
  <1>1. s \in Seq(Entries) /\ L \in Nat /\ Distinct(s) /\ Along(next, prev, h, s)
    BY DEF Chained
  <1>2. E \in Nat /\ L <= E /\ C \in Nat /\ L + 1 <= C
    BY <1>1, Fits, Advances
  <1>3. pos[0] = h /\ \A i \in 1..C : pos[i] = next[pos[i-1]]
    BY Advances
  <1> HIDE DEF C, E, pos
  <1>4. \A i \in 0..(L + 1) : pos[i] = At(h, s, i)
    <2> DEFINE T == {i \in 0..(L + 1) : pos[i] # At(h, s, i)}
    <2> SUFFICES ASSUME T # {} PROVE FALSE
      OBVIOUS
    <2>1. PICK m \in T : \A j \in T : m <= j
      <3>1. T \subseteq Nat
        OBVIOUS
      <3> HIDE DEF T
      <3> QED BY <3>1, Smallest
    <2>2. m # 0
      BY <1>1, <1>3 DEF At
    <2>3. m - 1 \in 0..L /\ m \in 1..C /\ pos[m-1] = At(h, s, m - 1)
      BY <1>1, <1>2, <2>1, <2>2
    <2>4. next[At(h, s, m - 1)] = At(h, s, (m - 1) + 1)
      BY <1>1, <2>3 DEF Along
    <2>5. (m - 1) + 1 = m
      BY <2>3
    <2>6. pos[m] = At(h, s, m)
      BY <1>3, <2>3, <2>4, <2>5
    <2> QED BY <2>1, <2>6
  <1>5. \A i \in 1..L : pos[i] = s[i] /\ pos[i] # h
    BY <1>1, <1>4, ListAssumption DEF At
  <1>6. pos[L + 1] = h
    BY <1>1, <1>4 DEF At
  <1> DEFINE Ends(n) == pos[n+1] = h /\ \A i \in 1..n : pos[i] # h
  <1>7. L \in 0..E /\ Ends(L)
    BY <1>1, <1>2, <1>5, <1>6
  <1>8. ASSUME NEW n \in 0..E, Ends(n) PROVE n = L
    <2>1. ~(n < L)
      <3> SUFFICES ASSUME n < L PROVE FALSE
        OBVIOUS
      <3>1. n + 1 \in 1..L
        BY <1>1, <1>2
      <3> QED BY <1>5, <1>8, <3>1
    <2>2. ~(L < n)
      <3> SUFFICES ASSUME L < n PROVE FALSE
        OBVIOUS
      <3>1. L + 1 \in 1..n
        BY <1>1, <1>2
      <3> QED BY <1>6, <1>8, <3>1
    <2> QED BY <1>1, <1>2, <2>1, <2>2
  <1>9. list_length(h) = CHOOSE n \in 0..E : Ends(n)
    BY DEF list_length, pos, E
  <1>10. list_length(h) = L
    <2> HIDE DEF Ends
    <2> QED BY <1>7, <1>8, <1>9
  <1>11. Forward(h) = [i \in 1..L |-> pos[i]]
    BY <1>10 DEF Forward, pos
  <1>12. s = [i \in 1..L |-> s[i]]
    BY <1>1
  <1> QED BY <1>5, <1>10, <1>11, <1>12

\* If the lists are l, a walk of each finds it.
LEMMA Found ==
  \A l : Holds(l) => /\ Lists = l
                     /\ \A h \in Heads : l[h] # NULL => list_length(h) = Len(l[h])
  <1> SUFFICES ASSUME NEW l, Holds(l)
               PROVE  /\ Lists = l
                      /\ \A h \in Heads : l[h] # NULL =>
                                             list_length(h) = Len(l[h])
    OBVIOUS
  <1>1. l = [h \in Heads |-> l[h]]
    BY DEF Holds
  <1>2. ASSUME NEW h \in Heads, l[h] # NULL
        PROVE  Ready(h) /\ Forward(h) = l[h] /\ list_length(h) = Len(l[h])
    <2>1. Chained(h, l[h])
      BY <1>2 DEF Holds, ListIs
    <2>2. next[h] = At(h, l[h], 1)
      <3>1. l[h] \in Seq(Entries) /\ 0 \in 0..Len(l[h])
        BY <2>1 DEF Chained
      <3>2. next[At(h, l[h], 0)] = At(h, l[h], 0 + 1)
        BY <2>1, <3>1 DEF Chained, Along
      <3> QED BY <3>1, <3>2 DEF At
    <2>3. At(h, l[h], 1) \in Cells
      BY <2>1 DEF Chained, At
    <2> QED BY <2>1, <2>2, <2>3, WalkOfList, ListAssumption
  <1>3. ASSUME NEW h \in Heads, l[h] = NULL PROVE ~Ready(h)
    BY <1>3 DEF Holds, ListIs
  <1>4. \A h \in Heads : l[h] = IF Ready(h) THEN Forward(h) ELSE NULL
    BY <1>2, <1>3
  <1> HIDE DEF Ready
  <1>5. Lists = l
    BY <1>1, <1>4 DEF Lists
  <1> QED BY <1>2, <1>5

\* So also in the next state.
LEMMA FoundNext ==
  (\A l : Holds(l) => /\ Lists = l
                      /\ \A h \in Heads : l[h] # NULL =>
                                             list_length(h) = Len(l[h]))'
  BY Found, PTL

-----------------------------------------------------------------------------
(* What the operations of ListSpec make of a sequence, entry by entry. *)

\* The first k entries of s, and the others.
LEMMA Parts ==
  ASSUME NEW s \in Seq(Entries), NEW k \in 0..Len(s)
  PROVE  LET a == SubSeq(s, 1, k)
             b == SubSeq(s, k + 1, Len(s))
         IN  /\ a \in Seq(Entries) /\ Len(a) = k
             /\ \A i \in 1..k : a[i] = s[i]
             /\ b \in Seq(Entries) /\ Len(b) = Len(s) - k
             /\ \A i \in 1..(Len(s) - k) : b[i] = s[k + i]
  <1> DEFINE a == SubSeq(s, 1, k)
             b == SubSeq(s, k + 1, Len(s))
             L == Len(s)
  <1>1. L \in Nat /\ k \in Nat /\ k <= L /\ \A i \in 1..L : s[i] \in Entries
    OBVIOUS
  <1>2. a \in Seq(Entries) /\ Len(a) = k /\ \A i \in 1..k : a[i] = s[i]
    BY <1>1, SubSeqProperties
  <1>3. \A i \in (k + 1)..L : s[i] \in Entries
    BY <1>1
  <1>4. /\ b \in Seq(Entries)
        /\ Len(b) = IF k + 1 <= L THEN L - (k + 1) + 1 ELSE 0
        /\ \A i \in 1..(L - (k + 1) + 1) : b[i] = s[(k + 1) + i - 1]
    BY <1>1, <1>3, SubSeqProperties
  <1> HIDE DEF a, b
  <1>5. L - (k + 1) + 1 = L - k
    BY <1>1
  <1>6. Len(b) = L - k
    BY <1>1, <1>4
  <1>7. ASSUME NEW i \in 1..(L - k) PROVE b[i] = s[k + i]
    <2>1. (k + 1) + i - 1 = k + i
      BY <1>1
    <2> QED BY <1>4, <1>5, <2>1
  <1> QED BY <1>2, <1>4, <1>6, <1>7 DEF a, b

\* Concatenation, with the lengths at hand.
LEMMA Joined ==
  ASSUME NEW a \in Seq(Entries), NEW b \in Seq(Entries),
         NEW m, Len(a) = m, NEW n, Len(b) = n
  PROVE  /\ a \o b \in Seq(Entries) /\ Len(a \o b) = m + n
         /\ \A i \in 1..(m + n) : (a \o b)[i] = IF i <= m THEN a[i] ELSE b[i - m]
  BY ConcatProperties

\* InsertAt puts e after the first k entries.
LEMMA Inserted ==
  ASSUME NEW s \in Seq(Entries), NEW k \in 0..Len(s), NEW e \in Entries
  PROVE  LET t == Abstract!InsertAt(s, k + 1, e)
         IN  /\ t \in Seq(Entries) /\ Len(t) = Len(s) + 1
             /\ \A i \in 1..(Len(s) + 1) :
                   t[i] = IF i <= k THEN s[i]
                          ELSE IF i = k + 1 THEN e ELSE s[i-1]
  <1> DEFINE a == SubSeq(s, 1, k)
             b == SubSeq(s, k + 1, Len(s))
             c == a \o <<e>>
             t == c \o b
             L == Len(s)
  <1>1. L \in Nat /\ k \in Nat /\ k <= L /\ (k + 1) + (L - k) = L + 1
    OBVIOUS
  <1>2. /\ a \in Seq(Entries) /\ Len(a) = k /\ \A i \in 1..k : a[i] = s[i]
        /\ b \in Seq(Entries) /\ Len(b) = L - k
        /\ \A i \in 1..(L - k) : b[i] = s[k + i]
    BY Parts
  <1>3. <<e>> \in Seq(Entries) /\ Len(<<e>>) = 1 /\ <<e>>[1] = e
    OBVIOUS
  <1>4. Abstract!InsertAt(s, k + 1, e) = t
    <2>1. (k + 1) - 1 = k
      BY <1>1
    <2> QED BY <2>1 DEF Abstract!InsertAt
  <1> HIDE DEF a, b
  <1>5. /\ c \in Seq(Entries) /\ Len(c) = k + 1
        /\ \A i \in 1..(k + 1) : c[i] = IF i <= k THEN a[i] ELSE <<e>>[i - k]
    BY <1>2, <1>3, Joined
  <1> HIDE DEF c
  <1>6. /\ t \in Seq(Entries) /\ Len(t) = L + 1
        /\ \A i \in 1..(L + 1) :
              t[i] = IF i <= k + 1 THEN c[i] ELSE b[i - (k + 1)]
    <2> DEFINE m == k + 1
               n == L - k
    <2>1. Len(c) = m /\ Len(b) = n /\ c \in Seq(Entries) /\ b \in Seq(Entries)
      BY <1>2, <1>5
    <2> HIDE DEF m, n
    <2>2. /\ t \in Seq(Entries) /\ Len(t) = m + n
          /\ \A i \in 1..(m + n) : t[i] = IF i <= m THEN c[i] ELSE b[i - m]
      BY <2>1, Joined
    <2>3. m + n = L + 1
      BY <1>1 DEF m, n
    <2> QED BY <2>2, <2>3 DEF m
  <1> HIDE DEF t
  <1>7. ASSUME NEW i \in 1..(L + 1)
        PROVE  t[i] = IF i <= k THEN s[i] ELSE IF i = k + 1 THEN e ELSE s[i-1]
    <2>1. CASE i <= k
      BY <1>1, <1>2, <1>5, <1>6, <2>1
    <2>2. CASE i = k + 1
      <3>1. i - k = 1 /\ ~(i <= k) /\ i \in 1..(k + 1)
        BY <1>1, <2>2
      <3> QED BY <1>3, <1>5, <1>6, <2>2, <3>1
    <2>3. CASE ~(i <= k + 1)
      <3>1. /\ i - (k + 1) \in 1..(L - k) /\ k + (i - (k + 1)) = i - 1
            /\ ~(i <= k) /\ i # k + 1
        BY <1>1, <2>3
      <3> QED BY <1>2, <1>6, <2>3, <3>1
    <2> QED BY <1>1, <2>1, <2>2, <2>3
  <1> QED BY <1>4, <1>6, <1>7

\* RemoveAt closes the gap that entry k leaves.
LEMMA Removed ==
  ASSUME NEW s \in Seq(Entries), NEW k \in 1..Len(s)
  PROVE  LET t == Abstract!RemoveAt(s, k)
         IN  /\ t \in Seq(Entries) /\ Len(t) = Len(s) - 1
             /\ \A i \in 1..(Len(s) - 1) : t[i] = IF i < k THEN s[i] ELSE s[i+1]
  <1> DEFINE a == SubSeq(s, 1, k - 1)
             b == SubSeq(s, k + 1, Len(s))
             t == a \o b
             L == Len(s)
  <1>1. /\ L \in Nat /\ k \in 0..L /\ k - 1 \in 0..L
        /\ (k - 1) + (L - k) = L - 1
    OBVIOUS
  <1>2. a \in Seq(Entries) /\ Len(a) = k - 1 /\ \A i \in 1..(k - 1) : a[i] = s[i]
    BY <1>1, Parts
  <1>3. /\ b \in Seq(Entries) /\ Len(b) = L - k
        /\ \A i \in 1..(L - k) : b[i] = s[k + i]
    BY <1>1, Parts
  <1>4. Abstract!RemoveAt(s, k) = t
    BY DEF Abstract!RemoveAt
  <1> HIDE DEF a, b
  <1>5. /\ t \in Seq(Entries) /\ Len(t) = L - 1
        /\ \A i \in 1..(L - 1) :
              t[i] = IF i <= k - 1 THEN a[i] ELSE b[i - (k - 1)]
    <2> DEFINE m == k - 1
               n == L - k
    <2>1. Len(a) = m /\ Len(b) = n /\ a \in Seq(Entries) /\ b \in Seq(Entries)
      BY <1>2, <1>3
    <2> HIDE DEF m, n
    <2>2. /\ t \in Seq(Entries) /\ Len(t) = m + n
          /\ \A i \in 1..(m + n) : t[i] = IF i <= m THEN a[i] ELSE b[i - m]
      BY <2>1, Joined
    <2>3. m + n = L - 1
      BY <1>1 DEF m, n
    <2> QED BY <2>2, <2>3 DEF m
  <1> HIDE DEF t
  <1>6. ASSUME NEW i \in 1..(L - 1) PROVE t[i] = IF i < k THEN s[i] ELSE s[i+1]
    <2>1. CASE i < k
      BY <1>1, <1>2, <1>5, <2>1
    <2>2. CASE ~(i < k)
      <3>1. i - (k - 1) \in 1..(L - k) /\ k + (i - (k - 1)) = i + 1
        BY <1>1, <2>2
      <3> QED BY <1>1, <1>3, <1>5, <2>2, <3>1
    <2> QED BY <2>1, <2>2
  <1> QED BY <1>4, <1>5, <1>6

\* Tail and Front remove the first and the last entry.
LEMMA Ended ==
  ASSUME NEW s \in Seq(Entries), s # <<>>
  PROVE  /\ Len(s) \in Nat \ {0}
         /\ Head(s) = s[1] /\ Tail(s) = Abstract!RemoveAt(s, 1)
         /\ Abstract!Last(s) = s[Len(s)]
         /\ Abstract!Front(s) = Abstract!RemoveAt(s, Len(s))
  <1>1. Len(s) \in Nat \ {0}
    BY EmptySeq
  <1>2. Head(s) = s[1]
    OBVIOUS
  <1>3. Tail(s) = Abstract!RemoveAt(s, 1)
    <2> DEFINE t == Abstract!RemoveAt(s, 1)
    <2>1. /\ t \in Seq(Entries) /\ Len(t) = Len(s) - 1
          /\ \A i \in 1..(Len(s) - 1) : t[i] = s[i+1]
      BY <1>1, Removed
    <2>2. /\ Tail(s) \in Seq(Entries) /\ Len(Tail(s)) = Len(s) - 1
          /\ \A i \in 1..(Len(s) - 1) : Tail(s)[i] = s[i+1]
      BY HeadTailProperties
    <2> HIDE DEF t
    <2>3. Tail(s) = t
      BY <2>1, <2>2, SeqEqual
    <2> QED BY <2>3 DEF t
  <1>4. Abstract!Front(s) = Abstract!RemoveAt(s, Len(s))
    <2> DEFINE t == Abstract!RemoveAt(s, Len(s))
               f == Abstract!Front(s)
    <2>1. /\ t \in Seq(Entries) /\ Len(t) = Len(s) - 1
          /\ \A i \in 1..(Len(s) - 1) : t[i] = s[i]
      BY <1>1, Removed
    <2>2. Len(s) - 1 \in 0..Len(s)
      BY <1>1
    <2>3. /\ f \in Seq(Entries) /\ Len(f) = Len(s) - 1
          /\ \A i \in 1..(Len(s) - 1) : f[i] = s[i]
      BY <2>2, Parts DEF Abstract!Front
    <2> HIDE DEF t, f
    <2>4. f = t
      BY <2>1, <2>3, SeqEqual
    <2> QED BY <2>4 DEF t, f
  <1>5. Abstract!Last(s) = s[Len(s)]
    BY DEF Abstract!Last
  <1> QED BY <1>1, <1>2, <1>3, <1>4, <1>5

\* The entries of r put in after the first k entries of s.
Spliced(s, k, r) == SubSeq(s, 1, k) \o r \o SubSeq(s, k + 1, Len(s))

\* What Spliced is, entry by entry.
LEMMA SplicedEntries ==
  ASSUME NEW s \in Seq(Entries), NEW k \in 0..Len(s), NEW r \in Seq(Entries)
  PROVE  LET t == Spliced(s, k, r)
         IN  /\ t \in Seq(Entries) /\ Len(t) = Len(s) + Len(r)
             /\ \A i \in 1..(Len(s) + Len(r)) :
                   t[i] = IF i <= k THEN s[i]
                          ELSE IF i <= k + Len(r) THEN r[i - k]
                          ELSE s[i - Len(r)]
  <1> DEFINE a == SubSeq(s, 1, k)
             b == SubSeq(s, k + 1, Len(s))
             c == a \o r
             t == c \o b
             L == Len(s)
             R == Len(r)
  <1>1. /\ L \in Nat /\ R \in Nat /\ k \in Nat /\ k <= L
        /\ (k + R) + (L - k) = L + R
    OBVIOUS
  <1>2. /\ a \in Seq(Entries) /\ Len(a) = k /\ \A i \in 1..k : a[i] = s[i]
        /\ b \in Seq(Entries) /\ Len(b) = L - k
        /\ \A i \in 1..(L - k) : b[i] = s[k + i]
    BY Parts
  <1>3. Spliced(s, k, r) = t
    BY DEF Spliced
  <1>4. Len(r) = R
    OBVIOUS
  <1> HIDE DEF a, b, R
  <1>5. /\ c \in Seq(Entries) /\ Len(c) = k + R
        /\ \A i \in 1..(k + R) : c[i] = IF i <= k THEN a[i] ELSE r[i - k]
    <2>1. a \in Seq(Entries) /\ Len(a) = k
      BY <1>2
    <2> QED BY <1>4, <2>1, Joined
  <1> HIDE DEF c
  <1>6. /\ t \in Seq(Entries) /\ Len(t) = L + R
        /\ \A i \in 1..(L + R) :
              t[i] = IF i <= k + R THEN c[i] ELSE b[i - (k + R)]
    <2> DEFINE m == k + R
               n == L - k
    <2>1. Len(c) = m /\ Len(b) = n /\ c \in Seq(Entries) /\ b \in Seq(Entries)
      BY <1>2, <1>5
    <2> HIDE DEF m, n
    <2>2. /\ t \in Seq(Entries) /\ Len(t) = m + n
          /\ \A i \in 1..(m + n) : t[i] = IF i <= m THEN c[i] ELSE b[i - m]
      BY <2>1, Joined
    <2>3. m + n = L + R
      BY <1>1 DEF m, n
    <2> QED BY <2>2, <2>3 DEF m
  <1> HIDE DEF t
  <1>7. ASSUME NEW i \in 1..(L + R)
        PROVE  t[i] = IF i <= k THEN s[i]
                      ELSE IF i <= k + R THEN r[i - k] ELSE s[i - R]
    <2>1. CASE i <= k + R
      BY <1>1, <1>2, <1>5, <1>6, <2>1
    <2>2. CASE ~(i <= k + R)
      <3>1. i - (k + R) \in 1..(L - k) /\ k + (i - (k + R)) = i - R
        BY <1>1, <2>2
      <3> QED BY <1>1, <1>2, <1>6, <2>2, <3>1
    <2> QED BY <2>1, <2>2
  <1> QED BY <1>3, <1>6, <1>7 DEF R

-----------------------------------------------------------------------------
(* What the operations of list.h make of the list they work on. *)

\* The places of a list are different cells, counting its head once.
LEMMA AtDistinct ==
  ASSUME NEW h \in Heads, NEW s \in Seq(Entries), Distinct(s)
  PROVE  /\ \A i, j \in 0..Len(s) : At(h, s, i) = At(h, s, j) => i = j
         /\ \A i, j \in 1..(Len(s) + 1) : At(h, s, i) = At(h, s, j) => i = j
         /\ \A i \in 0..(Len(s) + 1) : At(h, s, i) \in Cells
  <1>1. Len(s) \in Nat /\ \A i \in 1..Len(s) : s[i] \in Entries /\ s[i] # h
    BY ListAssumption
  <1> QED BY <1>1 DEF At, Distinct

\* The cells of a list, and what their pointers lead to.
LEMMA Neighbours ==
  ASSUME NEW h \in Heads, NEW s, Chained(h, s), NEW k \in 0..Len(s)
  PROVE  /\ s \in Seq(Entries) /\ Len(s) \in Nat
         /\ next[At(h, s, k)] = At(h, s, k + 1)
         /\ prev[At(h, s, k + 1)] = At(h, s, k)
         /\ next[h] = At(h, s, 1) /\ prev[h] = At(h, s, Len(s))
         /\ OwnerOf(At(h, s, k)) = h
  <1>1. s \in Seq(Entries) /\ Len(s) \in Nat /\ Along(next, prev, h, s)
    BY DEF Chained
  <1>2. /\ At(h, s, 0) = h /\ At(h, s, Len(s) + 1) = h
        /\ 0 \in 0..Len(s) /\ Len(s) \in 0..Len(s) /\ 0 + 1 = 1
    BY <1>1 DEF At
  <1>3. next[h] = At(h, s, 1) /\ prev[h] = At(h, s, Len(s))
    BY <1>1, <1>2 DEF Along
  <1>4. OwnerOf(At(h, s, k)) = h
    BY <1>1, ListAssumption DEF At, Chained
  <1> QED BY <1>1, <1>3, <1>4 DEF Along

\* Every cell in use has a place in a list.
LEMMA Placed ==
  ASSUME TypeOK, NEW l, Holds(l), NEW c \in Cells, Contract_Linked(c)
  PROVE  LET h == OwnerOf(c)
         IN  /\ h \in Heads /\ l[h] # NULL /\ Chained(h, l[h])
             /\ Place(c) \in 0..Len(l[h]) /\ c = At(h, l[h], Place(c))
             /\ c \in Heads <=> Place(c) = 0
  <1> DEFINE h == OwnerOf(c)
             s == l[h]
  <1>1. h \in Heads /\ s # NULL /\ Chained(h, s)
    BY ListAssumption DEF TypeOK, Holds, ListIs
  <1>2. s \in Seq(Entries) /\ Len(s) \in Nat
    BY <1>1 DEF Chained
  <1>3. CASE c \in Heads
    BY <1>1, <1>2, <1>3 DEF Place, At
  <1>4. CASE c \notin Heads
    <2>1. c \in Entries /\ on[c] = h
      BY <1>4
    <2>2. list_length(h) = Len(s) /\ Forward(h) = s
      BY <1>1, WalkOfList
    <2>3. \E i \in 1..Len(s) : s[i] = c
      BY <1>1, <2>1 DEF Chained
    <2>4. Place(c) = CHOOSE i \in 1..Len(s) : s[i] = c
      BY <1>4, <2>1, <2>2 DEF Place
    <2>5. Place(c) \in 1..Len(s) /\ s[Place(c)] = c
      BY <2>3, <2>4
    <2> QED BY <1>1, <1>2, <1>4, <2>5 DEF At
  <1> QED BY <1>1, <1>3, <1>4

\* A list keeps its sequence through a step that leaves its cells alone.
LEMMA Kept ==
  ASSUME NEW h \in Heads, NEW s, ListIs(h, s),
         next'[h] = next[h], prev'[h] = prev[h],
         \A e \in Entries :
            /\ on'[e] = h <=> on[e] = h
            /\ on[e] = h => next'[e] = next[e] /\ prev'[e] = prev[e]
  PROVE  ListIs(h, s)'
  <1>1. CASE s = NULL
    BY <1>1 DEF ListIs
  <1>2. CASE s # NULL
    <2>1. Chained(h, s)
      BY <1>2 DEF ListIs
    <2>2. \A i \in 0..(Len(s) + 1) :
             /\ next'[At(h, s, i)] = next[At(h, s, i)]
             /\ prev'[At(h, s, i)] = prev[At(h, s, i)]
      BY <2>1 DEF At, Chained
    <2>3. \A i \in 0..Len(s) : i \in 0..(Len(s) + 1) /\ i + 1 \in 0..(Len(s) + 1)
      BY <2>1 DEF Chained
    <2>4. Along(next', prev', h, s)
      BY <2>1, <2>2, <2>3 DEF Along, Chained
    <2>5. Chained(h, s)'
      BY <2>1, <2>4 DEF Chained
    <2> QED BY <1>2, <2>5 DEF ListIs
  <1> QED BY <1>1, <1>2

\* list_add makes the list an entry longer, after the first k.
LEMMA AddedTo ==
  ASSUME TypeOK, NEW h \in Heads, NEW s, Chained(h, s), NEW k \in 0..Len(s),
         NEW e \in Entries, list_add(At(h, s, k), e)
  PROVE  Chained(h, Abstract!InsertAt(s, k + 1, e))'
  <1> DEFINE L == Len(s)
             c == At(h, s, k)
             t == Abstract!InsertAt(s, k + 1, e)
  <1>1. /\ s \in Seq(Entries) /\ L \in Nat /\ k \in Nat /\ k <= L /\ Distinct(s)
        /\ \A i \in 1..L : s[i] \in Entries /\ on[s[i]] = h
    BY DEF Chained
  <1>2. /\ t \in Seq(Entries) /\ Len(t) = L + 1
        /\ \A i \in 1..(L + 1) : t[i] = IF i <= k THEN s[i]
                                        ELSE IF i = k + 1 THEN e ELSE s[i-1]
    BY <1>1, Inserted
  <1> HIDE DEF t
  <1>3. e \notin {At(h, s, i) : i \in 0..(L + 1)}
    BY <1>1, ListAssumption DEF At, list_add
  <1>4. /\ c \in Cells /\ c # e /\ OwnerOf(c) = h
        /\ At(h, s, k + 1) \in Cells /\ At(h, s, k + 1) # e
        /\ next[c] = At(h, s, k + 1)
    BY <1>1, <1>3, AtDistinct, Neighbours
  <1>5. \A d \in Cells :
           /\ next'[d] = IF d = c THEN e ELSE IF d = e THEN At(h, s, k + 1)
                         ELSE next[d]
           /\ prev'[d] = IF d = At(h, s, k + 1) THEN e ELSE IF d = e THEN c
                         ELSE prev[d]
    BY <1>4 DEF list_add, TypeOK
  <1>6. \A i \in 0..(L + 2) : At(h, t, i) = IF i <= k THEN At(h, s, i)
                                            ELSE IF i = k + 1 THEN e
                                            ELSE At(h, s, i - 1)
    BY <1>1, <1>2 DEF At
  <1>7. Distinct(t)
    <2> SUFFICES ASSUME NEW i \in 1..(L + 1), NEW j \in 1..(L + 1), t[i] = t[j]
                 PROVE  i = j
      BY <1>2 DEF Distinct
    <2> DEFINE From(m) == IF m <= k THEN m ELSE m - 1
    <2>1. \A m \in 1..L : s[m] # e
      BY <1>1, ListAssumption DEF list_add
    <2>2. \A m \in 1..(L + 1) : m # k + 1 => /\ From(m) \in 1..L
                                              /\ t[m] = s[From(m)]
      BY <1>1, <1>2
    <2>3. t[k + 1] = e
      BY <1>1, <1>2
    <2>4. i # k + 1 /\ j # k + 1 => From(i) = From(j)
      BY <1>1, <2>2 DEF Distinct
    <2>5. i # k + 1 /\ j # k + 1 /\ From(i) = From(j) => i = j
      BY <1>1
    <2> QED BY <2>1, <2>2, <2>3, <2>4, <2>5
  <1>8. \A d \in Entries : on'[d] = h <=> \E i \in 1..Len(t) : t[i] = d
    <2>1. \A d \in Entries : on'[d] = IF d = e THEN h ELSE on[d]
      BY <1>4 DEF list_add, TypeOK
    <2>2. \A d \in Entries : d = e <=> d = t[k + 1]
      BY <1>1, <1>2
    <2>3. \A i \in 1..L : IF i <= k THEN t[i] = s[i] ELSE t[i + 1] = s[i]
      <3> SUFFICES ASSUME NEW i \in 1..L
                   PROVE  IF i <= k THEN t[i] = s[i] ELSE t[i + 1] = s[i]
        OBVIOUS
      <3>1. i \in 1..(L + 1) /\ i + 1 \in 1..(L + 1) /\ (i + 1) - 1 = i
        BY <1>1
      <3>2. ~(i <= k) => ~(i + 1 <= k) /\ i + 1 # k + 1
        BY <1>1
      <3> QED BY <1>2, <3>1, <3>2
    <2>4. ASSUME NEW d \in Entries, on[d] = h
          PROVE  \E i \in 1..(L + 1) : t[i] = d
      <3>1. PICK i \in 1..L : s[i] = d
        BY <2>4 DEF Chained
      <3>2. i \in 1..(L + 1) /\ i + 1 \in 1..(L + 1)
        BY <1>1
      <3> QED BY <2>3, <3>1, <3>2
    <2>5. ASSUME NEW i \in 1..(L + 1) PROVE t[i] = e \/ on[t[i]] = h
      BY <1>1, <1>2
    <2>6. k + 1 \in 1..(L + 1)
      BY <1>1
    <2> QED BY <1>2, <2>1, <2>2, <2>4, <2>5, <2>6
  <1>9. Along(next', prev', h, t)
    <2> SUFFICES ASSUME NEW i \in 0..(L + 1)
                 PROVE  /\ next'[At(h, t, i)] = At(h, t, i + 1)
                        /\ prev'[At(h, t, i + 1)] = At(h, t, i)
      BY <1>2 DEF Along
    <2>1. \A m \in 0..L : /\ At(h, s, m) \in Cells /\ At(h, s, m + 1) \in Cells
                          /\ next[At(h, s, m)] = At(h, s, m + 1)
                          /\ prev[At(h, s, m + 1)] = At(h, s, m)
                          /\ m # k => /\ At(h, s, m) # c
                                      /\ At(h, s, m + 1) # At(h, s, k + 1)
                          /\ At(h, s, m) # e /\ At(h, s, m + 1) # e
      <3> SUFFICES ASSUME NEW m \in 0..L
                   PROVE  /\ At(h, s, m) \in Cells /\ At(h, s, m + 1) \in Cells
                          /\ next[At(h, s, m)] = At(h, s, m + 1)
                          /\ prev[At(h, s, m + 1)] = At(h, s, m)
                          /\ m # k => /\ At(h, s, m) # c
                                      /\ At(h, s, m + 1) # At(h, s, k + 1)
                          /\ At(h, s, m) # e /\ At(h, s, m + 1) # e
        OBVIOUS
      <3>1. /\ m \in 0..(L + 1) /\ m + 1 \in 1..(L + 1) /\ k + 1 \in 1..(L + 1)
            /\ m + 1 \in 0..(L + 1) /\ (m # k => m + 1 # k + 1)
        BY <1>1
      <3> QED BY <1>1, <1>3, <3>1, AtDistinct, Neighbours
    <2>2. CASE i < k
      <3>1. /\ i \in 0..L /\ i # k /\ i \in 0..(L + 2) /\ i + 1 \in 0..(L + 2)
            /\ i <= k /\ i + 1 <= k
        BY <1>1, <2>2
      <3> QED BY <1>5, <1>6, <2>1, <3>1
    <2>3. CASE i = k
      <3>1. /\ i \in 0..(L + 2) /\ i + 1 \in 0..(L + 2) /\ i <= k /\ i + 1 = k + 1
            /\ ~(i + 1 <= k)
        BY <1>1, <2>3
      <3> QED BY <1>4, <1>5, <1>6, <2>3, <3>1
    <2>4. CASE i = k + 1
      <3>1. /\ i \in 0..(L + 2) /\ i + 1 \in 0..(L + 2) /\ ~(i <= k)
            /\ ~(i + 1 <= k) /\ i + 1 # k + 1 /\ (i + 1) - 1 = k + 1
        BY <1>1, <2>4
      <3> QED BY <1>4, <1>5, <1>6, <2>4, <3>1
    <2>5. CASE i > k + 1
      <3>1. /\ i \in 0..(L + 2) /\ i + 1 \in 0..(L + 2) /\ ~(i <= k) /\ i # k + 1
            /\ ~(i + 1 <= k) /\ i + 1 # k + 1 /\ (i + 1) - 1 = i
            /\ i - 1 \in 0..L /\ i - 1 # k /\ (i - 1) + 1 = i
        BY <1>1, <2>5
      <3>2. At(h, t, i) = At(h, s, i - 1) /\ At(h, t, i + 1) = At(h, s, i)
        BY <1>6, <3>1
      <3> QED BY <1>5, <2>1, <3>1, <3>2
    <2> QED BY <1>1, <2>2, <2>3, <2>4, <2>5
  <1> QED BY <1>2, <1>7, <1>8, <1>9 DEF Chained, t

\* list_replace puts new in the place of entry k.
LEMMA ReplacedIn ==
  ASSUME TypeOK, NEW h \in Heads, NEW s, Chained(h, s), NEW k \in 1..Len(s),
         NEW new \in Entries, list_replace(s[k], new)
  PROVE  Chained(h, [s EXCEPT ![k] = new])'
  <1> DEFINE L == Len(s)
             old == s[k]
             t == [s EXCEPT ![k] = new]
  <1>1. /\ s \in Seq(Entries) /\ L \in Nat /\ k \in 1..L /\ Distinct(s)
        /\ \A i \in 1..L : s[i] \in Entries /\ on[s[i]] = h
    BY DEF Chained
  <1>2. /\ t \in Seq(Entries) /\ Len(t) = L
        /\ \A i \in 1..L : t[i] = IF i = k THEN new ELSE s[i]
    BY <1>1, ExceptSeq
  <1> HIDE DEF t
  <1>3. new \notin {At(h, s, i) : i \in 0..(L + 1)}
    BY <1>1, ListAssumption DEF At, list_replace
  <1>4. \A m \in 0..L : /\ At(h, s, m) \in Cells /\ At(h, s, m + 1) \in Cells
                        /\ next[At(h, s, m)] = At(h, s, m + 1)
                        /\ prev[At(h, s, m + 1)] = At(h, s, m)
                        /\ m # k - 1 => At(h, s, m) # At(h, s, k - 1)
                        /\ m # k => At(h, s, m + 1) # At(h, s, k + 1)
                        /\ At(h, s, m) # new /\ At(h, s, m + 1) # new
    <2> SUFFICES ASSUME NEW m \in 0..L
                 PROVE  /\ At(h, s, m) \in Cells /\ At(h, s, m + 1) \in Cells
                        /\ next[At(h, s, m)] = At(h, s, m + 1)
                        /\ prev[At(h, s, m + 1)] = At(h, s, m)
                        /\ m # k - 1 => At(h, s, m) # At(h, s, k - 1)
                        /\ m # k => At(h, s, m + 1) # At(h, s, k + 1)
                        /\ At(h, s, m) # new /\ At(h, s, m + 1) # new
      OBVIOUS
    <2>1. /\ m \in 0..(L + 1) /\ m + 1 \in 1..(L + 1) /\ k + 1 \in 1..(L + 1)
          /\ m + 1 \in 0..(L + 1) /\ k - 1 \in 0..L /\ (m # k => m + 1 # k + 1)
      BY <1>1
    <2> QED BY <1>1, <1>3, <2>1, AtDistinct, Neighbours
  <1>5. /\ k \in 0..L /\ k - 1 \in 0..L /\ (k - 1) + 1 = k /\ At(h, s, k) = old
        /\ old \in Entries /\ on[old] = h /\ old # new
    BY <1>1, <1>3 DEF At
  <1>6. next[old] = At(h, s, k + 1) /\ prev[old] = At(h, s, k - 1)
    BY <1>4, <1>5
  <1>7. \A d \in Cells :
           /\ next'[d] = IF d = At(h, s, k - 1) THEN new
                         ELSE IF d = new THEN At(h, s, k + 1) ELSE next[d]
           /\ prev'[d] = IF d = At(h, s, k + 1) THEN new
                         ELSE IF d = new THEN At(h, s, k - 1) ELSE prev[d]
    BY <1>4, <1>5, <1>6 DEF list_replace, TypeOK
  <1>8. \A i \in 0..(L + 1) : At(h, t, i) = IF i = k THEN new ELSE At(h, s, i)
    BY <1>1, <1>2 DEF At
  <1>9. Distinct(t)
    <2>1. \A m \in 1..L : s[m] # new
      BY <1>1, ListAssumption DEF list_replace
    <2> QED BY <1>1, <1>2, <2>1 DEF Distinct
  <1>10. \A d \in Entries : on'[d] = h <=> \E i \in 1..Len(t) : t[i] = d
    <2>1. \A d \in Entries : on'[d] = IF d = old THEN NULL
                                      ELSE IF d = new THEN h ELSE on[d]
      BY <1>5 DEF list_replace, TypeOK
    <2>2. ASSUME NEW d \in Entries, on[d] = h, d # old
          PROVE  \E i \in 1..L : t[i] = d
      <3>1. PICK i \in 1..L : s[i] = d
        BY <2>2 DEF Chained
      <3> QED BY <1>2, <2>2, <3>1
    <2>3. \A i \in 1..L : t[i] = new \/ (on[t[i]] = h /\ t[i] # old)
      BY <1>1, <1>2 DEF Distinct
    <2>4. t[k] = new /\ h # NULL
      BY <1>1, <1>2, ListAssumption
    <2> QED BY <1>1, <1>2, <1>5, <2>1, <2>2, <2>3, <2>4
  <1>11. Along(next', prev', h, t)
    <2> SUFFICES ASSUME NEW i \in 0..L
                 PROVE  /\ next'[At(h, t, i)] = At(h, t, i + 1)
                        /\ prev'[At(h, t, i + 1)] = At(h, t, i)
      BY <1>2 DEF Along
    <2>1. i \in 0..(L + 1) /\ i + 1 \in 0..(L + 1)
      BY <1>1
    <2>2. CASE i = k - 1
      <3>1. i # k /\ i + 1 = k
        BY <1>1, <2>2
      <3>2. At(h, s, k - 1) # new /\ At(h, s, k + 1) # new /\ new \in Cells
        BY <1>4, <1>5
      <3> QED BY <1>4, <1>7, <1>8, <2>1, <2>2, <3>1, <3>2
    <2>3. CASE i = k
      <3>1. i + 1 # k
        BY <1>1, <2>3
      <3>2. At(h, s, k - 1) # new /\ new \in Cells
        BY <1>4, <1>5
      <3> QED BY <1>4, <1>7, <1>8, <2>1, <2>3, <3>1, <3>2
    <2>4. CASE i # k - 1 /\ i # k
      <3>1. i + 1 # k
        BY <1>1, <2>4
      <3> QED BY <1>4, <1>7, <1>8, <2>1, <2>4, <3>1
    <2> QED BY <2>2, <2>3, <2>4
  <1> QED BY <1>2, <1>9, <1>10, <1>11 DEF Chained, t

\* Unlink closes the gap that entry k leaves.
LEMMA UnlinkedFrom ==
  ASSUME TypeOK, NEW h \in Heads, NEW s, Chained(h, s), NEW k \in 1..Len(s),
         Unlink(s[k])
  PROVE  Chained(h, Abstract!RemoveAt(s, k))'
  <1> DEFINE L == Len(s)
             e == s[k]
             t == Abstract!RemoveAt(s, k)
  <1>1. /\ s \in Seq(Entries) /\ L \in Nat /\ k \in 1..L /\ Distinct(s)
        /\ \A i \in 1..L : s[i] \in Entries /\ on[s[i]] = h
    BY DEF Chained
  <1>2. /\ t \in Seq(Entries) /\ Len(t) = L - 1
        /\ \A i \in 1..(L - 1) : t[i] = IF i < k THEN s[i] ELSE s[i+1]
    BY <1>1, Removed
  <1> HIDE DEF t
  <1>3. /\ k \in 0..L /\ k - 1 \in 0..L /\ (k - 1) + 1 = k /\ At(h, s, k) = e
        /\ e \in Entries /\ on[e] = h
    BY <1>1 DEF At
  <1>4. \A m \in 0..L : /\ At(h, s, m) \in Cells /\ At(h, s, m + 1) \in Cells
                        /\ next[At(h, s, m)] = At(h, s, m + 1)
                        /\ prev[At(h, s, m + 1)] = At(h, s, m)
                        /\ m # k - 1 => /\ At(h, s, m) # At(h, s, k - 1)
                                        /\ At(h, s, m + 1) # e
                        /\ m # k => /\ At(h, s, m) # e
                                    /\ At(h, s, m + 1) # At(h, s, k + 1)
    <2> SUFFICES ASSUME NEW m \in 0..L
                 PROVE  /\ At(h, s, m) \in Cells /\ At(h, s, m + 1) \in Cells
                        /\ next[At(h, s, m)] = At(h, s, m + 1)
                        /\ prev[At(h, s, m + 1)] = At(h, s, m)
                        /\ m # k - 1 => /\ At(h, s, m) # At(h, s, k - 1)
                                        /\ At(h, s, m + 1) # e
                        /\ m # k => /\ At(h, s, m) # e
                                    /\ At(h, s, m + 1) # At(h, s, k + 1)
      OBVIOUS
    <2>1. /\ m \in 0..(L + 1) /\ m + 1 \in 1..(L + 1) /\ k + 1 \in 1..(L + 1)
          /\ m + 1 \in 0..(L + 1) /\ k - 1 \in 0..L /\ (m # k => m + 1 # k + 1)
          /\ (m # k - 1 => m + 1 # k) /\ k \in 1..(L + 1)
      BY <1>1
    <2> QED BY <1>1, <1>3, <2>1, AtDistinct, Neighbours
  <1>5. next[e] = At(h, s, k + 1) /\ prev[e] = At(h, s, k - 1)
    BY <1>3, <1>4
  <1>6. \A d \in Cells : d # e =>
           /\ next'[d] = IF d = At(h, s, k - 1) THEN At(h, s, k + 1) ELSE next[d]
           /\ prev'[d] = IF d = At(h, s, k + 1) THEN At(h, s, k - 1) ELSE prev[d]
    BY <1>3, <1>4, <1>5 DEF Unlink, TypeOK
  <1>7. \A i \in 0..L : At(h, t, i) = IF i < k THEN At(h, s, i)
                                      ELSE At(h, s, i + 1)
    BY <1>1, <1>2 DEF At
  <1>8. Distinct(t)
    <2> DEFINE From(m) == IF m < k THEN m ELSE m + 1
    <2> SUFFICES ASSUME NEW i \in 1..(L - 1), NEW j \in 1..(L - 1), t[i] = t[j]
                 PROVE  i = j
      BY <1>2 DEF Distinct
    <2>1. \A m \in 1..(L - 1) : From(m) \in 1..L /\ t[m] = s[From(m)]
      BY <1>1, <1>2
    <2>2. From(i) = From(j)
      BY <1>1, <2>1 DEF Distinct
    <2> QED BY <1>1, <2>2
  <1>9. \A d \in Entries : on'[d] = h <=> \E i \in 1..Len(t) : t[i] = d
    <2>1. \A d \in Entries : on'[d] = IF d = e THEN NULL ELSE on[d]
      BY <1>3 DEF Unlink, TypeOK
    <2>2. ASSUME NEW d \in Entries, on[d] = h, d # e
          PROVE  \E i \in 1..(L - 1) : t[i] = d
      <3>1. PICK i \in 1..L : s[i] = d
        BY <2>2 DEF Chained
      <3>2. CASE i < k
        <4>1. i \in 1..(L - 1)
          BY <1>1, <3>2
        <4> QED BY <1>2, <3>1, <3>2, <4>1
      <3>3. CASE i > k
        <4>1. i - 1 \in 1..(L - 1) /\ ~(i - 1 < k) /\ (i - 1) + 1 = i
          BY <1>1, <3>3
        <4> QED BY <1>2, <3>1, <4>1
      <3> QED BY <1>1, <2>2, <3>1, <3>2, <3>3
    <2>3. ASSUME NEW i \in 1..(L - 1) PROVE on[t[i]] = h /\ t[i] # e
      <3> DEFINE j == IF i < k THEN i ELSE i + 1
      <3>1. j \in 1..L /\ j # k /\ t[i] = s[j]
        BY <1>1, <1>2
      <3> HIDE DEF j
      <3> QED BY <1>1, <3>1 DEF Distinct
    <2>4. h # NULL
      BY ListAssumption
    <2> QED BY <1>2, <2>1, <2>2, <2>3, <2>4
  <1>10. Along(next', prev', h, t)
    <2> SUFFICES ASSUME NEW i \in 0..(L - 1)
                 PROVE  /\ next'[At(h, t, i)] = At(h, t, i + 1)
                        /\ prev'[At(h, t, i + 1)] = At(h, t, i)
      BY <1>2 DEF Along
    <2>1. i \in 0..L /\ i + 1 \in 0..L
      BY <1>1
    <2>2. CASE i < k - 1
      <3>1. i < k /\ i + 1 < k /\ i # k /\ i # k - 1
        BY <1>1, <2>2
      <3> QED BY <1>4, <1>6, <1>7, <2>1, <3>1
    <2>3. CASE i = k - 1
      <3>1. i < k /\ ~(i + 1 < k) /\ (i + 1) + 1 = k + 1 /\ k - 1 # k
        BY <1>1, <2>3
      <3>2. At(h, s, k - 1) # e /\ At(h, s, k + 1) # e
        BY <1>3, <1>4, <3>1
      <3>3. At(h, t, i) = At(h, s, k - 1) /\ At(h, t, i + 1) = At(h, s, k + 1)
        BY <1>7, <2>1, <2>3, <3>1
      <3> QED BY <1>3, <1>4, <1>6, <3>2, <3>3
    <2>4. CASE i > k - 1
      <3>1. /\ ~(i < k) /\ ~(i + 1 < k) /\ i + 1 # k /\ i + 1 # k - 1
            /\ i + 1 \in 0..L
        BY <1>1, <2>4
      <3>2. /\ At(h, t, i) = At(h, s, i + 1)
            /\ At(h, t, i + 1) = At(h, s, (i + 1) + 1)
        BY <1>7, <2>1, <3>1
      <3> QED BY <1>4, <1>6, <3>1, <3>2
    <2> QED BY <1>1, <2>2, <2>3, <2>4
  <1> QED BY <1>2, <1>8, <1>9, <1>10 DEF Chained, t

\* The stretch of a list after its first k entries is the others.
LEMMA StretchIs ==
  ASSUME NEW h \in Heads, NEW s, Chained(h, s), NEW k \in 0..Len(s),
         NEW S \in SUBSET Members(h), Stretch(h, At(h, s, k), S)
  PROVE  S = {s[i] : i \in (k + 1)..Len(s)}
  <1> DEFINE L == Len(s)
             c == At(h, s, k)
  <1>1. /\ s \in Seq(Entries) /\ L \in Nat /\ k \in 0..L /\ Distinct(s)
        /\ \A i \in 1..L : s[i] \in Entries
        /\ \A e \in Entries : on[e] = h => \E i \in 1..L : s[i] = e
    BY DEF Chained
  <1>2. /\ next[c] \in S /\ c \notin S /\ h \notin S
        /\ \A e \in S : next[e] \in S \cup {h} /\ prev[e] \in S \cup {c}
    BY ListAssumption DEF Stretch
  <1>3. \A m \in 0..L : next[At(h, s, m)] = At(h, s, m + 1)
                        /\ prev[At(h, s, m + 1)] = At(h, s, m)
    BY Neighbours
  <1>4. ASSUME NEW i \in (k + 1)..L PROVE s[i] \in S
    <2> DEFINE T == {j \in (k + 1)..L : s[j] \notin S}
    <2> SUFFICES ASSUME T # {} PROVE FALSE
      OBVIOUS
    <2>1. PICK m \in T : \A j \in T : m <= j
      <3>1. T \subseteq Nat
        BY <1>1
      <3> HIDE DEF T
      <3> QED BY <3>1, Smallest
    <2>2. At(h, s, m) = s[m] /\ m - 1 \in 0..L /\ (m - 1) + 1 = m
      BY <1>1, <2>1 DEF At
    <2>3. CASE m = k + 1
      BY <1>2, <1>3, <2>1, <2>2, <2>3
    <2>4. CASE m # k + 1
      <3>1. m - 1 \in (k + 1)..L /\ m - 1 \in 1..L /\ ~(m <= m - 1)
        BY <1>1, <2>1, <2>4
      <3>2. s[m - 1] \in S /\ At(h, s, m - 1) = s[m - 1]
        BY <2>1, <3>1 DEF At
      <3>3. next[s[m - 1]] = s[m]
        BY <1>3, <2>2, <3>2
      <3>4. s[m] \in S \cup {h}
        BY <1>2, <3>2, <3>3
      <3>5. s[m] # h
        BY <1>1, <2>1, ListAssumption
      <3> QED BY <2>1, <3>4, <3>5
    <2> QED BY <2>3, <2>4
  <1>5. ASSUME NEW i \in 1..k PROVE s[i] \notin S
    <2> DEFINE T == {j \in 1..k : s[j] \in S}
    <2> SUFFICES ASSUME T # {} PROVE FALSE
      OBVIOUS
    <2>1. PICK m \in T : \A j \in T : m <= j
      <3>1. T \subseteq Nat
        BY <1>1
      <3> HIDE DEF T
      <3> QED BY <3>1, Smallest
    <2>2. /\ At(h, s, m) = s[m] /\ m - 1 \in 0..L /\ (m - 1) + 1 = m
          /\ m - 1 # k /\ k \in 0..L
      BY <1>1, <2>1 DEF At
    <2>3. prev[s[m]] = At(h, s, m - 1) /\ At(h, s, m - 1) # c
      BY <1>1, <1>3, <2>2, AtDistinct
    <2>4. At(h, s, m - 1) \in S
      BY <1>2, <2>1, <2>3
    <2>5. m - 1 \in 1..L /\ At(h, s, m - 1) = s[m - 1]
      BY <1>2, <2>4 DEF At
    <2>6. m - 1 \in T /\ ~(m <= m - 1)
      BY <2>1, <2>4, <2>5
    <2> QED BY <2>1, <2>6
  <1>6. ASSUME NEW e \in S PROVE \E i \in (k + 1)..L : s[i] = e
    <2>1. PICK i \in 1..L : s[i] = e
      BY <1>1, <1>6
    <2>2. i \notin 1..k
      BY <1>5, <1>6, <2>1
    <2> QED BY <1>1, <2>1, <2>2
  <1> QED BY <1>4, <1>6

\* list_split_after leaves the first k entries and gives the others to to.
LEMMA SplitAt ==
  ASSUME TypeOK, NEW h \in Heads, NEW s, Chained(h, s), NEW k \in 0..Len(s),
         NEW to \in Heads, list_split_after(h, At(h, s, k), to)
  PROVE  /\ Chained(h, SubSeq(s, 1, k))'
         /\ Chained(to, SubSeq(s, k + 1, Len(s)))'
         /\ \A e \in Entries : on[e] # h => on'[e] = on[e]
  <1> DEFINE L == Len(s)
             c == At(h, s, k)
             a == SubSeq(s, 1, k)
             b == SubSeq(s, k + 1, L)
             n == L - k
  <1>1. /\ s \in Seq(Entries) /\ L \in Nat /\ k \in 0..L /\ Distinct(s)
        /\ \A i \in 1..L : s[i] \in Entries /\ s[i] # h /\ on[s[i]] = h
        /\ h # to /\ n \in Nat /\ k + n = L
    BY ListAssumption DEF Chained, list_split_after
  <1>2. /\ a \in Seq(Entries) /\ Len(a) = k /\ \A i \in 1..k : a[i] = s[i]
        /\ b \in Seq(Entries) /\ Len(b) = n /\ \A i \in 1..n : b[i] = s[k + i]
    BY <1>1, Parts
  <1> HIDE DEF a, b
  <1>0. L \in Nat /\ k \in 0..L /\ n \in Nat /\ k + n = L
    BY <1>1
  <1>3. \A m \in 0..L : /\ At(h, s, m) \in Cells /\ At(h, s, m + 1) \in Cells
                        /\ At(h, s, m) # to
                        /\ next[At(h, s, m)] = At(h, s, m + 1)
                        /\ prev[At(h, s, m + 1)] = At(h, s, m)
                        /\ m # k => /\ At(h, s, m) # c
                                    /\ At(h, s, m + 1) # At(h, s, k + 1)
                        /\ m # L => /\ At(h, s, m) # At(h, s, L)
                                    /\ At(h, s, m + 1) # h
    <2> SUFFICES ASSUME NEW m \in 0..L
                 PROVE  /\ At(h, s, m) \in Cells /\ At(h, s, m + 1) \in Cells
                        /\ At(h, s, m) # to
                        /\ next[At(h, s, m)] = At(h, s, m + 1)
                        /\ prev[At(h, s, m + 1)] = At(h, s, m)
                        /\ m # k => /\ At(h, s, m) # c
                                    /\ At(h, s, m + 1) # At(h, s, k + 1)
                        /\ m # L => /\ At(h, s, m) # At(h, s, L)
                                    /\ At(h, s, m + 1) # h
      OBVIOUS
    <2>1. /\ m \in 0..(L + 1) /\ m + 1 \in 1..(L + 1) /\ k + 1 \in 1..(L + 1)
          /\ m + 1 \in 0..(L + 1) /\ (m # k => m + 1 # k + 1) /\ L \in 0..L
          /\ (m # L => m + 1 \in 1..L)
      <3> HIDE DEF L
      <3> QED BY <1>0
    <2>2. /\ At(h, s, m) # to
          /\ m # L => At(h, s, m + 1) # h
      BY <1>1, <2>1, ListAssumption DEF At
    <2>3. /\ m # k => At(h, s, m) # c /\ At(h, s, m + 1) # At(h, s, k + 1)
          /\ m # L => At(h, s, m) # At(h, s, L)
      BY <1>1, <2>1, AtDistinct
    <2>4. At(h, s, m) \in Cells /\ At(h, s, m + 1) \in Cells
      BY <1>1, <2>1, AtDistinct
    <2> QED BY <2>2, <2>3, <2>4, Neighbours
  <1>4. /\ next[c] = At(h, s, k + 1) /\ prev[h] = At(h, s, L)
        /\ h = At(h, s, L + 1) /\ h = At(h, s, 0) /\ h \in Cells /\ to \in Cells
    <2>1. next[c] = At(h, s, k + 1) /\ prev[h] = At(h, s, L)
      BY <1>1, Neighbours
    <2>2. h = At(h, s, L + 1) /\ h = At(h, s, 0)
      BY <1>1 DEF At
    <2> QED BY <2>1, <2>2
  <1>5. Distinct(a) /\ Distinct(b)
    <2>1. ASSUME NEW i \in 1..k, NEW j \in 1..k, a[i] = a[j] PROVE i = j
      <3>1. i \in 1..L /\ j \in 1..L
        BY <1>1
      <3> QED BY <1>1, <1>2, <2>1, <3>1 DEF Distinct
    <2>2. ASSUME NEW i \in 1..n, NEW j \in 1..n, b[i] = b[j] PROVE i = j
      <3>1. k + i \in 1..L /\ k + j \in 1..L /\ (k + i = k + j => i = j)
        BY <1>1
      <3> QED BY <1>1, <1>2, <2>2, <3>1 DEF Distinct
    <2> QED BY <1>2, <2>1, <2>2 DEF Distinct
  <1>6. \A e \in Entries :
           on'[e] = IF \E i \in (k + 1)..L : s[i] = e THEN to ELSE on[e]
    <2>1. CASE next[c] = h
      <3>1. ~(k + 1 \in 1..L)
        BY <1>1, <1>4, <2>1 DEF At
      <3>2. (k + 1)..L = {}
        BY <1>1, <3>1
      <3>3. on' = on
        <4>1. ASSUME NEW S \in SUBSET Members(h), Stretch(h, c, S) PROVE FALSE
          BY <2>1, <4>1, ListAssumption DEF Stretch
        <4> QED BY <2>1, <4>1 DEF list_split_after
      <3> QED BY <3>2, <3>3
    <2>2. CASE next[c] # h
      <3>1. PICK S \in SUBSET Members(h) :
               /\ Stretch(h, c, S)
               /\ on' = [e \in Entries |-> IF e \in S THEN to ELSE on[e]]
        BY <2>2 DEF list_split_after
      <3>2. S = {s[i] : i \in (k + 1)..L}
        BY <3>1, StretchIs
      <3> QED BY <3>1, <3>2
    <2> QED BY <2>1, <2>2
  <1>7. \A e \in Entries : on'[e] = h <=> \E i \in 1..Len(a) : a[i] = e
    <2>1. \A i \in 1..k : i \in 1..L /\ \A j \in (k + 1)..L : i # j /\ j \in 1..L
      BY <1>1
    <2>2. \A i \in 1..L : i \in 1..k \/ i \in (k + 1)..L
      BY <1>1
    <2>3. ASSUME NEW e \in Entries, on'[e] = h
          PROVE  \E i \in 1..k : s[i] = e
      <3>1. on[e] = h /\ ~\E i \in (k + 1)..L : s[i] = e
        BY <1>1, <1>6, <2>3
      <3>2. PICK i \in 1..L : s[i] = e
        BY <3>1 DEF Chained
      <3> QED BY <2>2, <3>1, <3>2
    <2>4. ASSUME NEW e \in Entries, NEW i \in 1..k, s[i] = e
          PROVE  on'[e] = h
      <3>1. ~\E j \in (k + 1)..L : s[j] = e
        BY <1>1, <2>1, <2>4 DEF Distinct
      <3> QED BY <1>1, <1>6, <2>1, <2>4, <3>1
    <2> QED BY <1>2, <2>3, <2>4
  <1>8. \A e \in Entries : on'[e] = to <=> \E i \in 1..Len(b) : b[i] = e
    <2>1. \A e \in Entries : on[e] # to
      BY DEF list_split_after
    <2>2. \A i \in 1..n : k + i \in (k + 1)..L
      BY <1>1
    <2>3. \A j \in (k + 1)..L : j - k \in 1..n /\ k + (j - k) = j
      BY <1>1
    <2>4. ASSUME NEW e \in Entries, on'[e] = to
          PROVE  \E i \in 1..n : b[i] = e
      <3>1. PICK j \in (k + 1)..L : s[j] = e
        BY <1>6, <2>1, <2>4
      <3> QED BY <1>2, <2>3, <3>1
    <2>5. ASSUME NEW e \in Entries, NEW i \in 1..n, b[i] = e
          PROVE  on'[e] = to
      BY <1>2, <1>6, <2>2, <2>5
    <2> QED BY <1>2, <2>4, <2>5
  <1>9. CASE k = L
    <2>1. next[c] = h
      BY <1>4, <1>9
    <2>2. /\ next' = [next EXCEPT ![to] = to] /\ prev' = [prev EXCEPT ![to] = to]
      BY <2>1, ListAssumption DEF list_split_after, Stretch
    <2>3. \A i \in 0..(L + 1) : At(h, a, i) = At(h, s, i)
      BY <1>2, <1>9 DEF At
    <2>4. \A m \in 0..L : m \in 0..(L + 1) /\ m + 1 \in 0..(L + 1)
      BY <1>1
    <2>5. \A m \in 0..L : At(h, s, m + 1) # to
      BY <1>1, ListAssumption DEF At
    <2>6. Along(next', prev', h, a)
      BY <1>2, <1>3, <1>9, <2>2, <2>3, <2>4, <2>5 DEF Along, TypeOK
    <2>7. \A i \in Nat : At(to, b, i) = to
      BY <1>1, <1>2, <1>9 DEF At
    <2>8. Along(next', prev', to, b)
      BY <1>1, <1>2, <1>4, <1>9, <2>2, <2>7 DEF Along, TypeOK
    <2>9. Chained(h, a)' /\ Chained(to, b)'
      BY <1>2, <1>5, <1>7, <1>8, <2>6, <2>8 DEF Chained, a, b
    <2> QED BY <1>1, <1>6, <2>9 DEF a, b
  <1>10. CASE k # L
    <2>1. /\ k + 1 \in 1..L /\ L \in 1..L /\ n # 0 /\ At(h, s, k + 1) = s[k + 1]
          /\ At(h, s, L) = s[L]
      BY <1>1, <1>10 DEF At
    <2>2. next[c] # h
      BY <1>1, <1>4, <2>1
    <2>3. /\ next' = [next EXCEPT ![At(h, s, L)] = to, ![to] = At(h, s, k + 1),
                                  ![c] = h]
          /\ prev' = [prev EXCEPT ![to] = At(h, s, L), ![At(h, s, k + 1)] = to,
                                  ![h] = c]
      BY <1>4, <2>2 DEF list_split_after
    <2>4. /\ c \in Cells /\ At(h, s, L) \in Cells /\ At(h, s, k + 1) \in Cells
          /\ c # At(h, s, L) /\ c # to /\ At(h, s, L) # to /\ At(h, s, k + 1) # to
          /\ At(h, s, k + 1) # h
      BY <1>1, <1>3, <1>10, <2>1, ListAssumption
    <2>5. \A d \in Cells :
             /\ next'[d] = IF d = c THEN h ELSE IF d = to THEN At(h, s, k + 1)
                           ELSE IF d = At(h, s, L) THEN to ELSE next[d]
             /\ prev'[d] = IF d = h THEN c ELSE IF d = At(h, s, k + 1) THEN to
                           ELSE IF d = to THEN At(h, s, L) ELSE prev[d]
      BY <1>4, <2>3, <2>4 DEF TypeOK
    <2> HIDE DEF c
    <2>6. \A i \in 0..k : At(h, a, i) = At(h, s, i)
      BY <1>1, <1>2 DEF At
    <2>7. At(h, a, k + 1) = h
      BY <1>1, <1>2 DEF At
    <2>8. Along(next', prev', h, a)
      <3> SUFFICES ASSUME NEW i \in 0..k
                   PROVE  /\ next'[At(h, a, i)] = At(h, a, i + 1)
                          /\ prev'[At(h, a, i + 1)] = At(h, a, i)
        BY <1>2 DEF Along
      <3>1. CASE i = k
        BY <1>4, <2>4, <2>5, <2>6, <2>7, <3>1 DEF c
      <3>2. CASE i # k
        <4>1. i \in 0..L /\ i + 1 \in 0..k /\ i # L /\ i + 1 \in 0..L
          <5> HIDE DEF L
          <5> QED BY <1>0, <3>2
        <4>2. /\ At(h, s, i) # to /\ At(h, s, i + 1) # to /\ At(h, s, i + 1) # h
              /\ At(h, s, i) # At(h, s, L) /\ At(h, s, i) # c
              /\ At(h, s, i + 1) # At(h, s, k + 1)
          BY <1>3, <3>2, <4>1
        <4> QED BY <1>3, <2>5, <2>6, <4>1, <4>2
      <3> QED BY <3>1, <3>2
    <2>9. /\ \A i \in 1..n : At(to, b, i) = At(h, s, k + i)
          /\ At(to, b, 0) = to /\ At(to, b, n + 1) = to
      BY <1>1, <1>2 DEF At
    <2>10. Along(next', prev', to, b)
      <3> SUFFICES ASSUME NEW i \in 0..n
                   PROVE  /\ next'[At(to, b, i)] = At(to, b, i + 1)
                          /\ prev'[At(to, b, i + 1)] = At(to, b, i)
        BY <1>2 DEF Along
      <3>1. CASE i = 0
        <4>1. i + 1 \in 1..n /\ i + 1 = 1
          <5>1. n # 0
            BY <2>1
          <5> HIDE DEF L, n
          <5> QED BY <1>0, <3>1, <5>1
        <4>2. At(to, b, i) = to /\ At(to, b, i + 1) = At(h, s, k + 1)
          BY <2>9, <3>1, <4>1
        <4> QED BY <1>4, <2>4, <2>5, <4>2
      <3>2. CASE i = n
        <4>1. i \in 1..n /\ k + i = L
          <5>1. n # 0
            BY <2>1
          <5> HIDE DEF L, n
          <5> QED BY <1>0, <3>2, <5>1
        <4>2. At(to, b, i) = At(h, s, L) /\ At(to, b, i + 1) = to
          BY <2>9, <3>2, <4>1
        <4> QED BY <1>1, <1>4, <2>4, <2>5, <4>2
      <3>3. CASE i # 0 /\ i # n
        <4>1. /\ i \in 1..n /\ i + 1 \in 1..n /\ k + i \in 0..L /\ k + i # L
              /\ k + i # k /\ (k + i) + 1 = k + (i + 1) /\ k + (i + 1) \in 0..L
          <5> HIDE DEF L, n
          <5> QED BY <1>0, <3>3
        <4>2. /\ At(to, b, i) = At(h, s, k + i)
              /\ At(to, b, i + 1) = At(h, s, (k + i) + 1)
          BY <2>9, <4>1
        <4>3. /\ At(h, s, k + i) # c /\ At(h, s, k + i) # to
              /\ At(h, s, k + i) # At(h, s, L) /\ At(h, s, (k + i) + 1) # h
              /\ At(h, s, (k + i) + 1) # At(h, s, k + 1)
              /\ At(h, s, (k + i) + 1) # to
          BY <1>3, <4>1
        <4> QED BY <1>3, <2>5, <4>1, <4>2, <4>3
      <3> QED BY <3>1, <3>2, <3>3
    <2>11. Chained(h, a)' /\ Chained(to, b)'
      BY <1>2, <1>5, <1>7, <1>8, <2>8, <2>10 DEF Chained, a, b
    <2> QED BY <1>1, <1>6, <2>11 DEF a, b
  <1> QED BY <1>9, <1>10

\* list_splice_after puts the entries of from in after the first k of the list,
\* and leaves from empty.
LEMMA SplicedInto ==
  ASSUME TypeOK, NEW h \in Heads, NEW s, Chained(h, s), NEW k \in 0..Len(s),
         NEW from \in Heads, from # h, NEW r, Chained(from, r), r # <<>>,
         SpliceStores(next, prev, from, At(h, s, k))
  PROVE  /\ Chained(h, Spliced(s, k, r))' /\ Chained(from, <<>>)'
         /\ \A e \in Entries : on[e] # from => on'[e] = on[e]
  <1> DEFINE L == Len(s)
             R == Len(r)
             c == At(h, s, k)
             n == At(h, s, k + 1)
             t == Spliced(s, k, r)
  <1>1. /\ s \in Seq(Entries) /\ L \in Nat /\ k \in 0..L /\ Distinct(s)
        /\ \A i \in 1..L : s[i] \in Entries /\ on[s[i]] = h
    BY DEF Chained
  <1>2. /\ r \in Seq(Entries) /\ R \in Nat \ {0} /\ Distinct(r)
        /\ \A i \in 1..R : r[i] \in Entries /\ on[r[i]] = from
    BY EmptySeq DEF Chained
  <1>3. /\ t \in Seq(Entries) /\ Len(t) = L + R
        /\ \A i \in 1..(L + R) : t[i] = IF i <= k THEN s[i]
                                        ELSE IF i <= k + R THEN r[i - k]
                                        ELSE s[i - R]
    BY <1>1, <1>2, SplicedEntries
  <1> HIDE DEF t
  <1>0. L \in Nat /\ k \in 0..L /\ R \in Nat \ {0}
    BY <1>1, <1>2
  <1>4. \A m \in 0..L : /\ At(h, s, m) \in Cells /\ At(h, s, m + 1) \in Cells
                        /\ next[At(h, s, m)] = At(h, s, m + 1)
                        /\ prev[At(h, s, m + 1)] = At(h, s, m)
                        /\ m # k => At(h, s, m) # c /\ At(h, s, m + 1) # n
                        /\ At(h, s, m) # from /\ At(h, s, m + 1) # from
                        /\ \A i \in 1..R : /\ At(h, s, m) # r[i]
                                           /\ At(h, s, m + 1) # r[i]
    <2> SUFFICES ASSUME NEW m \in 0..L
                 PROVE  /\ At(h, s, m) \in Cells /\ At(h, s, m + 1) \in Cells
                        /\ next[At(h, s, m)] = At(h, s, m + 1)
                        /\ prev[At(h, s, m + 1)] = At(h, s, m)
                        /\ m # k => At(h, s, m) # c /\ At(h, s, m + 1) # n
                        /\ At(h, s, m) # from /\ At(h, s, m + 1) # from
                        /\ \A i \in 1..R : /\ At(h, s, m) # r[i]
                                           /\ At(h, s, m + 1) # r[i]
      OBVIOUS
    <2>1. /\ m \in 0..(L + 1) /\ m + 1 \in 1..(L + 1) /\ k + 1 \in 1..(L + 1)
          /\ m + 1 \in 0..(L + 1) /\ (m # k => m + 1 # k + 1)
      <3> HIDE DEF L
      <3> QED BY <1>0
    <2>2. m # k => At(h, s, m) # c /\ At(h, s, m + 1) # n
      BY <1>1, <2>1, AtDistinct
    <2>3. At(h, s, m) \in Cells /\ At(h, s, m + 1) \in Cells
      BY <1>1, <2>1, AtDistinct
    <2>4. \A j \in Nat : At(h, s, j) = h
                         \/ (At(h, s, j) \in Entries /\ on[At(h, s, j)] = h)
      BY <1>1 DEF At
    <2>5. /\ At(h, s, m) # from /\ At(h, s, m + 1) # from
          /\ \A i \in 1..R : At(h, s, m) # r[i] /\ At(h, s, m + 1) # r[i]
      BY <1>2, <2>1, <2>4, ListAssumption
    <2> QED BY <2>2, <2>3, <2>5, Neighbours
  <1>5. /\ \A m \in 1..R : /\ r[m] \in Cells /\ r[m] # from
                           /\ m < R => next[r[m]] = r[m + 1] /\ r[m] # r[R]
                           /\ m > 1 => prev[r[m]] = r[m - 1] /\ r[m] # r[1]
        /\ next[from] = r[1] /\ prev[from] = r[R]
    <2>1. \A m \in 1..R : At(from, r, m) = r[m]
      BY DEF At
    <2>2. /\ 1 \in 1..R /\ R \in 1..R /\ R \in 0..R
          /\ \A m \in 1..R : /\ m \in 0..R /\ (m < R => m + 1 \in 1..R)
                             /\ (m > 1 => m - 1 \in 1..R)
                             /\ m - 1 \in 0..R /\ (m - 1) + 1 = m
      <3> HIDE DEF R
      <3> QED BY <1>0
    <2>3. /\ next[from] = At(from, r, 1) /\ prev[from] = At(from, r, R)
          /\ \A m \in 0..R : /\ next[At(from, r, m)] = At(from, r, m + 1)
                             /\ prev[At(from, r, m + 1)] = At(from, r, m)
      BY <2>2, Neighbours
    <2>4. next[from] = r[1] /\ prev[from] = r[R]
      BY <2>1, <2>2, <2>3
    <2> SUFFICES ASSUME NEW m \in 1..R
                 PROVE  /\ r[m] \in Cells /\ r[m] # from
                        /\ m < R => next[r[m]] = r[m + 1] /\ r[m] # r[R]
                        /\ m > 1 => prev[r[m]] = r[m - 1] /\ r[m] # r[1]
      BY <2>4
    <2>5. r[m] \in Cells /\ r[m] # from
      BY <1>2, ListAssumption
    <2>6. \A i, j \in 1..R : r[i] = r[j] => i = j
      BY <1>2 DEF Distinct
    <2>7. ASSUME m < R PROVE next[r[m]] = r[m + 1] /\ r[m] # r[R]
      <3>1. m \in 0..R /\ m + 1 \in 1..R /\ m # R
        BY <2>2, <2>7
      <3>2. next[r[m]] = r[m + 1]
        BY <2>1, <2>3, <3>1
      <3> QED BY <2>2, <2>6, <3>1, <3>2
    <2>8. ASSUME m > 1 PROVE prev[r[m]] = r[m - 1] /\ r[m] # r[1]
      <3>1. m - 1 \in 1..R /\ m - 1 \in 0..R /\ (m - 1) + 1 = m /\ m # 1
        BY <2>2, <2>8
      <3>2. prev[r[m]] = r[m - 1]
        BY <2>1, <2>3, <3>1
      <3> QED BY <2>2, <2>6, <3>1, <3>2
    <2> QED BY <2>5, <2>7, <2>8
  <1>6. /\ 1 \in 1..R /\ R \in 1..R
        /\ c \in Cells /\ n \in Cells /\ next[c] = n /\ OwnerOf(c) = h
        /\ c # from /\ n # from
    BY <1>1, <1>2, <1>4, Neighbours
  <1>7. \A d \in Cells :
           /\ next'[d] = IF d = from THEN from ELSE IF d = c THEN r[1]
                         ELSE IF d = r[R] THEN n ELSE next[d]
           /\ prev'[d] = IF d = from THEN from ELSE IF d = n THEN r[R]
                         ELSE IF d = r[1] THEN c ELSE prev[d]
    <2>1. /\ next' = [next EXCEPT ![r[R]] = n, ![c] = r[1], ![from] = from]
          /\ prev' = [prev EXCEPT ![r[1]] = c, ![n] = r[R], ![from] = from]
      BY <1>5, <1>6 DEF SpliceStores
    <2> HIDE DEF c, n
    <2> QED BY <1>5, <1>6, <2>1 DEF TypeOK
  <1>8. \A e \in Entries : on'[e] = IF on[e] = from THEN h ELSE on[e]
    BY <1>6 DEF SpliceStores
  <1>9. \A i \in 0..((L + R) + 1) :
           At(h, t, i) = IF i <= k THEN At(h, s, i)
                         ELSE IF i <= k + R THEN r[i - k] ELSE At(h, s, i - R)
    <2> SUFFICES ASSUME NEW i \in 0..((L + R) + 1)
                 PROVE  At(h, t, i) = IF i <= k THEN At(h, s, i)
                                      ELSE IF i <= k + R THEN r[i - k]
                                      ELSE At(h, s, i - R)
      OBVIOUS
    <2>1. /\ i \in 1..(L + R) /\ i <= k => i \in 1..L
          /\ ~(i \in 1..(L + R)) /\ i <= k => ~(i \in 1..L)
          /\ ~(i \in 1..(L + R)) /\ ~(i <= k) => /\ ~(i <= k + R)
                                                 /\ ~(i - R \in 1..L)
          /\ i \in 1..(L + R) /\ ~(i <= k + R) => i - R \in 1..L
      <3> HIDE DEF L, R
      <3> QED BY <1>0
    <2> QED BY <1>3, <2>1 DEF At
  <1>10. Distinct(t)
    <2> SUFFICES ASSUME NEW i \in 1..(L + R), NEW j \in 1..(L + R), t[i] = t[j]
                 PROVE  i = j
      BY <1>3 DEF Distinct
    <2> DEFINE In(m) == k < m /\ m <= k + R
               From(m) == IF m <= k THEN m ELSE IF In(m) THEN m - k ELSE m - R
    <2>1. ASSUME NEW m \in 1..(L + R)
          PROVE  IF In(m) THEN From(m) \in 1..R /\ t[m] = r[From(m)]
                          ELSE From(m) \in 1..L /\ t[m] = s[From(m)]
      <3>1. IF In(m) THEN From(m) \in 1..R ELSE From(m) \in 1..L
        <4> HIDE DEF L, R
        <4> QED BY <1>0
      <3>2. t[m] = IF In(m) THEN r[From(m)] ELSE s[From(m)]
        <4>1. In(m) <=> ~(m <= k) /\ m <= k + R
          <5> HIDE DEF L, R
          <5> QED BY <1>0
        <4> QED BY <1>3, <4>1
      <3> QED BY <3>1, <3>2
    <2>2. (In(i) <=> In(j)) /\ From(i) = From(j)
      <3> HIDE DEF In, From
      <3>1. \A m \in 1..(L + R) : on[t[m]] = IF In(m) THEN from ELSE h
        <4> TAKE m \in 1..(L + R)
        <4>1. CASE In(m)
          BY <1>2, <2>1, <4>1
        <4>2. CASE ~In(m)
          BY <1>1, <2>1, <4>2
        <4> QED BY <4>1, <4>2
      <3>2. In(i) <=> In(j)
        BY <3>1
      <3>3. CASE In(i)
        BY <1>2, <2>1, <3>2, <3>3 DEF Distinct
      <3>4. CASE ~In(i)
        BY <1>1, <2>1, <3>2, <3>4 DEF Distinct
      <3> QED BY <3>2, <3>3, <3>4
    <2> HIDE DEF L, R
    <2> QED BY <1>0, <2>2
  <1>11. \A e \in Entries : on'[e] = h <=> \E i \in 1..Len(t) : t[i] = e
    <2>1. ASSUME NEW e \in Entries, on[e] = h
          PROVE  \E i \in 1..(L + R) : t[i] = e
      <3>1. PICK i \in 1..L : s[i] = e
        BY <2>1 DEF Chained
      <3>2. /\ i <= k => i \in 1..(L + R)
            /\ ~(i <= k) => /\ i + R \in 1..(L + R) /\ ~(i + R <= k)
                            /\ ~(i + R <= k + R) /\ (i + R) - R = i
        <4> HIDE DEF L, R
        <4> QED BY <1>0
      <3> QED BY <1>3, <3>1, <3>2
    <2>2. ASSUME NEW e \in Entries, on[e] = from
          PROVE  \E i \in 1..(L + R) : t[i] = e
      <3>1. PICK i \in 1..R : r[i] = e
        BY <2>2 DEF Chained
      <3>2. /\ k + i \in 1..(L + R) /\ ~(k + i <= k) /\ k + i <= k + R
            /\ (k + i) - k = i
        <4> HIDE DEF L, R
        <4> QED BY <1>0
      <3> QED BY <1>3, <3>1, <3>2
    <2>3. ASSUME NEW i \in 1..(L + R) PROVE on[t[i]] \in {h, from}
      <3>1. /\ i <= k => i \in 1..L
            /\ ~(i <= k) /\ i <= k + R => i - k \in 1..R
            /\ ~(i <= k + R) => i - R \in 1..L
        <4> HIDE DEF L, R
        <4> QED BY <1>0
      <3> QED BY <1>1, <1>2, <1>3, <3>1
    <2> QED BY <1>3, <1>8, <2>1, <2>2, <2>3
  <1>12. Along(next', prev', h, t)
    <2> SUFFICES ASSUME NEW i \in 0..(L + R)
                 PROVE  /\ next'[At(h, t, i)] = At(h, t, i + 1)
                        /\ prev'[At(h, t, i + 1)] = At(h, t, i)
      BY <1>3 DEF Along
    <2>1. i \in 0..((L + R) + 1) /\ i + 1 \in 0..((L + R) + 1)
      <3> HIDE DEF L, R
      <3> QED BY <1>0
    <2>2. CASE i < k
      <3>1. i <= k /\ i + 1 <= k /\ i \in 0..L /\ i # k
        <4> HIDE DEF L, R
        <4> QED BY <1>0, <2>2
      <3>2. At(h, t, i) = At(h, s, i) /\ At(h, t, i + 1) = At(h, s, i + 1)
        BY <1>9, <2>1, <3>1
      <3> QED BY <1>4, <1>6, <1>7, <3>1, <3>2
    <2>3. CASE i = k
      <3>1. /\ i <= k /\ ~(i + 1 <= k) /\ i + 1 <= k + R /\ (i + 1) - k = 1
        <4> HIDE DEF L, R
        <4> QED BY <1>0, <2>3
      <3>2. At(h, t, i) = c /\ At(h, t, i + 1) = r[1]
        BY <1>9, <2>1, <2>3, <3>1
      <3>3. r[1] \in Cells /\ r[1] # from /\ r[1] # n
        BY <1>1, <1>4, <1>5, <1>6
      <3> QED BY <1>6, <1>7, <3>2, <3>3
    <2>4. CASE k < i /\ i < k + R
      <3>1. /\ ~(i <= k) /\ ~(i + 1 <= k) /\ i <= k + R /\ i + 1 <= k + R
            /\ (i + 1) - k = (i - k) + 1 /\ i - k \in 1..R /\ i - k < R
            /\ (i - k) + 1 \in 1..R /\ (i - k) + 1 > 1 /\ ((i - k) + 1) - 1 = i - k
        <4> HIDE DEF L, R
        <4> QED BY <1>0, <2>4
      <3>2. At(h, t, i) = r[i - k] /\ At(h, t, i + 1) = r[(i - k) + 1]
        BY <1>9, <2>1, <3>1
      <3> DEFINE m == i - k
      <3>3. m \in 1..R /\ m < R /\ m + 1 \in 1..R /\ m + 1 > 1 /\ (m + 1) - 1 = m
        BY <3>1
      <3> HIDE DEF m
      <3>4. r[m] # c /\ r[m + 1] # n
        BY <1>1, <1>4, <3>3
      <3>5. /\ next[r[m]] = r[m + 1] /\ r[m] # r[R] /\ r[m] \in Cells
            /\ prev[r[m + 1]] = r[m] /\ r[m + 1] # r[1] /\ r[m + 1] \in Cells
            /\ r[m] # from /\ r[m + 1] # from
        BY <1>5, <3>3
      <3>6. next'[r[m]] = r[m + 1] /\ prev'[r[m + 1]] = r[m]
        BY <1>7, <3>4, <3>5
      <3> QED BY <3>2, <3>6 DEF m
    <2>5. CASE i = k + R
      <3>1. /\ ~(i <= k) /\ i <= k + R /\ i - k = R /\ ~(i + 1 <= k)
            /\ ~(i + 1 <= k + R) /\ (i + 1) - R = k + 1
        <4> HIDE DEF L, R
        <4> QED BY <1>0, <2>5
      <3>2. At(h, t, i) = r[R] /\ At(h, t, i + 1) = n
        BY <1>9, <2>1, <3>1
      <3>3. r[R] \in Cells /\ r[R] # from /\ r[R] # c
        BY <1>1, <1>4, <1>5, <1>6
      <3> QED BY <1>6, <1>7, <3>2, <3>3
    <2>6. CASE i > k + R
      <3>1. /\ ~(i <= k) /\ ~(i <= k + R) /\ ~(i + 1 <= k) /\ ~(i + 1 <= k + R)
            /\ (i + 1) - R = (i - R) + 1 /\ i - R \in 0..L /\ i - R # k
        <4> HIDE DEF L, R
        <4> QED BY <1>0, <2>6
      <3>2. /\ At(h, t, i) = At(h, s, i - R)
            /\ At(h, t, i + 1) = At(h, s, (i - R) + 1)
        BY <1>9, <2>1, <3>1
      <3> DEFINE m == i - R
      <3>3. m \in 0..L /\ m # k
        BY <3>1
      <3> HIDE DEF m
      <3>4. /\ next'[At(h, s, m)] = At(h, s, m + 1)
            /\ prev'[At(h, s, m + 1)] = At(h, s, m)
        BY <1>4, <1>6, <1>7, <3>3
      <3> QED BY <3>2, <3>4 DEF m
    <2>7. i < k \/ i = k \/ (k < i /\ i < k + R) \/ i = k + R \/ i > k + R
      <3> HIDE DEF L, R
      <3> QED BY <1>0
    <2> QED BY <2>2, <2>3, <2>4, <2>5, <2>6, <2>7
  <1>13. Chained(h, t)'
    BY <1>3, <1>10, <1>11, <1>12 DEF Chained, t
  <1>14. Chained(from, <<>>)'
    <2>1. /\ <<>> \in Seq(Entries) /\ Len(<<>>) = 0 /\ Distinct(<<>>)
          /\ \A i \in Nat : At(from, <<>>, i) = from
      BY DEF Distinct, At
    <2>2. next'[from] = from /\ prev'[from] = from
      BY <1>7
    <2>3. Along(next', prev', from, <<>>)
      BY <2>1, <2>2 DEF Along
    <2>4. \A e \in Entries : on'[e] # from
      BY <1>8
    <2> QED BY <2>1, <2>3, <2>4 DEF Chained
  <1> QED BY <1>8, <1>13, <1>14 DEF t

\* A head whose pointers lead to itself is an empty list.
LEMMA Emptied ==
  ASSUME NEW h \in Heads, next'[h] = h, prev'[h] = h,
         \A e \in Entries : on'[e] # h
  PROVE  Chained(h, <<>>)'
  <1>1. /\ <<>> \in Seq(Entries) /\ Len(<<>>) = 0 /\ Distinct(<<>>)
        /\ \A i \in Nat : At(h, <<>>, i) = h
    BY DEF Distinct, At
  <1>2. Along(next', prev', h, <<>>)
    BY <1>1 DEF Along
  <1> QED BY <1>1, <1>2 DEF Chained

-----------------------------------------------------------------------------
(* Each function of list.h is an operation of ListSpec. *)

\* Some sequences are the lists.
Held == \E l : Holds(l)

\* The step does not concern the list of h.
Untouched(h) ==
  /\ next'[h] = next[h] /\ prev'[h] = prev[h]
  /\ \A e \in Entries : /\ on'[e] = h <=> on[e] = h
                        /\ on[e] = h => next'[e] = next[e] /\ prev'[e] = prev[e]

\* The step makes the lists m, from l.
LEMMA Becomes ==
  ASSUME NEW l, Holds(l), NEW m \in [Heads -> Seq(Entries) \cup {NULL}],
         NEW H \in SUBSET Heads,
         \A h \in Heads \ H : m[h] = l[h] /\ Untouched(h),
         \A h \in H : Chained(h, m[h])'
  PROVE  Held' /\ Lists = l /\ Lists' = m
  <1>1. ASSUME NEW h \in Heads \ H PROVE ListIs(h, m[h])'
    <2>1. ListIs(h, l[h])
      BY DEF Holds
    <2>2. ListIs(h, l[h])'
      BY <2>1, Kept DEF Untouched
    <2> QED BY <2>2
  <1>2. ASSUME NEW h \in H PROVE ListIs(h, m[h])'
    <2>1. m[h] \in Seq(Entries)
      BY DEF Chained
    <2>2. m[h] # NULL
      BY <2>1, RefinementAssumption
    <2> QED BY <2>2 DEF ListIs
  <1>3. Holds(m)'
    BY <1>1, <1>2 DEF Holds
  <1>4. Lists = l
    BY Found
  <1>5. Lists' = m
    BY <1>3, FoundNext
  <1> QED BY <1>3, <1>4, <1>5 DEF Held

\* The step makes t the list of h and touches no other.
LEMMA BecomesAt ==
  ASSUME NEW l, Holds(l), NEW h \in Heads, NEW t, Chained(h, t)',
         \A g \in Heads \ {h} : Untouched(g)
  PROVE  Held' /\ Lists = l /\ Lists' = [l EXCEPT ![h] = t]
  <1> DEFINE m == [l EXCEPT ![h] = t]
  <1>1. t \in Seq(Entries)
    BY DEF Chained
  <1>2. /\ m \in [Heads -> Seq(Entries) \cup {NULL}]
        /\ m[h] = t /\ \A g \in Heads \ {h} : m[g] = l[g]
    BY <1>1 DEF Holds
  <1> HIDE DEF m
  <1>3. {h} \in SUBSET Heads /\ \A g \in {h} : Chained(g, m[g])'
    BY <1>2
  <1>4. \A g \in Heads \ {h} : m[g] = l[g] /\ Untouched(g)
    BY <1>2
  <1>5. m \in [Heads -> Seq(Entries) \cup {NULL}]
    BY <1>2
  <1>6. Held' /\ Lists = l /\ Lists' = m
    BY <1>3, <1>4, <1>5, Becomes, ZenonT(30)
  <1> QED BY <1>6 DEF m

\* A head without entries has none in its sequence.
LEMMA NoEntries ==
  ASSUME NEW l, Holds(l), NEW h \in Heads, Members(h) = {}
  PROVE  Abstract!EntriesOf(h) = {} /\ l[h] \in {NULL, <<>>}
  <1>1. Lists = l
    BY Found
  <1>2. CASE l[h] = NULL
    BY <1>1, <1>2 DEF Abstract!EntriesOf, Abstract!IsList
  <1>3. CASE l[h] # NULL
    <2>1. Chained(h, l[h])
      BY <1>3 DEF Holds, ListIs
    <2>2. l[h] \in Seq(Entries) /\ ~\E i \in 1..Len(l[h]) : TRUE
      BY <2>1 DEF Chained
    <2>3. Len(l[h]) = 0
      BY <2>2
    <2>4. l[h] = <<>>
      BY <2>2, <2>3, EmptySeq
    <2> QED BY <1>1, <2>2, <2>4
        DEF Abstract!EntriesOf, Abstract!IsList, Abstract!ToSet
  <1> QED BY <1>2, <1>3

\* list_init, on a head that holds nothing.
LEMMA InitIs ==
  ASSUME IInv, Held, NEW h \in Heads, list_init(h)
  PROVE  Held' /\ Abstract!Reset(h)
  <1>1. PICK l : Holds(l)
    BY DEF Held
  <1>2. next'[h] = h /\ prev'[h] = h /\ \A e \in Entries : on'[e] # h
    BY DEF list_init, IInv, TypeOK
  <1>3. Chained(h, <<>>)'
    BY <1>2, Emptied
  <1>4. \A g \in Heads \ {h} : Untouched(g)
    BY ListAssumption DEF Untouched, list_init, IInv, TypeOK
  <1>5. Held' /\ Lists = l /\ Lists' = [l EXCEPT ![h] = <<>>]
    BY <1>1, <1>3, <1>4, BecomesAt
  <1>6. Abstract!EntriesOf(h) = {}
    BY <1>1, NoEntries DEF list_init
  <1> QED BY <1>5, <1>6 DEF Abstract!Reset, list_init

\* list_add, after the cell pos.
LEMMA AddIs ==
  ASSUME IInv, Held, NEW pos \in Cells, NEW e \in Entries, list_add(pos, e)
  PROVE  Held' /\ Abstract!Insert(OwnerOf(pos), Place(pos), e)
  <1>1. PICK l : Holds(l)
    BY DEF Held
  <1>2. Contract_Linked(pos) /\ TypeOK
    BY DEF list_add, IInv
  <1>3. PICK h \in Heads, k \in Nat :
           /\ h = OwnerOf(pos) /\ k = Place(pos)
           /\ l[h] # NULL /\ Chained(h, l[h]) /\ k \in 0..Len(l[h])
           /\ pos = At(h, l[h], k)
    <2>1. Place(pos) \in Nat
      BY <1>1, <1>2, Placed
    <2> QED BY <1>1, <1>2, <2>1, Placed
  <1> DEFINE s == l[h]
             t == Abstract!InsertAt(s, k + 1, e)
  <1>4. Chained(h, t)'
    <2>1. list_add(At(h, s, k), e)
      BY <1>3
    <2> HIDE DEF s
    <2> QED BY <1>2, <1>3, <2>1, AddedTo DEF s
  <1> HIDE DEF t
  <1>5. ASSUME NEW g \in Heads \ {h} PROVE Untouched(g)
    <2>1. next[pos] \in Cells /\ OwnerOf(next[pos]) = h /\ OwnerOf(pos) = h
      BY <1>2, <1>3, ListAssumption DEF IInv, WellLinked, SameList
    <2>2. pos # g /\ next[pos] # g
      BY <2>1, ListAssumption
    <2>3. \A d \in Cells : d # e /\ d # pos /\ d # next[pos] =>
             next'[d] = next[d] /\ prev'[d] = prev[d]
      BY <1>2, <2>1 DEF list_add, TypeOK
    <2>4. \A d \in Entries : on'[d] = IF d = e THEN h ELSE on[d]
      BY <1>2, <1>3 DEF list_add, TypeOK
    <2>5. on[e] = NULL
      BY DEF list_add
    <2>6. ASSUME NEW d \in Entries, on[d] = g
          PROVE  d # e /\ d # pos /\ d # next[pos]
      BY <2>1, <2>5, <2>6, ListAssumption
    <2> QED BY <2>2, <2>3, <2>4, <2>5, <2>6, ListAssumption DEF Untouched
  <1>6. Held' /\ Lists = l /\ Lists' = [l EXCEPT ![h] = t]
    BY <1>1, <1>4, <1>5, BecomesAt
  <1>7. Abstract!Insert(h, k, e)
    BY <1>3, <1>6 DEF Abstract!Insert, Abstract!IsList, list_add, t
  <1> QED BY <1>3, <1>6, <1>7

\* list_add_tail, before the cell pos: after the cell that precedes it.
LEMMA AddTailIs ==
  ASSUME IInv, Held, NEW pos \in Cells, NEW e \in Entries, list_add_tail(pos, e)
  PROVE  /\ Held'
         /\ Abstract!Insert(OwnerOf(pos),
                            IF pos \in Heads THEN list_length(pos)
                                             ELSE Place(pos) - 1, e)
  <1>1. PICK l : Holds(l)
    BY DEF Held
  <1>2. Contract_Linked(pos) /\ TypeOK
    BY DEF list_add_tail, IInv
  <1> DEFINE q == prev[pos]
             h == OwnerOf(pos)
             s == l[h]
             k == IF pos \in Heads THEN Len(s) ELSE Place(pos) - 1
  <1>3. q \in Cells /\ Contract_Linked(q) /\ next[q] = pos /\ OwnerOf(q) = h
    BY <1>2, ListAssumption DEF IInv, WellLinked, SameList
  <1>4. list_add(q, e)
    BY <1>3 DEF list_add, list_add_tail
  <1>5. Held' /\ Abstract!Insert(OwnerOf(q), Place(q), e)
    BY <1>3, <1>4, AddIs
  <1>6. /\ h \in Heads /\ Chained(h, s) /\ s \in Seq(Entries) /\ Distinct(s)
        /\ Place(pos) \in 0..Len(s) /\ pos = At(h, s, Place(pos))
        /\ pos \in Heads <=> Place(pos) = 0
    BY <1>1, <1>2, Placed DEF Chained
  <1>7. Place(q) \in 0..Len(s) /\ q = At(h, s, Place(q))
    BY <1>1, <1>2, <1>3, Placed
  <1>8. k \in 0..Len(s) /\ q = At(h, s, k)
    <2>1. CASE pos \in Heads
      BY <1>6, <2>1, Neighbours
    <2>2. CASE pos \notin Heads
      <3>1. k \in 0..Len(s) /\ k + 1 = Place(pos)
        BY <1>6, <2>2
      <3>2. prev[At(h, s, k + 1)] = At(h, s, k)
        <4> HIDE DEF k, h, s
        <4> QED BY <1>6, <3>1, Neighbours
      <3> QED BY <1>6, <3>1, <3>2
    <2> QED BY <2>1, <2>2
  <1>9. Place(q) = k
    <2> HIDE DEF k, h, s, q
    <2> QED BY <1>6, <1>7, <1>8, AtDistinct
  <1>10. pos \in Heads => list_length(pos) = Len(s)
    BY <1>6, WalkOfList
  <1> QED BY <1>3, <1>5, <1>9, <1>10

\* list_replace, in the place of old.
LEMMA ReplaceIs ==
  ASSUME IInv, Held, NEW old \in Entries, NEW new \in Entries,
         list_replace(old, new)
  PROVE  Held' /\ Abstract!Substitute(on[old], Place(old), new)
  <1>1. PICK l : Holds(l)
    BY DEF Held
  <1>2. Contract_Linked(old) /\ TypeOK /\ old \notin Heads
    BY ListAssumption DEF list_replace, IInv
  <1>3. PICK h \in Heads, k \in Nat :
           /\ h = on[old] /\ k = Place(old)
           /\ l[h] # NULL /\ Chained(h, l[h]) /\ k \in 1..Len(l[h])
           /\ old = At(h, l[h], k)
    <2>1. /\ Place(old) \in Nat /\ Place(old) # 0 /\ on[old] = OwnerOf(old)
          /\ Place(old) \in 0..Len(l[OwnerOf(old)])
          /\ Len(l[OwnerOf(old)]) \in Nat
      BY <1>1, <1>2, Placed DEF Chained
    <2>2. Place(old) \in 1..Len(l[OwnerOf(old)])
      BY <2>1
    <2> QED BY <1>1, <1>2, <2>1, <2>2, Placed
  <1> DEFINE s == l[h]
             t == [s EXCEPT ![k] = new]
  <1>4. s[k] = old
    BY <1>3 DEF At
  <1>5. Chained(h, t)'
    <2>1. list_replace(s[k], new)
      BY <1>4
    <2> HIDE DEF s
    <2> QED BY <1>2, <1>3, <2>1, ReplacedIn DEF s
  <1>6. ASSUME NEW g \in Heads \ {h} PROVE Untouched(g)
    <2>1. /\ next[old] \in Cells /\ OwnerOf(next[old]) = h
          /\ prev[old] \in Cells /\ OwnerOf(prev[old]) = h
      BY <1>2, <1>3, ListAssumption DEF IInv, WellLinked, SameList
    <2>2. next[old] # g /\ prev[old] # g
      BY <2>1, ListAssumption
    <2>3. \A d \in Cells : d # new /\ d # prev[old] /\ d # next[old] =>
             next'[d] = next[d] /\ prev'[d] = prev[d]
      BY <1>2, <2>1 DEF list_replace, TypeOK
    <2>4. \A d \in Entries : on'[d] = IF d = old THEN NULL
                                      ELSE IF d = new THEN h ELSE on[d]
      BY <1>2, <1>3 DEF list_replace, TypeOK
    <2>5. on[new] = NULL /\ g # NULL
      BY ListAssumption DEF list_replace
    <2>6. ASSUME NEW d \in Entries, on[d] = g
          PROVE  d # new /\ d # old /\ d # prev[old] /\ d # next[old]
      BY <1>3, <2>1, <2>5, <2>6, ListAssumption
    <2>7. next'[g] = next[g] /\ prev'[g] = prev[g]
      BY <2>2, <2>3, ListAssumption
    <2>8. \A d \in Entries : on'[d] = g <=> on[d] = g
      BY <2>4, <2>5, <2>6
    <2>9. \A d \in Entries :
             on[d] = g => next'[d] = next[d] /\ prev'[d] = prev[d]
      BY <2>3, <2>6
    <2> QED BY <2>7, <2>8, <2>9 DEF Untouched
  <1>7. Held' /\ Lists = l /\ Lists' = [l EXCEPT ![h] = t]
    <2> HIDE DEF t
    <2> QED BY <1>1, <1>5, <1>6, BecomesAt
  <1>8. Abstract!Substitute(h, k, new)
    <2>1. k \in DOMAIN s /\ s # NULL
      BY <1>3 DEF Chained
    <2>2. [l EXCEPT ![h] = t] = [l EXCEPT ![h][k] = new]
      BY <1>1, <1>3 DEF Holds
    <2> QED BY <1>7, <2>1, <2>2
        DEF Abstract!Substitute, Abstract!IsList, list_replace
  <1> QED BY <1>3, <1>7, <1>8

\* Unlink, of entry k of the list of h.
LEMMA UnlinkIs ==
  ASSUME IInv, NEW l, Holds(l), NEW h \in Heads, l[h] # NULL,
         NEW k \in 1..Len(l[h]), Unlink(l[h][k])
  PROVE  /\ Held' /\ Lists = l
         /\ Lists' = [l EXCEPT ![h] = Abstract!RemoveAt(l[h], k)]
  <1> DEFINE s == l[h]
             e == s[k]
             t == Abstract!RemoveAt(s, k)
  <1>1. TypeOK /\ Chained(h, s)
    BY DEF IInv, Holds, ListIs
  <1>2. e \in Entries /\ on[e] = h /\ h # NULL
    BY <1>1, ListAssumption DEF Chained
  <1>3. Chained(h, t)'
    <2> HIDE DEF s
    <2> QED BY <1>1, UnlinkedFrom DEF s
  <1> HIDE DEF e, t
  <1>4. Unlink(e)
    BY DEF e
  <1>5. ASSUME NEW g \in Heads \ {h} PROVE Untouched(g)
    <2>1. /\ next[e] \in Cells /\ OwnerOf(next[e]) = h
          /\ prev[e] \in Cells /\ OwnerOf(prev[e]) = h
      BY <1>2, ListAssumption DEF IInv, WellLinked, SameList
    <2>2. next[e] # g /\ prev[e] # g
      BY <2>1, ListAssumption
    <2>3. \A d \in Cells : d # e /\ d # prev[e] /\ d # next[e] =>
             next'[d] = next[d] /\ prev'[d] = prev[d]
      BY <1>1, <1>2, <1>4, <2>1 DEF Unlink, TypeOK
    <2>4. \A d \in Entries : on'[d] = IF d = e THEN NULL ELSE on[d]
      BY <1>1, <1>2, <1>4 DEF Unlink, TypeOK
    <2>5. ASSUME NEW d \in Entries, on[d] = g
          PROVE  d # e /\ d # prev[e] /\ d # next[e]
      BY <1>2, <2>1, <2>5, ListAssumption
    <2> QED BY <1>2, <2>2, <2>3, <2>4, <2>5, ListAssumption DEF Untouched
  <1>6. Held' /\ Lists = l /\ Lists' = [l EXCEPT ![h] = t]
    BY <1>3, <1>5, BecomesAt
  <1> QED BY <1>6 DEF t

\* list_delete, of an entry that is on a list.
LEMMA DeleteIs ==
  ASSUME IInv, Held, NEW e \in Entries, list_delete(e)
  PROVE  Held' /\ Abstract!Delete(on[e], Place(e))
  <1>1. PICK l : Holds(l)
    BY DEF Held
  <1>2. Contract_Linked(e) /\ TypeOK /\ e \notin Heads
    BY ListAssumption DEF list_delete, IInv
  <1>3. PICK h \in Heads, k \in Nat :
           /\ h = on[e] /\ k = Place(e)
           /\ l[h] # NULL /\ Chained(h, l[h]) /\ k \in 1..Len(l[h])
           /\ e = At(h, l[h], k)
    <2>1. /\ Place(e) \in Nat /\ Place(e) # 0 /\ on[e] = OwnerOf(e)
          /\ Place(e) \in 0..Len(l[OwnerOf(e)]) /\ Len(l[OwnerOf(e)]) \in Nat
      BY <1>1, <1>2, Placed DEF Chained
    <2>2. Place(e) \in 1..Len(l[OwnerOf(e)])
      BY <2>1
    <2> QED BY <1>1, <1>2, <2>1, <2>2, Placed
  <1>4. Unlink(l[h][k])
    BY <1>3 DEF list_delete, At
  <1>5. Held' /\ Lists = l /\ Lists' = [l EXCEPT ![h] = Abstract!RemoveAt(l[h], k)]
    BY <1>1, <1>3, <1>4, UnlinkIs
  <1>6. Abstract!Delete(h, k)
    <2>1. k \in DOMAIN l[h]
      BY <1>3 DEF Chained
    <2> QED BY <1>1, <1>3, <1>5, <2>1
        DEF Abstract!Delete, Abstract!IsList, list_delete
  <1> QED BY <1>3, <1>5, <1>6

\* The lists are as they were.
LEMMA NoneChanges ==
  ASSUME NEW l, Holds(l), UNCHANGED <<next, prev, on>>
  PROVE  Held' /\ Lists = l /\ Lists' = l
  <1>1. \A h \in Heads : Untouched(h)
    BY DEF Untouched
  <1>2. \A h \in Heads : ListIs(h, l[h])'
    BY <1>1, Kept DEF Untouched, Holds
  <1>3. Holds(l)'
    BY <1>2 DEF Holds
  <1>4. Lists = l
    BY Found
  <1>5. Lists' = l
    BY <1>3, FoundNext
  <1> QED BY <1>3, <1>4, <1>5 DEF Held

\* The first and the last entry of a list are what its head points to.
LEMMA AtTheEnds ==
  ASSUME NEW l, Holds(l), NEW h \in Heads, Ready(h)
  PROVE  LET s == l[h]
         IN  /\ s # NULL /\ Chained(h, s) /\ s \in Seq(Entries)
             /\ next[h] = h <=> s = <<>>
             /\ prev[h] = h <=> s = <<>>
             /\ s # <<>> => /\ 1 \in 1..Len(s) /\ Len(s) \in 1..Len(s)
                            /\ next[h] = s[1] /\ prev[h] = s[Len(s)]
  <1> DEFINE s == l[h]
             L == Len(s)
  <1>1. s # NULL /\ Chained(h, s)
    BY DEF Holds, ListIs
  <1>2. s \in Seq(Entries) /\ L \in Nat /\ (s = <<>> <=> L = 0)
    BY <1>1, EmptySeq DEF Chained
  <1>3. next[h] = At(h, s, 1) /\ prev[h] = At(h, s, L)
    <2>1. 0 \in 0..L
      BY <1>2
    <2> QED BY <1>1, <2>1, Neighbours
  <1>4. L # 0 => 1 \in 1..L /\ L \in 1..L
    BY <1>2
  <1>5. \A i \in 1..L : At(h, s, i) = s[i] /\ s[i] # h
    BY <1>2, ListAssumption DEF At
  <1>6. L = 0 => At(h, s, 1) = h /\ At(h, s, L) = h
    BY <1>2 DEF At
  <1> HIDE DEF L
  <1>7. L # 0 => next[h] = s[1] /\ prev[h] = s[L] /\ next[h] # h /\ prev[h] # h
    BY <1>3, <1>4, <1>5
  <1> QED BY <1>1, <1>2, <1>3, <1>4, <1>6, <1>7 DEF L

\* list_remove_head takes the first entry, or says that there is none.
LEMMA RemoveHeadIs ==
  ASSUME IInv, Held, NEW h \in Heads, list_remove_head(h)
  PROVE  Held' /\ Abstract!PopFirst(h)
  <1>1. PICK l : Holds(l)
    BY DEF Held
  <1> DEFINE s == l[h]
  <1>2. /\ s # NULL /\ s \in Seq(Entries) /\ (next[h] = h <=> s = <<>>)
        /\ s # <<>> => 1 \in 1..Len(s) /\ next[h] = s[1]
    BY <1>1, AtTheEnds DEF list_remove_head
  <1>3. CASE next[h] = h
    <2>1. UNCHANGED <<next, prev, on>> /\ ret' = NULL
      BY <1>3 DEF list_remove_head
    <2>2. Held' /\ Lists = l /\ Lists' = l
      BY <1>1, <2>1, NoneChanges
    <2> QED BY <1>2, <1>3, <2>1, <2>2 DEF Abstract!PopFirst, Abstract!IsList
  <1>4. CASE next[h] # h
    <2>1. Unlink(s[1]) /\ ret' = s[1] /\ s # <<>> /\ 1 \in 1..Len(s)
      BY <1>2, <1>4 DEF list_remove_head
    <2>2. /\ Held' /\ Lists = l
          /\ Lists' = [l EXCEPT ![h] = Abstract!RemoveAt(s, 1)]
      BY <1>1, <1>2, <2>1, UnlinkIs
    <2>3. Head(s) = s[1] /\ Tail(s) = Abstract!RemoveAt(s, 1)
      BY <1>2, <2>1, Ended
    <2>4. Lists[h] = s /\ ret' = Head(Lists[h])
      BY <2>1, <2>2, <2>3
    <2>5. Lists' = [Lists EXCEPT ![h] = Tail(@)]
      BY <2>2, <2>3
    <2> QED BY <1>2, <2>1, <2>2, <2>4, <2>5 DEF Abstract!PopFirst, Abstract!IsList
  <1> QED BY <1>3, <1>4

\* list_remove_tail takes the last entry, or says that there is none.
LEMMA RemoveTailIs ==
  ASSUME IInv, Held, NEW h \in Heads, list_remove_tail(h)
  PROVE  Held' /\ Abstract!PopLast(h)
  <1>1. PICK l : Holds(l)
    BY DEF Held
  <1> DEFINE s == l[h]
  <1>2. /\ s # NULL /\ s \in Seq(Entries) /\ (prev[h] = h <=> s = <<>>)
        /\ s # <<>> => Len(s) \in 1..Len(s) /\ prev[h] = s[Len(s)]
    BY <1>1, AtTheEnds DEF list_remove_tail
  <1>3. CASE prev[h] = h
    <2>1. UNCHANGED <<next, prev, on>> /\ ret' = NULL
      BY <1>3 DEF list_remove_tail
    <2>2. Held' /\ Lists = l /\ Lists' = l
      BY <1>1, <2>1, NoneChanges
    <2> QED BY <1>2, <1>3, <2>1, <2>2 DEF Abstract!PopLast, Abstract!IsList
  <1>4. CASE prev[h] # h
    <2>1. /\ Unlink(s[Len(s)]) /\ ret' = s[Len(s)] /\ s # <<>>
          /\ Len(s) \in 1..Len(s)
      BY <1>2, <1>4 DEF list_remove_tail
    <2>2. /\ Held' /\ Lists = l
          /\ Lists' = [l EXCEPT ![h] = Abstract!RemoveAt(s, Len(s))]
      BY <1>1, <1>2, <2>1, UnlinkIs
    <2>3. /\ Abstract!Last(s) = s[Len(s)]
          /\ Abstract!Front(s) = Abstract!RemoveAt(s, Len(s))
      BY <1>2, <2>1, Ended
    <2>4. Lists[h] = s /\ ret' = Abstract!Last(Lists[h])
      BY <2>1, <2>2, <2>3
    <2>5. Lists' = [Lists EXCEPT ![h] = Abstract!Front(@)]
      BY <2>2, <2>3
    <2> QED BY <1>2, <2>1, <2>2, <2>4, <2>5 DEF Abstract!PopLast, Abstract!IsList
  <1> QED BY <1>3, <1>4

\* The step makes t the list of h and u that of g, and touches no other.
LEMMA BecomesBoth ==
  ASSUME NEW l, Holds(l), NEW h \in Heads, NEW g \in Heads, g # h,
         NEW t, Chained(h, t)', NEW u, Chained(g, u)',
         \A f \in Heads \ {h, g} : Untouched(f)
  PROVE  Held' /\ Lists = l /\ Lists' = [l EXCEPT ![h] = t, ![g] = u]
  <1> DEFINE m == [l EXCEPT ![h] = t, ![g] = u]
  <1>1. t \in Seq(Entries) /\ u \in Seq(Entries)
    BY DEF Chained
  <1>2. /\ m \in [Heads -> Seq(Entries) \cup {NULL}]
        /\ m[h] = t /\ m[g] = u /\ \A f \in Heads \ {h, g} : m[f] = l[f]
    BY <1>1 DEF Holds
  <1> HIDE DEF m
  <1>3. {h, g} \in SUBSET Heads /\ \A f \in {h, g} : Chained(f, m[f])'
    BY <1>2
  <1>4. \A f \in Heads \ {h, g} : m[f] = l[f] /\ Untouched(f)
    BY <1>2
  <1>5. m \in [Heads -> Seq(Entries) \cup {NULL}]
    BY <1>2
  <1>6. Held' /\ Lists = l /\ Lists' = m
    BY <1>3, <1>4, <1>5, Becomes, ZenonT(30)
  <1> QED BY <1>6 DEF m

\* list_split_after, after the cell pos.
LEMMA SplitIs ==
  ASSUME IInv, Held, NEW h \in Heads, NEW to \in Heads, NEW pos \in Cells,
         list_split_after(h, pos, to)
  PROVE  Held' /\ Abstract!Split(h, Place(pos), to)
  <1>1. PICK l : Holds(l)
    BY DEF Held
  <1>2. Contract_Linked(pos) /\ OwnerOf(pos) = h /\ TypeOK /\ to # h
    BY DEF list_split_after, IInv
  <1>3. PICK k \in Nat : /\ k = Place(pos) /\ l[h] # NULL /\ Chained(h, l[h])
                         /\ k \in 0..Len(l[h]) /\ pos = At(h, l[h], k)
    <2>1. Place(pos) \in Nat
      BY <1>1, <1>2, Placed
    <2> QED BY <1>1, <1>2, <2>1, Placed
  <1> DEFINE s == l[h]
             a == SubSeq(s, 1, k)
             b == SubSeq(s, k + 1, Len(s))
  <1>4. Chained(h, a)' /\ Chained(to, b)'
    <2>1. list_split_after(h, At(h, s, k), to)
      BY <1>3
    <2> HIDE DEF s
    <2> QED BY <1>2, <1>3, <2>1, SplitAt DEF s
  <1> HIDE DEF a, b
  <1>5. ASSUME NEW g \in Heads \ {h, to} PROVE Untouched(g)
    <2>1. /\ next[pos] \in Cells /\ OwnerOf(next[pos]) = h
          /\ prev[h] \in Cells /\ OwnerOf(prev[h]) = h
      BY <1>2, ListAssumption
      DEF IInv, WellLinked, SameList, list_split_after
    <2>2. pos # g /\ next[pos] # g /\ prev[h] # g
      BY <1>2, <2>1, ListAssumption
    <2>3. \A d \in Cells : d \notin {pos, next[pos], prev[h], h, to} =>
             next'[d] = next[d] /\ prev'[d] = prev[d]
      BY <1>2, <2>1 DEF list_split_after, TypeOK
    <2>4. \A d \in Entries : on'[d] = on[d] \/ (on[d] = h /\ on'[d] = to)
      <3>1. CASE next[pos] = h
        BY <3>1, ListAssumption DEF list_split_after, Stretch
      <3>2. CASE next[pos] # h
        BY <3>2 DEF list_split_after
      <3> QED BY <3>1, <3>2
    <2>5. ASSUME NEW d \in Entries, on[d] = g
          PROVE  d \notin {pos, next[pos], prev[h], h, to}
      BY <1>2, <2>1, <2>5, ListAssumption
    <2> QED BY <2>2, <2>3, <2>4, <2>5, ListAssumption DEF Untouched
  <1>6. Held' /\ Lists = l /\ Lists' = [l EXCEPT ![h] = a, ![to] = b]
    BY <1>1, <1>2, <1>4, <1>5, BecomesBoth
  <1>7. Abstract!EntriesOf(to) = {}
    BY <1>1, NoEntries DEF list_split_after
  <1>8. Abstract!Split(h, k, to)
    BY <1>2, <1>3, <1>6, <1>7
    DEF Abstract!Split, Abstract!IsList, list_split_after, a, b
  <1> QED BY <1>3, <1>6, <1>8

\* list_splice_after, after the cell pos.
LEMMA SpliceIs ==
  ASSUME IInv, Held, NEW from \in Heads, NEW pos \in Cells,
         list_splice_after(from, pos)
  PROVE  Held' /\ Abstract!Splice(from, OwnerOf(pos), Place(pos))
  <1>1. PICK l : Holds(l)
    BY DEF Held
  <1>2. /\ Contract_Linked(pos) /\ OwnerOf(pos) # from /\ TypeOK
        /\ Ready(from) /\ UNCHANGED ret
    BY DEF list_splice_after, IInv
  <1>3. PICK h \in Heads, k \in Nat :
           /\ h = OwnerOf(pos) /\ k = Place(pos)
           /\ l[h] # NULL /\ Chained(h, l[h]) /\ k \in 0..Len(l[h])
           /\ pos = At(h, l[h], k)
    <2>1. Place(pos) \in Nat
      BY <1>1, <1>2, Placed
    <2> QED BY <1>1, <1>2, <2>1, Placed
  <1> DEFINE s == l[h]
             r == l[from]
             t == Spliced(s, k, r)
  <1>4. /\ r # NULL /\ Chained(from, r) /\ r \in Seq(Entries)
        /\ (next[from] = from <=> r = <<>>) /\ (prev[from] = from <=> r = <<>>)
    BY <1>1, <1>2, AtTheEnds
  <1>5. s \in Seq(Entries) /\ h # from
    BY <1>2, <1>3 DEF Chained
  <1>6. Held' /\ Lists = l /\ Lists' = [l EXCEPT ![h] = t, ![from] = <<>>]
    <2>1. CASE r = <<>>
      <3>1. list_is_empty(from)
        BY <1>4, <2>1 DEF list_is_empty
      <3>2. UNCHANGED <<next, prev, on>>
        BY <3>1 DEF list_splice_after
      <3>3. Held' /\ Lists = l /\ Lists' = l
        BY <1>1, <3>2, NoneChanges
      <3>4. t = s
        <4> HIDE DEF s
        <4>1. s \in Seq(Entries) /\ k \in 0..Len(s)
          BY <1>3, <1>5 DEF s
        <4>2. /\ t \in Seq(Entries) /\ Len(t) = Len(s)
              /\ \A i \in 1..Len(s) : t[i] = s[i]
          <5>1. /\ t \in Seq(Entries) /\ Len(t) = Len(s) + Len(r)
                /\ \A i \in 1..(Len(s) + Len(r)) :
                      t[i] = IF i <= k THEN s[i]
                             ELSE IF i <= k + Len(r) THEN r[i - k]
                             ELSE s[i - Len(r)]
            BY <1>4, <4>1, SplicedEntries
          <5>2. Len(r) = 0
            BY <2>1
          <5> HIDE DEF t, r
          <5>3. Len(s) + Len(r) = Len(s) /\ k + Len(r) = k
            BY <4>1, <5>2
          <5>4. \A i \in 1..Len(s) : i - Len(r) = i
            BY <4>1, <5>2
          <5> QED BY <4>1, <5>1, <5>3, <5>4
        <4> HIDE DEF t
        <4> QED BY <4>1, <4>2, SeqEqual
      <3>5. l = [l EXCEPT ![h] = t, ![from] = <<>>]
        BY <1>1, <2>1, <3>4 DEF Holds
      <3> QED BY <3>3, <3>5
    <2>2. CASE r # <<>>
      <3>1. ~list_is_empty(from)
        BY <1>4, <2>2 DEF list_is_empty
      <3>2. SpliceStores(next, prev, from, pos)
        BY <3>1 DEF list_splice_after
      <3>3. Chained(h, t)' /\ Chained(from, <<>>)'
        <4>1. SpliceStores(next, prev, from, At(h, s, k))
          BY <1>3, <3>2
        <4> HIDE DEF s, r
        <4> QED BY <1>2, <1>3, <1>4, <1>5, <2>2, <4>1, SplicedInto DEF s
      <3> HIDE DEF t
      <3>4. ASSUME NEW g \in Heads \ {h, from} PROVE Untouched(g)
        <4>1. /\ next[pos] \in Cells /\ OwnerOf(next[pos]) = h
              /\ prev[from] \in Cells /\ OwnerOf(prev[from]) = from
              /\ next[from] \in Cells /\ OwnerOf(next[from]) = from
              /\ OwnerOf(pos) = h
          BY <1>2, <1>3, ListAssumption DEF IInv, WellLinked, SameList
        <4>2. \A d \in Cells :
                 d \notin {pos, next[pos], prev[from], next[from], from} =>
                   next'[d] = next[d] /\ prev'[d] = prev[d]
          BY <1>2, <3>2, <4>1 DEF SpliceStores, TypeOK
        <4>3. \A d \in Entries : on'[d] = on[d] \/ (on[d] = from /\ on'[d] = h)
          BY <3>2, <4>1 DEF SpliceStores
        <4>4. ASSUME NEW d \in Cells, OwnerOf(d) = g
              PROVE  d \notin {pos, next[pos], prev[from], next[from], from}
          BY <4>1, <4>4
        <4>5. /\ OwnerOf(g) = g
              /\ \A d \in Entries : on[d] = g => OwnerOf(d) = g
          BY ListAssumption
        <4> QED BY <4>2, <4>3, <4>4, <4>5 DEF Untouched
      <3> QED BY <1>1, <1>5, <3>3, <3>4, BecomesBoth
    <2> QED BY <2>1, <2>2
  <1>7. Abstract!Splice(from, h, k)
    BY <1>2, <1>3, <1>4, <1>5, <1>6
    DEF Abstract!Splice, Abstract!IsList, Spliced
  <1> QED BY <1>3, <1>6, <1>7

\* list_move gives the list of old to new, and leaves old empty.
LEMMA MovedTo ==
  ASSUME TypeOK, NEW old \in Heads, NEW new \in Heads, list_move(old, new),
         NEW r, Chained(old, r)
  PROVE  Chained(new, r)' /\ Chained(old, <<>>)'
  <1> DEFINE R == Len(r)
  <1>1. /\ r \in Seq(Entries) /\ R \in Nat /\ (r = <<>> <=> R = 0) /\ Distinct(r)
        /\ \A i \in 1..R : /\ r[i] \in Entries /\ on[r[i]] = old
                           /\ r[i] # old /\ r[i] # new
        /\ old # new /\ \A e \in Entries : on[e] # new
        /\ \A e \in Entries : on[e] = old <=> \E i \in 1..R : r[i] = e
    BY EmptySeq, ListAssumption DEF Chained, list_move
  <1>2. \A m \in 0..R : /\ next[At(old, r, m)] = At(old, r, m + 1)
                        /\ prev[At(old, r, m + 1)] = At(old, r, m)
    BY Neighbours
  <1>3. CASE r = <<>>
    <2>1. At(old, r, 0) = old /\ At(old, r, 0 + 1) = old /\ 0 \in 0..R
      BY <1>3 DEF At
    <2>2. list_is_empty(old)
      BY <1>2, <2>1 DEF list_is_empty
    <2>3. /\ next' = [next EXCEPT ![new] = new] /\ prev' = [prev EXCEPT ![new] = new]
          /\ UNCHANGED on
      BY <2>2 DEF list_move
    <2>4. /\ next'[new] = new /\ prev'[new] = new
          /\ next'[old] = old /\ prev'[old] = old
      BY <1>1, <2>2, <2>3 DEF list_is_empty, TypeOK
    <2>5. \A e \in Entries : on'[e] # new /\ on'[e] # old
      BY <1>1, <1>3, <2>3
    <2> QED BY <1>3, <2>4, <2>5, Emptied
  <1>4. CASE r # <<>>
    <2> HIDE DEF R
    <2>1. /\ R \in Nat \ {0} /\ 1 \in 1..R /\ R \in 1..R /\ R \in 0..R /\ 0 \in 0..R
          /\ 0 + 1 = 1
      BY <1>1, <1>4
    <2>2. /\ \A i \in 1..R : At(old, r, i) = r[i] /\ At(new, r, i) = r[i]
          /\ At(old, r, 0) = old /\ At(old, r, R + 1) = old
          /\ At(new, r, 0) = new /\ At(new, r, R + 1) = new
      BY <2>1 DEF At, R
    <2>3. next[old] = r[1] /\ prev[old] = r[R] /\ ~list_is_empty(old)
      BY <1>1, <1>2, <2>1, <2>2 DEF list_is_empty
    <2>4. /\ next' = [[next EXCEPT ![new] = new]
                        EXCEPT ![r[R]] = new, ![new] = r[1], ![old] = old]
          /\ prev' = [[prev EXCEPT ![new] = new]
                        EXCEPT ![r[1]] = new, ![new] = r[R], ![old] = old]
          /\ on' = [e \in Entries |-> IF on[e] = old THEN new ELSE on[e]]
      BY <1>1, <2>3 DEF list_move, SpliceStores, TypeOK
    <2>5. \A d \in Cells :
             /\ next'[d] = IF d = old THEN old ELSE IF d = new THEN r[1]
                           ELSE IF d = r[R] THEN new ELSE next[d]
             /\ prev'[d] = IF d = old THEN old ELSE IF d = new THEN r[R]
                           ELSE IF d = r[1] THEN new ELSE prev[d]
      BY <1>1, <2>1, <2>4 DEF TypeOK
    <2>6. Along(next', prev', new, r)
      <3> SUFFICES ASSUME NEW i \in 0..R
                   PROVE  /\ next'[At(new, r, i)] = At(new, r, i + 1)
                          /\ prev'[At(new, r, i + 1)] = At(new, r, i)
        BY DEF Along, R
      <3>1. CASE i = 0
        BY <1>1, <2>1, <2>2, <2>5, <3>1
      <3>2. CASE i = R
        BY <1>1, <2>1, <2>2, <2>5, <3>2
      <3>3. CASE i # 0 /\ i # R
        <4>1. i \in 1..R /\ i + 1 \in 1..R /\ i # R /\ i + 1 # 1
          BY <2>1, <3>3
        <4>2. /\ next[r[i]] = r[i + 1] /\ prev[r[i + 1]] = r[i]
              /\ r[i] # r[R] /\ r[i + 1] # r[1]
          BY <1>1, <1>2, <2>1, <2>2, <4>1 DEF Distinct, R
        <4> QED BY <1>1, <2>2, <2>5, <4>1, <4>2
      <3> QED BY <3>1, <3>2, <3>3
    <2>7. \A e \in Entries : on'[e] # old /\ (on'[e] = new <=> on[e] = old)
      BY <1>1, <2>4
    <2>8. Chained(new, r)'
      BY <1>1, <2>6, <2>7 DEF Chained, R
    <2>9. Chained(old, <<>>)'
      BY <2>5, <2>7, Emptied
    <2> QED BY <2>8, <2>9
  <1> QED BY <1>3, <1>4

\* list_move, to a head that holds nothing.
LEMMA MoveIs ==
  ASSUME IInv, Held, NEW old \in Heads, NEW new \in Heads, list_move(old, new)
  PROVE  Held' /\ Abstract!Move(old, new)
  <1>1. PICK l : Holds(l)
    BY DEF Held
  <1>2. /\ TypeOK /\ Ready(old) /\ new # old /\ Members(new) = {} /\ UNCHANGED ret
    BY DEF list_move, IInv
  <1> DEFINE r == l[old]
  <1>3. r # NULL /\ Chained(old, r)
    BY <1>1, <1>2, AtTheEnds
  <1>4. Chained(new, r)' /\ Chained(old, <<>>)'
    <2> HIDE DEF r
    <2> QED BY <1>2, <1>3, MovedTo
  <1>5. ASSUME NEW g \in Heads \ {new, old} PROVE Untouched(g)
    <2>1. /\ prev[old] \in Cells /\ OwnerOf(prev[old]) = old
          /\ next[old] \in Cells /\ OwnerOf(next[old]) = old
      BY <1>2, ListAssumption DEF IInv, WellLinked, SameList
    <2>2. \A d \in Cells :
             d \notin {new, old, prev[old], next[old]} =>
               next'[d] = next[d] /\ prev'[d] = prev[d]
      BY <1>2, <2>1 DEF list_move, SpliceStores, TypeOK
    <2>3. \A d \in Entries : on'[d] = on[d] \/ (on[d] = old /\ on'[d] = new)
      BY <1>2 DEF list_move, SpliceStores
    <2>4. ASSUME NEW d \in Cells, OwnerOf(d) = g
          PROVE  d \notin {new, old, prev[old], next[old]}
      BY <2>1, <2>4
    <2>5. /\ OwnerOf(g) = g
          /\ \A d \in Entries : on[d] = g => OwnerOf(d) = g
      BY ListAssumption
    <2> QED BY <2>2, <2>3, <2>4, <2>5 DEF Untouched
  <1>6. Held' /\ Lists = l /\ Lists' = [l EXCEPT ![new] = r, ![old] = <<>>]
    <2> HIDE DEF r
    <2> QED BY <1>1, <1>2, <1>4, <1>5, BecomesBoth
  <1>7. Abstract!EntriesOf(new) = {}
    BY <1>1, <1>2, NoEntries
  <1> QED BY <1>2, <1>3, <1>6, <1>7 DEF Abstract!Move, Abstract!IsList

-----------------------------------------------------------------------------
(* So List implements ListSpec. *)

\* At first a head is an empty list or none.
LEMMA InitialLists == Init => Held /\ Abstract!Init
  <1> SUFFICES ASSUME Init PROVE Held /\ Abstract!Init
    OBVIOUS
  <1> DEFINE l == [h \in Heads |-> IF Ready(h) THEN <<>> ELSE NULL]
  <1>0. <<>> \in Seq(Entries) /\ <<>> # NULL
    <2>1. <<>> \in Seq(Entries)
      OBVIOUS
    <2> QED BY <2>1, RefinementAssumption
  <1>1. /\ l \in [Heads -> {NULL, <<>>}]
        /\ \A h \in Heads : l[h] = IF Ready(h) THEN <<>> ELSE NULL
    OBVIOUS
  <1>2. prev = next /\ \A e \in Entries : on[e] = NULL
    BY DEF Init
  <1>3. ASSUME NEW h \in Heads, Ready(h) PROVE Chained(h, <<>>)
    <2>1. next[h] = h /\ prev[h] = h
      BY <1>2, <1>3 DEF Init
    <2>2. /\ <<>> \in Seq(Entries) /\ Len(<<>>) = 0 /\ Distinct(<<>>)
          /\ \A i \in Nat : At(h, <<>>, i) = h
      BY DEF Distinct, At
    <2>3. Along(next, prev, h, <<>>)
      BY <2>1, <2>2 DEF Along
    <2>4. \A e \in Entries : on[e] # h
      BY <1>2, ListAssumption
    <2> QED BY <2>2, <2>3, <2>4 DEF Chained
  <1>4. ASSUME NEW h \in Heads PROVE Members(h) = {}
    BY <1>2, ListAssumption
  <1> HIDE DEF l
  <1>5. \A h \in Heads : ListIs(h, l[h])
    BY <1>0, <1>1, <1>3, <1>4 DEF ListIs
  <1>6. l \in [Heads -> Seq(Entries) \cup {NULL}]
    BY <1>0, <1>1
  <1>7. Holds(l)
    BY <1>5, <1>6 DEF Holds
  <1>8. Lists = l
    BY <1>7, Found
  <1>9. Abstract!Init
    BY <1>1, <1>8 DEF Abstract!Init, Init
  <1> QED BY <1>7, <1>9 DEF Held

\* Whatever the step, the operations it is of are those the comments name.
LEMMA IsAsNamed == IInv /\ Held => AsNamed
  <1> SUFFICES ASSUME IInv, Held PROVE AsNamed
    OBVIOUS
  <1>1. \A h \in Heads : /\ list_init(h) => Abstract!Reset(h)
                         /\ list_remove_head(h) => Abstract!PopFirst(h)
                         /\ list_remove_tail(h) => Abstract!PopLast(h)
    BY InitIs, RemoveHeadIs, RemoveTailIs
  <1>2. \A pos \in Cells, e \in Entries :
          /\ list_add(pos, e) => Abstract!Insert(OwnerOf(pos), Place(pos), e)
          /\ list_add_tail(pos, e) =>
                Abstract!Insert(OwnerOf(pos),
                                IF pos \in Heads THEN list_length(pos)
                                                 ELSE Place(pos) - 1, e)
    BY AddIs, AddTailIs
  <1>3. \A e, new \in Entries :
          /\ list_replace(e, new) => Abstract!Substitute(on[e], Place(e), new)
          /\ list_delete(e) => Abstract!Delete(on[e], Place(e))
    BY ReplaceIs, DeleteIs
  <1>4. \A h, to \in Heads, pos \in Cells :
          /\ list_split_after(h, pos, to) => Abstract!Split(h, Place(pos), to)
          /\ list_splice_after(h, pos) =>
                Abstract!Splice(h, OwnerOf(pos), Place(pos))
          /\ list_move(h, to) => Abstract!Move(h, to)
    BY SplitIs, SpliceIs, MoveIs
  <1> QED BY <1>1, <1>2, <1>3, <1>4 DEF AsNamed

\* ListSpec counts as List does.
LEMMA SameCardinality ==
  ASSUME NEW S
  PROVE  Abstract!Cardinality(S) = Cardinality(S)
  BY DEF Cardinality, Abstract!Cardinality

\* No place of a list is beyond the number of entries.
LEMMA PlaceIsPosition ==
  ASSUME Held, NEW h \in Heads, Abstract!IsList(h), NEW k \in 0..Len(Lists[h])
  PROVE  k \in Abstract!Positions
  <1>1. PICK l : Holds(l)
    BY DEF Held
  <1>2. Lists = l
    BY <1>1, Found
  <1>3. Chained(h, Lists[h])
    BY <1>1, <1>2 DEF Holds, ListIs, Abstract!IsList
  <1>4. Lists[h] \in Seq(Entries) /\ Distinct(Lists[h])
    BY <1>3 DEF Chained
  <1>5. Cardinality(Entries) \in Nat /\ Len(Lists[h]) <= Cardinality(Entries)
    BY <1>4, Fits
  <1>6. Len(Lists[h]) \in Nat
    BY <1>4
  <1>7. k \in 0..Cardinality(Entries)
    BY <1>5, <1>6
  <1> QED BY <1>7, SameCardinality DEF Abstract!Positions

\* An entry on no list is in no sequence.
LEMMA FreeIsFree ==
  ASSUME Held, NEW e \in Entries, Contract_Free(e)
  PROVE  e \in Abstract!Free
  <1>1. PICK l : Holds(l)
    BY DEF Held
  <1>2. Lists = l
    BY <1>1, Found
  <1>3. ASSUME NEW h \in Heads PROVE e \notin Abstract!EntriesOf(h)
    <2>1. CASE ~Abstract!IsList(h)
      BY <2>1 DEF Abstract!EntriesOf
    <2>2. CASE Abstract!IsList(h)
      <3>1. Chained(h, Lists[h])
        BY <1>1, <1>2, <2>2 DEF Holds, ListIs, Abstract!IsList
      <3>2. \A i \in 1..Len(Lists[h]) : Lists[h][i] # e
        BY <3>1, ListAssumption DEF Chained
      <3>3. DOMAIN Lists[h] = 1..Len(Lists[h])
        BY <3>1 DEF Chained
      <3> QED BY <2>2, <3>2, <3>3 DEF Abstract!EntriesOf, Abstract!ToSet
    <2> QED BY <2>1, <2>2
  <1> QED BY <1>3 DEF Abstract!Free

\* Every step leaves lists that are sequences.
LEMMA StepHeld == IInv /\ Held /\ [Next]_vars => Held'
  <1> SUFFICES ASSUME IInv, Held, [Next]_vars PROVE Held'
    OBVIOUS
  <1>1. CASE UNCHANGED vars
    <2>1. PICK l : Holds(l)
      BY DEF Held
    <2> QED BY <1>1, <2>1, NoneChanges DEF vars
  <1>2. CASE Next
    BY <1>2, InitIs, RemoveHeadIs, RemoveTailIs, AddIs, AddTailIs, ReplaceIs,
       DeleteIs, SplitIs, SpliceIs, MoveIs
    DEF Next
  <1> QED BY <1>1, <1>2

\* Every step is one of ListSpec, or none.
LEMMA StepRefines ==
  IInv /\ Held /\ [Next]_vars => [Abstract!Next]_(Abstract!vars)
  <1> SUFFICES ASSUME IInv, Held, [Next]_vars
               PROVE  [Abstract!Next]_(Abstract!vars)
    OBVIOUS
  <1>1. ASSUME NEW h \in Heads, list_init(h) PROVE Abstract!Next
    BY <1>1, InitIs DEF Abstract!Next
  <1>2. ASSUME NEW h \in Heads, list_remove_head(h) PROVE Abstract!Next
    BY <1>2, RemoveHeadIs DEF Abstract!Next
  <1>3. ASSUME NEW h \in Heads, list_remove_tail(h) PROVE Abstract!Next
    BY <1>3, RemoveTailIs DEF Abstract!Next
  <1>4. ASSUME NEW h \in Heads, NEW k, NEW e \in Entries, Contract_Free(e),
               Abstract!Insert(h, k, e)
        PROVE  Abstract!Next
    <2>1. k \in Abstract!Positions
      BY <1>4, PlaceIsPosition DEF Abstract!Insert
    <2>2. e \in Abstract!Free
      BY <1>4, FreeIsFree
    <2> QED BY <1>4, <2>1, <2>2 DEF Abstract!Next
  <1>5. ASSUME NEW pos \in Cells, NEW e \in Entries, list_add(pos, e)
        PROVE  Abstract!Next
    <2>1. OwnerOf(pos) \in Heads /\ Contract_Free(e)
      BY <1>5 DEF list_add, IInv, TypeOK
    <2>2. Abstract!Insert(OwnerOf(pos), Place(pos), e)
      BY <1>5, AddIs
    <2> QED BY <1>4, <2>1, <2>2
  <1>6. ASSUME NEW pos \in Cells, NEW e \in Entries, list_add_tail(pos, e)
        PROVE  Abstract!Next
    <2>1. OwnerOf(pos) \in Heads /\ Contract_Free(e)
      BY <1>6 DEF list_add_tail, IInv, TypeOK
    <2>2. Abstract!Insert(OwnerOf(pos),
                          IF pos \in Heads THEN list_length(pos)
                                           ELSE Place(pos) - 1, e)
      BY <1>6, AddTailIs
    <2> QED BY <1>4, <2>1, <2>2
  <1>7. ASSUME NEW h \in Heads, Abstract!IsList(h), NEW k \in DOMAIN Lists[h]
        PROVE  k \in Abstract!Positions
    <2>1. PICK l : Holds(l) /\ Lists = l
      BY Found DEF Held
    <2>2. Chained(h, Lists[h])
      BY <1>7, <2>1 DEF Holds, ListIs, Abstract!IsList
    <2>3. k \in 0..Len(Lists[h])
      BY <1>7, <2>2 DEF Chained
    <2> QED BY <1>7, <2>3, PlaceIsPosition
  <1>8. ASSUME NEW old \in Entries, NEW new \in Entries, list_replace(old, new)
        PROVE  Abstract!Next
    <2>1. on[old] \in Heads /\ Contract_Free(new)
      BY <1>8 DEF list_replace, IInv, TypeOK
    <2>2. Abstract!Substitute(on[old], Place(old), new)
      BY <1>8, ReplaceIs
    <2>3. Place(old) \in Abstract!Positions
      BY <1>7, <2>1, <2>2 DEF Abstract!Substitute
    <2>4. new \in Abstract!Free
      BY <2>1, FreeIsFree
    <2> QED BY <2>1, <2>2, <2>3, <2>4 DEF Abstract!Next
  <1>9. ASSUME NEW e \in Entries, list_delete(e) PROVE Abstract!Next
    <2>1. on[e] \in Heads
      BY <1>9 DEF list_delete, IInv, TypeOK
    <2>2. Abstract!Delete(on[e], Place(e))
      BY <1>9, DeleteIs
    <2>3. Place(e) \in Abstract!Positions
      BY <1>7, <2>1, <2>2 DEF Abstract!Delete
    <2> QED BY <2>1, <2>2, <2>3 DEF Abstract!Next
  <1>10. ASSUME NEW h \in Heads, NEW to \in Heads, NEW pos \in Cells,
                list_split_after(h, pos, to)
         PROVE  Abstract!Next
    <2>1. Abstract!Split(h, Place(pos), to)
      BY <1>10, SplitIs
    <2>2. Place(pos) \in Abstract!Positions
      BY <2>1, PlaceIsPosition DEF Abstract!Split
    <2> QED BY <2>1, <2>2 DEF Abstract!Next
  <1>11. ASSUME NEW from \in Heads, NEW pos \in Cells,
                list_splice_after(from, pos)
         PROVE  Abstract!Next
    <2>1. OwnerOf(pos) \in Heads
      BY <1>11 DEF list_splice_after, IInv, TypeOK
    <2>2. Abstract!Splice(from, OwnerOf(pos), Place(pos))
      BY <1>11, SpliceIs
    <2>3. Place(pos) \in Abstract!Positions
      BY <2>1, <2>2, PlaceIsPosition DEF Abstract!Splice
    <2> QED BY <2>1, <2>2, <2>3 DEF Abstract!Next
  <1>12. ASSUME NEW old \in Heads, NEW new \in Heads, list_move(old, new)
         PROVE  Abstract!Next
    BY <1>12, MoveIs DEF Abstract!Next
  <1>13. CASE UNCHANGED vars
    <2>1. PICK l : Holds(l)
      BY DEF Held
    <2>2. Lists = l /\ Lists' = l
      BY <1>13, <2>1, NoneChanges DEF vars
    <2> QED BY <1>13, <2>2 DEF vars, Abstract!vars
  <1> QED
    BY <1>1, <1>2, <1>3, <1>5, <1>6, <1>8, <1>9, <1>10, <1>11, <1>12, <1>13
    DEF Next

\* Every function of list.h does to the sequence of its list, at the place that it
\* is given, what its comment names, and nothing to any other list.
THEOREM Named == Spec => EachAsNamed
  <1>1. IInv /\ Held => AsNamed
    BY IsAsNamed
  <1>2. Init => IInv /\ Held
    BY InitIInv, InitialLists
  <1>3. IInv /\ Held /\ [Next]_vars => (IInv /\ Held)'
    BY NextIInv, StepHeld
  <1> QED BY <1>1, <1>2, <1>3, PTL DEF Spec, EachAsNamed

\* The pointers of list.h behave as sequences: no caller that keeps the contract can
\* tell the lists from them, whatever the number of heads and entries.
THEOREM Implements == Spec => ImplementsListSpec
  <1>1. Init => IInv /\ Held /\ Abstract!Init
    BY InitIInv, InitialLists
  <1>2. IInv /\ Held /\ [Next]_vars => (IInv /\ Held)'
    BY NextIInv, StepHeld
  <1>3. IInv /\ Held /\ [Next]_vars => [Abstract!Next]_(Abstract!vars)
    BY StepRefines
  <1> QED BY <1>1, <1>2, <1>3, PTL DEF Spec, ImplementsListSpec, Abstract!Spec
=============================================================================
