------------------------------ MODULE PmmProofs ------------------------------
(***************************************************************************)
(* For any zones, any sizes and any number of callers: pmm.c keeps its     *)
(* counts and flags in step with its free lists, hands no page out twice,  *)
(* and loses only pages beyond the window that a look-up finds.            *)
(*                                                                         *)
(* The invariants hang together through the flag: a page on a free list is *)
(* not marked, a page that is owned is.  That pmm_alloc_range takes a page *)
(* out of the right free list needs FlagTellsFree; that marking it keeps   *)
(* OneOwner needs that no owned page is unmarked.                          *)
(***************************************************************************)
EXTENDS PmmRefinement, SequenceTheorems, FiniteSetTheorems, WellFoundedInduction, TLAPS

\* A set of numbers that is not empty has a least one: what the proofs here take
\* for induction.  Of the orderings the library proves well-founded it uses the one
\* of finite sets, for 0..m is a proper subset of 0..n if m < n.
LEMMA Smallest ==
  ASSUME NEW T, T \subseteq Nat, T # {}
  PROVE  \E m \in T : \A n \in T : m <= n
  <1> DEFINE Below == {0..m : m \in T}
             R == StrictSubsetOrdering(Nat)
  <1>1. Below \subseteq FiniteSubsetsOf(Nat) /\ Below # {}
    <2>1. \A m \in T : 0..m \in SUBSET Nat /\ IsFiniteSet(0..m)
      BY FS_Interval
    <2> QED BY <2>1 DEF FiniteSubsetsOf
  <1>2. IsWellFoundedOn(R, FiniteSubsetsOf(Nat))
    BY FS_StrictSubsetOrderingWellFounded
  <1>3. PICK x \in Below : \A y \in Below : ~(<<y, x>> \in R)
    <2> HIDE DEF R, Below
    <2> QED BY <1>1, <1>2, WFMin
  <1>4. PICK m \in T : x = 0..m
    BY <1>3
  <1>5. ASSUME NEW n \in T, ~(m <= n) PROVE FALSE
    <2>1. m \in Nat /\ n \in Nat /\ n < m
      BY <1>5
    <2>2. 0..n \subseteq 0..m /\ m \in 0..m /\ m \notin 0..n
      BY <2>1
    <2>3. <<0..n, 0..m>> \in R
      BY <2>1, <2>2 DEF StrictSubsetOrdering
    <2> QED BY <1>3, <1>4, <2>3
  <1> QED BY <1>5

\* Taking the head off a sequence without repetitions.
LEMMA TailFacts ==
  ASSUME NEW S, NEW s \in Seq(S), s # <<>>, IsInjective(s)
  PROVE  /\ Tail(s) \in Seq(S) /\ Len(Tail(s)) = Len(s) - 1
         /\ Head(s) \in Range(s)
         /\ IsInjective(Tail(s))
         /\ Range(Tail(s)) = Range(s) \ {Head(s)}
  <1>1. /\ Len(s) \in Nat \ {0} /\ Head(s) = s[1] /\ Tail(s) \in Seq(S)
        /\ DOMAIN s = 1..Len(s) /\ DOMAIN Tail(s) = 1..(Len(s) - 1)
        /\ Len(Tail(s)) = Len(s) - 1
        /\ \A i \in 1..(Len(s) - 1) : Tail(s)[i] = s[i+1]
    BY HeadTailProperties, LenProperties, EmptySeq
  <1>2. IsInjective(Tail(s))
    BY <1>1 DEF IsInjective
  <1>3. Range(Tail(s)) \subseteq Range(s) \ {Head(s)}
    BY <1>1 DEF IsInjective, Range
  <1>4. ASSUME NEW x \in Range(s) \ {Head(s)} PROVE x \in Range(Tail(s))
    <2>1. PICK i \in 1..Len(s) : x = s[i]
      BY <1>1 DEF Range
    <2>2. i - 1 \in 1..(Len(s) - 1) /\ Tail(s)[i-1] = s[i]
      BY <1>1, <2>1
    <2> QED BY <1>1, <2>1, <2>2 DEF Range
  <1>5. Head(s) \in Range(s)
    BY <1>1 DEF Range
  <1>6. Range(Tail(s)) = Range(s) \ {Head(s)}
    BY <1>3, <1>4
  <1> QED BY <1>1, <1>2, <1>5, <1>6

\* Adding a new element at the end.
LEMMA AppendFacts ==
  ASSUME NEW S, NEW s \in Seq(S), NEW x \in S, x \notin Range(s), IsInjective(s)
  PROVE  /\ Append(s, x) \in Seq(S) /\ Len(Append(s, x)) = Len(s) + 1
         /\ IsInjective(Append(s, x))
         /\ Range(Append(s, x)) = Range(s) \cup {x}
  <1>1. /\ Len(s) \in Nat /\ DOMAIN s = 1..Len(s)
        /\ Append(s, x) \in Seq(S) /\ Len(Append(s, x)) = Len(s) + 1
        /\ DOMAIN Append(s, x) = 1..(Len(s) + 1)
        /\ \A i \in 1..Len(s) : Append(s, x)[i] = s[i]
        /\ Append(s, x)[Len(s) + 1] = x
    BY AppendProperties, LenProperties
  <1>2. IsInjective(Append(s, x))
    BY <1>1 DEF IsInjective, Range
  <1>3. Range(Append(s, x)) = Range(s) \cup {x}
    BY <1>1 DEF Range
  <1> QED BY <1>1, <1>2, <1>3

\* Adding a new element in front.
LEMMA ConsFacts ==
  ASSUME NEW S, NEW s \in Seq(S), NEW x \in S, x \notin Range(s), IsInjective(s)
  PROVE  /\ Cons(x, s) \in Seq(S) /\ Len(Cons(x, s)) = Len(s) + 1
         /\ IsInjective(Cons(x, s))
         /\ Range(Cons(x, s)) = Range(s) \cup {x}
  <1>1. <<x>> \in Seq(S) /\ Len(<<x>>) = 1 /\ <<x>>[1] = x
    OBVIOUS
  <1>2. /\ Len(s) \in Nat /\ DOMAIN s = 1..Len(s)
        /\ Cons(x, s) \in Seq(S) /\ Len(Cons(x, s)) = Len(s) + 1
        /\ DOMAIN Cons(x, s) = 1..(Len(s) + 1)
        /\ \A i \in 1..(Len(s) + 1) :
              Cons(x, s)[i] = IF i = 1 THEN x ELSE s[i-1]
    <2>1. Len(s) \in Nat /\ DOMAIN s = 1..Len(s)
      BY LenProperties
    <2>2. /\ Cons(x, s) \in Seq(S) /\ Len(Cons(x, s)) = 1 + Len(s)
          /\ \A i \in 1..(1 + Len(s)) :
                Cons(x, s)[i] = IF i <= 1 THEN <<x>>[i] ELSE s[i-1]
      BY <1>1, ConcatProperties DEF Cons
    <2>3. DOMAIN Cons(x, s) = 1..(Len(s) + 1)
      BY <2>1, <2>2, LenProperties
    <2> QED BY <1>1, <2>1, <2>2, <2>3
  <1>3. IsInjective(Cons(x, s))
    <2> SUFFICES ASSUME NEW a \in 1..(Len(s) + 1), NEW b \in 1..(Len(s) + 1),
                        Cons(x, s)[a] = Cons(x, s)[b]
                 PROVE  a = b
      BY <1>2 DEF IsInjective
    <2>1. ASSUME NEW c \in 1..(Len(s) + 1), c # 1
          PROVE  c - 1 \in DOMAIN s /\ Cons(x, s)[c] = s[c-1] /\ s[c-1] # x
      <3>1. c - 1 \in DOMAIN s
        BY <1>2, <2>1
      <3> QED BY <1>2, <2>1, <3>1 DEF Range
    <2>2. Cons(x, s)[1] = x
      BY <1>2
    <2>3. CASE a = 1 \/ b = 1
      BY <2>1, <2>2, <2>3
    <2>4. CASE a # 1 /\ b # 1
      <3>1. a - 1 = b - 1
        BY <2>1, <2>4 DEF IsInjective
      <3> QED BY <3>1
    <2> QED BY <2>3, <2>4
  <1>4. Range(Cons(x, s)) = Range(s) \cup {x}
    <2>1. ASSUME NEW y \in Range(s) PROVE y \in Range(Cons(x, s))
      <3>1. PICK i \in 1..Len(s) : y = s[i]
        BY <1>2 DEF Range
      <3>2. i + 1 \in 1..(Len(s) + 1) /\ Cons(x, s)[i+1] = s[i]
        BY <1>2, <3>1
      <3> QED BY <1>2, <3>1, <3>2 DEF Range
    <2>2. x \in Range(Cons(x, s))
      BY <1>2 DEF Range
    <2>3. Range(Cons(x, s)) \subseteq Range(s) \cup {x}
      BY <1>2 DEF Range
    <2> QED BY <2>1, <2>2, <2>3
  <1> QED BY <1>2, <1>3, <1>4

\* Taking one element out of a sequence without repetitions.
LEMMA RemoveAtFacts ==
  ASSUME NEW S, NEW s \in Seq(S), NEW k \in DOMAIN s, IsInjective(s)
  PROVE  /\ RemoveAt(s, k) \in Seq(S) /\ Len(RemoveAt(s, k)) = Len(s) - 1
         /\ IsInjective(RemoveAt(s, k))
         /\ Range(RemoveAt(s, k)) = Range(s) \ {s[k]}
  <1>1. Len(s) \in Nat /\ DOMAIN s = 1..Len(s) /\ k \in 1..Len(s)
    BY LenProperties
  <1>2. /\ SubSeq(s, 1, k-1) \in Seq(S) /\ Len(SubSeq(s, 1, k-1)) = k - 1
        /\ \A i \in 1..(k-1) : SubSeq(s, 1, k-1)[i] = s[i]
    <2>1. k - 1 \in Int /\ 1 \in Int /\ \A i \in 1..(k-1) : s[i] \in S
      BY <1>1, ElementOfSeq
    <2>2. /\ SubSeq(s, 1, k-1) \in Seq(S)
          /\ Len(SubSeq(s, 1, k-1)) = IF 1 <= k-1 THEN (k-1)-1+1 ELSE 0
          /\ \A i \in 1..((k-1)-1+1) : SubSeq(s, 1, k-1)[i] = s[1+i-1]
      BY <2>1, SubSeqProperties
    <2> QED BY <1>1, <2>2
  <1>3. /\ SubSeq(s, k+1, Len(s)) \in Seq(S)
        /\ Len(SubSeq(s, k+1, Len(s))) = Len(s) - k
        /\ \A i \in 1..(Len(s) - k) : SubSeq(s, k+1, Len(s))[i] = s[k+i]
    <2>1. k + 1 \in Int /\ Len(s) \in Int /\ \A i \in (k+1)..Len(s) : s[i] \in S
      BY <1>1, ElementOfSeq
    <2>2. /\ SubSeq(s, k+1, Len(s)) \in Seq(S)
          /\ Len(SubSeq(s, k+1, Len(s)))
               = IF k+1 <= Len(s) THEN Len(s)-(k+1)+1 ELSE 0
          /\ \A i \in 1..(Len(s)-(k+1)+1) :
                SubSeq(s, k+1, Len(s))[i] = s[(k+1)+i-1]
      BY <2>1, SubSeqProperties
    <2> QED BY <1>1, <2>2
  <1>4. /\ RemoveAt(s, k) \in Seq(S) /\ Len(RemoveAt(s, k)) = Len(s) - 1
        /\ \A i \in 1..(Len(s) - 1) :
              RemoveAt(s, k)[i] = IF i < k THEN s[i] ELSE s[i+1]
    <2> DEFINE t == SubSeq(s, 1, k-1)
               u == SubSeq(s, k+1, Len(s))
    <2>1. /\ t \o u \in Seq(S) /\ Len(t \o u) = Len(t) + Len(u)
          /\ \A i \in 1..(Len(t) + Len(u)) :
                (t \o u)[i] = IF i <= Len(t) THEN t[i] ELSE u[i - Len(t)]
      BY <1>2, <1>3, ConcatProperties
    <2>2. RemoveAt(s, k) = t \o u
      BY DEF RemoveAt
    <2>3. Len(t) = k - 1 /\ Len(u) = Len(s) - k
      BY <1>2, <1>3
    <2> HIDE DEF t, u
    <2>4. ASSUME NEW i \in 1..(Len(s) - 1)
          PROVE  (t \o u)[i] = IF i < k THEN s[i] ELSE s[i+1]
      <3>1. CASE i < k
        <4>1. i \in 1..(k-1) /\ i <= Len(t) /\ i \in 1..(Len(t) + Len(u))
          BY <1>1, <2>3, <3>1
        <4> QED BY <1>2, <2>1, <3>1, <4>1 DEF t
      <3>2. CASE ~(i < k)
        <4>1. /\ i - Len(t) \in 1..(Len(s) - k) /\ ~(i <= Len(t))
              /\ i \in 1..(Len(t) + Len(u)) /\ k + (i - Len(t)) = i + 1
          BY <1>1, <2>3, <3>2
        <4>2. u[i - Len(t)] = s[k + (i - Len(t))]
          BY <1>3, <4>1 DEF u
        <4> QED BY <2>1, <3>2, <4>1, <4>2
      <3> QED BY <3>1, <3>2
    <2>5. Len(t \o u) = Len(s) - 1
      BY <1>1, <2>1, <2>3
    <2> QED BY <2>1, <2>2, <2>4, <2>5
  <1>5. DOMAIN RemoveAt(s, k) = 1..(Len(s) - 1)
    BY <1>4, LenProperties
  <1>6. IsInjective(RemoveAt(s, k))
    <2> DEFINE t == RemoveAt(s, k)
               from(i) == IF i < k THEN i ELSE i + 1
    <2>1. \A i \in 1..(Len(s) - 1) : from(i) \in 1..Len(s) /\ t[i] = s[from(i)]
      BY <1>1, <1>4
    <2>2. \A i, j \in 1..(Len(s) - 1) : from(i) = from(j) => i = j
      BY <1>1
    <2>3. \A i, j \in 1..Len(s) : s[i] = s[j] => i = j
      BY <1>1 DEF IsInjective
    <2> HIDE DEF t, from
    <2>4. \A i, j \in 1..(Len(s) - 1) : t[i] = t[j] => i = j
      BY <2>1, <2>2, <2>3
    <2>5. DOMAIN t = 1..(Len(s) - 1)
      BY <1>5 DEF t
    <2>6. IsInjective(t)
      BY <2>4, <2>5 DEF IsInjective
    <2> QED BY <2>6 DEF t
  <1>7. Range(RemoveAt(s, k)) \subseteq Range(s) \ {s[k]}
    <2> SUFFICES ASSUME NEW i \in 1..(Len(s) - 1)
                 PROVE  RemoveAt(s, k)[i] \in Range(s) \ {s[k]}
      BY <1>5 DEF Range
    <2>1. i \in DOMAIN s /\ i + 1 \in DOMAIN s
      BY <1>1
    <2> QED BY <1>1, <1>4, <2>1 DEF IsInjective, Range
  <1>8. ASSUME NEW x \in Range(s) \ {s[k]} PROVE x \in Range(RemoveAt(s, k))
    <2>1. PICK i \in 1..Len(s) : x = s[i] /\ i # k
      BY <1>1 DEF Range
    <2>2. CASE i < k
      BY <1>1, <1>4, <1>5, <2>1, <2>2 DEF Range
    <2>3. CASE i > k
      <3>1. i - 1 \in 1..(Len(s) - 1) /\ RemoveAt(s, k)[i-1] = s[i]
        BY <1>1, <1>4, <2>1, <2>3
      <3> QED BY <1>5, <2>1, <3>1 DEF Range
    <2> QED BY <1>1, <2>1, <2>2, <2>3
  <1> QED BY <1>4, <1>6, <1>7, <1>8
-----------------------------------------------------------------------------
(* The inductive invariant, in three parts. *)

\* The zones: their free lists hold just their unmarked pages, each once.
FreeInv ==
  /\ zone_list \in Seq(Zones)
  /\ free_pages \in [Zones -> Seq(Pages)]
  /\ nonfree \subseteq UNION {PagesOf(z) : z \in Added}
  /\ \A z \in Zones : /\ IsInjective(free_pages[z])
                      /\ Range(free_pages[z]) \subseteq PagesOf(z)
                      /\ Range(free_pages[z]) \cap nonfree = {}
                      /\ z \notin Added => free_pages[z] = <<>>
  /\ FlagTellsFree

\* The callers: what they own is marked, and owned once.
OwnInv ==
  /\ nonfree \subseteq Pages
  /\ lists \in [Lists -> Seq(Pages)]
  /\ \A l \in Lists : IsInjective(lists[l])
  /\ \A l, m \in Lists : l # m => Listed(l) \cap Listed(m) = {}
  /\ \A l \in Lists : Listed(l) \cap (held \cup kpages) = {}
  /\ held \cap kpages = {}
  /\ held \cup kpages \subseteq nonfree
  /\ \A l \in Lists : Listed(l) \subseteq nonfree

\* Marked pages that have a kernel address are owned.
KeptInv == \A p \in nonfree : p \in Owned \/ p \notin Addressed \/ Stuck(p)

CountInv == free_count \in [Zones -> Nat] /\ FreeCountMatches

CallInv ==
  /\ call \in [op : Ops, want : Nat, got : Nat, list : Lists \cup {NULL},
               at : Nat \ {0}, address : Nat]
  /\ call.op \in {"alloc_pages", "free_pages"} => call.list \in Lists

IInv == FreeInv /\ OwnInv /\ KeptInv /\ CountInv /\ CallInv

\* Pages of different zones are different pages.
LEMMA PagesFacts ==
  ASSUME NEW y \in Zones, NEW z \in Zones
  PROVE  /\ y # z => PagesOf(y) \cap PagesOf(z) = {}
         /\ PagesOf(z) \subseteq Pages
         /\ \A p \in PagesOf(z) : p[1] = z
  BY DEF PagesOf, Pages

\* Every page is a page of its zone.
LEMMA PageZone ==
  ASSUME NEW p \in Pages
  PROVE  p[1] \in Zones /\ p \in PagesOf(p[1])
  BY DEF PagesOf, Pages

\* No mapping reaches the paddr_t -1, so only a page whose zone is found has a
\* kernel address.
LEMMA AddressedFound == Addressed \subseteq Window
  <1> SUFFICES ASSUME NEW p \in Pages, p \notin Window
               PROVE  paddr_to_kvaddr(vm_page_to_paddr(p)) = NULL
    BY DEF Addressed
  <1>1. vm_page_to_paddr(p) = NoPaddr
    BY DEF vm_page_to_paddr
  <1>2. ASSUME NEW i \in 1..Len(mmu_initial_mappings)
        PROVE  NoPaddr \notin mmu_initial_mappings[i].phys..
                   (mmu_initial_mappings[i].phys + mmu_initial_mappings[i].size - 1)
    <2>1. mmu_initial_mappings[i] \in [phys : Nat, virt : Nat, size : Nat \ {0}]
      BY MappingsAssumption, ElementOfSeq
    <2> QED BY <2>1 DEF NoPaddr
  <1>3. SelectInSeq(mmu_initial_mappings,
                    LAMBDA m : NoPaddr \in m.phys..(m.phys + m.size - 1)) = 0
    BY <1>2 DEF SelectInSeq
  <1> QED BY <1>1, <1>3 DEF paddr_to_kvaddr

\* The zones of zone_list are zones.
LEMMA AddedFacts ==
  ASSUME zone_list \in Seq(Zones)
  PROVE  /\ Added \subseteq Zones
         /\ \A k \in 1..Len(zone_list) : zone_list[k] \in Added
         /\ DOMAIN zone_list = 1..Len(zone_list) /\ Len(zone_list) \in Nat
  BY ElementOfSeq, LenProperties DEF Added, Range

\* The invariant says what the properties say.
LEMMA IInvImplies ==
  ASSUME IInv
  PROVE  TypeOK /\ FreeCountMatches /\ FlagTellsFree /\ OneOwner
                /\ OnlyWithoutAddressLost
  <1>1. nonfree \subseteq Pages
    BY DEF IInv, OwnInv
  <1>2. TypeOK
    BY <1>1 DEF IInv, TypeOK, FreeInv, OwnInv, CountInv, CallInv
  <1>3. FreeCountMatches /\ FlagTellsFree
    BY DEF IInv, FreeInv, CountInv
  <1>4. FreeSet \cap Owned = {}
    BY DEF IInv, FreeInv, OwnInv, FreeSet, Owned
  <1>5. OneOwner
    BY <1>4 DEF IInv, FreeInv, OwnInv, OneOwner
  <1>6. OnlyWithoutAddressLost
    <2> SUFFICES ASSUME NEW z \in Added, NEW p \in PagesOf(z)
                 PROVE  p \in FreeSet \/ p \in Owned \/ p \notin Addressed
                        \/ Stuck(p)
      BY DEF OnlyWithoutAddressLost
    <2>1. z \in Zones
      BY AddedFacts DEF IInv, FreeInv
    <2>2. CASE p \in nonfree
      BY <2>2 DEF IInv, KeptInv
    <2>3. CASE p \notin nonfree
      BY <2>1, <2>3 DEF IInv, FreeInv, FlagTellsFree, FreeSet
    <2> QED BY <2>2, <2>3
  <1> QED BY <1>2, <1>3, <1>5, <1>6

\* Without a zone there is no page, free or owned.
LEMMA InitIInv == Init => IInv
  <1> SUFFICES ASSUME Init PROVE IInv
    OBVIOUS
  <1>1. Range(<<>>) = {} /\ IsInjective(<<>>) /\ Len(<<>>) = 0
    BY DEF Range, IsInjective
  <1>2. Added = {}
    BY <1>1 DEF Init, Added
  <1>3. FreeInv
    BY <1>1, <1>2 DEF Init, FreeInv, FlagTellsFree
  <1>4. OwnInv
    BY <1>1 DEF Init, OwnInv, Listed
  <1>5. KeptInv
    BY DEF Init, KeptInv
  <1>6. CountInv
    BY <1>1 DEF Init, CountInv, FreeCountMatches, Idle
  <1>7. CallInv
    BY DEF Init, CallInv, Idle, Ops
  <1> QED BY <1>3, <1>4, <1>5, <1>6, <1>7 DEF IInv

-----------------------------------------------------------------------------
(* How the parts fare when one page moves. *)

\* A page leaves the free list of its zone and is marked.
LEMMA FreeRemove ==
  ASSUME FreeInv, NEW z \in Added, NEW p \in Range(free_pages[z]),
         NEW s \in Seq(Pages), IsInjective(s),
         Range(s) = Range(free_pages[z]) \ {p},
         free_pages' = [free_pages EXCEPT ![z] = s],
         nonfree' = nonfree \cup {p},
         zone_list' = zone_list
  PROVE  FreeInv'
  <1>1. z \in Zones /\ Added' = Added /\ Added \subseteq Zones
    BY AddedFacts DEF FreeInv, Added
  <1>2. p \in PagesOf(z)
    BY <1>1 DEF FreeInv
  <1>3. \A y \in Zones : free_pages'[y] = IF y = z THEN s ELSE free_pages[y]
    BY <1>1 DEF FreeInv
  <1>4. free_pages' \in [Zones -> Seq(Pages)]
    BY <1>1 DEF FreeInv
  <1>5. nonfree' \subseteq UNION {PagesOf(y) : y \in Added'}
    BY <1>1, <1>2 DEF FreeInv
  <1>6. ASSUME NEW y \in Zones
        PROVE  /\ IsInjective(free_pages'[y])
               /\ Range(free_pages'[y]) \subseteq PagesOf(y)
               /\ Range(free_pages'[y]) \cap nonfree' = {}
               /\ y \notin Added' => free_pages'[y] = <<>>
    <2>1. CASE y = z
      BY <1>1, <1>3, <2>1 DEF FreeInv
    <2>2. CASE y # z
      <3>1. p \notin PagesOf(y)
        BY <1>1, <1>2, <2>2, PagesFacts
      <3> QED BY <1>1, <1>3, <2>2, <3>1 DEF FreeInv
    <2> QED BY <2>1, <2>2
  <1>7. FlagTellsFree'
    <2> SUFFICES ASSUME NEW y \in Added, NEW q \in PagesOf(y)
                 PROVE  q \notin nonfree' <=> q \in Range(free_pages'[y])
      BY <1>1 DEF FlagTellsFree
    <2>1. CASE y = z
      BY <1>1, <1>3, <2>1 DEF FreeInv, FlagTellsFree
    <2>2. CASE y # z
      <3>1. q # p
        BY <1>1, <1>2, <2>2, PagesFacts
      <3> QED BY <1>1, <1>3, <2>2, <3>1 DEF FreeInv, FlagTellsFree
    <2> QED BY <2>1, <2>2
  <1> QED BY <1>4, <1>5, <1>6, <1>7 DEF FreeInv

\* A marked page joins the free list of its zone and is marked no more.
LEMMA FreeAdd ==
  ASSUME FreeInv, NEW z \in Added, NEW p \in PagesOf(z), p \in nonfree,
         NEW s \in Seq(Pages), IsInjective(s),
         Range(s) = Range(free_pages[z]) \cup {p},
         free_pages' = [free_pages EXCEPT ![z] = s],
         nonfree' = nonfree \ {p},
         zone_list' = zone_list
  PROVE  FreeInv'
  <1>1. z \in Zones /\ Added' = Added /\ Added \subseteq Zones
    BY AddedFacts DEF FreeInv, Added
  <1>3. \A y \in Zones : free_pages'[y] = IF y = z THEN s ELSE free_pages[y]
    BY <1>1 DEF FreeInv
  <1>4. free_pages' \in [Zones -> Seq(Pages)]
    BY <1>1 DEF FreeInv
  <1>5. nonfree' \subseteq UNION {PagesOf(y) : y \in Added'}
    BY <1>1 DEF FreeInv
  <1>6. ASSUME NEW y \in Zones
        PROVE  /\ IsInjective(free_pages'[y])
               /\ Range(free_pages'[y]) \subseteq PagesOf(y)
               /\ Range(free_pages'[y]) \cap nonfree' = {}
               /\ y \notin Added' => free_pages'[y] = <<>>
    BY <1>1, <1>3 DEF FreeInv
  <1>7. FlagTellsFree'
    <2> SUFFICES ASSUME NEW y \in Added, NEW q \in PagesOf(y)
                 PROVE  q \notin nonfree' <=> q \in Range(free_pages'[y])
      BY <1>1 DEF FlagTellsFree
    <2>1. CASE y = z
      BY <1>1, <1>3, <2>1 DEF FreeInv, FlagTellsFree
    <2>2. CASE y # z
      <3>1. q # p
        BY <1>1, <2>2, PagesFacts
      <3> QED BY <1>1, <1>3, <2>2, <3>1 DEF FreeInv, FlagTellsFree
    <2> QED BY <2>1, <2>2
  <1> QED BY <1>4, <1>5, <1>6, <1>7 DEF FreeInv

\* An unmarked page is owned by nobody; marked, it may join a list.
LEMMA OwnList ==
  ASSUME OwnInv, NEW l \in Lists, NEW p \in Pages, p \notin nonfree,
         lists' = [lists EXCEPT ![l] = Append(@, p)],
         nonfree' = nonfree \cup {p}, held' = held, kpages' = kpages
  PROVE  OwnInv' /\ Owned' = Owned \cup {p}
  <1> DEFINE s == Append(lists[l], p)
  <1>1. p \notin held /\ p \notin kpages /\ \A m \in Lists : p \notin Listed(m)
    BY DEF OwnInv
  <1>2. lists[l] \in Seq(Pages) /\ IsInjective(lists[l])
        /\ p \notin Range(lists[l])
    BY <1>1 DEF OwnInv, Listed
  <1>3. s \in Seq(Pages) /\ IsInjective(s) /\ Range(s) = Listed(l) \cup {p}
    BY <1>2, AppendFacts DEF Listed
  <1>4. lists' = [lists EXCEPT ![l] = s]
    OBVIOUS
  <1> HIDE DEF s
  <1>5. \A m \in Lists : lists'[m] = IF m = l THEN s ELSE lists[m]
    BY <1>4 DEF OwnInv
  <1>6. /\ Listed(l)' = Listed(l) \cup {p}
        /\ \A m \in Lists : m # l => Listed(m)' = Listed(m)
    BY <1>3, <1>5 DEF Listed
  <1>7. OwnInv'
    <2>1. nonfree' \subseteq Pages /\ lists' \in [Lists -> Seq(Pages)]
      BY <1>3, <1>4 DEF OwnInv
    <2>2. \A m \in Lists : IsInjective(lists'[m])
      BY <1>3, <1>5 DEF OwnInv
    <2>3. \A m, k \in Lists : m # k => Listed(m)' \cap Listed(k)' = {}
      BY <1>1, <1>6 DEF OwnInv
    <2>4. \A m \in Lists : /\ Listed(m)' \cap (held' \cup kpages') = {}
                           /\ Listed(m)' \subseteq nonfree'
      BY <1>1, <1>6 DEF OwnInv
    <2>5. held' \cap kpages' = {} /\ held' \cup kpages' \subseteq nonfree'
      BY DEF OwnInv
    <2> QED BY <2>1, <2>2, <2>3, <2>4, <2>5 DEF OwnInv
  <1>8. Owned' = Owned \cup {p}
    BY <1>6 DEF Owned
  <1> QED BY <1>7, <1>8

\* Or be held by a pointer, or by its address, or be left to nobody.
LEMMA OwnSingle ==
  ASSUME OwnInv, NEW p \in Pages, p \notin nonfree,
         lists' = lists, nonfree' = nonfree \cup {p},
         \/ held' = held \cup {p} /\ kpages' = kpages
         \/ held' = held /\ kpages' = kpages \cup {p}
         \/ held' = held /\ kpages' = kpages
  PROVE  /\ OwnInv' /\ Owned \subseteq Owned'
         /\ p \in held' \cup kpages' => p \in Owned'
  <1>1. p \notin held /\ p \notin kpages /\ \A m \in Lists : p \notin Listed(m)
    BY DEF OwnInv
  <1>2. \A m \in Lists : Listed(m)' = Listed(m)
    BY DEF Listed
  <1>3. OwnInv'
    BY <1>1, <1>2 DEF OwnInv
  <1>4. Owned \subseteq Owned' /\ (p \in held' \cup kpages' => p \in Owned')
    BY <1>2 DEF Owned
  <1> QED BY <1>3, <1>4

\* The first page of a list leaves it, and may be unmarked.
LEMMA DisownFirst ==
  ASSUME OwnInv, NEW l \in Lists, lists[l] # <<>>,
         lists' = [lists EXCEPT ![l] = Tail(@)],
         nonfree' = nonfree \ {Head(lists[l])} \/ nonfree' = nonfree,
         held' = held, kpages' = kpages
  PROVE  /\ OwnInv' /\ Owned \subseteq Owned' \cup {Head(lists[l])}
         /\ Head(lists[l]) \in Pages \cap nonfree
  <1> DEFINE p == Head(lists[l])
             s == Tail(lists[l])
  <1>1. /\ s \in Seq(Pages) /\ IsInjective(s)
        /\ Range(s) = Listed(l) \ {p} /\ p \in Listed(l)
    BY TailFacts DEF OwnInv, Listed
  <1>2. /\ lists' = [lists EXCEPT ![l] = s]
        /\ nonfree' = nonfree \ {p} \/ nonfree' = nonfree
    OBVIOUS
  <1> HIDE DEF p, s
  <1>3. \A m \in Lists : lists'[m] = IF m = l THEN s ELSE lists[m]
    BY <1>2 DEF OwnInv
  <1>4. /\ Listed(l)' = Listed(l) \ {p}
        /\ \A m \in Lists : m # l => Listed(m)' = Listed(m)
    BY <1>1, <1>3 DEF Listed
  <1>5. p \in nonfree /\ p \notin held \cup kpages
        /\ \A m \in Lists : m # l => p \notin Listed(m)
    BY <1>1 DEF OwnInv
  <1>7. OwnInv'
    <2>1. nonfree' \subseteq Pages /\ lists' \in [Lists -> Seq(Pages)]
      BY <1>1, <1>2 DEF OwnInv
    <2>2. \A m \in Lists : IsInjective(lists'[m])
      BY <1>1, <1>3 DEF OwnInv
    <2>3. \A m, k \in Lists : m # k => Listed(m)' \cap Listed(k)' = {}
      BY <1>4 DEF OwnInv
    <2>4. \A m \in Lists : /\ Listed(m)' \cap (held' \cup kpages') = {}
                           /\ Listed(m)' \subseteq nonfree'
      BY <1>2, <1>4, <1>5 DEF OwnInv
    <2>5. held' \cap kpages' = {} /\ held' \cup kpages' \subseteq nonfree'
      BY <1>2, <1>5 DEF OwnInv
    <2> QED BY <2>1, <2>2, <2>3, <2>4, <2>5 DEF OwnInv
  <1>8. Owned \subseteq Owned' \cup {p}
    BY <1>4 DEF Owned
  <1> QED BY <1>5, <1>7, <1>8 DEF p, OwnInv

\* A page that is held by a pointer is let go, and may be unmarked.
LEMMA DisownHeld ==
  ASSUME OwnInv, NEW p \in held, held' = held \ {p},
         nonfree' = nonfree \ {p} \/ nonfree' = nonfree,
         lists' = lists, kpages' = kpages
  PROVE  OwnInv' /\ Owned \subseteq Owned' \cup {p} /\ p \in Pages \cap nonfree
  <1>1. p \notin kpages /\ \A m \in Lists : p \notin Listed(m)
    BY DEF OwnInv
  <1>2. \A m \in Lists : Listed(m)' = Listed(m)
    BY DEF Listed
  <1>3. OwnInv'
    BY <1>1, <1>2 DEF OwnInv
  <1>4. Owned \subseteq Owned' \cup {p}
    BY <1>2 DEF Owned
  <1> QED BY <1>3, <1>4 DEF OwnInv

\* A step that moves no page.
LEMMA OnlyCall ==
  ASSUME IInv, UNCHANGED memory, call.op # "fault", call'.op # "fault",
         CallInv'
  PROVE  IInv'
  <1>1. FreeInv' /\ OwnInv'
    BY DEF IInv, memory, FreeInv, OwnInv, FlagTellsFree, Added, Listed
  <1>2. CountInv'
    BY DEF IInv, memory, CountInv, FreeCountMatches
  <1>3. Owned' = Owned
    BY DEF memory, Owned, Listed
  <1>4. KeptInv'
    BY <1>3 DEF IInv, memory, KeptInv, Stuck
  <1> QED BY <1>1, <1>2, <1>4 DEF IInv

\* No page is stuck unless the machine is.
LEMMA KeptNext ==
  ASSUME KeptInv, call.op # "fault",
         NEW p,
         \/ /\ nonfree' = nonfree \cup {p} /\ Owned \subseteq Owned'
            /\ p \in Owned' \/ p \notin Addressed \/ Stuck(p)'
         \/ /\ nonfree' = nonfree \ {p} /\ Owned \subseteq Owned' \cup {p}
         \/ /\ nonfree' = nonfree /\ Owned \subseteq Owned' \cup {p}
            /\ p \notin Addressed
  PROVE  KeptInv'
  BY DEF KeptInv, Stuck

\* Taking the first free page of a zone.
LEMMA TakeHeadStep ==
  ASSUME IInv, NEW z \in Zones, free_pages[z] # <<>>, TakeHead(z),
         call.op # "fault", call'.op # "fault"
  PROVE  /\ FreeInv' /\ CountInv'
         /\ Head(free_pages[z]) \in Pages \ nonfree
         /\ nonfree' = nonfree \cup {Head(free_pages[z])}
  <1> DEFINE p == Head(free_pages[z])
             s == Tail(free_pages[z])
  <1>1. z \in Added
    BY DEF IInv, FreeInv
  <1>2. free_pages[z] \in Seq(Pages) /\ IsInjective(free_pages[z])
    BY DEF IInv, FreeInv
  <1>3. /\ s \in Seq(Pages) /\ Len(s) = Len(free_pages[z]) - 1
        /\ p \in Range(free_pages[z]) /\ IsInjective(s)
        /\ Range(s) = Range(free_pages[z]) \ {p}
    BY <1>2, TailFacts
  <1>4. /\ free_pages' = [free_pages EXCEPT ![z] = s]
        /\ nonfree' = nonfree \cup {p} /\ zone_list' = zone_list
        /\ free_count' = [free_count EXCEPT ![z] = @ - 1]
    BY DEF TakeHead
  <1>5. p \in Pages /\ p \notin nonfree
    BY <1>3, PagesFacts DEF IInv, FreeInv
  <1>6. Len(free_pages[z]) \in Nat /\ free_count[z] = Len(free_pages[z])
        /\ Len(s) \in Nat
    BY <1>2, <1>3, LenProperties DEF IInv, CountInv, FreeCountMatches
  <1> HIDE DEF p, s
  <1>7. FreeInv'
    BY <1>1, <1>3, <1>4, FreeRemove DEF IInv
  <1>8. \A y \in Zones : free_pages'[y] = IF y = z THEN s ELSE free_pages[y]
    BY <1>4 DEF IInv, FreeInv
  <1>9. CountInv'
    BY <1>3, <1>4, <1>6, <1>8 DEF IInv, CountInv, FreeCountMatches
  <1> QED BY <1>4, <1>5, <1>7, <1>9 DEF p

\* Giving a marked page back, to its zone or to nobody.
LEMMA GiveBackStep ==
  ASSUME IInv, NEW p \in Pages, p \in nonfree, GiveBack(p),
         zone_list' = zone_list, call.op # "fault", call'.op # "fault"
  PROVE  /\ FreeInv' /\ CountInv'
         /\ \/ nonfree' = nonfree \ {p}
            \/ nonfree' = nonfree /\ p \notin Addressed
  <1> DEFINE z == p[1]
             s == Cons(p, free_pages[z])
  <1>1. z \in Zones /\ p \in PagesOf(z)
    BY PageZone
  <1>2. z \in Added
    BY <1>1, PagesFacts, AddedFacts DEF IInv, FreeInv
  <1>3. PICK k \in DOMAIN zone_list : zone_list[k] = z
    BY <1>2 DEF Added, Range
  <1>4. CASE \E j \in DOMAIN zone_list : PageBelongs(p, zone_list[j])
    <2>1. /\ nonfree' = nonfree \ {p}
          /\ free_pages' = [free_pages EXCEPT ![z] = s]
          /\ free_count' = [free_count EXCEPT ![z] = @ + 1]
      BY <1>4 DEF GiveBack
    <2>2. free_pages[z] \in Seq(Pages) /\ IsInjective(free_pages[z])
          /\ p \notin Range(free_pages[z])
      BY <1>1 DEF IInv, FreeInv
    <2>3. /\ s \in Seq(Pages) /\ Len(s) = Len(free_pages[z]) + 1
          /\ IsInjective(s) /\ Range(s) = Range(free_pages[z]) \cup {p}
      BY <2>2, ConsFacts
    <2>4. Len(free_pages[z]) \in Nat /\ free_count[z] = Len(free_pages[z])
      BY <1>1, <2>2, LenProperties DEF IInv, CountInv, FreeCountMatches
    <2> HIDE DEF z, s
    <2>5. FreeInv'
      BY <1>1, <1>2, <2>1, <2>3, FreeAdd DEF IInv
    <2>6. \A y \in Zones : free_pages'[y] = IF y = z THEN s ELSE free_pages[y]
      BY <1>1, <2>1 DEF IInv, FreeInv
    <2>7. CountInv'
      BY <1>1, <2>1, <2>3, <2>4, <2>6 DEF IInv, CountInv, FreeCountMatches
    <2> QED BY <2>1, <2>5, <2>7
  <1>5. CASE ~\E j \in DOMAIN zone_list : PageBelongs(p, zone_list[j])
    <2>1. UNCHANGED <<nonfree, free_pages, free_count>>
      BY <1>5 DEF GiveBack
    <2>2. FreeInv' /\ CountInv'
      BY <2>1 DEF IInv, FreeInv, CountInv, FreeCountMatches, FlagTellsFree, Added
    <2>3. p \notin Window
      BY <1>3, <1>5 DEF Window, PageBelongs
    <2> QED BY <2>1, <2>2, <2>3, AddressedFound
  <1> QED BY <1>4, <1>5

\* Taking the page at the address of pmm_alloc_range out of its free list.
LEMMA RangeTakeStep ==
  ASSUME IInv, RangeMore, UnlinkPage(Zone, RangePage),
         nonfree' = nonfree \cup {RangePage}, zone_list' = zone_list,
         call.op # "fault"
  PROVE  /\ FreeInv' /\ RangePage \in Pages \ nonfree
         /\ Zone \in Zones
         /\ \A y \in Zones :
               Len(free_pages'[y]) = IF y = Zone THEN Len(free_pages[y]) - 1
                                                 ELSE Len(free_pages[y])
         /\ free_count[Zone] - 1 \in Nat
  <1> DEFINE z == Zone
             p == RangePage
  <1>1. z \in Added /\ z \in Zones
    BY AddedFacts DEF IInv, FreeInv, CallInv, RangeMore, Zone
  <1>2. PICK i \in DOMAIN free_pages[z] :
           /\ free_pages[z][i] = p
           /\ free_pages' = [free_pages EXCEPT ![z] = RemoveAt(@, i)]
    BY DEF UnlinkPage
  <1> DEFINE s == RemoveAt(free_pages[z], i)
  <1>3. free_pages[z] \in Seq(Pages) /\ IsInjective(free_pages[z])
    BY <1>1 DEF IInv, FreeInv
  <1>4. /\ s \in Seq(Pages) /\ Len(s) = Len(free_pages[z]) - 1
        /\ IsInjective(s) /\ Range(s) = Range(free_pages[z]) \ {p}
    BY <1>2, <1>3, RemoveAtFacts
  <1>5. p \in Range(free_pages[z])
    BY <1>2 DEF Range
  <1>6. /\ free_pages' = [free_pages EXCEPT ![z] = s]
        /\ nonfree' = nonfree \cup {p}
    BY <1>2
  <1>7. p \in Pages /\ p \notin nonfree
    BY <1>1, <1>5, PagesFacts DEF IInv, FreeInv
  <1>8. /\ Len(free_pages[z]) \in Nat /\ free_count[z] = Len(free_pages[z])
        /\ Len(s) \in Nat
    BY <1>1, <1>3, <1>4, LenProperties DEF IInv, CountInv, FreeCountMatches
  <1> HIDE DEF z, p, s
  <1>9. FreeInv'
    BY <1>1, <1>4, <1>5, <1>6, FreeRemove DEF IInv
  <1>10. \A y \in Zones : free_pages'[y] = IF y = z THEN s ELSE free_pages[y]
    BY <1>6 DEF IInv, FreeInv
  <1>11. \A y \in Zones :
            Len(free_pages'[y]) = IF y = z THEN Len(free_pages[y]) - 1
                                           ELSE Len(free_pages[y])
    BY <1>4, <1>10
  <1>12. free_count[z] - 1 \in Nat
    BY <1>4, <1>8
  <1> QED BY <1>1, <1>7, <1>9, <1>11, <1>12 DEF z, p

-----------------------------------------------------------------------------
(* The actions. *)

\* A zone that is added brings unmarked pages that nobody knew of.
LEMMA AddZoneStep ==
  ASSUME IInv, NEW z \in Zones, pmm_add_zone(z)
  PROVE  IInv'
  <1> DEFINE s == [i \in 1..Frames[z] |-> <<z, i-1>>]
  <1>1. Frames[z] \in Nat /\ Frames[z] > 0
    BY PmmAssumption DEF pmm_add_zone
  <1>2. \A i \in 1..Frames[z] : s[i] \in PagesOf(z)
    BY <1>1 DEF PagesOf
  <1>3. s \in Seq(PagesOf(z)) /\ Len(s) = Frames[z] /\ DOMAIN s = 1..Frames[z]
    <2>1. s \in [1..Frames[z] -> PagesOf(z)] /\ DOMAIN s = 1..Frames[z]
      BY <1>2
    <2> HIDE DEF s
    <2>2. s \in Seq(PagesOf(z))
      BY <1>1, <2>1, SeqDef
    <2>3. Len(s) = Frames[z]
      BY <1>1, <2>1, <2>2, LenProperties
    <2> QED BY <2>1, <2>2, <2>3
  <1>4. IsInjective(s)
    BY <1>1 DEF IsInjective
  <1>5. Range(s) = PagesOf(z)
    <2>1. ASSUME NEW p \in PagesOf(z) PROVE p \in Range(s)
      <3>1. PICK k \in 0..(Frames[z] - 1) : p = <<z, k>>
        BY DEF PagesOf
      <3>2. k + 1 \in 1..Frames[z] /\ s[k+1] = <<z, k>>
        BY <1>1, <3>1
      <3> QED BY <1>3, <3>1, <3>2 DEF Range
    <2> QED BY <1>2, <1>3, <2>1 DEF Range
  <1>6. s \in Seq(Pages)
    BY <1>3, PagesFacts, SeqMonotonic
  <1>7. /\ zone_list' = Append(zone_list, z)
        /\ free_pages' = [free_pages EXCEPT ![z] = s]
        /\ free_count' = [free_count EXCEPT ![z] = Frames[z]]
        /\ call' = Idle(0) /\ call.op = "idle"
        /\ UNCHANGED <<nonfree, lists, held, kpages>>
    BY DEF pmm_add_zone
  <1> HIDE DEF s
  <1>8. z \notin Added
    BY LenProperties DEF pmm_add_zone, Contains, Added, Range, IInv, FreeInv
  <1>9. zone_list' \in Seq(Zones) /\ Added' = Added \cup {z}
    <2>1. zone_list \in Seq(Zones)
      BY DEF IInv, FreeInv
    <2>2. /\ zone_list' \in Seq(Zones) /\ Len(zone_list') = Len(zone_list) + 1
          /\ \A i \in 1..Len(zone_list) : zone_list'[i] = zone_list[i]
          /\ zone_list'[Len(zone_list) + 1] = z
      BY <1>7, <2>1, AppendProperties
    <2>3. /\ Len(zone_list) \in Nat /\ DOMAIN zone_list = 1..Len(zone_list)
          /\ DOMAIN zone_list' = 1..(Len(zone_list) + 1)
      BY <2>1, <2>2, LenProperties
    <2> QED BY <2>2, <2>3 DEF Added, Range
  <1>10. nonfree \cap PagesOf(z) = {}
    BY <1>8, AddedFacts, PagesFacts DEF IInv, FreeInv
  <1>11. \A y \in Zones : free_pages'[y] = IF y = z THEN s ELSE free_pages[y]
    BY <1>7 DEF IInv, FreeInv
  <1>12. FreeInv'
    <2>1. free_pages' \in [Zones -> Seq(Pages)]
      BY <1>6, <1>7 DEF IInv, FreeInv
    <2>2. nonfree' \subseteq UNION {PagesOf(y) : y \in Added'}
      BY <1>7, <1>9 DEF IInv, FreeInv
    <2>3. ASSUME NEW y \in Zones
          PROVE  /\ IsInjective(free_pages'[y])
                 /\ Range(free_pages'[y]) \subseteq PagesOf(y)
                 /\ Range(free_pages'[y]) \cap nonfree' = {}
                 /\ y \notin Added' => free_pages'[y] = <<>>
      BY <1>4, <1>5, <1>7, <1>9, <1>10, <1>11 DEF IInv, FreeInv
    <2>4. FlagTellsFree'
      BY <1>5, <1>7, <1>9, <1>10, <1>11, AddedFacts
      DEF IInv, FreeInv, FlagTellsFree
    <2> QED BY <1>9, <2>1, <2>2, <2>3, <2>4 DEF FreeInv
  <1>13. OwnInv' /\ Owned' = Owned
    BY <1>7 DEF IInv, OwnInv, Owned, Listed
  <1>14. KeptInv'
    BY <1>7, <1>13 DEF IInv, KeptInv, Stuck
  <1>15. CountInv'
    BY <1>1, <1>3, <1>7, <1>11
    DEF IInv, CountInv, FreeCountMatches, Idle
  <1>16. CallInv'
    BY <1>7 DEF CallInv, Idle, Ops
  <1> QED BY <1>12, <1>13, <1>14, <1>15, <1>16 DEF IInv

\* A page goes to a list.
LEMMA TakeToListStep ==
  ASSUME IInv, NEW z \in Zones, NEW l \in Lists, free_pages[z] # <<>>,
         TakeHead(z),
         lists' = [lists EXCEPT ![l] = Append(@, Head(free_pages[z]))],
         UNCHANGED <<held, kpages>>,
         call.op # "fault", call'.op # "fault", CallInv'
  PROVE  IInv'
  <1> DEFINE p == Head(free_pages[z])
  <1>1. FreeInv' /\ CountInv' /\ p \in Pages \ nonfree /\ nonfree' = nonfree \cup {p}
    BY TakeHeadStep
  <1>2. OwnInv' /\ Owned' = Owned \cup {p}
    BY <1>1, OwnList DEF IInv
  <1>3. KeptInv'
    BY <1>1, <1>2, KeptNext DEF IInv
  <1> QED BY <1>1, <1>2, <1>3 DEF IInv

\* A page is handed out by itself, or is lost because it has no address.
LEMMA TakeSingleStep ==
  ASSUME IInv, NEW z \in Zones, free_pages[z] # <<>>, TakeHead(z),
         lists' = lists,
         \/ held' = held \cup {Head(free_pages[z])} /\ kpages' = kpages
         \/ held' = held /\ kpages' = kpages \cup {Head(free_pages[z])}
         \/ held' = held /\ kpages' = kpages /\ Head(free_pages[z]) \notin Addressed,
         call.op # "fault", call'.op # "fault", CallInv'
  PROVE  IInv'
  <1> DEFINE p == Head(free_pages[z])
  <1>1. FreeInv' /\ CountInv' /\ p \in Pages \ nonfree /\ nonfree' = nonfree \cup {p}
    BY TakeHeadStep
  <1> HIDE DEF p
  <1>2. \/ held' = held \cup {p} /\ kpages' = kpages
        \/ held' = held /\ kpages' = kpages \cup {p}
        \/ held' = held /\ kpages' = kpages /\ p \notin Addressed
    BY DEF p
  <1>3. OwnInv' /\ Owned \subseteq Owned' /\ (p \in Owned' \/ p \notin Addressed)
    BY <1>1, <1>2, OwnSingle DEF IInv
  <1>4. KeptInv'
    BY <1>1, <1>3, KeptNext DEF IInv
  <1> QED BY <1>1, <1>3, <1>4 DEF IInv

\* What callers may ask for when no call is in progress.
LEMMA RequestStep ==
  ASSUME IInv, Request
  PROVE  IInv'
  <1>1. ASSUME NEW z \in Zones, pmm_add_zone(z) PROVE IInv'
    BY <1>1, AddZoneStep
  <1>2. ASSUME pmm_alloc_page PROVE IInv'
    <2>1. PICK z \in Zones : /\ Serves(z) /\ TakeHead(z)
                             /\ held' = held \cup {Head(free_pages[z])}
      BY <1>2 DEF pmm_alloc_page
    <2>2. free_pages[z] # <<>>
      BY <2>1 DEF Serves
    <2>3. /\ call.op = "idle" /\ call' = Idle(1) /\ lists' = lists
          /\ kpages' = kpages
      BY <1>2 DEF pmm_alloc_page
    <2>4. call'.op # "fault" /\ CallInv'
      BY <2>3 DEF CallInv, Idle, Ops
    <2> QED BY <2>1, <2>2, <2>3, <2>4, TakeSingleStep
  <1>3. ASSUME pmm_alloc_kpages PROVE IInv'
    <2>1. PICK z \in Zones :
             LET page == Head(free_pages[z]) IN
             /\ Serves(z) /\ TakeHead(z)
             /\ IF paddr_to_kvaddr(vm_page_to_paddr(page)) # NULL
                  THEN kpages' = kpages \cup {page} /\ call' = Idle(1)
                  ELSE UNCHANGED kpages /\ call' = Idle(0)
      BY <1>3 DEF pmm_alloc_kpages
    <2>2. free_pages[z] # <<>>
      BY <2>1 DEF Serves
    <2>3. call.op = "idle" /\ lists' = lists /\ held' = held
      BY <1>3 DEF pmm_alloc_kpages
    <2>4. call'.op # "fault" /\ CallInv'
      BY <2>1 DEF CallInv, Idle, Ops
    <2>5. \/ kpages' = kpages \cup {Head(free_pages[z])}
          \/ kpages' = kpages /\ Head(free_pages[z]) \notin Addressed
      BY <2>1 DEF Addressed
    <2> QED BY <2>1, <2>2, <2>3, <2>4, <2>5, TakeSingleStep
  <1>4. ASSUME UsePageUnassigned PROVE IInv'
    <2>1. UNCHANGED memory /\ call.op = "idle"
          /\ call' = [Idle(0) EXCEPT !.op = "undefined"]
      BY <1>4 DEF UsePageUnassigned, Stop
    <2>2. call'.op # "fault" /\ CallInv'
      BY <2>1 DEF CallInv, Idle, Ops
    <2> QED BY <2>1, <2>2, OnlyCall
  <1>5. ASSUME NEW n \in 0..MaxCount, NEW l \in Lists, AllocPagesBegin(n, l)
        PROVE  IInv'
    <2>1. CASE n = 0 /\ call' = Idle(0) /\ UNCHANGED memory
      <3>1. call.op = "idle" /\ call'.op # "fault" /\ CallInv'
        BY <1>5, <2>1 DEF AllocPagesBegin, CallInv, Idle, Ops
      <3> QED BY <2>1, <3>1, OnlyCall
    <2>2. CASE /\ n = 1 /\ call' = Idle(1)
               /\ \E z \in Zones :
                     /\ Serves(z) /\ TakeHead(z)
                     /\ lists' = [lists EXCEPT ![l] =
                                     Append(@, Head(free_pages[z]))]
               /\ UNCHANGED <<held, kpages>>
      <3>1. PICK z \in Zones :
               /\ Serves(z) /\ TakeHead(z)
               /\ lists' = [lists EXCEPT ![l] = Append(@, Head(free_pages[z]))]
        BY <2>2
      <3>2. free_pages[z] # <<>>
        BY <3>1 DEF Serves
      <3>3. call.op = "idle" /\ call'.op # "fault" /\ CallInv'
        BY <1>5, <2>2 DEF AllocPagesBegin, CallInv, Idle, Ops
      <3> QED BY <2>2, <3>1, <3>2, <3>3, TakeToListStep
    <2>3. CASE /\ n > 1 /\ Begin("alloc_pages", n, l, 0) /\ UNCHANGED memory
      <3>1. call.op = "idle" /\ call'.op # "fault" /\ CallInv'
        BY <1>5, <2>3, PmmAssumption DEF AllocPagesBegin, CallInv, Begin, Ops
      <3> QED BY <2>3, <3>1, OnlyCall
    <2> QED BY <1>5, <2>1, <2>2, <2>3 DEF AllocPagesBegin
  <1>6. ASSUME NEW a \in 0..MaxAddress, NEW n \in 0..MaxCount,
               NEW l \in Lists \cup {NULL}, AllocRangeBegin(a, n, l)
        PROVE  IInv'
    <2>1. call.op = "idle" /\ UNCHANGED memory
      BY <1>6 DEF AllocRangeBegin
    <2>2. call'.op # "fault" /\ CallInv'
      BY <1>6, PmmAssumption DEF AllocRangeBegin, CallInv, Begin, Idle, Ops
    <2> QED BY <2>1, <2>2, OnlyCall
  <1>7. ASSUME NEW p \in Pages, pmm_free_page(p) PROVE IInv'
    <2>1. /\ call.op = "idle" /\ p \in held /\ GiveBack(p)
          /\ held' = held \ {p} /\ call' = Idle(Counted(p))
          /\ UNCHANGED <<zone_list, lists, kpages>>
      BY <1>7 DEF pmm_free_page
    <2>2. call'.op # "fault" /\ CallInv'
      BY <2>1 DEF CallInv, Idle, Ops, Counted
    <2>3. p \in nonfree
      BY <2>1 DEF IInv, OwnInv
    <2>4. /\ FreeInv' /\ CountInv'
          /\ \/ nonfree' = nonfree \ {p}
             \/ nonfree' = nonfree /\ p \notin Addressed
      BY <2>1, <2>2, <2>3, GiveBackStep
    <2>5. OwnInv' /\ Owned \subseteq Owned' \cup {p}
      BY <2>1, <2>4, DisownHeld DEF IInv
    <2>6. KeptInv'
      BY <2>1, <2>4, <2>5, KeptNext DEF IInv
    <2> QED BY <2>2, <2>4, <2>5, <2>6 DEF IInv
  <1>8. ASSUME NEW l \in Lists, FreePagesBegin(l) PROVE IInv'
    <2>1. call.op = "idle" /\ UNCHANGED memory
      BY <1>8 DEF FreePagesBegin
    <2>2. call'.op # "fault" /\ CallInv'
      BY <1>8 DEF FreePagesBegin, CallInv, Begin, Ops
    <2> QED BY <2>1, <2>2, OnlyCall
  <1> QED
    BY <1>1, <1>2, <1>3, <1>4, <1>5, <1>6, <1>7, <1>8 DEF Request

\* The steps of a call in progress.
LEMMA ProgressStep ==
  ASSUME IInv, Progress
  PROVE  IInv'
  <1> USE DEF Ops
  <1>1. ASSUME AllocPagesTake PROVE IInv'
    <2> DEFINE z == zone_list[call.at]
    <2>1. /\ call.op = "alloc_pages" /\ MoreHere /\ free_pages[z] # <<>>
          /\ TakeHead(z)
          /\ lists' = [lists EXCEPT ![call.list] =
                                         Append(@, Head(free_pages[z]))]
          /\ call' = [call EXCEPT !.got = @ + 1]
          /\ UNCHANGED <<held, kpages>>
      BY <1>1 DEF AllocPagesTake
    <2>2. z \in Zones
      BY <2>1, AddedFacts DEF IInv, FreeInv, CallInv, MoreHere
    <2>3. call.list \in Lists
      BY <2>1 DEF IInv, CallInv
    <2>4. call'.op # "fault" /\ CallInv'
      BY <2>1 DEF IInv, CallInv
    <2> HIDE DEF z
    <2> QED BY <2>1, <2>2, <2>3, <2>4, TakeToListStep
  <1>2. ASSUME AllocPagesNextZone PROVE IInv'
    <2>1. UNCHANGED memory /\ call.op # "fault" /\ call'.op # "fault" /\ CallInv'
      BY <1>2 DEF AllocPagesNextZone, IInv, CallInv
    <2> QED BY <2>1, OnlyCall
  <1>3. ASSUME AllocPagesReturn PROVE IInv'
    <2>1. UNCHANGED memory /\ call.op # "fault" /\ call'.op # "fault" /\ CallInv'
      BY <1>3 DEF AllocPagesReturn, IInv, CallInv, Idle
    <2> QED BY <2>1, OnlyCall
  <1>4. ASSUME AllocRangeTake PROVE IInv'
    <2> PICK z, p : z = Zone /\ p = RangePage
      OBVIOUS
    <2>1. /\ call.op = "alloc_range" /\ RangeMore /\ call.list # NULL
          /\ UnlinkPage(z, p) /\ nonfree' = nonfree \cup {p}
          /\ lists' = [lists EXCEPT ![call.list] = Append(@, p)]
          /\ free_count' = [free_count EXCEPT ![z] = @ - 1]
          /\ UNCHANGED <<zone_list, held, kpages>>
      BY <1>4 DEF AllocRangeTake
    <2>2. call' = [call EXCEPT !.got = @ + 1, !.address = @ + 1]
      BY <1>4 DEF AllocRangeTake
    <2>3. /\ FreeInv' /\ p \in Pages \ nonfree /\ z \in Zones
          /\ \A y \in Zones :
                Len(free_pages'[y]) = IF y = z THEN Len(free_pages[y]) - 1
                                               ELSE Len(free_pages[y])
          /\ free_count[z] - 1 \in Nat
      BY <2>1, RangeTakeStep
    <2>4. call.list \in Lists
      BY <2>1 DEF IInv, CallInv
    <2>5. call'.op = call.op /\ CallInv'
      <3>1. call.got + 1 \in Nat /\ call.address + 1 \in Nat
        BY DEF IInv, CallInv
      <3> QED BY <2>2, <3>1 DEF IInv, CallInv
    <2>6. OwnInv' /\ Owned' = Owned \cup {p}
      BY <2>1, <2>3, <2>4, OwnList DEF IInv
    <2>7. KeptInv'
      BY <2>1, <2>3, <2>6, KeptNext DEF IInv
    <2>8. CountInv'
      BY <2>1, <2>3, <2>5 DEF IInv, CountInv, FreeCountMatches
    <2> QED BY <2>3, <2>5, <2>6, <2>7, <2>8 DEF IInv
  <1>5. ASSUME AllocRangeFault PROVE IInv'
    <2> PICK z, p : z = Zone /\ p = RangePage
      OBVIOUS
    <2>1. /\ call.op = "alloc_range" /\ RangeMore
          /\ UnlinkPage(z, p) /\ nonfree' = nonfree \cup {p}
          /\ UNCHANGED <<zone_list, free_count, lists, held, kpages>>
      BY <1>5 DEF AllocRangeFault
    <2>2. call' = [call EXCEPT !.op = "fault"]
      BY <1>5 DEF AllocRangeFault
    <2>3. /\ FreeInv' /\ p \in Pages \ nonfree /\ z \in Zones
          /\ \A y \in Zones :
                Len(free_pages'[y]) = IF y = z THEN Len(free_pages[y]) - 1
                                               ELSE Len(free_pages[y])
          /\ free_count[z] - 1 \in Nat
      BY <2>1, RangeTakeStep
    <2>4. CallInv' /\ call'.op = "fault"
      BY <2>1, <2>2 DEF IInv, CallInv
    <2>5. Zone' = z /\ RangePage' = p
      <3>1. call'.at = call.at /\ call'.address = call.address
        BY <2>2 DEF IInv, CallInv
      <3> QED BY <2>1, <3>1 DEF Zone, RangePage
    <2>6. OwnInv' /\ Owned \subseteq Owned'
      BY <2>1, <2>3, OwnSingle DEF IInv
    <2>7. Stuck(p)'
      BY <2>4, <2>5 DEF Stuck
    <2>8. KeptInv'
      BY <2>1, <2>6, <2>7, KeptNext DEF IInv
    <2>9. CountInv'
      <3>1. \A y \in Zones : free_count[y] = Len(free_pages[y])
        BY <2>1 DEF IInv, CountInv, FreeCountMatches
      <3>2. free_count[z] = Len(free_pages'[z]) + 1
        BY <2>3, <3>1 DEF IInv, FreeInv
      <3>3. \A y \in Zones :
               free_count[y] = Len(free_pages'[y]) + IF y = z THEN 1 ELSE 0
        BY <2>3, <3>1, <3>2 DEF IInv, FreeInv, CountInv
      <3> QED BY <2>1, <2>4, <2>5, <3>3 DEF IInv, CountInv, FreeCountMatches
    <2> QED BY <2>3, <2>4, <2>6, <2>8, <2>9 DEF IInv
  <1>6. ASSUME AllocRangeNextZone PROVE IInv'
    <2>1. UNCHANGED memory /\ call.op # "fault" /\ call'.op # "fault" /\ CallInv'
      BY <1>6 DEF AllocRangeNextZone, IInv, CallInv
    <2> QED BY <2>1, OnlyCall
  <1>7. ASSUME AllocRangeReturn PROVE IInv'
    <2>1. UNCHANGED memory /\ call.op # "fault" /\ call'.op # "fault" /\ CallInv'
      BY <1>7 DEF AllocRangeReturn, IInv, CallInv, Idle
    <2> QED BY <2>1, OnlyCall
  <1>8. ASSUME FreePagesStep PROVE IInv'
    <2> DEFINE l == call.list
               p == Head(lists[l])
    <2>1. /\ call.op = "free_pages" /\ lists[l] # <<>> /\ GiveBack(p)
          /\ call' = [call EXCEPT !.got = @ + Counted(p)]
          /\ lists' = [lists EXCEPT ![l] = Tail(@)]
          /\ UNCHANGED <<zone_list, held, kpages>>
      BY <1>8 DEF FreePagesStep
    <2>2. l \in Lists
      BY <2>1 DEF IInv, CallInv
    <2>3. call'.op # "fault" /\ CallInv'
      BY <2>1 DEF IInv, CallInv, Counted
    <2> HIDE DEF l
    <2>4. p \in Pages /\ p \in nonfree
      <3>1. lists[l] \in Seq(Pages) /\ IsInjective(lists[l])
        BY <2>2 DEF IInv, OwnInv
      <3>2. p \in Listed(l)
        BY <2>1, <3>1, TailFacts DEF Listed
      <3> QED BY <2>2, <3>2 DEF IInv, OwnInv
    <2>5. /\ FreeInv' /\ CountInv'
          /\ \/ nonfree' = nonfree \ {p}
             \/ nonfree' = nonfree /\ p \notin Addressed
      BY <2>1, <2>3, <2>4, GiveBackStep
    <2>6. OwnInv' /\ Owned \subseteq Owned' \cup {p}
      BY <2>1, <2>2, <2>5, DisownFirst DEF IInv
    <2> HIDE DEF p
    <2>7. KeptInv'
      BY <2>1, <2>5, <2>6, KeptNext DEF IInv
    <2> QED BY <2>3, <2>5, <2>6, <2>7 DEF IInv
  <1>9. ASSUME FreePagesReturn PROVE IInv'
    <2>1. UNCHANGED memory /\ call.op # "fault" /\ call'.op # "fault" /\ CallInv'
      BY <1>9 DEF FreePagesReturn, IInv, CallInv, Idle
    <2> QED BY <2>1, OnlyCall
  <1> QED
    BY <1>1, <1>2, <1>3, <1>4, <1>5, <1>6, <1>7, <1>8, <1>9 DEF Progress

\* Every step keeps the invariant.
LEMMA NextIInv == IInv /\ [Next]_vars => IInv'
  <1>1. ASSUME IInv, UNCHANGED vars PROVE IInv'
    BY <1>1
    DEF IInv, vars, memory, FreeInv, OwnInv, KeptInv, CountInv, CallInv, Stuck,
        FlagTellsFree, FreeCountMatches, Added, Listed, Owned, Zone, RangePage
  <1> QED BY <1>1, RequestStep, ProgressStep DEF Next

-----------------------------------------------------------------------------
(* The theorems. *)

\* Types, for every state of every run.
THEOREM TypeCorrect == Spec => []TypeOK
  <1>1. IInv => TypeOK
    BY IInvImplies
  <1> QED BY InitIInv, NextIInv, <1>1, PTL DEF Spec

\* The count by which the allocation loops decide is the length of the list
\* from which they take.
THEOREM CountsAgree == Spec => []FreeCountMatches
  <1>1. IInv => FreeCountMatches
    BY IInvImplies
  <1> QED BY InitIInv, NextIInv, <1>1, PTL DEF Spec

\* The flag that pmm_alloc_range goes by says whether the page is free.
THEOREM FlagsAgree == Spec => []FlagTellsFree
  <1>1. IInv => FlagTellsFree
    BY IInvImplies
  <1> QED BY InitIInv, NextIInv, <1>1, PTL DEF Spec

\* No page is handed out while it is owned, or is in two places.
THEOREM SingleOwner == Spec => []OneOwner
  <1>1. IInv => OneOwner
    BY IInvImplies
  <1> QED BY InitIInv, NextIInv, <1>1, PTL DEF Spec

\* No page that has a kernel address is lost, whatever sizeof(vm_page_t) is and
\* whatever platform.c maps: a page that is neither free nor owned is beyond the
\* look-up by page or beyond mmu_initial_mappings.
THEOREM LossBounded == Spec => []OnlyWithoutAddressLost
  <1>1. IInv => OnlyWithoutAddressLost
    BY IInvImplies
  <1> QED BY InitIInv, NextIInv, <1>1, PTL DEF Spec

\* Where no zone serves, no zone has a free page: the first one in zone_list with a
\* positive count would serve, and its free list is as long as the count says.
LEMMA NothingLeft ==
  ASSUME IInv, call.op # "fault", NoPage
  PROVE  FreeSet = {}
  <1>1. /\ Added \subseteq Zones
        /\ DOMAIN zone_list = 1..Len(zone_list)
        /\ \A k \in 1..Len(zone_list) : zone_list[k] \in Added
    BY AddedFacts DEF IInv, FreeInv
  <1>2. \A z \in Zones : /\ free_count[z] \in Nat
                         /\ free_count[z] = 0 <=> free_pages[z] = <<>>
    <2> SUFFICES ASSUME NEW z \in Zones
                 PROVE  /\ free_count[z] \in Nat
                        /\ free_count[z] = 0 <=> free_pages[z] = <<>>
      OBVIOUS
    <2>1. free_pages[z] \in Seq(Pages) /\ free_count[z] = Len(free_pages[z])
      BY DEF IInv, FreeInv, CountInv, FreeCountMatches
    <2>2. free_count[z] \in Nat
      BY DEF IInv, CountInv
    <2> QED BY <2>1, <2>2, EmptySeq
  <1> DEFINE Positive == {k \in 1..Len(zone_list) : free_count[zone_list[k]] > 0}
  <1>3. Positive = {}
    <2> SUFFICES ASSUME Positive # {} PROVE FALSE
      OBVIOUS
    <2>1. Positive \subseteq Nat
      OBVIOUS
    <2>2. PICK k \in Positive : \A j \in Positive : k <= j
      <3> HIDE DEF Positive
      <3> QED BY <2>1, Smallest
    <2> DEFINE z == zone_list[k]
    <2>3. z \in Zones /\ free_count[z] > 0 /\ free_pages[z] # <<>>
      BY <1>1, <1>2, <2>2
    <2>4. \A j \in 1..(k-1) : free_count[zone_list[j]] = 0
      <3> SUFFICES ASSUME NEW j \in 1..(k-1), free_count[zone_list[j]] # 0
                   PROVE  FALSE
        OBVIOUS
      <3>1. j \in 1..Len(zone_list) /\ ~(k <= j)
        BY <2>2
      <3>2. free_count[zone_list[j]] > 0
        BY <1>1, <1>2, <3>1
      <3> QED BY <2>2, <3>1, <3>2
    <2>5. Serves(z)
      BY <1>1, <2>2, <2>3, <2>4 DEF Serves
    <2> QED BY <2>3, <2>5 DEF NoPage
  <1>4. \A z \in Zones : free_pages[z] = <<>>
    <2> SUFFICES ASSUME NEW z \in Added, z \in Zones PROVE free_pages[z] = <<>>
      BY DEF IInv, FreeInv
    <2>1. PICK k \in 1..Len(zone_list) : zone_list[k] = z
      BY <1>1 DEF Added, Range
    <2>2. ~(free_count[z] > 0)
      BY <1>3, <2>1
    <2> QED BY <1>2, <2>2
  <1> QED BY <1>4 DEF FreeSet, Range

\* A pointer nobody assigned is used only when memory is exhausted: the machine
\* stops there with what was free before, nothing.
THEOREM UnassignedExhausted == Spec => []UnassignedOnlyWhenExhausted
  <1>1. Init => UnassignedOnlyWhenExhausted
    BY DEF Init, Idle, UnassignedOnlyWhenExhausted
  <1>2. ASSUME IInv, UnassignedOnlyWhenExhausted, [Next]_vars
        PROVE  UnassignedOnlyWhenExhausted'
    <2>1. ASSUME UNCHANGED vars PROVE UnassignedOnlyWhenExhausted'
      BY <1>2, <2>1 DEF vars, memory, UnassignedOnlyWhenExhausted, FreeSet
    <2>2. ASSUME UsePageUnassigned PROVE UnassignedOnlyWhenExhausted'
      <3>1. FreeSet = {}
        BY <1>2, <2>2, NothingLeft DEF UsePageUnassigned
      <3> QED BY <2>2, <3>1
          DEF UsePageUnassigned, memory, UnassignedOnlyWhenExhausted, FreeSet
    <2>3. ASSUME Next, ~UsePageUnassigned PROVE call'.op # "undefined"
      <3>1. call \in [op : Ops, want : Nat, got : Nat, list : Lists \cup {NULL},
                      at : Nat \ {0}, address : Nat]
        BY <1>2 DEF IInv, CallInv
      <3>2. CASE Request
        BY <2>3, <3>2 DEF Request, pmm_add_zone, pmm_alloc_page, pmm_alloc_kpages,
             AllocPagesBegin, AllocRangeBegin, pmm_free_page, FreePagesBegin,
             Idle, Begin
      <3>3. CASE Progress
        <4>1. CASE AllocPagesTake \/ AllocPagesNextZone
          BY <3>1, <4>1 DEF AllocPagesTake, AllocPagesNextZone
        <4>2. CASE AllocRangeTake
          BY <3>1, <4>2 DEF AllocRangeTake
        <4>3. CASE AllocRangeFault \/ AllocRangeNextZone
          BY <3>1, <4>3 DEF AllocRangeFault, AllocRangeNextZone
        <4>4. CASE FreePagesStep
          BY <3>1, <4>4 DEF FreePagesStep
        <4>5. CASE AllocPagesReturn \/ AllocRangeReturn \/ FreePagesReturn
          BY <4>5 DEF AllocPagesReturn, AllocRangeReturn, FreePagesReturn, Idle
        <4> QED BY <3>3, <4>1, <4>2, <4>3, <4>4, <4>5 DEF Progress
      <3> QED BY <2>3, <3>2, <3>3 DEF Next
    <2>4. CASE Next /\ ~UsePageUnassigned
      BY <2>3, <2>4 DEF UnassignedOnlyWhenExhausted
    <2> QED BY <1>2, <2>1, <2>2, <2>4
  <1> QED BY InitIInv, NextIInv, <1>1, <1>2, PTL DEF Spec
-----------------------------------------------------------------------------
(* Where pmm_alloc_range stops. *)

\* The zones that pmm_alloc_range has passed have no free page for its next frame,
\* unless they precede the zone of the frame before.
Passed ==
  call.op = "alloc_range" =>
    \A i \in DOMAIN zone_list : i < call.at =>
      \A p \in PagesOf(zone_list[i]) : FrameOf(p) = call.address =>
        \/ p \in nonfree
        \/ /\ call.got > 0
           /\ \E j \in DOMAIN zone_list :
                 i < j /\ AddressBelongs(call.address - 1, zone_list[j])

\* A frame of the zone at hand is the page at hand.
LEMMA FrameHere ==
  ASSUME NEW z \in Zones, NEW p \in PagesOf(z), NEW a \in Nat, FrameOf(p) = a
  PROVE  AddressBelongs(a, z) /\ p = <<z, a - Base[z]>>
  <1>1. PICK n \in 0..(Frames[z] - 1) : p = <<z, n>>
    BY DEF PagesOf
  <1>2. Base[z] \in Nat /\ Frames[z] \in Nat
    BY PmmAssumption
  <1>3. a = Base[z] + n
    BY <1>1 DEF FrameOf
  <1> QED BY <1>1, <1>2, <1>3 DEF AddressBelongs

\* A page taken makes its zone the one of the frame before.
LEMMA PassedTake ==
  ASSUME IInv, Passed, AllocRangeTake
  PROVE  Passed'
  <1>1. /\ call.op = "alloc_range" /\ zone_list' = zone_list
        /\ call.at \in 1..Len(zone_list) /\ AddressBelongs(call.address, zone_list[call.at])
        /\ call' = [call EXCEPT !.got = @ + 1, !.address = @ + 1]
        /\ call.got \in Nat /\ call.address \in Nat /\ call.at \in Nat
    BY DEF AllocRangeTake, RangeMore, Zone, IInv, CallInv
  <1>2. /\ call'.at = call.at /\ call'.got > 0
        /\ call'.address - 1 = call.address
    BY <1>1 DEF IInv, CallInv
  <1>3. call.at \in DOMAIN zone_list
    BY <1>1, AddedFacts DEF IInv, FreeInv
  <1>4. ASSUME NEW i \in DOMAIN zone_list', i < call'.at
        PROVE  \E j \in DOMAIN zone_list' :
                  i < j /\ AddressBelongs(call'.address - 1, zone_list'[j])
    BY <1>1, <1>2, <1>3, <1>4
  <1> QED BY <1>2, <1>4 DEF Passed, AddressBelongs

\* The zone that is left has no free page for the frame.
LEMMA PassedNextZone ==
  ASSUME IInv, Passed, AllocRangeNextZone
  PROVE  Passed'
  <1>1. /\ call.op = "alloc_range" /\ UNCHANGED <<zone_list, nonfree>>
        /\ ~RangeMore /\ call.at <= Len(zone_list) /\ call.got < call.want
        /\ call' = [call EXCEPT !.at = @ + 1]
        /\ call.at \in Nat \ {0} /\ call.address \in Nat
    BY DEF AllocRangeNextZone, memory, IInv, CallInv
  <1>2. call'.at = call.at + 1 /\ call'.got = call.got /\ call'.address = call.address
    BY <1>1 DEF IInv, CallInv
  <1>3. /\ DOMAIN zone_list = 1..Len(zone_list) /\ Len(zone_list) \in Nat
        /\ zone_list[call.at] \in Zones
    BY <1>1, AddedFacts DEF IInv, FreeInv
  <1>4. ASSUME NEW p \in PagesOf(zone_list[call.at]), FrameOf(p) = call.address
        PROVE  p \in nonfree
    <2>1. AddressBelongs(call.address, Zone) /\ p = RangePage
      BY <1>1, <1>3, <1>4, FrameHere DEF Zone, RangePage
    <2> QED BY <1>1, <2>1 DEF RangeMore
  <1>5. ASSUME NEW i \in DOMAIN zone_list, i < call.at + 1,
               NEW p \in PagesOf(zone_list[i]), FrameOf(p) = call.address
        PROVE  \/ p \in nonfree
               \/ /\ call.got > 0
                  /\ \E j \in DOMAIN zone_list :
                        i < j /\ AddressBelongs(call.address - 1, zone_list[j])
    <2>1. CASE i = call.at
      BY <1>4, <1>5, <2>1
    <2>2. CASE i # call.at
      <3>1. i < call.at
        BY <1>1, <1>3, <1>5, <2>2
      <3> QED BY <1>1, <1>5, <3>1 DEF Passed
    <2> QED BY <2>1, <2>2
  <1> QED BY <1>1, <1>2, <1>5 DEF Passed, PagesOf, FrameOf, AddressBelongs

\* Every step keeps track of the zones passed.
LEMMA NextPassed == IInv /\ Passed /\ [Next]_vars => Passed'
  <1> SUFFICES ASSUME IInv, Passed, [Next]_vars PROVE Passed'
    OBVIOUS
  <1>1. CASE UNCHANGED vars
    BY <1>1 DEF vars, memory, Passed, PagesOf, FrameOf, AddressBelongs
  <1>2. CASE Request
    <2>1. call'.op = "alloc_range" => call'.at = 1
      BY <1>2 DEF Request, pmm_add_zone, pmm_alloc_page, pmm_alloc_kpages,
                  UsePageUnassigned, AllocPagesBegin, AllocRangeBegin, pmm_free_page,
                  FreePagesBegin, Begin, Stop, Idle
    <2>2. zone_list \in Seq(Zones) /\ call'.op = "alloc_range" => zone_list' = zone_list
      BY <1>2 DEF Request, pmm_add_zone, pmm_alloc_page, pmm_alloc_kpages,
                  UsePageUnassigned, AllocPagesBegin, AllocRangeBegin, pmm_free_page,
                  FreePagesBegin, Begin, Stop, Idle, memory, TakeHead
    <2>3. \A i \in DOMAIN zone_list : ~(i < 1)
      BY AddedFacts DEF IInv, FreeInv
    <2> QED BY <2>1, <2>2, <2>3 DEF Passed, IInv, FreeInv
  <1>3. CASE AllocRangeTake
    BY <1>3, PassedTake
  <1>4. CASE AllocRangeNextZone
    BY <1>4, PassedNextZone
  <1>5. CASE Progress /\ ~AllocRangeTake /\ ~AllocRangeNextZone
    <2>1. call'.op # "alloc_range"
      BY <1>5 DEF Progress, AllocPagesTake, AllocPagesNextZone, AllocPagesReturn,
                  AllocRangeFault, AllocRangeReturn, FreePagesStep, FreePagesReturn,
                  Idle, IInv, CallInv
    <2> QED BY <2>1 DEF Passed
  <1> QED BY <1>1, <1>2, <1>3, <1>4, <1>5 DEF Next

\* pmm_alloc_range stops short of its count only where the next frame is in no zone,
\* is taken, or is in a zone that it had passed before it came to the frame before.
THEOREM RangeStops == Spec => RangeStopsForCause
  <1> DEFINE Cause ==
        call.op = "alloc_range" /\ call'.op = "idle" /\ call.got < call.want =>
          \A i \in DOMAIN zone_list : \A p \in PagesOf(zone_list[i]) :
             FrameOf(p) = call.address =>
                \/ p \in nonfree
                \/ /\ call.got > 0
                   /\ \E j \in DOMAIN zone_list :
                         i < j /\ AddressBelongs(call.address - 1, zone_list[j])
  <1>1. Init => Passed
    BY DEF Init, Idle, Passed
  <1>2. IInv /\ Passed /\ [Next]_vars => [Cause]_vars
    <2> SUFFICES ASSUME IInv, Passed, Next, call.op = "alloc_range",
                        call'.op = "idle", call.got < call.want
                 PROVE  \A i \in DOMAIN zone_list : i < call.at
      BY DEF Passed
    <2>1. call.at > Len(zone_list)
      <3>1. AllocRangeReturn
        BY DEF Next, Request, Progress, pmm_add_zone, pmm_alloc_page, pmm_alloc_kpages,
               UsePageUnassigned, AllocPagesBegin, AllocRangeBegin, pmm_free_page,
               FreePagesBegin, AllocPagesTake, AllocPagesNextZone, AllocPagesReturn,
               AllocRangeTake, AllocRangeFault, AllocRangeNextZone, FreePagesStep,
               FreePagesReturn, IInv, CallInv
      <3> QED BY <3>1 DEF AllocRangeReturn, IInv, CallInv
    <2> QED BY <2>1, AddedFacts DEF IInv, FreeInv, CallInv
  <1> HIDE DEF Cause
  <1>3. Spec => [][Cause]_vars
    BY InitIInv, NextIInv, <1>1, <1>2, NextPassed, PTL DEF Spec
  <1> QED BY <1>3 DEF RangeStopsForCause, Cause
-----------------------------------------------------------------------------
(* The refinement of PmmSpec: the sets of pages. *)

AddedPages == UNION {PagesOf(z) : z \in Added}

Unmarked == FreeSet = AddedPages \ nonfree

\* The free pages are those of the zones added that are not marked, so that the
\* marks tell how the free pages change.
LEMMA FreeIs == FreeInv => Unmarked
  <1> SUFFICES ASSUME FreeInv PROVE FreeSet = AddedPages \ nonfree
    BY DEF Unmarked
  <1>1. Added \subseteq Zones
    BY AddedFacts DEF FreeInv
  <1>2. ASSUME NEW p \in FreeSet PROVE p \in AddedPages \ nonfree
    <2>1. PICK z \in Zones : p \in Range(free_pages[z])
      BY <1>2 DEF FreeSet
    <2>2. z \in Added
      BY <2>1 DEF FreeInv, Range
    <2> QED BY <2>1, <2>2 DEF FreeInv, AddedPages
  <1>3. ASSUME NEW p \in AddedPages \ nonfree PROVE p \in FreeSet
    <2>1. PICK z \in Added : p \in PagesOf(z)
      BY DEF AddedPages
    <2> QED BY <1>1, <1>3, <2>1 DEF FreeInv, FlagTellsFree, FreeSet
  <1> QED BY <1>2, <1>3

\* The same after a step.
LEMMA FreeIsNext == FreeInv' => Unmarked'
  BY FreeIs, PTL

\* There are finitely many pages to have.
LEMMA FinitelyMany ==
  ASSUME zone_list \in Seq(Zones)
  PROVE  IsFiniteSet(AddedPages)
  <1>1. DOMAIN zone_list = 1..Len(zone_list) /\ Len(zone_list) \in Nat /\ Added \subseteq Zones
    BY AddedFacts
  <1>2. IsFiniteSet(1..Len(zone_list))
    BY <1>1, FS_Interval
  <1>3. IsFiniteSet(Added)
    <2>1. zone_list \in Surjection(1..Len(zone_list), Added)
      BY <1>1 DEF Surjection, Added, Range
    <2> QED BY <1>2, <2>1, FS_Surjection
  <1>4. ASSUME NEW z \in Added PROVE IsFiniteSet(PagesOf(z))
    <2>1. Frames[z] \in Nat
      BY <1>1, PmmAssumption
    <2>2. IsFiniteSet({z})
      BY FS_Singleton
    <2>3. IsFiniteSet(0..(Frames[z] - 1))
      BY <2>1, FS_Interval
    <2> QED BY <2>2, <2>3, FS_Product DEF PagesOf
  <1> DEFINE f == [z \in Added |-> PagesOf(z)]
             T == {PagesOf(z) : z \in Added}
  <1>5. f \in Surjection(Added, T)
    BY DEF Surjection
  <1>6. IsFiniteSet(T)
    <2> HIDE DEF f, T
    <2> QED BY <1>3, <1>5, FS_Surjection
  <1>7. \A S \in T : IsFiniteSet(S)
    BY <1>4
  <1> HIDE DEF T
  <1>8. IsFiniteSet(UNION T)
    BY <1>6, <1>7, FS_UNION
  <1> QED BY <1>8 DEF T, AddedPages

\* A page leaves the free ones.
LEMMA FreeLess ==
  ASSUME FreeInv, FreeInv', zone_list' = zone_list, NEW p, p \notin nonfree,
         nonfree' = nonfree \cup {p}
  PROVE  FreeSet' = FreeSet \ {p} /\ p \in FreeSet /\ p \in Pages
  <1>1. AddedPages' = AddedPages
    BY DEF AddedPages, Added, PagesOf
  <1>2. nonfree' \subseteq AddedPages
    BY <1>1 DEF FreeInv, AddedPages
  <1>3. AddedPages \subseteq Pages
    BY AddedFacts, PagesFacts DEF FreeInv, AddedPages
  <1> QED BY <1>1, <1>2, <1>3, FreeIs, FreeIsNext DEF Unmarked

\* A page that is given back is free if the look-up finds it.
LEMMA FreeMore ==
  ASSUME IInv, FreeInv', zone_list' = zone_list, NEW p \in nonfree, GiveBack(p)
  PROVE  FreeSet' = FreeSet \cup ({p} \cap Window)
  <1>1. AddedPages' = AddedPages
    BY DEF AddedPages, Added, PagesOf
  <1>2. p \in AddedPages /\ p \in Pages
    BY DEF IInv, OwnInv, FreeInv, AddedPages
  <1>3. PICK k \in DOMAIN zone_list : p \in PagesOf(zone_list[k])
    BY <1>2 DEF AddedPages, Added, Range
  <1>4. zone_list[k] \in Zones /\ \A j \in DOMAIN zone_list : zone_list[j] \in Zones
    BY AddedFacts DEF IInv, FreeInv
  <1>5. (\E j \in DOMAIN zone_list : PageBelongs(p, zone_list[j])) <=> p \in Window
    BY <1>2, <1>3, <1>4, PagesFacts DEF Window, PageBelongs
  <1>6. nonfree' = nonfree \ ({p} \cap Window)
    BY <1>5 DEF GiveBack
  <1> QED BY <1>1, <1>2, <1>6, FreeIs, FreeIsNext DEF Unmarked, IInv

-----------------------------------------------------------------------------
(* What an allocation in progress has taken. *)

Allocating == call.op \in {"alloc_pages", "alloc_range"}

\* As many pages as got says, the last ones of the caller's list: of pmm_alloc_pages
\* when the zones passed had no more, of pmm_alloc_range those of the frames before
\* the address.
Taking ==
  /\ Allocating =>
       /\ call.got <= call.want
       /\ IF call.list = NULL THEN call.got = 0 ELSE call.got <= Len(lists[call.list])
       /\ IsFiniteSet(Taken) /\ Cardinality(Taken) = call.got
  /\ call.op = "alloc_pages" =>
       \A i \in DOMAIN zone_list : i < call.at => free_pages[zone_list[i]] = <<>>
  /\ call.op = "alloc_range" =>
       /\ call.got <= call.address
       /\ {FrameOf(p) : p \in Taken} = (call.address - call.got)..(call.address - 1)

\* They are on the list of the call.
LEMMA TakenListed ==
  ASSUME IInv, Taking
  PROVE  /\ Taken # {} => Allocating /\ call.list \in Lists /\ Taken \subseteq Listed(call.list)
         /\ Taken \subseteq nonfree /\ Taken \subseteq Pages /\ Taken \subseteq AddedPages
         /\ Taken \cap FreeSet = {}
  <1>1. ASSUME Taken # {}
        PROVE  Allocating /\ call.list \in Lists /\ Taken \subseteq Listed(call.list)
    <2>1. Allocating /\ call.list # NULL
      BY <1>1 DEF Taken, Allocating
    <2>2. call.list \in Lists /\ call.got \in Nat
      BY <2>1 DEF IInv, CallInv
    <2> DEFINE s == lists[call.list]
    <2>3. s \in Seq(Pages)
      BY <2>2 DEF IInv, OwnInv
    <2>4. Len(s) \in Nat /\ DOMAIN s = 1..Len(s) /\ call.got <= Len(s)
      BY <2>1, <2>3, LenProperties DEF Taking
    <2>5. Taken = {s[i] : i \in (Len(s) - call.got + 1)..Len(s)}
      BY <2>1 DEF Taken, Allocating
    <2> HIDE DEF s
    <2>6. (Len(s) - call.got + 1)..Len(s) \subseteq DOMAIN s
      BY <2>2, <2>4
    <2>7. Taken \subseteq Range(s)
      BY <2>5, <2>6 DEF Range
    <2> QED BY <2>1, <2>2, <2>7 DEF Listed, s
  <1>2. Taken \subseteq nonfree
    BY <1>1 DEF IInv, OwnInv
  <1>3. nonfree \subseteq Pages /\ nonfree \subseteq AddedPages
    BY DEF IInv, OwnInv, FreeInv, AddedPages
  <1>4. nonfree \cap FreeSet = {}
    BY FreeIs DEF IInv, Unmarked
  <1> QED BY <1>1, <1>2, <1>3, <1>4

\* Nothing is taken when a call begins.
LEMMA NothingTaken ==
  ASSUME IInv, call.got = 0
  PROVE  Taken = {} /\ IsFiniteSet(Taken) /\ Cardinality(Taken) = 0
  <1>1. ASSUME Allocating, call.list # NULL PROVE Taken = {}
    <2> DEFINE s == lists[call.list]
    <2>1. s \in Seq(Pages)
      BY <1>1 DEF IInv, CallInv, OwnInv, Allocating
    <2>2. Len(s) \in Nat
      BY <2>1, LenProperties
    <2>3. Taken = {s[i] : i \in (Len(s) - 0 + 1)..Len(s)}
      BY <1>1 DEF Taken, Allocating
    <2> HIDE DEF s
    <2> QED BY <2>2, <2>3
  <1>2. Taken = {}
    BY <1>1 DEF Taken, Allocating
  <1> QED BY <1>2, FS_EmptySet

\* The same after a step.
LEMMA NothingTakenNext == (IInv /\ call.got = 0)' => Taken' = {}
  <1> DEFINE None_ == Taken = {}
  <1>1. IInv /\ call.got = 0 => None_
    BY NothingTaken
  <1>2. (IInv /\ call.got = 0)' => None_'
    BY <1>1, PTL
  <1> QED BY <1>2

\* A page taken joins them.
LEMMA OneMore ==
  ASSUME IInv, Taking, Allocating, call.list \in Lists, NEW p \in Pages, p \notin nonfree,
         lists' = [lists EXCEPT ![call.list] = Append(@, p)],
         call'.op = call.op, call'.list = call.list, call'.got = call.got + 1
  PROVE  /\ Taken' = Taken \cup {p}
         /\ IsFiniteSet(Taken') /\ Cardinality(Taken') = call'.got
         /\ call'.got <= Len(lists'[call.list])
  <1> DEFINE s == lists[call.list]
             t == Append(s, p)
             g == call.got
  <1>1. call.list # NULL
    BY PmmAssumption
  <1>2. s \in Seq(Pages) /\ g \in Nat
    BY DEF IInv, CallInv, OwnInv
  <1>3. g <= Len(s) /\ Len(s) \in Nat
    BY <1>1, <1>2, LenProperties DEF Taking
  <1>4. /\ Len(t) = Len(s) + 1 /\ t[Len(s) + 1] = p
        /\ \A i \in 1..Len(s) : t[i] = s[i]
    BY <1>2, AppendProperties
  <1>5. lists'[call.list] = t
    BY DEF IInv, OwnInv
  <1>6. Taken = {s[i] : i \in (Len(s) - g + 1)..Len(s)}
    BY <1>1 DEF Taken, Allocating
  <1>7. Taken' = {t[i] : i \in (Len(t) - (g + 1) + 1)..Len(t)}
    BY <1>1, <1>5 DEF Taken, Allocating
  <1> HIDE DEF s, t, g
  <1>8. /\ (Len(t) - (g + 1) + 1)..Len(t) = (Len(s) - g + 1)..Len(s) \cup {Len(s) + 1}
        /\ (Len(s) - g + 1)..Len(s) \subseteq 1..Len(s)
    BY <1>2, <1>3, <1>4
  <1>9. Taken' = Taken \cup {p}
    BY <1>4, <1>6, <1>7, <1>8
  <1>10. p \notin Taken
    BY TakenListed
  <1>11. IsFiniteSet(Taken) /\ Cardinality(Taken) = g
    BY DEF Taking, g
  <1>12. IsFiniteSet(Taken') /\ Cardinality(Taken') = g + 1
    BY <1>9, <1>10, <1>11, FS_AddElement
  <1>13. g + 1 <= Len(t)
    BY <1>2, <1>3, <1>4
  <1> QED BY <1>5, <1>9, <1>12, <1>13 DEF g

\* A call that begins has taken nothing.
LEMMA TakingBegins ==
  ASSUME IInv, IInv', NEW op, NEW n \in Nat, NEW l \in Lists \cup {NULL}, NEW a \in Nat,
         Begin(op, n, l, a), UNCHANGED memory
  PROVE  Taking'
  <1>1. /\ call'.op = op /\ call'.want = n /\ call'.got = 0 /\ call'.list = l
        /\ call'.at = 1 /\ call'.address = a /\ lists' = lists /\ zone_list' = zone_list
    BY DEF Begin, memory
  <1>2. Taken' = {}
    BY <1>1, NothingTakenNext
  <1>3. IsFiniteSet(Taken') /\ Cardinality(Taken') = 0
    BY <1>2, FS_EmptySet
  <1>4. l # NULL => Len(lists[l]) \in Nat
    BY LenProperties DEF IInv, OwnInv
  <1>5. \A i \in DOMAIN zone_list : ~(i < 1)
    BY AddedFacts DEF IInv, FreeInv
  <1>6. 0 <= a /\ {FrameOf(p) : p \in {}} = (a - 0)..(a - 1)
    OBVIOUS
  <1>7. {FrameOf(p) : p \in Taken}' = {}
    BY <1>2
  <1>8. /\ call'.got <= call'.want
        /\ IF call'.list = NULL THEN call'.got = 0 ELSE call'.got <= Len(lists'[call'.list])
        /\ IsFiniteSet(Taken') /\ Cardinality(Taken') = call'.got
    BY <1>1, <1>3, <1>4
  <1>9. \A i \in DOMAIN zone_list' : i < call'.at => free_pages'[zone_list'[i]] = <<>>
    BY <1>1, <1>5
  <1>10. call'.got <= call'.address
         /\ {FrameOf(p) : p \in Taken}' = (call'.address - call'.got)..(call'.address - 1)
    BY <1>1, <1>6, <1>7
  <1> QED BY <1>8, <1>9, <1>10 DEF Taking

\* pmm_alloc_pages takes a page: of a zone that is not among those passed.
LEMMA TakingPages ==
  ASSUME IInv, IInv', Taking, AllocPagesTake
  PROVE  /\ Taking' /\ \E p \in Pages \ nonfree :
                          /\ nonfree' = nonfree \cup {p} /\ Taken' = Taken \cup {p}
                          /\ lists' = [lists EXCEPT ![call.list] = Append(@, p)]
  <1> DEFINE z == zone_list[call.at]
             p == Head(free_pages[z])
  <1>1. /\ call.op = "alloc_pages" /\ call.list \in Lists /\ MoreHere
        /\ call.got \in Nat /\ call.want \in Nat /\ call.at \in Nat \ {0}
        /\ call.got + 1 <= call.want
    BY DEF AllocPagesTake, IInv, CallInv, MoreHere
  <1>2. /\ call'.op = call.op /\ call'.got = call.got + 1 /\ call'.list = call.list
        /\ call'.at = call.at /\ call'.want = call.want
    BY DEF AllocPagesTake, IInv, CallInv
  <1>3. z \in Zones /\ free_pages[z] # <<>> /\ TakeHead(z)
    BY <1>1, AddedFacts DEF AllocPagesTake, IInv, FreeInv, MoreHere
  <1>4. p \in Pages \ nonfree /\ nonfree' = nonfree \cup {p}
    BY <1>1, <1>2, <1>3, TakeHeadStep
  <1>5. lists' = [lists EXCEPT ![call.list] = Append(@, p)]
    BY DEF AllocPagesTake
  <1>6. Allocating
    BY <1>1 DEF Allocating
  <1> HIDE DEF p
  <1>7. /\ Taken' = Taken \cup {p}
        /\ IsFiniteSet(Taken') /\ Cardinality(Taken') = call'.got
        /\ call'.got <= Len(lists'[call.list])
    BY <1>1, <1>2, <1>4, <1>5, <1>6, OneMore
  <1>8. ASSUME NEW i \in DOMAIN zone_list, i < call.at
        PROVE  free_pages'[zone_list[i]] = <<>>
    <2>1. free_pages[zone_list[i]] = <<>>
      BY <1>1, <1>8 DEF Taking
    <2>2. zone_list[i] # z /\ zone_list[i] \in Zones
      BY <1>3, <2>1, AddedFacts DEF IInv, FreeInv
    <2> QED BY <1>3, <2>1, <2>2 DEF TakeHead, IInv, FreeInv
  <1>9. zone_list' = zone_list
    BY <1>3 DEF TakeHead
  <1>10. call.list # NULL
    BY <1>1, PmmAssumption
  <1> HIDE DEF z
  <1>11. Taking'
    BY <1>1, <1>2, <1>7, <1>8, <1>9, <1>10 DEF Taking
  <1> QED BY <1>4, <1>5, <1>7, <1>11

\* pmm_alloc_pages leaves a zone when its count is zero, and so its list is empty.
LEMMA TakingNextZone ==
  ASSUME IInv, Taking, AllocPagesNextZone
  PROVE  Taking'
  <1>1. /\ call.op = "alloc_pages" /\ ~MoreHere /\ call.at <= Len(zone_list)
        /\ call.got < call.want /\ call.at \in Nat \ {0}
    BY DEF AllocPagesNextZone, IInv, CallInv
  <1>2. /\ UNCHANGED <<zone_list, free_pages, lists>> /\ call'.op = call.op
        /\ call'.want = call.want /\ call'.got = call.got /\ call'.list = call.list
        /\ call'.at = call.at + 1
    BY DEF AllocPagesNextZone, IInv, CallInv, memory
  <1>3. /\ DOMAIN zone_list = 1..Len(zone_list) /\ Len(zone_list) \in Nat
        /\ zone_list[call.at] \in Zones
    BY <1>1, AddedFacts DEF IInv, FreeInv
  <1>4. free_pages[zone_list[call.at]] = <<>>
    <2> DEFINE z == zone_list[call.at]
    <2>1. free_count[z] = 0
      BY <1>1, <1>3 DEF MoreHere, IInv, CountInv
    <2>2. free_count[z] = Len(free_pages[z]) + 0
      BY <1>1, <1>3 DEF IInv, CountInv, FreeCountMatches
    <2>3. free_pages[z] \in Seq(Pages)
      BY <1>3 DEF IInv, FreeInv
    <2> HIDE DEF z
    <2>4. Len(free_pages[z]) = 0
      BY <2>1, <2>2, <2>3, LenProperties
    <2>5. free_pages[z] = <<>>
      BY <2>3, <2>4, EmptySeq
    <2> QED BY <2>5 DEF z
  <1>5. ASSUME NEW i \in DOMAIN zone_list, i < call.at + 1
        PROVE  free_pages[zone_list[i]] = <<>>
    <2>1. i < call.at \/ i = call.at
      BY <1>1, <1>3, <1>5
    <2> QED BY <1>1, <1>4, <2>1 DEF Taking
  <1>6. Taken' = Taken
    BY <1>2 DEF Taken
  <1>7. Allocating' = Allocating /\ call'.op # "alloc_range"
    BY <1>1, <1>2 DEF Allocating
  <1> QED BY <1>2, <1>5, <1>6, <1>7 DEF Taking

\* pmm_alloc_range takes the page of the frame at its address, and goes on to the next.
LEMMA TakingRange ==
  ASSUME IInv, Taking, AllocRangeTake
  PROVE  /\ Taking' /\ \E p \in Pages \ nonfree :
                          /\ nonfree' = nonfree \cup {p} /\ Taken' = Taken \cup {p}
                          /\ lists' = [lists EXCEPT ![call.list] = Append(@, p)]
  <1> DEFINE p == RangePage
             g == call.got
             a == call.address
  <1>1. /\ call.op = "alloc_range" /\ call.list \in Lists /\ RangeMore /\ zone_list' = zone_list
        /\ g \in Nat /\ call.want \in Nat /\ a \in Nat /\ g + 1 <= call.want
    BY DEF AllocRangeTake, IInv, CallInv, RangeMore
  <1>2. /\ call'.op = call.op /\ call'.got = g + 1 /\ call'.list = call.list
        /\ call'.at = call.at /\ call'.want = call.want /\ call'.address = a + 1
    BY DEF AllocRangeTake, IInv, CallInv
  <1>3. p \in Pages \ nonfree /\ nonfree' = nonfree \cup {p} /\ Zone \in Zones
    BY <1>1, RangeTakeStep DEF AllocRangeTake
  <1>4. lists' = [lists EXCEPT ![call.list] = Append(@, p)]
    BY DEF AllocRangeTake
  <1>5. FrameOf(p) = a
    BY <1>1, <1>3, PmmAssumption DEF FrameOf, RangePage
  <1>6. Allocating
    BY <1>1 DEF Allocating
  <1> HIDE DEF p
  <1>7. /\ Taken' = Taken \cup {p}
        /\ IsFiniteSet(Taken') /\ Cardinality(Taken') = call'.got
        /\ call'.got <= Len(lists'[call.list])
    BY <1>1, <1>2, <1>3, <1>4, <1>6, OneMore
  <1>8. g <= a /\ {FrameOf(q) : q \in Taken} = (a - g)..(a - 1)
    BY <1>1 DEF Taking
  <1>9. {FrameOf(q) : q \in Taken \cup {p}} = {FrameOf(q) : q \in Taken} \cup {a}
    BY <1>5
  <1> HIDE DEF g, a
  <1>10. ((a + 1) - (g + 1))..((a + 1) - 1) = (a - g)..(a - 1) \cup {a} /\ g + 1 <= a + 1
    BY <1>1, <1>8
  <1>11. {FrameOf(q) : q \in Taken'} = ((a + 1) - (g + 1))..((a + 1) - 1)
    BY <1>7, <1>8, <1>9, <1>10
  <1>12. {FrameOf(q) : q \in Taken}' = {FrameOf(q) : q \in Taken'}
    BY DEF FrameOf
  <1>13. call.list # NULL /\ call'.op # "alloc_pages"
    BY <1>1, <1>2, PmmAssumption
  <1>14. /\ call'.got <= call'.want
         /\ IF call'.list = NULL THEN call'.got = 0 ELSE call'.got <= Len(lists'[call'.list])
         /\ IsFiniteSet(Taken') /\ Cardinality(Taken') = call'.got
    BY <1>1, <1>2, <1>7, <1>13
  <1>15. /\ call'.got <= call'.address
         /\ {FrameOf(q) : q \in Taken}' = (call'.address - call'.got)..(call'.address - 1)
    BY <1>2, <1>10, <1>11, <1>12
  <1>16. Taking'
    BY <1>13, <1>14, <1>15 DEF Taking
  <1> QED BY <1>3, <1>4, <1>7, <1>16

\* Every step keeps count of what was taken.
LEMMA NextTaking == IInv /\ Taking /\ [Next]_vars => Taking'
  <1> SUFFICES ASSUME IInv, Taking, [Next]_vars PROVE Taking'
    OBVIOUS
  <1>1. IInv'
    BY NextIInv
  <1>2. CASE UNCHANGED vars
    BY <1>2 DEF vars, memory, Taking, Taken, Allocating, FrameOf
  <1>3. ASSUME call'.op \notin {"alloc_pages", "alloc_range"} PROVE Taking'
    BY <1>3 DEF Taking, Allocating
  <1>4. ASSUME NEW n \in 0..MaxCount, NEW l \in Lists, AllocPagesBegin(n, l)
        PROVE  Taking'
    <2>1. CASE call'.op \notin {"alloc_pages", "alloc_range"}
      BY <1>3, <2>1
    <2>2. CASE Begin("alloc_pages", n, l, 0) /\ UNCHANGED memory
      BY <1>1, <2>2, TakingBegins
    <2> QED BY <1>4, <2>1, <2>2 DEF AllocPagesBegin, Idle
  <1>5. ASSUME NEW a \in 0..MaxAddress, NEW n \in 0..MaxCount,
               NEW l \in Lists \cup {NULL}, AllocRangeBegin(a, n, l)
        PROVE  Taking'
    <2>1. CASE call'.op \notin {"alloc_pages", "alloc_range"}
      BY <1>3, <2>1
    <2>2. CASE Begin("alloc_range", n, l, a) /\ UNCHANGED memory
      BY <1>1, <2>2, TakingBegins
    <2> QED BY <1>5, <2>1, <2>2 DEF AllocRangeBegin, Idle
  <1>6. CASE AllocPagesTake
    BY <1>1, <1>6, TakingPages
  <1>7. CASE AllocPagesNextZone
    BY <1>7, TakingNextZone
  <1>8. CASE AllocRangeTake
    BY <1>8, TakingRange
  <1>9. CASE AllocRangeNextZone
    <2>1. /\ UNCHANGED lists /\ call'.op = call.op /\ call.op = "alloc_range"
          /\ call'.want = call.want /\ call'.got = call.got /\ call'.list = call.list
          /\ call'.address = call.address
      BY <1>9 DEF AllocRangeNextZone, IInv, CallInv, memory
    <2>2. Taken' = Taken
      BY <2>1 DEF Taken
    <2>3. {FrameOf(q) : q \in Taken}' = {FrameOf(q) : q \in Taken}
      BY <2>2 DEF FrameOf
    <2> QED BY <2>1, <2>2, <2>3 DEF Taking, Allocating
  <1>10. CASE \/ \E z \in Zones : pmm_add_zone(z)
              \/ pmm_alloc_page \/ pmm_alloc_kpages \/ UsePageUnassigned
              \/ \E page \in Pages : pmm_free_page(page)
              \/ \E l \in Lists : FreePagesBegin(l)
              \/ AllocPagesReturn \/ AllocRangeFault \/ AllocRangeReturn
              \/ FreePagesStep \/ FreePagesReturn
    <2>1. call'.op \notin {"alloc_pages", "alloc_range"}
      BY <1>10 DEF pmm_add_zone, pmm_alloc_page, pmm_alloc_kpages, UsePageUnassigned,
                   pmm_free_page, FreePagesBegin, AllocPagesReturn, AllocRangeFault,
                   AllocRangeReturn, FreePagesStep, FreePagesReturn, Begin, Stop, Idle,
                   IInv, CallInv
    <2> QED BY <1>3, <2>1
  <1> QED BY <1>2, <1>4, <1>5, <1>6, <1>7, <1>8, <1>9, <1>10 DEF Next, Request, Progress
-----------------------------------------------------------------------------
(* The refinement of PmmSpec, call by call. *)

\* PmmSpec and the lemmas of the library count alike.
LEMMA SameCardinality ==
  ASSUME NEW S
  PROVE  Abstract!Cardinality(S) = Cardinality(S)
  BY DEF Cardinality, Abstract!Cardinality

\* Between calls the free pages are those of the free lists, and the lists are the
\* callers'.
AtRest ==
  call.op = "idle" =>
    /\ Avail = FreeSet
    /\ OwnedBy = [l \in Lists |-> Listed(l)]
    /\ RequestNow = [op |-> "none"] /\ Returned = call.got

\* That is what the refinement mapping says of an idle state.
LEMMA Resting == AtRest
  BY DEF AtRest, Avail, Taken, ToGiveBack, OwnedBy, RequestNow, Returned

\* The same after a step.
LEMMA RestingNext == AtRest'
  BY Resting, PTL

\* The pages of a zone that is added are free.
LEMMA AddZoneRefines ==
  ASSUME IInv, IInv', NEW z \in Zones, pmm_add_zone(z)
  PROVE  Abstract!Next
  <1> DEFINE S == PagesOf(z)
  <1>1. /\ zone_list' = Append(zone_list, z) /\ call' = Idle(0) /\ call.op = "idle"
        /\ UNCHANGED <<nonfree, lists, held, kpages>>
    BY DEF pmm_add_zone
  <1>2. z \notin Added
    BY LenProperties DEF pmm_add_zone, Contains, Added, Range, IInv, FreeInv
  <1>3. Added' = Added \cup {z}
    <2>1. zone_list \in Seq(Zones)
      BY DEF IInv, FreeInv
    <2>2. /\ Len(zone_list') = Len(zone_list) + 1 /\ zone_list' \in Seq(Zones)
          /\ \A i \in 1..Len(zone_list) : zone_list'[i] = zone_list[i]
          /\ zone_list'[Len(zone_list) + 1] = z
      BY <1>1, <2>1, AppendProperties
    <2>3. /\ Len(zone_list) \in Nat /\ DOMAIN zone_list = 1..Len(zone_list)
          /\ DOMAIN zone_list' = 1..(Len(zone_list) + 1)
      BY <2>1, <2>2, LenProperties
    <2> QED BY <2>2, <2>3 DEF Added, Range
  <1>4. AddedPages' = AddedPages \cup S
    BY <1>3 DEF AddedPages, PagesOf
  <1>5. AddedPages \cap S = {} /\ S \subseteq Pages
    <2>1. Added \subseteq Zones
      BY AddedFacts DEF IInv, FreeInv
    <2>2. ASSUME NEW y \in Added PROVE PagesOf(y) \cap S = {}
      <3>1. y \in Zones /\ y # z
        BY <1>2, <2>1
      <3> QED BY <3>1, PagesFacts
    <2> QED BY <2>2, PagesFacts DEF AddedPages
  <1>6. nonfree \subseteq AddedPages
    BY DEF IInv, FreeInv, AddedPages
  <1>7. FreeSet' = FreeSet \cup S /\ FreeSet \subseteq AddedPages
    BY <1>1, <1>4, <1>5, <1>6, FreeIs, FreeIsNext DEF IInv, Unmarked
  <1>8. held \cup kpages \subseteq nonfree /\ \A l \in Lists : Listed(l) \subseteq nonfree
    BY DEF IInv, OwnInv
  <1>9. call'.op = "idle" /\ call'.got = 0
    BY <1>1 DEF Idle
  <1>10. /\ Avail = FreeSet /\ OwnedBy = [l \in Lists |-> Listed(l)]
         /\ RequestNow = [op |-> "none"] /\ Avail' = FreeSet'
         /\ OwnedBy' = [l \in Lists |-> Listed(l)'] /\ RequestNow' = [op |-> "none"]
         /\ Returned' = 0
    BY <1>1, <1>9, Resting, RestingNext DEF AtRest
  <1>11. OwnedBy' = OwnedBy
    BY <1>1, <1>10 DEF Listed
  <1>12. \A l \in Lists : OwnedBy[l] = Listed(l)
    BY <1>10
  <1>13. S \cap (Avail \cup Abstract!Held) = {}
    BY <1>5, <1>6, <1>7, <1>8, <1>10, <1>12 DEF Abstract!Held
  <1> HIDE DEF S
  <1>14. Abstract!AddPages(S)
    BY <1>1, <1>7, <1>10, <1>11, <1>13 DEF Abstract!AddPages, Abstract!Ready
  <1> QED BY <1>5, <1>14 DEF Abstract!Next

\* A page that pmm_alloc_page or pmm_alloc_kpages takes is the caller's, or nobody's
\* if it has no address.
LEMMA SingleRefines ==
  ASSUME IInv, IInv', pmm_alloc_page \/ pmm_alloc_kpages
  PROVE  Abstract!Next
  <1>1. PICK z \in Zones :
           /\ call.op = "idle" /\ Serves(z) /\ TakeHead(z) /\ lists' = lists
           /\ call' \in {Idle(0), Idle(1)}
           /\ \/ call' = Idle(1) /\ held' = held \cup {Head(free_pages[z])}
                                 /\ kpages' = kpages
              \/ call' = Idle(1) /\ held' = held
                                 /\ kpages' = kpages \cup {Head(free_pages[z])}
              \/ /\ call' = Idle(0) /\ UNCHANGED <<held, kpages>>
                 /\ Head(free_pages[z]) \notin Addressed
    BY DEF pmm_alloc_page, pmm_alloc_kpages, Addressed
  <1> DEFINE p == Head(free_pages[z])
  <1>2. free_pages[z] # <<>> /\ call'.op = "idle" /\ call.op # "fault" /\ call'.op # "fault"
    BY <1>1 DEF Serves, Idle
  <1>3. p \in Pages \ nonfree /\ nonfree' = nonfree \cup {p} /\ zone_list' = zone_list
    BY <1>1, <1>2, TakeHeadStep DEF TakeHead
  <1> HIDE DEF p
  <1>4. FreeSet' = FreeSet \ {p} /\ p \in FreeSet
    BY <1>3, FreeLess DEF IInv
  <1>5. /\ Avail = FreeSet /\ OwnedBy = [l \in Lists |-> Listed(l)]
        /\ RequestNow = [op |-> "none"] /\ Avail' = FreeSet'
        /\ OwnedBy' = [l \in Lists |-> Listed(l)'] /\ RequestNow' = [op |-> "none"]
        /\ Returned' = call'.got
    BY <1>1, <1>2, Resting, RestingNext DEF AtRest
  <1>6. OwnedBy' = OwnedBy
    BY <1>1, <1>5 DEF Listed
  <1>7. CASE call' = Idle(1) /\ (held \cup kpages)' = held \cup kpages \cup {p}
    <2>1. Abstract!GiveSingle(p)
      BY <1>4, <1>5, <1>6, <1>7 DEF Abstract!GiveSingle, Abstract!Ready, Idle
    <2> QED BY <1>3, <2>1 DEF Abstract!Next
  <1>8. CASE call' = Idle(0) /\ UNCHANGED <<held, kpages>> /\ p \notin Addressed
    <2>1. Abstract!GiveNoAddress(p)
      BY <1>4, <1>5, <1>6, <1>8 DEF Abstract!GiveNoAddress, Abstract!Ready, Idle
    <2> QED BY <1>3, <2>1 DEF Abstract!Next
  <1> QED BY <1>1, <1>7, <1>8 DEF p

\* Using the unassigned pointer stops the machine.
LEMMA UnassignedRefines ==
  ASSUME UsePageUnassigned
  PROVE  Abstract!Next
  <1>1. call.op = "idle" /\ call'.op = "undefined" /\ UNCHANGED memory
    BY DEF UsePageUnassigned, Stop, Idle
  <1>2. RequestNow' = [op |-> "dead"] /\ Returned' = 0
    BY <1>1 DEF RequestNow, Returned
  <1>3. Avail' = Avail \ {} /\ OwnedBy' = OwnedBy
    BY <1>1 DEF Avail, FreeSet, Taken, ToGiveBack, OwnedBy, Listed, memory
  <1>4. {} \in SUBSET Avail /\ Abstract!Cardinality({}) <= 1
    BY FS_EmptySet, SameCardinality
  <1>5. Abstract!Die
    BY <1>1, <1>2, <1>3, <1>4 DEF Abstract!Die, memory
  <1> QED BY <1>5 DEF Abstract!Next

\* When an allocation begins nothing has changed hands.
LEMMA NothingYet ==
  ASSUME IInv, IInv', UNCHANGED memory, call.op = "idle",
         call'.op \in {"alloc_pages", "alloc_range"}, call'.got = 0
  PROVE  UNCHANGED <<Avail, OwnedBy, held \cup kpages>> /\ Returned' = 0
  <1>1. Taken' = {}
    BY NothingTakenNext
  <1>2. ToGiveBack' = {} /\ Returned' = 0
    BY DEF ToGiveBack, Returned
  <1>3. FreeSet' = FreeSet
    BY DEF memory, FreeSet
  <1>4. Avail' = Avail
    BY <1>1, <1>2, <1>3, Resting DEF AtRest, Avail
  <1>5. \A l \in Lists : Listed(l)' = Listed(l)
    BY DEF memory, Listed
  <1>6. OwnedBy' = [l \in Lists |-> Listed(l)]
    BY <1>1, <1>5 DEF OwnedBy
  <1> QED BY <1>2, <1>4, <1>6, Resting DEF AtRest, memory

\* A call that returns at once, with nothing.
LEMMA AtOnceRefines ==
  ASSUME call.op = "idle", UNCHANGED memory, call' = Idle(0)
  PROVE  Abstract!Next
  <1>1. call'.op = "idle" /\ call'.got = 0
    BY DEF Idle
  <1>2. FreeSet' = FreeSet /\ \A l \in Lists : Listed(l)' = Listed(l)
    BY DEF memory, FreeSet, Listed
  <1>3. /\ Avail' = Avail /\ OwnedBy' = OwnedBy
        /\ RequestNow = [op |-> "none"] /\ RequestNow' = RequestNow /\ Returned' = 0
    BY <1>1, <1>2, Resting, RestingNext DEF AtRest
  <1>4. Abstract!AddPages({})
    BY <1>3 DEF Abstract!AddPages, Abstract!Ready, memory
  <1>5. {} \in SUBSET Pages
    OBVIOUS
  <1> QED BY <1>4, <1>5 DEF Abstract!Next

\* pmm_alloc_pages with a count of one.
LEMMA OnePageRefines ==
  ASSUME IInv, IInv', NEW z \in Zones, NEW l \in Lists, call.op = "idle",
         call' = Idle(1), Serves(z), TakeHead(z),
         lists' = [lists EXCEPT ![l] = Append(@, Head(free_pages[z]))],
         UNCHANGED <<held, kpages>>
  PROVE  Abstract!Next
  <1> DEFINE p == Head(free_pages[z])
  <1>1. free_pages[z] # <<>> /\ call'.op = "idle" /\ call.op # "fault" /\ call'.op # "fault"
        /\ call'.got = 1
    BY DEF Serves, Idle
  <1>2. p \in Pages \ nonfree /\ nonfree' = nonfree \cup {p} /\ zone_list' = zone_list
    BY <1>1, TakeHeadStep DEF TakeHead
  <1>3. lists' = [lists EXCEPT ![l] = Append(@, p)]
    OBVIOUS
  <1> HIDE DEF p
  <1>4. FreeSet' = FreeSet \ {p} /\ p \in FreeSet
    BY <1>2, FreeLess DEF IInv
  <1>5. /\ Avail = FreeSet /\ OwnedBy = [m \in Lists |-> Listed(m)]
        /\ RequestNow = [op |-> "none"] /\ Avail' = FreeSet'
        /\ OwnedBy' = [m \in Lists |-> Listed(m)'] /\ RequestNow' = [op |-> "none"]
        /\ Returned' = 1
    BY <1>1, Resting, RestingNext DEF AtRest
  <1>6. /\ Range(Append(lists[l], p)) = Range(lists[l]) \cup {p}
    <2>1. lists[l] \in Seq(Pages) /\ IsInjective(lists[l]) /\ p \notin Range(lists[l])
      BY <1>2 DEF IInv, OwnInv, Listed
    <2> QED BY <1>2, <2>1, AppendFacts
  <1>7. \A m \in Lists : Listed(m)' = IF m = l THEN Listed(m) \cup {p} ELSE Listed(m)
    BY <1>3, <1>6 DEF IInv, OwnInv, Listed
  <1>8. OwnedBy' = [OwnedBy EXCEPT ![l] = @ \cup {p}]
    BY <1>5, <1>7
  <1>9. Abstract!Cardinality({p}) = 1
    BY FS_Singleton, SameCardinality
  <1> DEFINE S == {p}
  <1>10. S # {} /\ S \subseteq Avail /\ Avail' = Avail \ S
         /\ OwnedBy' = [OwnedBy EXCEPT ![l] = @ \cup S]
    BY <1>4, <1>5, <1>8
  <1> HIDE DEF S
  <1>11. Abstract!Give(S, l)
    BY <1>5, <1>9, <1>10 DEF Abstract!Give, Abstract!NoCall, S
  <1>12. Abstract!GiveAtOnce({p}, l)
    BY <1>5, <1>9, <1>11 DEF Abstract!GiveAtOnce, Abstract!Ready, S
  <1>13. {p} \in SUBSET Pages
    BY <1>2
  <1> QED BY <1>12, <1>13 DEF Abstract!Next

\* pmm_alloc_pages: nothing, one page, or the start of its loop.
LEMMA PagesBeginRefines ==
  ASSUME IInv, IInv', NEW n \in 0..MaxCount, NEW l \in Lists, AllocPagesBegin(n, l)
  PROVE  Abstract!Next
  <1>1. CASE call' = Idle(0) /\ UNCHANGED memory
    BY <1>1, AtOnceRefines DEF AllocPagesBegin
  <1>2. CASE call' = Idle(1) /\ UNCHANGED <<held, kpages>> /\ \E z \in Zones :
               /\ Serves(z) /\ TakeHead(z)
               /\ lists' = [lists EXCEPT ![l] = Append(@, Head(free_pages[z]))]
    BY <1>2, OnePageRefines DEF AllocPagesBegin
  <1>3. CASE Begin("alloc_pages", n, l, 0) /\ UNCHANGED memory
    <2>1. /\ call.op = "idle" /\ call'.op = "alloc_pages" /\ call'.got = 0
          /\ call'.want = n /\ call'.list = l
      BY <1>3 DEF AllocPagesBegin, Begin
    <2>2. UNCHANGED <<Avail, OwnedBy, held \cup kpages>> /\ Returned' = 0
      BY <1>3, <2>1, NothingYet
    <2>3. RequestNow = [op |-> "none"]
      BY <2>1, Resting DEF AtRest
    <2>4. RequestNow' = [op |-> "alloc_pages", want |-> n, list |-> l]
      BY <2>1 DEF RequestNow
    <2>5. Abstract!Ask("alloc_pages", n, l)
      BY <2>2, <2>3, <2>4 DEF Abstract!Ask, Abstract!Ready
    <2> QED BY <2>5 DEF Abstract!Next
  <1> QED BY <1>1, <1>2, <1>3 DEF AllocPagesBegin

\* pmm_alloc_range: nothing, or the start of its loop.
LEMMA RangeBeginRefines ==
  ASSUME IInv, IInv', NEW a \in 0..MaxAddress, NEW n \in 0..MaxCount,
         NEW l \in Lists \cup {NULL}, AllocRangeBegin(a, n, l)
  PROVE  Abstract!Next
  <1>1. CASE call' = Idle(0)
    BY <1>1, AtOnceRefines DEF AllocRangeBegin
  <1>2. CASE Begin("alloc_range", n, l, a)
    <2> DEFINE w == [count |-> n, from |-> a]
    <2>1. /\ call.op = "idle" /\ call'.op = "alloc_range" /\ call'.got = 0
          /\ call'.want = n /\ call'.list = l /\ call'.address = a
      BY <1>2 DEF AllocRangeBegin, Begin
    <2>2. UNCHANGED <<Avail, OwnedBy, held \cup kpages>> /\ Returned' = 0
      BY <1>2, <2>1, NothingYet DEF AllocRangeBegin
    <2>3. RequestNow = [op |-> "none"]
      BY <2>1, Resting DEF AtRest
    <2>4. a - 0 = a
      BY PmmAssumption
    <2>5. RequestNow' = [op |-> "alloc_range", want |-> w, list |-> l]
      BY <2>1, <2>4 DEF RequestNow
    <2> HIDE DEF w
    <2>6. Abstract!Ask("alloc_range", w, l)
      BY <2>2, <2>3, <2>5 DEF Abstract!Ask, Abstract!Ready
    <2> QED BY <2>6 DEF Abstract!Next, w
  <1> QED BY <1>1, <1>2 DEF AllocRangeBegin

\* A page that an allocation in progress takes was free and still is, for PmmSpec.
LEMMA TakeStutters ==
  ASSUME IInv, IInv', Taking, Allocating, call.list \in Lists,
         NEW p \in Pages \ nonfree, nonfree' = nonfree \cup {p}, zone_list' = zone_list,
         Taken' = Taken \cup {p}, lists' = [lists EXCEPT ![call.list] = Append(@, p)],
         UNCHANGED <<held, kpages>>, call'.op = call.op, call'.list = call.list,
         call'.want = call.want,
         call.op = "alloc_range" => call'.address - call'.got = call.address - call.got
  PROVE  UNCHANGED Abstract!vars
  <1>1. FreeSet' = FreeSet \ {p} /\ p \in FreeSet
    BY FreeLess DEF IInv
  <1>2. ToGiveBack = {} /\ ToGiveBack' = {} /\ Returned = 0 /\ Returned' = 0
    BY DEF Allocating, ToGiveBack, Returned
  <1>3. Avail' = Avail
    BY <1>1, <1>2 DEF Avail
  <1>4. /\ Range(Append(lists[call.list], p)) = Listed(call.list) \cup {p}
        /\ \A l \in Lists : p \notin Listed(l)
    <2> DEFINE s == lists[call.list]
    <2>1. \A l \in Lists : p \notin Listed(l)
      BY DEF IInv, OwnInv
    <2>2. s \in Seq(Pages) /\ IsInjective(s) /\ p \notin Range(s)
      BY <2>1 DEF IInv, OwnInv, Listed
    <2> HIDE DEF s
    <2>3. Range(Append(s, p)) = Range(s) \cup {p}
      BY <2>2, AppendFacts
    <2> QED BY <2>1, <2>3 DEF Listed, s
  <1>5. \A l \in Lists : Listed(l)' = IF l = call.list THEN Listed(l) \cup {p} ELSE Listed(l)
    BY <1>4 DEF IInv, OwnInv, Listed
  <1>6. \A l \in Lists : Listed(l)' \ Taken' = Listed(l) \ Taken
    BY <1>4, <1>5
  <1>7. OwnedBy = [l \in Lists |-> Listed(l) \ Taken]
    BY DEF OwnedBy, Allocating
  <1>8. OwnedBy' = [l \in Lists |-> Listed(l)' \ Taken']
    BY DEF OwnedBy, Allocating
  <1>9. OwnedBy' = OwnedBy
    BY <1>6, <1>7, <1>8
  <1>10. RequestNow' = RequestNow
    BY DEF RequestNow, Allocating
  <1> QED BY <1>2, <1>3, <1>9, <1>10 DEF Abstract!vars

\* The steps of the two allocation loops that go on with the loop.
LEMMA LoopStutters ==
  ASSUME IInv, IInv', Taking,
         AllocPagesTake \/ AllocPagesNextZone \/ AllocRangeTake \/ AllocRangeNextZone
  PROVE  UNCHANGED Abstract!vars
  <1>1. CASE AllocPagesTake
    <2>1. /\ call.list \in Lists /\ Allocating /\ UNCHANGED <<zone_list, held, kpages>>
          /\ call'.op = call.op /\ call'.list = call.list /\ call'.want = call.want
          /\ call.op = "alloc_pages"
      BY <1>1 DEF AllocPagesTake, TakeHead, IInv, CallInv, Allocating
    <2> QED BY <1>1, <2>1, TakingPages, TakeStutters
  <1>2. CASE AllocRangeTake
    <2>1. /\ call.list \in Lists /\ Allocating /\ UNCHANGED <<zone_list, held, kpages>>
          /\ call'.op = call.op /\ call'.list = call.list /\ call'.want = call.want
          /\ call'.address - call'.got = call.address - call.got
      BY <1>2 DEF AllocRangeTake, IInv, CallInv, Allocating
    <2> QED BY <1>2, <2>1, TakingRange, TakeStutters
  <1>3. CASE AllocPagesNextZone \/ AllocRangeNextZone
    <2>1. /\ UNCHANGED memory /\ call'.op = call.op /\ call'.list = call.list
          /\ call'.want = call.want /\ call'.got = call.got /\ call'.address = call.address
          /\ Allocating
      BY <1>3 DEF AllocPagesNextZone, AllocRangeNextZone, IInv, CallInv, Allocating
    <2>2. Taken' = Taken /\ ToGiveBack' = ToGiveBack /\ FreeSet' = FreeSet
      BY <2>1 DEF Taken, ToGiveBack, FreeSet, memory, Allocating
    <2>3. OwnedBy' = OwnedBy
      BY <2>1, <2>2 DEF OwnedBy, Listed, memory
    <2>4. RequestNow' = RequestNow /\ Returned' = Returned
      BY <2>1 DEF RequestNow, Returned, Allocating
    <2> QED BY <2>1, <2>2, <2>3, <2>4 DEF Abstract!vars, Avail, memory
  <1> QED BY <1>1, <1>2, <1>3

\* What an allocation gives when it returns is what it has taken.
LEMMA GivesTaken ==
  ASSUME IInv, Taking, Allocating, call' = Idle(call.got), UNCHANGED memory
  PROVE  Abstract!Give(Taken, call.list)
  <1>1. call'.op = "idle" /\ call'.got = call.got
    BY DEF Idle
  <1>2. FreeSet' = FreeSet /\ \A l \in Lists : Listed(l)' = Listed(l)
    BY DEF memory, FreeSet, Listed
  <1>3. Avail = FreeSet \cup Taken
    BY DEF Avail, ToGiveBack, Allocating
  <1>4. /\ Avail' = FreeSet /\ OwnedBy' = [l \in Lists |-> Listed(l)]
        /\ RequestNow' = [op |-> "none"] /\ Returned' = call.got
    BY <1>1, <1>2, RestingNext DEF AtRest
  <1>5. OwnedBy = [l \in Lists |-> Listed(l) \ Taken]
    BY DEF OwnedBy, Allocating
  <1>6. Taken \subseteq Avail /\ Avail' = Avail \ Taken
    BY <1>3, <1>4, TakenListed
  <1>7. OwnedBy' = IF Taken = {} THEN OwnedBy
                                 ELSE [OwnedBy EXCEPT ![call.list] = @ \cup Taken]
    <2>1. CASE Taken = {}
      BY <1>4, <1>5, <2>1
    <2>2. CASE Taken # {}
      <3>1. call.list \in Lists /\ Taken \subseteq Listed(call.list)
        BY <2>2, TakenListed
      <3>2. \A l \in Lists : l # call.list => Listed(l) \cap Listed(call.list) = {}
        BY <3>1 DEF IInv, OwnInv
      <3>3. \A l \in Lists : Listed(l) = IF l = call.list THEN OwnedBy[l] \cup Taken
                                                         ELSE OwnedBy[l]
        BY <1>5, <3>1, <3>2
      <3>4. [OwnedBy EXCEPT ![call.list] = @ \cup Taken] = [l \in Lists |-> Listed(l)]
        BY <1>5, <3>1, <3>3
      <3> QED BY <1>4, <2>2, <3>4
    <2> QED BY <2>1, <2>2
  <1>8. Returned' = Abstract!Cardinality(Taken)
    BY <1>4, SameCardinality DEF Taking
  <1>9. UNCHANGED (held \cup kpages)
    BY DEF memory
  <1> QED BY <1>4, <1>6, <1>7, <1>8, <1>9 DEF Abstract!Give, Abstract!NoCall

\* The smaller of two numbers.
LEMMA SmallerOfTwo ==
  ASSUME NEW a \in Nat, NEW b \in Nat, a <= b
  PROVE  Abstract!Min({a, b}) = a /\ Abstract!Min({b, a}) = a
  <1>1. \A x \in {a, b} : (\A y \in {a, b} : x <= y) => x = a
    OBVIOUS
  <1>2. \A y \in {a, b} : a <= y
    OBVIOUS
  <1>3. Abstract!Min({a, b}) = a
    BY <1>1, <1>2 DEF Abstract!Min
  <1>4. {b, a} = {a, b}
    OBVIOUS
  <1> QED BY <1>3, <1>4

\* pmm_alloc_pages returns all it was asked for, or all there were.
LEMMA PagesReturnRefines ==
  ASSUME IInv, Taking, AllocPagesReturn
  PROVE  Abstract!Next
  <1>1. /\ call.op = "alloc_pages" /\ Allocating /\ call' = Idle(call.got) /\ UNCHANGED memory
        /\ call.got \in Nat /\ call.want \in Nat /\ call.at \in Nat \ {0}
    BY DEF AllocPagesReturn, Allocating, IInv, CallInv
  <1>2. IsFiniteSet(Taken) /\ Cardinality(Taken) = call.got /\ call.got <= call.want
    BY <1>1 DEF Taking
  <1>3. Avail = FreeSet \cup Taken
    BY <1>1 DEF Avail, ToGiveBack
  <1>4. IsFiniteSet(Avail)
    <2>1. FreeSet \subseteq AddedPages /\ Taken \subseteq AddedPages
      BY FreeIs, TakenListed DEF IInv, Unmarked
    <2>2. IsFiniteSet(AddedPages)
      BY FinitelyMany DEF IInv, FreeInv
    <2> QED BY <1>3, <2>1, <2>2, FS_Subset
  <1>5. Cardinality(Avail) \in Nat /\ call.got <= Cardinality(Avail)
    BY <1>2, <1>3, <1>4, FS_Subset, FS_CardinalityType
  <1>6. call.got = call.want \/ FreeSet = {}
    <2>1. CASE call.at > Len(zone_list)
      <3>1. ASSUME NEW z \in Zones PROVE free_pages[z] = <<>>
        <4>1. CASE z \notin Added
          BY <4>1 DEF IInv, FreeInv
        <4>2. CASE z \in Added
          <5>1. PICK i \in DOMAIN zone_list : zone_list[i] = z
            BY <4>2 DEF Added, Range
          <5>2. i < call.at
            BY <1>1, <2>1, AddedFacts DEF IInv, FreeInv
          <5> QED BY <1>1, <5>1, <5>2 DEF Taking
        <4> QED BY <4>1, <4>2
      <3> QED BY <3>1 DEF FreeSet, Range
    <2>2. CASE MoreHere /\ free_pages[zone_list[call.at]] = <<>>
      <3> DEFINE z == zone_list[call.at]
      <3>1. z \in Zones /\ free_count[z] > 0
        BY <1>1, <2>2, AddedFacts DEF MoreHere, IInv, FreeInv
      <3>2. free_count[z] = Len(free_pages[z]) + 0
        BY <1>1, <3>1 DEF IInv, CountInv, FreeCountMatches
      <3>3. Len(free_pages[z]) = 0
        BY <2>2
      <3> HIDE DEF z
      <3> QED BY <3>1, <3>2, <3>3
    <2> QED BY <2>1, <2>2 DEF AllocPagesReturn
  <1>7. Abstract!Cardinality(Taken) = call.got /\ Abstract!Cardinality(Avail) = Cardinality(Avail)
    BY <1>2, SameCardinality
  <1>8. call.got = Abstract!Min({call.want, Abstract!Cardinality(Avail)})
    <2>1. CASE call.got = call.want
      BY <1>1, <1>5, <1>7, <2>1, SmallerOfTwo
    <2>2. CASE FreeSet = {}
      <3>1. Cardinality(Avail) = call.got
        BY <1>2, <1>3, <2>2
      <3> QED BY <1>1, <1>2, <1>7, <3>1, SmallerOfTwo
    <2> QED BY <1>6, <2>1, <2>2
  <1>9. RequestNow = [op |-> "alloc_pages", want |-> call.want, list |-> call.list]
    BY <1>1 DEF RequestNow
  <1>10. Abstract!Give(Taken, call.list)
    BY <1>1, GivesTaken
  <1>11. Abstract!GivePages(Taken)
    BY <1>7, <1>8, <1>9, <1>10 DEF Abstract!GivePages
  <1>12. Taken \in SUBSET Pages
    BY TakenListed
  <1> QED BY <1>11, <1>12 DEF Abstract!Next

\* pmm_alloc_range returns pages of consecutive frames, from the first asked for.
LEMMA RangeReturnRefines ==
  ASSUME IInv, Taking, AllocRangeReturn
  PROVE  Abstract!Next
  <1> DEFINE g == call.got
             a == call.address
  <1>1. /\ call.op = "alloc_range" /\ Allocating /\ call' = Idle(g) /\ UNCHANGED memory
        /\ g \in Nat /\ call.want \in Nat /\ a \in Nat
    BY DEF AllocRangeReturn, Allocating, IInv, CallInv
  <1>2. /\ Cardinality(Taken) = g /\ g <= call.want /\ g <= a
        /\ {FrameOf(p) : p \in Taken} = (a - g)..(a - 1)
    BY <1>1 DEF Taking
  <1>3. RequestNow = [op |-> "alloc_range", list |-> call.list,
                      want |-> [count |-> call.want, from |-> a - g]]
    BY <1>1 DEF RequestNow
  <1>4. Abstract!Cardinality(Taken) = g
    BY <1>2, SameCardinality
  <1>5. Taken \subseteq Pages
    BY TakenListed
  <1>6. {[q \in Pages |-> FrameOf(q)][p] : p \in Taken} = {FrameOf(p) : p \in Taken}
    BY <1>5
  <1>7. Abstract!Give(Taken, call.list)
    BY <1>1, GivesTaken
  <1> HIDE DEF g, a
  <1>8. (a - g)..((a - g) + g - 1) = (a - g)..(a - 1)
    BY <1>1
  <1>9. Abstract!GiveRange(Taken)
    BY <1>2, <1>3, <1>4, <1>6, <1>7, <1>8 DEF Abstract!GiveRange
  <1> QED BY <1>5, <1>9 DEF Abstract!Next

\* The fault in pmm_alloc_range stops the machine with a page in nobody's hands.
LEMMA FaultRefines ==
  ASSUME IInv, IInv', Taking, AllocRangeFault
  PROVE  Abstract!Next
  <1> DEFINE p == RangePage
  <1>1. /\ call.op = "alloc_range" /\ call.list = NULL /\ RangeMore /\ call'.op = "fault"
        /\ UnlinkPage(Zone, p) /\ nonfree' = nonfree \cup {p}
        /\ UNCHANGED <<zone_list, lists, held, kpages>>
    BY DEF AllocRangeFault, IInv, CallInv
  <1>2. p \in Pages \ nonfree
    BY <1>1, RangeTakeStep
  <1> HIDE DEF p
  <1>3. FreeSet' = FreeSet \ {p} /\ p \in FreeSet
    BY <1>1, <1>2, FreeLess DEF IInv
  <1>4. Taken = {} /\ Taken' = {} /\ ToGiveBack = {} /\ ToGiveBack' = {}
    BY <1>1 DEF Taken, ToGiveBack
  <1>5. Avail' = Avail \ {p} /\ p \in Avail
    BY <1>3, <1>4 DEF Avail
  <1>6. OwnedBy' = OwnedBy
    BY <1>1, <1>4 DEF OwnedBy, Listed
  <1>7. RequestNow' = [op |-> "dead"] /\ Returned' = 0
    BY <1>1 DEF RequestNow, Returned
  <1>8. {p} \in SUBSET Avail /\ Abstract!Cardinality({p}) <= 1
    BY <1>5, FS_Singleton, SameCardinality
  <1>9. Abstract!Die
    BY <1>1, <1>5, <1>6, <1>7, <1>8 DEF Abstract!Die
  <1> QED BY <1>9 DEF Abstract!Next

\* What is given back is counted if the look-up finds it.
LEMMA CountedIs ==
  ASSUME NEW p
  PROVE  Cardinality({p} \cap Window) = Counted(p)
  <1>1. CASE p \in Window
    <2>1. {p} \cap Window = {p}
      BY <1>1
    <2> QED BY <1>1, <2>1, FS_Singleton DEF Counted
  <1>2. CASE p \notin Window
    <2>1. {p} \cap Window = {}
      BY <1>2
    <2> QED BY <1>2, <2>1, FS_EmptySet DEF Counted
  <1> QED BY <1>1, <1>2

\* A page that pmm_free_page gives back is free again, or lost beyond the window.
LEMMA FreePageRefines ==
  ASSUME IInv, IInv', NEW p \in Pages, pmm_free_page(p)
  PROVE  Abstract!Next
  <1>1. /\ call.op = "idle" /\ p \in held /\ GiveBack(p) /\ held' = held \ {p}
        /\ call' = Idle(Counted(p)) /\ UNCHANGED <<zone_list, lists, kpages>>
    BY DEF pmm_free_page
  <1>2. call'.op = "idle" /\ call'.got = Counted(p)
    BY <1>1 DEF Idle
  <1>3. p \in nonfree /\ p \notin kpages
    BY <1>1 DEF IInv, OwnInv
  <1>4. FreeSet' = FreeSet \cup ({p} \cap Window)
    BY <1>1, <1>3, FreeMore DEF IInv
  <1>5. /\ Avail = FreeSet /\ OwnedBy = [l \in Lists |-> Listed(l)]
        /\ RequestNow = [op |-> "none"] /\ Avail' = FreeSet'
        /\ OwnedBy' = [l \in Lists |-> Listed(l)'] /\ RequestNow' = [op |-> "none"]
        /\ Returned' = Counted(p)
    BY <1>1, <1>2, Resting, RestingNext DEF AtRest
  <1>6. OwnedBy' = OwnedBy
    BY <1>1, <1>5 DEF Listed
  <1>7. (held \cup kpages)' = (held \cup kpages) \ {p}
    BY <1>1, <1>3
  <1>8. Returned' = Abstract!Cardinality({p} \cap Window)
    BY <1>5, CountedIs, SameCardinality
  <1>9. Abstract!TakeBackSingle(p)
    BY <1>1, <1>4, <1>5, <1>6, <1>7, <1>8 DEF Abstract!TakeBackSingle, Abstract!Ready
  <1> QED BY <1>9 DEF Abstract!Next

\* What is still to be given back is finite.
LEMMA ToGiveBackFinite ==
  ASSUME IInv, NEW l \in Lists
  PROVE  IsFiniteSet(Listed(l) \cap Window) /\ Cardinality(Listed(l) \cap Window) \in Nat
  <1>1. Listed(l) \cap Window \subseteq AddedPages
    BY DEF IInv, OwnInv, FreeInv, AddedPages
  <1>2. IsFiniteSet(AddedPages)
    BY FinitelyMany DEF IInv, FreeInv
  <1> QED BY <1>1, <1>2, FS_Subset, FS_CardinalityType

\* The pages of a list given to pmm_free_pages are no longer the caller's.
LEMMA FreeBeginRefines ==
  ASSUME IInv, NEW l \in Lists, FreePagesBegin(l)
  PROVE  Abstract!Next
  <1>1. /\ call.op = "idle" /\ UNCHANGED memory /\ call'.op = "free_pages"
        /\ call'.got = 0 /\ call'.list = l
    BY DEF FreePagesBegin, Begin
  <1>2. FreeSet' = FreeSet /\ \A m \in Lists : Listed(m)' = Listed(m)
    BY <1>1 DEF memory, FreeSet, Listed
  <1>3. Window' = Window
    BY DEF Window, Pages, PagesOf, PageBelongs
  <1>4. Taken' = {} /\ ToGiveBack' = Listed(l) \cap Window /\ Returned' = 0
    BY <1>1, <1>2, <1>3 DEF Taken, ToGiveBack, Returned
  <1>5. /\ Avail = FreeSet /\ OwnedBy = [m \in Lists |-> Listed(m)]
        /\ RequestNow = [op |-> "none"]
    BY <1>1, Resting DEF AtRest
  <1>6. OwnedBy[l] = Listed(l)
    BY <1>5
  <1>7. Avail' = Avail \cup (OwnedBy[l] \cap Window)
    BY <1>2, <1>4, <1>5, <1>6 DEF Avail
  <1>8. OwnedBy' = [m \in Lists |-> IF m = l THEN {} ELSE Listed(m)]
    BY <1>1, <1>2, <1>4 DEF OwnedBy
  <1>9. OwnedBy' = [OwnedBy EXCEPT ![l] = {}]
    BY <1>5, <1>8
  <1>10. RequestNow' = [op |-> "free_pages", count |-> 0 + Cardinality(Listed(l) \cap Window)]
    BY <1>1, <1>4 DEF RequestNow
  <1>11. 0 + Cardinality(Listed(l) \cap Window) = Abstract!Cardinality(OwnedBy[l] \cap Window)
    BY <1>6, ToGiveBackFinite, SameCardinality
  <1>12. Abstract!TakeBack(l)
    BY <1>1, <1>4, <1>5, <1>7, <1>9, <1>10, <1>11
    DEF Abstract!TakeBack, Abstract!Ready, memory
  <1> QED BY <1>12 DEF Abstract!Next

\* Giving back the next page of the list changes nothing for PmmSpec.
LEMMA FreeStepStutters ==
  ASSUME IInv, IInv', FreePagesStep
  PROVE  UNCHANGED Abstract!vars
  <1> DEFINE l == call.list
             p == Head(lists[l])
             left == Listed(l) \cap Window
  <1>1. /\ call.op = "free_pages" /\ l \in Lists /\ lists[l] # <<>> /\ GiveBack(p)
        /\ call.got \in Nat /\ UNCHANGED <<zone_list, held, kpages>>
        /\ call'.op = call.op /\ call'.list = l /\ call'.got = call.got + Counted(p)
        /\ lists' = [lists EXCEPT ![l] = Tail(@)]
    BY DEF FreePagesStep, IInv, CallInv
  <1>2. /\ p \in Listed(l) /\ Range(Tail(lists[l])) = Listed(l) \ {p}
    <2> DEFINE s == lists[l]
    <2>1. s \in Seq(Pages) /\ IsInjective(s) /\ s # <<>>
      BY <1>1 DEF IInv, OwnInv
    <2> HIDE DEF s
    <2>2. Head(s) \in Range(s) /\ Range(Tail(s)) = Range(s) \ {Head(s)}
      BY <2>1, TailFacts
    <2> QED BY <2>2 DEF s, Listed
  <1> HIDE DEF p, l
  <1>3. p \in nonfree
    BY <1>1, <1>2 DEF IInv, OwnInv
  <1>4. FreeSet' = FreeSet \cup ({p} \cap Window)
    BY <1>1, <1>3, FreeMore DEF IInv
  <1>5. \A m \in Lists : Listed(m)' = IF m = l THEN Listed(m) \ {p} ELSE Listed(m)
    BY <1>1, <1>2 DEF IInv, OwnInv, Listed
  <1>6. Window' = Window
    BY DEF Window, Pages, PagesOf, PageBelongs
  <1>7. ToGiveBack = left /\ Taken = {} /\ Taken' = {}
    BY <1>1 DEF ToGiveBack, Taken, l
  <1>8. ToGiveBack' = left \ {p}
    BY <1>1, <1>5, <1>6 DEF ToGiveBack
  <1>9. Avail' = Avail
    BY <1>2, <1>4, <1>7, <1>8 DEF Avail
  <1>10. OwnedBy = [m \in Lists |-> IF m = l THEN {} ELSE Listed(m)]
    BY <1>1, <1>7 DEF OwnedBy, l
  <1>11. OwnedBy' = [m \in Lists |-> IF m = l THEN {} ELSE Listed(m)']
    BY <1>1, <1>7 DEF OwnedBy
  <1>12. OwnedBy' = OwnedBy
    BY <1>5, <1>10, <1>11
  <1>13. IsFiniteSet(left) /\ Cardinality(left) \in Nat
    BY <1>1, ToGiveBackFinite
  <1>14. Cardinality(left \ {p}) + Counted(p) = Cardinality(left)
    <2>1. CASE p \in Window
      <3>1. p \in left
        BY <1>2, <2>1
      <3> HIDE DEF left
      <3>2. Cardinality(left \ {p}) = Cardinality(left) - 1
        BY <1>13, <3>1, FS_RemoveElement
      <3> QED BY <1>13, <2>1, <3>2 DEF Counted
    <2>2. CASE p \notin Window
      <3>1. left \ {p} = left
        BY <2>2
      <3> QED BY <1>13, <2>2, <3>1 DEF Counted
    <2> QED BY <2>1, <2>2
  <1> HIDE DEF left
  <1>15. IsFiniteSet(left \ {p}) /\ Cardinality(left \ {p}) \in Nat /\ Counted(p) \in Nat
    BY <1>13, FS_Subset, FS_CardinalityType DEF Counted
  <1>16. (call.got + Counted(p)) + Cardinality(left \ {p}) = call.got + Cardinality(left)
    BY <1>1, <1>13, <1>14, <1>15
  <1>17. RequestNow = [op |-> "free_pages", count |-> call.got + Cardinality(left)]
    BY <1>1, <1>7 DEF RequestNow
  <1>18. RequestNow' = [op |-> "free_pages",
                        count |-> (call.got + Counted(p)) + Cardinality(left \ {p})]
    BY <1>1, <1>8 DEF RequestNow
  <1>19. Returned = 0 /\ Returned' = 0
    BY <1>1 DEF Returned
  <1> QED BY <1>1, <1>9, <1>12, <1>16, <1>17, <1>18, <1>19 DEF Abstract!vars

\* pmm_free_pages returns the number of pages that were given back.
LEMMA FreeReturnRefines ==
  ASSUME IInv, FreePagesReturn
  PROVE  Abstract!Next
  <1> DEFINE l == call.list
  <1>1. /\ call.op = "free_pages" /\ l \in Lists /\ lists[l] = <<>> /\ UNCHANGED memory
        /\ call.got \in Nat /\ call'.op = "idle" /\ call'.got = call.got
    BY DEF FreePagesReturn, IInv, CallInv, Idle
  <1>2. Listed(l) = {}
    BY <1>1 DEF Listed, Range
  <1>3. FreeSet' = FreeSet /\ \A m \in Lists : Listed(m)' = Listed(m)
    BY <1>1 DEF memory, FreeSet, Listed
  <1>4. ToGiveBack = {} /\ Taken = {}
    BY <1>1, <1>2 DEF ToGiveBack, Taken
  <1>5. /\ Avail' = FreeSet' /\ OwnedBy' = [m \in Lists |-> Listed(m)']
        /\ RequestNow' = [op |-> "none"] /\ Returned' = call.got
    BY <1>1, RestingNext DEF AtRest
  <1>6. Avail' = Avail
    BY <1>3, <1>4, <1>5 DEF Avail
  <1>7. OwnedBy = [m \in Lists |-> IF m = l THEN {} ELSE Listed(m)]
    BY <1>1, <1>4 DEF OwnedBy
  <1>8. OwnedBy' = OwnedBy
    BY <1>2, <1>3, <1>5, <1>7
  <1>9. RequestNow = [op |-> "free_pages", count |-> call.got + Cardinality({})]
    BY <1>1, <1>4 DEF RequestNow
  <1>10. call.got + Cardinality({}) = call.got
    BY <1>1, FS_EmptySet
  <1>11. Abstract!TakenBack
    BY <1>1, <1>5, <1>6, <1>8, <1>9, <1>10 DEF Abstract!TakenBack, Abstract!NoCall, memory
  <1> QED BY <1>11 DEF Abstract!Next

\* Every step of pmm.c is a step of PmmSpec, or none.
LEMMA NextRefines ==
  IInv /\ Taking /\ [Next]_vars => [Abstract!Next]_(Abstract!vars)
  <1> SUFFICES ASSUME IInv, Taking, [Next]_vars
               PROVE  [Abstract!Next]_(Abstract!vars)
    OBVIOUS
  <1>1. IInv'
    BY NextIInv
  <1>2. CASE UNCHANGED vars
    <2>1. UNCHANGED <<Avail, OwnedBy, held \cup kpages, RequestNow, Returned>>
      BY <1>2 DEF vars, memory, Avail, OwnedBy, RequestNow, Returned, FreeSet, Taken,
                  ToGiveBack, Listed, Window, Pages, PagesOf, PageBelongs
    <2> QED BY <2>1 DEF Abstract!vars
  <1>3. CASE Request
    <2>1. ASSUME NEW z \in Zones, pmm_add_zone(z) PROVE Abstract!Next
      BY <1>1, <2>1, AddZoneRefines
    <2>2. CASE pmm_alloc_page \/ pmm_alloc_kpages
      BY <1>1, <2>2, SingleRefines
    <2>3. CASE UsePageUnassigned
      BY <2>3, UnassignedRefines
    <2>4. ASSUME NEW n \in 0..MaxCount, NEW l \in Lists, AllocPagesBegin(n, l)
          PROVE  Abstract!Next
      BY <1>1, <2>4, PagesBeginRefines
    <2>5. ASSUME NEW a \in 0..MaxAddress, NEW n \in 0..MaxCount,
                 NEW l \in Lists \cup {NULL}, AllocRangeBegin(a, n, l)
          PROVE  Abstract!Next
      BY <1>1, <2>5, RangeBeginRefines
    <2>6. ASSUME NEW page \in Pages, pmm_free_page(page) PROVE Abstract!Next
      BY <1>1, <2>6, FreePageRefines
    <2>7. ASSUME NEW l \in Lists, FreePagesBegin(l) PROVE Abstract!Next
      BY <2>7, FreeBeginRefines
    <2> QED BY <1>3, <2>1, <2>2, <2>3, <2>4, <2>5, <2>6, <2>7 DEF Request
  <1>4. CASE AllocPagesTake \/ AllocPagesNextZone \/ AllocRangeTake \/ AllocRangeNextZone
    BY <1>1, <1>4, LoopStutters
  <1>5. CASE AllocPagesReturn
    BY <1>5, PagesReturnRefines
  <1>6. CASE AllocRangeReturn
    BY <1>6, RangeReturnRefines
  <1>7. CASE AllocRangeFault
    BY <1>1, <1>7, FaultRefines
  <1>8. CASE FreePagesStep
    BY <1>1, <1>8, FreeStepStutters
  <1>9. CASE FreePagesReturn
    BY <1>9, FreeReturnRefines
  <1> QED BY <1>2, <1>3, <1>4, <1>5, <1>6, <1>7, <1>8, <1>9 DEF Next, Progress

\* pmm.c does what PmmSpec promises: to its callers every call happens at once, and
\* the count it returns is the number of pages that changed hands.
THEOREM KeepsPromise == Spec => ImplementsPmmSpec
  <1>1. Init => Abstract!Init
    <2> SUFFICES ASSUME Init PROVE Abstract!Init
      OBVIOUS
    <2>1. call.op = "idle" /\ call.got = 0
      BY DEF Init, Idle
    <2>2. FreeSet = {} /\ \A l \in Lists : Listed(l) = {}
      BY DEF Init, FreeSet, Listed, Range
    <2>3. /\ Avail = {} /\ OwnedBy = [l \in Lists |-> {}]
          /\ RequestNow = [op |-> "none"] /\ Returned = 0
      BY <2>1, <2>2, Resting DEF AtRest
    <2> QED BY <2>3 DEF Init, Abstract!Init, Abstract!NoCall
  <1>2. Init => Taking
    BY DEF Init, Idle, Taking, Allocating
  <1> QED BY InitIInv, NextIInv, <1>1, <1>2, NextTaking, NextRefines, PTL
      DEF Spec, ImplementsPmmSpec, Abstract!Spec
=============================================================================
