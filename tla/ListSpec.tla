------------------------------ MODULE ListSpec ------------------------------
(***************************************************************************)
(* What list.h promises its callers: each initialised head names a finite  *)
(* sequence, an entry occurs at most once in all of them together, and     *)
(* every operation is the obvious operation on sequences.  No pointers.    *)
(***************************************************************************)
EXTENDS Naturals, SequencesExt

CONSTANTS Heads, Entries, NULL

VARIABLES lists,     \* the sequence of each head; NULL before its list_init
          ret        \* the entry that the last removal returned, or NULL

vars == <<lists, ret>>

IsList(h) == lists[h] # NULL

EntriesOf(h) == IF IsList(h) THEN ToSet(lists[h]) ELSE {}

Free == Entries \ UNION {EntriesOf(h) : h \in Heads}

Init == /\ lists \in [Heads -> {NULL, <<>>}]
        /\ ret = NULL

\* A head that holds nothing may be initialised, again or for the first time.
Reset(h) == /\ EntriesOf(h) = {}
            /\ lists' = [lists EXCEPT ![h] = <<>>]
            /\ UNCHANGED ret

\* A free entry goes in after the first k entries.
Insert(h, k, e) == /\ IsList(h) /\ k \in 0..Len(lists[h])
                   /\ lists' = [lists EXCEPT ![h] = InsertAt(@, k + 1, e)]
                   /\ UNCHANGED ret

Substitute(h, k, e) == /\ IsList(h) /\ k \in DOMAIN lists[h]
                       /\ lists' = [lists EXCEPT ![h][k] = e]
                       /\ UNCHANGED ret

Delete(h, k) == /\ IsList(h) /\ k \in DOMAIN lists[h]
                /\ lists' = [lists EXCEPT ![h] = RemoveAt(@, k)]
                /\ UNCHANGED ret

PopFirst(h) == /\ IsList(h)
               /\ IF lists[h] = <<>>
                    THEN ret' = NULL /\ UNCHANGED lists
                    ELSE /\ ret' = Head(lists[h])
                         /\ lists' = [lists EXCEPT ![h] = Tail(@)]

PopLast(h) == /\ IsList(h)
              /\ IF lists[h] = <<>>
                   THEN ret' = NULL /\ UNCHANGED lists
                   ELSE /\ ret' = Last(lists[h])
                        /\ lists' = [lists EXCEPT ![h] = Front(@)]

\* What follows the first k entries of h becomes the list of an unused head.
Split(h, k, to) ==
  /\ IsList(h) /\ k \in 0..Len(lists[h]) /\ to # h /\ EntriesOf(to) = {}
  /\ lists' = [lists EXCEPT ![h] = SubSeq(@, 1, k),
                            ![to] = SubSeq(lists[h], k + 1, Len(lists[h]))]
  /\ UNCHANGED ret

\* The entries of from, in order, go in after the first k entries of h.
Splice(from, h, k) ==
  /\ IsList(from) /\ IsList(h) /\ from # h /\ k \in 0..Len(lists[h])
  /\ lists' = [lists EXCEPT ![h] = SubSeq(@, 1, k) \o lists[from]
                                     \o SubSeq(@, k + 1, Len(@)),
                            ![from] = <<>>]
  /\ UNCHANGED ret

Move(old, new) ==
  /\ IsList(old) /\ new # old /\ EntriesOf(new) = {}
  /\ lists' = [lists EXCEPT ![new] = lists[old], ![old] = <<>>]
  /\ UNCHANGED ret

Positions == 0..Cardinality(Entries)

Next == \/ \E h \in Heads : Reset(h) \/ PopFirst(h) \/ PopLast(h)
        \/ \E h \in Heads, k \in Positions :
              \/ Delete(h, k)
              \/ \E e \in Free : Insert(h, k, e) \/ Substitute(h, k, e)
              \/ \E g \in Heads : Split(h, k, g) \/ Splice(g, h, k)
        \/ \E old, new \in Heads : Move(old, new)

Spec == Init /\ [][Next]_vars
=============================================================================
