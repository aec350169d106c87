-------------------------------- MODULE List --------------------------------
(***************************************************************************)
(* The intrusive circular doubly linked list of list.h, at the level of    *)
(* its pointers.  A list_node_t is a cell with two pointers; the same type *)
(* is used for the head of a list and for the node embedded in a member.   *)
(* Every list of the kernel (zones, free pages, page lists of callers, the *)
(* queues of a processor set) is one of these.                             *)
(*                                                                         *)
(* The functions check almost nothing: what may be passed to them is a     *)
(* contract with the caller.  The guards below named Contract_... are that *)
(* contract, read off list.h's comments and off the uses in pmm.c and      *)
(* processor.c; the conditions the code itself tests are in the bodies.    *)
(* Nothing preempts a list operation (one CPU, interrupts are never        *)
(* enabled), so each is one step.                                          *)
(***************************************************************************)
EXTENDS Naturals, FiniteSets

CONSTANTS Heads,     \* cells used as list heads
          Entries,   \* cells embedded in the members of lists
          NULL

ASSUME ListAssumption == /\ Heads \cap Entries = {}
                         /\ NULL \notin Heads \cup Entries

VARIABLES next,      \* the next pointer of each cell
          prev,      \* the prev pointer of each cell
          ret,       \* what list_remove_head/list_remove_tail returned last
          on         \* history: the head whose list an entry is on, or NULL

vars == <<next, prev, ret, on>>

Cells == Heads \cup Entries

Members(h) == {e \in Entries : on[e] = h}

\* Entries start cleared (LIST_INITIAL_CLEARED_VALUE, or a zeroed page array);
\* a head is either statically initialised or not initialised yet.
Init == /\ next \in [Cells -> Cells \cup {NULL}]
        /\ \A c \in Cells : next[c] = NULL \/ (c \in Heads /\ next[c] = c)
        /\ prev = next
        /\ ret = NULL
        /\ on = [e \in Entries |-> NULL]

-----------------------------------------------------------------------------
(* What the code can ask of a cell. *)

list_is_empty(h) == prev[h] = h /\ next[h] = h

list_peek_head(h) == IF next[h] # h THEN next[h] ELSE NULL

list_peek_tail(h) == IF prev[h] # h THEN prev[h] ELSE NULL

\* The iterations of list_for_each: Visit(h)[i] is pos after i advances.
Visit(h) == LET pos[i \in 0..Cardinality(Cells)] ==
                  IF i = 0 THEN h ELSE next[pos[i-1]]
            IN  pos

\* list_length counts the iterations before pos is the head again.
list_length(h) == LET pos == Visit(h)
                  IN  CHOOSE n \in 0..Cardinality(Entries) :
                        /\ pos[n+1] = h
                        /\ \A i \in 1..n : pos[i] # h

-----------------------------------------------------------------------------
(* The contract of the callers. *)

Ready(h) == next[h] # NULL              \* list_init has been applied to h

Contract_Linked(c) == IF c \in Heads THEN Ready(c) ELSE on[c] # NULL

Contract_Free(e) == on[e] = NULL

\* A head that may be (re)initialised: nothing is lost by it.
Contract_Unused(h) == Members(h) = {}

OwnerOf(c) == IF c \in Heads THEN c ELSE on[c]

-----------------------------------------------------------------------------
(* The operations. *)

list_init(h) ==
  /\ Contract_Unused(h)
  /\ next' = [next EXCEPT ![h] = h]
  /\ prev' = [prev EXCEPT ![h] = h]
  /\ UNCHANGED <<ret, on>>

\* Insert e after the cell pos: a head, or an entry of a list.
list_add(pos, e) ==
  /\ Contract_Linked(pos) /\ Contract_Free(e)
  /\ next' = [next EXCEPT ![e] = next[pos], ![pos] = e]
  /\ prev' = [prev EXCEPT ![e] = pos, ![next[pos]] = e]
  /\ on' = [on EXCEPT ![e] = OwnerOf(pos)]
  /\ UNCHANGED ret

\* Variant: the entry goes to the other end.
list_add_tail_AtHead(pos, e) == list_add(pos, e)

\* Insert e before the cell pos; before a head this is the tail of its list.
list_add_tail(pos, e) ==
  /\ Contract_Linked(pos) /\ Contract_Free(e)
  /\ next' = [next EXCEPT ![e] = pos, ![prev[pos]] = e]
  /\ prev' = [prev EXCEPT ![e] = prev[pos], ![pos] = e]
  /\ on' = [on EXCEPT ![e] = OwnerOf(pos)]
  /\ UNCHANGED ret

\* new takes the place of old.  old keeps its pointers.
list_replace(old, new) ==
  /\ on[old] # NULL /\ Contract_Free(new)
  /\ next' = [next EXCEPT ![new] = next[old], ![prev[old]] = new]
  /\ prev' = [prev EXCEPT ![new] = prev[old], ![next[old]] = new]
  /\ on' = [on EXCEPT ![new] = on[old], ![old] = NULL]
  /\ UNCHANGED ret

\* Variant: the node after e keeps pointing back at e.
Unlink_NoBackLink(e) ==
  /\ next' = [next EXCEPT ![prev[e]] = next[e], ![e] = NULL]
  /\ prev' = [prev EXCEPT ![e] = NULL]
  /\ on' = [on EXCEPT ![e] = NULL]

\* Take e off its list and clear it.
Unlink(e) ==
  /\ next' = [next EXCEPT ![prev[e]] = next[e], ![e] = NULL]
  /\ prev' = [prev EXCEPT ![next[e]] = prev[e], ![e] = NULL]
  /\ on' = [on EXCEPT ![e] = NULL]

list_delete(e) == on[e] # NULL /\ Unlink(e) /\ UNCHANGED ret

\* Variant: what is the head once the entry is off the list is returned.
list_remove_head_Next(h) ==
  /\ Ready(h)
  /\ \/ /\ next[h] # h /\ Unlink(next[h])
        /\ ret' = IF next'[h] = h THEN NULL ELSE next'[h]
     \/ next[h] = h /\ ret' = NULL /\ UNCHANGED <<next, prev, on>>

list_remove_head(h) ==
  /\ Ready(h)
  /\ \/ next[h] # h /\ Unlink(next[h]) /\ ret' = next[h]
     \/ next[h] = h /\ ret' = NULL /\ UNCHANGED <<next, prev, on>>

\* Variant: the emptiness test is missing.
list_remove_tail_Unchecked(h) == Ready(h) /\ Unlink(prev[h]) /\ ret' = prev[h]

list_remove_tail(h) ==
  /\ Ready(h)
  /\ \/ prev[h] # h /\ Unlink(prev[h]) /\ ret' = prev[h]
     \/ prev[h] = h /\ ret' = NULL /\ UNCHANGED <<next, prev, on>>

\* S is the stretch of the list h that follows pos, up to its tail.
Stretch(h, pos, S) ==
  /\ next[pos] \in S /\ prev[h] \in S /\ pos \notin S
  /\ \A e \in S : next[e] \in S \cup {h} /\ prev[e] \in S \cup {pos}

\* Move what follows pos on the list h to the head to.
list_split_after(h, pos, to) ==
  /\ Ready(h) /\ Contract_Linked(pos) /\ OwnerOf(pos) = h
  /\ to # h /\ Contract_Unused(to)
  /\ \/ /\ next[pos] = h
        /\ next' = [next EXCEPT ![to] = to]
        /\ prev' = [prev EXCEPT ![to] = to]
        /\ UNCHANGED on
     \/ /\ next[pos] # h
        /\ next' = [next EXCEPT ![prev[h]] = to, ![to] = next[pos], ![pos] = h]
        /\ prev' = [prev EXCEPT ![to] = prev[h], ![next[pos]] = to, ![h] = pos]
        /\ \E S \in SUBSET Members(h) :
              /\ Stretch(h, pos, S)
              /\ on' = [e \in Entries |-> IF e \in S THEN to ELSE on[e]]
  /\ UNCHANGED ret

\* Variant: from is not reinitialised.
SpliceStores_NoInit(n, p, from, pos) ==
  /\ next' = [n EXCEPT ![p[from]] = n[pos], ![pos] = n[from]]
  /\ prev' = [p EXCEPT ![n[from]] = pos, ![n[pos]] = p[from]]
  /\ on' = [e \in Entries |-> IF on[e] = from THEN OwnerOf(pos) ELSE on[e]]

\* The stores of list_splice_after(from, pos) when from has entries, made on
\* the pointers n and p; the entries come to belong to the list of pos.
SpliceStores(n, p, from, pos) ==
  /\ next' = [n EXCEPT ![p[from]] = n[pos], ![pos] = n[from], ![from] = from]
  /\ prev' = [p EXCEPT ![n[from]] = pos, ![n[pos]] = p[from], ![from] = from]
  /\ on' = [e \in Entries |-> IF on[e] = from THEN OwnerOf(pos) ELSE on[e]]

\* Insert the entries of from after the cell pos of another list.
list_splice_after(from, pos) ==
  /\ Ready(from) /\ Contract_Linked(pos) /\ OwnerOf(pos) # from
  /\ \/ list_is_empty(from) /\ UNCHANGED <<next, prev, on>>
     \/ ~list_is_empty(from) /\ SpliceStores(next, prev, from, pos)
  /\ UNCHANGED ret

\* Move all of old to new: list_init(new), then list_splice_after(old, new).
list_move(old, new) ==
  /\ Ready(old) /\ new # old /\ Contract_Unused(new)
  /\ LET n == [next EXCEPT ![new] = new]
         p == [prev EXCEPT ![new] = new]
     IN  \/ list_is_empty(old) /\ next' = n /\ prev' = p /\ UNCHANGED on
         \/ ~list_is_empty(old) /\ SpliceStores(n, p, old, new)
  /\ UNCHANGED ret

Next == \/ \E h \in Heads : \/ list_init(h)
                            \/ list_remove_head(h)
                            \/ list_remove_tail(h)
        \/ \E pos \in Cells, e \in Entries : \/ list_add(pos, e)
                                             \/ list_add_tail(pos, e)
        \/ \E old, new \in Entries : list_replace(old, new)
        \/ \E e \in Entries : list_delete(e)
        \/ \E h, to \in Heads, pos \in Cells : list_split_after(h, pos, to)
        \/ \E from \in Heads, pos \in Cells : list_splice_after(from, pos)
        \/ \E old, new \in Heads : list_move(old, new)

Spec == Init /\ [][Next]_vars

-----------------------------------------------------------------------------
(* Properties. *)

\* Every pointer is a cell or NULL, and the history names heads.
TypeOK == /\ next \in [Cells -> Cells \cup {NULL}]
          /\ prev \in [Cells -> Cells \cup {NULL}]
          /\ ret \in Entries \cup {NULL}
          /\ on \in [Entries -> Heads \cup {NULL}]

\* The two chains are inverse of one another around every cell that is in use,
\* and never lead out of the cells in use: neither into a cleared entry nor
\* into one that list_replace left behind with its old pointers.
WellLinked ==
  \A c \in Cells : Contract_Linked(c) =>
     /\ next[c] \in Cells /\ Contract_Linked(next[c]) /\ prev[next[c]] = c
     /\ prev[c] \in Cells /\ Contract_Linked(prev[c]) /\ next[prev[c]] = c

\* Lists never run into one another: the neighbours of a cell are on its own
\* list, whatever was split, spliced, moved or replaced before.
SameList ==
  \A c \in Cells : Contract_Linked(c) => OwnerOf(next[c]) = OwnerOf(c)
=============================================================================
