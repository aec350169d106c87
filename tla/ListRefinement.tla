--------------------------- MODULE ListRefinement ---------------------------
(***************************************************************************)
(* The pointers of List read as the sequences of ListSpec: the sequence of *)
(* a head is what list_for_each meets when it walks that list.             *)
(***************************************************************************)
EXTENDS List, Sequences

\* There are finitely many cells, so that a walk can be counted, and NULL, which
\* stands for a head without a list, is no sequence.
ASSUME RefinementAssumption == /\ IsFiniteSet(Heads) /\ IsFiniteSet(Entries)
                               /\ NULL \notin Seq(Entries)

\* The sequence that a forward walk of h meets.
Forward(h) == [i \in 1..list_length(h) |-> Visit(h)[i]]

\* The sequence of each head; NULL before its list_init.
Lists == [h \in Heads |-> IF Ready(h) THEN Forward(h) ELSE NULL]

Abstract == INSTANCE ListSpec WITH lists <- Lists

\* Each list behaves as the sequence that a walk meets, and what a removal
\* returns is the entry at the end it was asked for.
ImplementsListSpec == Abstract!Spec

\* How many entries a walk has met when it is at c.
Place(c) == IF c \in Heads THEN 0
              ELSE CHOOSE i \in 1..list_length(on[c]) : Forward(on[c])[i] = c

\* The step is the operation on sequences that the function's comment names, at
\* the place it names, in the list it was asked for and in no other.
AsNamed ==
  /\ \A h \in Heads : /\ list_init(h) => Abstract!Reset(h)
                      /\ list_remove_head(h) => Abstract!PopFirst(h)
                      /\ list_remove_tail(h) => Abstract!PopLast(h)
  /\ \A pos \in Cells, e \in Entries :
        /\ list_add(pos, e) => Abstract!Insert(OwnerOf(pos), Place(pos), e)
        /\ list_add_tail(pos, e) =>
              Abstract!Insert(OwnerOf(pos),
                              IF pos \in Heads THEN list_length(pos)
                                               ELSE Place(pos) - 1, e)
  /\ \A e, new \in Entries :
        /\ list_replace(e, new) => Abstract!Substitute(on[e], Place(e), new)
        /\ list_delete(e) => Abstract!Delete(on[e], Place(e))
  /\ \A h, to \in Heads, pos \in Cells :
        /\ list_split_after(h, pos, to) => Abstract!Split(h, Place(pos), to)
        /\ list_splice_after(h, pos) =>
              Abstract!Splice(h, OwnerOf(pos), Place(pos))
        /\ list_move(h, to) => Abstract!Move(h, to)

\* Each function of list.h is the operation on sequences that its comment names.
EachAsNamed == [][AsNamed]_vars
=============================================================================
