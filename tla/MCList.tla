------------------------------- MODULE MCList -------------------------------
(* List on small instances, and the refinement of ListSpec by its pointers. *)
EXTENDS ListRefinement, TLC

\* Heads are interchangeable, and so are entries; nothing checked here is a
\* liveness property.
Symmetry == Permutations(Heads) \cup Permutations(Entries)
=============================================================================
