------------------------------- MODULE MCQsort -------------------------------
(* All arrays of up to eight elements of three values, and some of 41, for which
   the pivot is a median of medians: sorted, reversed, all equal, organ pipe and
   a few scattered. *)
EXTENDS Qsort

Short == UNION {[0..(k-1) -> 0..2] : k \in 0..8}

Long == LET m == 0..40 IN
  {[i \in m |-> i], [i \in m |-> -i], [i \in m |-> 1],
   [i \in m |-> IF i < 20 THEN i ELSE 40 - i]}
    \cup {[i \in m |-> (i * k) % 11] : k \in {3, 7, 16}}

MCInputs == Short \cup Long
=============================================================================
