-------------------------------- MODULE Qsort --------------------------------
(***************************************************************************)
(* The quicksort of qsort.c: insertion sort below seven elements, else the *)
(* partition of Bentley and McIlroy into less, equal and greater, which    *)
(* gathers the elements equal to the pivot at both ends and then swaps     *)
(* them into the middle.                                                   *)
(*                                                                         *)
(* Elements are numbers and cmp is their difference.  Pointers are indices *)
(* of elements.  An iteration of an outer loop is one step.   The two    *)
(* recursive calls are the last things a call does, so the calls still to  *)
(* be made are a sequence of segments; the first of them is in progress.   *)
(***************************************************************************)
EXTENDS Integers, SequencesExt

CONSTANT Inputs        \* arrays, functions from 0..(n - 1) to numbers

ASSUME QsortAssumption ==
  \A a \in Inputs : /\ IsFiniteSet(DOMAIN a)
                    /\ a \in [0..(Cardinality(DOMAIN a) - 1) -> Int]

VARIABLES
  input,        \* the array before the sort
  arr,          \* the array
  direct,       \* swaptype is 0: an element is a size_t, the pivot is copied
  todo,         \* the segments [lo, n] still to be sorted
  pc,           \* "call", or the loop that is next: "insert", "up" or "down"
  part          \* pm, and the variables of the partition: pv, pa, pb, pc, pd

vars == <<input, arr, direct, todo, pc, part>>

Size == Cardinality(DOMAIN input)

Init == /\ input \in Inputs /\ arr = input
        /\ direct \in BOOLEAN
        /\ todo = <<[lo |-> 0, n |-> Size]>>
        /\ pc = "call"
        /\ part = [pv |-> 0, pm |-> 0, pa |-> 0, pb |-> 0, pc |-> 0, pd |-> 0]

cmp(i, j) == arr[i] - arr[j]

lo == Head(todo).lo

n == Head(todo).n

-----------------------------------------------------------------------------
\* The array with two elements exchanged.
Exch(a, i, j) == [a EXCEPT ![i] = a[j], ![j] = a[i]]

\* Variant: the element at m is lost.
Sink_Drops(a, l, m) ==
  LET k == CHOOSE k \in l..m : /\ \A i \in k..(m-1) : a[i] > a[m]
                               /\ k > l => a[k-1] <= a[m]
  IN  [i \in DOMAIN a |-> IF i \in (k+1)..m THEN a[i-1] ELSE a[i]]

\* The element at m sinks below the greater ones before it, down to l at most.
Sink(a, l, m) ==
  LET k == CHOOSE k \in l..m : /\ \A i \in k..(m-1) : a[i] > a[m]
                               /\ k > l => a[k-1] <= a[m]
  IN  [i \in DOMAIN a |-> CASE i = k -> a[m]
                            [] i \in (k+1)..m -> a[i-1]
                            [] OTHER -> a[i]]

med3(a, b, c) ==
  IF cmp(a, b) < 0
    THEN IF cmp(b, c) < 0 THEN b ELSE IF cmp(a, c) < 0 THEN c ELSE a
    ELSE IF cmp(b, c) > 0 THEN b ELSE IF cmp(a, c) > 0 THEN c ELSE a

\* The element of the segment that becomes the pivot.
Middle ==
  LET s  == n \div 8
      l  == lo
      m  == lo + n \div 2
      r  == lo + n - 1
  IN  CASE n = 7 -> m
        [] n > 7 /\ n <= 40 -> med3(l, m, r)
        [] OTHER -> med3(med3(l, l + s, l + 2*s), med3(m - s, m, m + s),
                         med3(r - 2*s, r - s, r))

StartInsertion ==
  /\ pc = "call" /\ todo # <<>> /\ n < 7 /\ pc' = "insert"
  /\ part' = [part EXCEPT !.pm = lo + 1]
  /\ UNCHANGED <<input, arr, direct, todo>>

Insert ==
  /\ pc = "insert"
  /\ IF part.pm < lo + n
       THEN /\ arr' = Sink(arr, lo, part.pm)
            /\ part' = [part EXCEPT !.pm = @ + 1]
            /\ UNCHANGED <<todo, pc>>
       ELSE /\ pc' = "call" /\ todo' = Tail(todo)
            /\ UNCHANGED <<arr, part>>
  /\ UNCHANGED <<input, direct>>

\* Variant: the right end is taken for the last element.
StartPartition_OnePast ==
  /\ pc = "call" /\ todo # <<>> /\ n >= 7 /\ pc' = "up"
  /\ arr' = IF direct THEN arr ELSE Exch(arr, lo, Middle)
  /\ part' = [pv |-> IF direct THEN arr[Middle] ELSE lo, pm |-> Middle,
              pa |-> lo, pb |-> lo, pc |-> lo + n, pd |-> lo + n]
  /\ UNCHANGED <<input, direct, todo>>

\* Unless the pivot is copied, it is moved to the front and compared there.
StartPartition ==
  /\ pc = "call" /\ todo # <<>> /\ n >= 7 /\ pc' = "up"
  /\ arr' = IF direct THEN arr ELSE Exch(arr, lo, Middle)
  /\ part' = [pv |-> IF direct THEN arr[Middle] ELSE lo, pm |-> Middle,
              pa |-> lo, pb |-> lo, pc |-> lo + n - 1, pd |-> lo + n - 1]
  /\ UNCHANGED <<input, direct, todo>>

\* *pv, where it is now.
Pivot == IF direct THEN part.pv ELSE arr[part.pv]

\* Variant: an element equal to the pivot stays where it is.
Up_NoSwap ==
  /\ pc = "up"
  /\ IF part.pb <= part.pc /\ arr[part.pb] <= Pivot
       THEN /\ IF arr[part.pb] = Pivot
                 THEN part' = [part EXCEPT !.pa = @ + 1, !.pb = @ + 1]
                 ELSE part' = [part EXCEPT !.pb = @ + 1]
            /\ UNCHANGED pc
       ELSE pc' = "down" /\ UNCHANGED part
  /\ UNCHANGED <<input, arr, direct, todo>>

Up ==
  /\ pc = "up"
  /\ IF part.pb <= part.pc /\ arr[part.pb] <= Pivot
       THEN /\ IF arr[part.pb] = Pivot
                 THEN /\ arr' = Exch(arr, part.pa, part.pb)
                      /\ part' = [part EXCEPT !.pa = @ + 1, !.pb = @ + 1]
                 ELSE /\ part' = [part EXCEPT !.pb = @ + 1]
                      /\ UNCHANGED arr
            /\ UNCHANGED pc
       ELSE pc' = "down" /\ UNCHANGED <<arr, part>>
  /\ UNCHANGED <<input, direct, todo>>

Down ==
  /\ pc = "down" /\ part.pc >= part.pb /\ arr[part.pc] >= Pivot
  /\ IF arr[part.pc] = Pivot
       THEN /\ arr' = Exch(arr, part.pc, part.pd)
            /\ part' = [part EXCEPT !.pc = @ - 1, !.pd = @ - 1]
       ELSE /\ part' = [part EXCEPT !.pc = @ - 1]
            /\ UNCHANGED arr
  /\ UNCHANGED <<input, direct, todo, pc>>

\* pb is at a greater element and pc at a lesser one.
Cross ==
  /\ pc = "down" /\ part.pc >= part.pb /\ arr[part.pc] < Pivot
  /\ pc' = "up"
  /\ arr' = Exch(arr, part.pb, part.pc)
  /\ part' = [part EXCEPT !.pb = @ + 1, !.pc = @ - 1]
  /\ UNCHANGED <<input, direct, todo>>

\* Variant: the second, whichever is less.
min_Second(a, b) == b

min(a, b) == IF a < b THEN a ELSE b

\* vecswap: s elements at i are exchanged with those at j, beyond i + s.
VecSwap(a, i, j, s) ==
  [k \in DOMAIN a |-> CASE k \in i..(i+s-1) -> a[k - i + j]
                        [] k \in j..(j+s-1) -> a[k - j + i]
                        [] OTHER -> a[k]]

\* Variant: the elements before pa are counted too.
Less_WithEqual == part.pb - lo

Less == part.pb - part.pa

\* A segment of one element is not called for.
Calls(s) == IF s.n > 1 THEN <<s>> ELSE <<>>

\* The equal elements go to the middle; calls for the lesser and the greater.
Gather ==
  /\ pc = "down" /\ part.pb > part.pc /\ pc' = "call"
  /\ LET greater == part.pd - part.pc
         end     == lo + n
         left    == min(part.pa - lo, Less)
         right   == min(greater, end - part.pd - 1)
     IN  /\ arr' = VecSwap(VecSwap(arr, lo, part.pb - left, left),
                           part.pb, end - right, right)
         /\ todo' = Calls([lo |-> lo, n |-> Less])
                    \o (Calls([lo |-> end - greater, n |-> greater]) \o Tail(todo))
  /\ UNCHANGED <<input, direct, part>>

Next == StartInsertion \/ Insert \/ StartPartition \/ Up \/ Down \/ Cross \/ Gather

Spec == Init /\ [][Next]_vars /\ WF_vars(Next)

-----------------------------------------------------------------------------
(* Properties. *)

Segment(s) == s.lo..(s.lo + s.n - 1)

\* The pointers of a partition stay in the segment and in their order, whatever
\* the elements are, so that no loop reads or swaps beyond an end.
PointersInOrder ==
  pc \in {"up", "down"} =>
     /\ lo <= part.pa /\ part.pa <= part.pb /\ part.pb <= part.pc + 1
     /\ part.pc <= part.pd /\ part.pd < lo + n
     /\ Segment(Head(todo)) \subseteq DOMAIN arr

\* Equal, lesser, unseen, greater and equal elements lie in this order; the
\* pivot, which may be one of the elements moved around, stays what it was.
Partitioned ==
  pc \in {"up", "down"} =>
     /\ \A i \in lo..(part.pa - 1) : arr[i] = Pivot
     /\ \A i \in part.pa..(part.pb - 1) : arr[i] < Pivot
     /\ \A i \in (part.pc + 1)..part.pd : arr[i] > Pivot
     /\ \A i \in (part.pd + 1)..(lo + n - 1) : arr[i] = Pivot

\* Elements are in order but for those that one segment still to be sorted holds
\* both of.  When nothing is left to do, the array is sorted.
OrderedAcross ==
  \A i, j \in DOMAIN arr :
     i < j => \/ arr[i] <= arr[j]
              \/ \E k \in DOMAIN todo : {i, j} \subseteq Segment(todo[k])

\* Elements are only moved: each value occurs as often as in the input.
Occurrences(a, v) == Cardinality({i \in DOMAIN a : a[i] = v})

SameElements ==
  \A i \in DOMAIN input :
     Occurrences(arr, input[i]) = Occurrences(input, input[i])

\* Equal keys, sorted or reversed input: the recursion ends.
Ends == <>(todo = <<>>)
=============================================================================
