---------------------------- MODULE PmmRefinement ----------------------------
(***************************************************************************)
(* How pmm.c keeps the promise of PmmSpec: which pages are free to the     *)
(* callers and which are theirs at each step of a call in progress.  What  *)
(* an allocation has taken so far is free until the call returns; what     *)
(* pmm_free_pages is still to give back is free from the start.            *)
(***************************************************************************)
EXTENDS Pmm

\* The pages that an allocation in progress has put on the caller's list.
Taken == IF call.op \in {"alloc_pages", "alloc_range"} /\ call.list # NULL
           THEN LET s == lists[call.list]
                IN  {s[i] : i \in (Len(s) - call.got + 1)..Len(s)}
           ELSE {}

\* The pages that a pmm_free_pages in progress is still to give back.
ToGiveBack == IF call.op = "free_pages" THEN Listed(call.list) \cap Window
                                        ELSE {}

Avail == FreeSet \cup Taken \cup ToGiveBack

OwnedBy == [l \in Lists |-> IF call.op = "free_pages" /\ l = call.list
                              THEN {} ELSE Listed(l) \ Taken]

RequestNow ==
  CASE call.op = "idle" -> [op |-> "none"]
    [] call.op = "alloc_pages" ->
         [op |-> call.op, want |-> call.want, list |-> call.list]
    [] call.op = "alloc_range" ->
         [op |-> call.op, list |-> call.list,
          want |-> [count |-> call.want, from |-> call.address - call.got]]
    [] call.op = "free_pages" ->
         [op |-> call.op, count |-> call.got + Cardinality(ToGiveBack)]
    [] OTHER -> [op |-> "dead"]

Returned == IF call.op = "idle" THEN call.got ELSE 0

Abstract == INSTANCE PmmSpec WITH
  FrameAt <- [p \in Pages |-> FrameOf(p)],
  Counts <- 0..MaxCount,
  Addresses <- 0..MaxAddress,
  avail <- Avail, owned <- OwnedBy, single <- held \cup kpages,
  req <- RequestNow, ret <- Returned

\* To its callers every call happens at once and returns the number of pages
\* that changed hands: as many as asked for unless none is left, a run of
\* consecutive frames from the one asked for, or those given back.
ImplementsPmmSpec == Abstract!Spec
=============================================================================
