------------------------------ MODULE PmmSpec ------------------------------
(***************************************************************************)
(* What the physical memory manager promises its callers, one step for the *)
(* effect of each call: sets of pages change hands, and the count returned *)
(* tells how many.  No zones, no lists, no flags, no loops.                *)
(*                                                                         *)
(* The promise is the one pmm.c keeps.  It is weaker than pmm.h reads:     *)
(* only a page of Window is free again after it was given back, only one   *)
(* of Addressed can be had by its kernel address, and the machine may stop *)
(* during a call.                                                          *)
(***************************************************************************)
EXTENDS Integers, FiniteSetsExt

CONSTANTS Pages, Lists, NULL,
          Window,      \* the pages that can be given back
          Addressed,   \* the pages that have a kernel address
          FrameAt,     \* FrameAt[p]: the frame that the page p stands for
          Counts,      \* the counts that may be asked for
          Addresses    \* the first frames that may be asked for

VARIABLES avail,       \* the free pages
          owned,       \* the pages on each list of the callers
          single,      \* the pages that callers hold one by one
          req,         \* the call in progress, if any
          ret          \* the count that the last call returned

vars == <<avail, owned, single, req, ret>>

NoCall == [op |-> "none"]

Init == /\ avail = {} /\ single = {}
        /\ owned = [l \in Lists |-> {}]
        /\ req = NoCall /\ ret = 0

Ready == req.op = "none"

Held == single \cup UNION {owned[l] : l \in Lists}

AddPages(S) == /\ Ready /\ S \cap (avail \cup Held) = {}
               /\ avail' = avail \cup S /\ ret' = 0
               /\ UNCHANGED <<owned, single, req>>

\* A call that will take pages has started.
Ask(op, want, l) == /\ Ready
                    /\ req' = [op |-> op, want |-> want, list |-> l]
                    /\ ret' = 0
                    /\ UNCHANGED <<avail, owned, single>>

\* The caller gets the pages S on the list l; the call returns their number.
Give(S, l) == /\ S \subseteq avail /\ avail' = avail \ S
              /\ owned' = IF S = {} THEN owned ELSE [owned EXCEPT ![l] = @ \cup S]
              /\ ret' = Cardinality(S) /\ req' = NoCall
              /\ UNCHANGED single

\* As many as asked for, or all there are.
GivePages(S) == /\ req.op = "alloc_pages"
                /\ Cardinality(S) = Min({req.want, Cardinality(avail)})
                /\ Give(S, req.list)

\* At most one page outside a loop: at once.
GiveAtOnce(S, l) == Ready /\ Cardinality(S) <= 1 /\ Give(S, l)

\* Consecutive frames, from the first that was asked for.
GiveRange(S) == /\ req.op = "alloc_range"
                /\ Cardinality(S) <= req.want.count
                /\ {FrameAt[p] : p \in S} =
                      req.want.from..(req.want.from + Cardinality(S) - 1)
                /\ Give(S, req.list)

GiveSingle(p) == /\ Ready /\ p \in avail
                 /\ avail' = avail \ {p} /\ single' = single \cup {p}
                 /\ ret' = 1
                 /\ UNCHANGED <<owned, req>>

\* The page has no kernel address: nobody gets it.
GiveNoAddress(p) == /\ Ready /\ p \in avail \ Addressed
                    /\ avail' = avail \ {p} /\ ret' = 0
                    /\ UNCHANGED <<owned, single, req>>

TakeBackSingle(p) == /\ Ready /\ p \in single
                     /\ single' = single \ {p}
                     /\ avail' = avail \cup ({p} \cap Window)
                     /\ ret' = Cardinality({p} \cap Window)
                     /\ UNCHANGED <<owned, req>>

\* The pages of Window are free again, the others are nobody's.
TakeBack(l) == /\ Ready
               /\ avail' = avail \cup (owned[l] \cap Window)
               /\ owned' = [owned EXCEPT ![l] = {}]
               /\ req' = [op |-> "free_pages",
                          count |-> Cardinality(owned[l] \cap Window)]
               /\ ret' = 0
               /\ UNCHANGED single

TakenBack == /\ req.op = "free_pages"
             /\ ret' = req.count /\ req' = NoCall
             /\ UNCHANGED <<avail, owned, single>>

\* The machine stops; a page may be in nobody's hands.
Die == /\ req' = [op |-> "dead"] /\ ret' = 0
       /\ \E S \in SUBSET avail : Cardinality(S) <= 1 /\ avail' = avail \ S
       /\ UNCHANGED <<owned, single>>

Next == \/ \E S \in SUBSET Pages :
              \/ AddPages(S) \/ GivePages(S) \/ GiveRange(S)
              \/ \E l \in Lists : GiveAtOnce(S, l)
        \/ \E p \in Pages : GiveSingle(p) \/ GiveNoAddress(p) \/ TakeBackSingle(p)
        \/ \E l \in Lists : TakeBack(l)
        \/ \E n \in Counts, l \in Lists : Ask("alloc_pages", n, l)
        \/ \E n \in Counts, a \in Addresses, l \in Lists \cup {NULL} :
              Ask("alloc_range", [count |-> n, from |-> a], l)
        \/ TakenBack \/ Die

Spec == Init /\ [][Next]_vars
=============================================================================
