--------------------------------- MODULE Pmm ---------------------------------
(***************************************************************************)
(* The physical memory manager of pmm.c.  Memory is a set of zones, each a *)
(* run of frames with one vm_page_t per frame; a page is either on the     *)
(* free list of its zone or has been handed to a caller, on a list of the  *)
(* caller's or by itself.                                                  *)
(*                                                                         *)
(* The lists of list.h are sequences here; module List justifies that.     *)
(* Addresses are counted in frames: pmm_alloc_range rounds its address     *)
(* down to one, and platform.c makes bases and sizes multiples of one.     *)
(* A call that loops over pages takes one step per iteration, so that what *)
(* it leaves behind when it faults midway is a state of the model.         *)
(***************************************************************************)
EXTENDS Integers, SequencesExt

CONSTANTS
  Zones,         \* the pmm_zone_t objects that may be added
  Base,          \* Base[z]: the first frame of z
  Frames,        \* Frames[z]: ZONE_FRAME_COUNT(z)
  PageSize,      \* sizeof(vm_page_t); 24 on x86_64
  Lists,         \* lists of the callers
  MaxCount,      \* bound on the count a caller asks for
  MaxAddress,    \* bound on the address a caller asks for
  mmu_initial_mappings,   \* of platform.c, up to the entry without a size
  NULL

FrameOf(p) == Base[p[1]] + p[2]

PagesOf(z) == {z} \X (0..(Frames[z] - 1))

Pages == UNION {PagesOf(z) : z \in Zones}

ASSUME PmmAssumption ==
  /\ Base \in [Zones -> Nat] /\ Frames \in [Zones -> Nat]
  /\ PageSize \in Nat \ {0} /\ MaxCount \in Nat /\ MaxAddress \in Nat
  /\ NULL \notin Lists

ASSUME MappingsAssumption ==
  /\ mmu_initial_mappings \in Seq([phys : Nat, virt : Nat, size : Nat \ {0}])
  /\ NULL \notin Nat

\* What the platform hands to pmm_add_zone does not overlap.
ASSUME DisjointZones ==
  \A p, q \in Pages : FrameOf(p) = FrameOf(q) => p = q

VARIABLES
  zone_list,     \* the zones added, in order
  free_pages,    \* zone->free_pages
  free_count,    \* zone->free_count
  nonfree,       \* the pages whose VM_PAGE_FLAG_NONFREE is set
  lists,         \* the lists of the callers
  held,          \* pages that callers hold by a vm_page_t *
  kpages,        \* pages that callers hold by a kernel address
  call           \* the call in progress; when idle, got is what it returned

memory == <<zone_list, free_pages, free_count, nonfree, lists, held, kpages>>

vars == <<memory, call>>

Ops == {"idle", "alloc_pages", "alloc_range", "free_pages",
        "fault", "undefined"}

Idle(n) == [op |-> "idle", want |-> 0, got |-> n, list |-> NULL,
            at |-> 1, address |-> 0]

\* Starting a call with a loop: nothing allocated, the iterator of zone_list at
\* the first zone.
Begin(op, want, l, address) ==
  call' = [op |-> op, want |-> want, got |-> 0, list |-> l,
           at |-> 1, address |-> address]

\* The machine stops in the middle of the call.
Stop(op) == call' = [Idle(0) EXCEPT !.op = op]

Init == /\ zone_list = <<>>
        /\ free_pages = [z \in Zones |-> <<>>]
        /\ free_count = [z \in Zones |-> 0]
        /\ nonfree = {}
        /\ lists = [l \in Lists |-> <<>>]
        /\ held = {}
        /\ kpages = {}
        /\ call = Idle(0)

-----------------------------------------------------------------------------
(* Which zone an address or a page belongs to. *)

\* Variant: the last frame is taken for the end.
AddressBelongs_Exclusive(a, z) == a \in Base[z]..(Base[z] + Frames[z] - 2)

\* The macro ADDRESS_BELONGS_TO_ZONE.
AddressBelongs(a, z) == a \in Base[z]..(Base[z] + Frames[z] - 1)

\* The macro PAGE_BELONGS_TO_ZONE compares addresses of bytes: the bound it
\* adds to page_array is a number of frames, not of vm_page_t.
PageBelongs(p, z) == p[1] = z /\ p[2] * PageSize < Frames[z]

\* The pages that a look-up of their zone finds.
Window == {p \in Pages : \E z \in Zones : PageBelongs(p, z)}

-----------------------------------------------------------------------------
(* The addresses of a page. *)

\* The paddr_t -1, all of its bits set: above all memory.
NoPaddr == -1

\* The frame of the page; only a page of Window is found in its zone.
vm_page_to_paddr(page) == IF page \in Window THEN FrameOf(page) ELSE NoPaddr

\* The address in the first mapping that reaches pa, if one does.
paddr_to_kvaddr(pa) ==
  LET k == SelectInSeq(mmu_initial_mappings,
                       LAMBDA m : pa \in m.phys..(m.phys + m.size - 1))
  IN  IF k = 0 THEN NULL
      ELSE mmu_initial_mappings[k].virt + (pa - mmu_initial_mappings[k].phys)

\* The pages that have a kernel address.
Addressed == {p \in Pages : paddr_to_kvaddr(vm_page_to_paddr(p)) # NULL}

-----------------------------------------------------------------------------
(* Zones. *)

\* Each zone is added at most once.  A zone without a frame is refused.
pmm_add_zone(z) ==
  /\ call.op = "idle" /\ ~Contains(zone_list, z) /\ Frames[z] > 0
  /\ zone_list' = Append(zone_list, z)
  /\ free_pages' = [free_pages EXCEPT ![z] = [i \in 1..Frames[z] |-> <<z, i-1>>]]
  /\ free_count' = [free_count EXCEPT ![z] = Frames[z]]
  /\ call' = Idle(0)
  /\ UNCHANGED <<nonfree, lists, held, kpages>>

-----------------------------------------------------------------------------
(* Allocation. *)

\* Take the first free page of z and mark it.
TakeHead(z) ==
  /\ free_pages' = [free_pages EXCEPT ![z] = Tail(@)]
  /\ free_count' = [free_count EXCEPT ![z] = @ - 1]
  /\ nonfree' = nonfree \cup {Head(free_pages[z])}
  /\ UNCHANGED zone_list

\* pmm_alloc_page serves from the first zone whose count is positive.
Serves(z) == \E k \in DOMAIN zone_list :
                /\ z = zone_list[k] /\ free_count[z] > 0
                /\ free_pages[z] # <<>>
                /\ \A j \in 1..(k-1) : free_count[zone_list[j]] = 0

\* Variant: only the first zone is asked.
NoPage_FirstZone == zone_list = <<>> \/ ~Serves(zone_list[1])

\* pmm_alloc_page returns PMM_NO_ERROR all the same and leaves *out_page alone.
NoPage == \A z \in Zones : ~Serves(z)

pmm_alloc_page ==
  /\ call.op = "idle"
  /\ \E z \in Zones : /\ Serves(z) /\ TakeHead(z)
                      /\ held' = held \cup {Head(free_pages[z])}
  /\ call' = Idle(1)
  /\ UNCHANGED <<lists, kpages>>

\* The page is returned by its kernel address.  A page without one has been taken
\* all the same, and the caller gets NULL.
pmm_alloc_kpages ==
  /\ call.op = "idle"
  /\ \E z \in Zones :
        LET page == Head(free_pages[z]) IN
        /\ Serves(z) /\ TakeHead(z)
        /\ IF paddr_to_kvaddr(vm_page_to_paddr(page)) # NULL
             THEN kpages' = kpages \cup {page} /\ call' = Idle(1)
             ELSE UNCHANGED kpages /\ call' = Idle(0)
  /\ UNCHANGED <<lists, held>>

\* pmm_alloc_pages with a count of one, and pmm_alloc_kpages, go on to use the
\* pointer that pmm_alloc_page did not assign.  What happens is undefined.
UsePageUnassigned ==
  /\ call.op = "idle" /\ NoPage
  /\ Stop("undefined")
  /\ UNCHANGED memory

\* pmm_alloc_pages(n, l): its fast paths, or the start of its loop.
AllocPagesBegin(n, l) ==
  /\ call.op = "idle"
  /\ \/ /\ n = 0 /\ call' = Idle(0)
        /\ UNCHANGED memory
     \/ /\ n = 1 /\ call' = Idle(1)
        /\ \E z \in Zones :
              /\ Serves(z) /\ TakeHead(z)
              /\ lists' = [lists EXCEPT ![l] = Append(@, Head(free_pages[z]))]
        /\ UNCHANGED <<held, kpages>>
     \/ /\ n > 1 /\ Begin("alloc_pages", n, l, 0)
        /\ UNCHANGED memory

\* The zone the loop is at can give another page.
MoreHere == /\ call.at <= Len(zone_list) /\ call.got < call.want
            /\ free_count[zone_list[call.at]] > 0

\* Variant: the page is not added to the list.
AllocPagesTake_Unlisted ==
  /\ call.op = "alloc_pages" /\ MoreHere
  /\ free_pages[zone_list[call.at]] # <<>>
  /\ TakeHead(zone_list[call.at])
  /\ call' = [call EXCEPT !.got = @ + 1]
  /\ UNCHANGED <<lists, held, kpages>>

AllocPagesTake ==
  /\ call.op = "alloc_pages" /\ MoreHere
  /\ LET z == zone_list[call.at] IN
        /\ free_pages[z] # <<>>
        /\ TakeHead(z)
        /\ lists' = [lists EXCEPT ![call.list] =
                                       Append(@, Head(free_pages[z]))]
  /\ call' = [call EXCEPT !.got = @ + 1]
  /\ UNCHANGED <<held, kpages>>

AllocPagesNextZone ==
  /\ call.op = "alloc_pages" /\ ~MoreHere
  /\ call.at <= Len(zone_list) /\ call.got < call.want
  /\ call' = [call EXCEPT !.at = @ + 1]
  /\ UNCHANGED memory

\* Variant: *count keeps what was asked for.
AllocPagesReturn_KeepsCount ==
  /\ call.op = "alloc_pages"
  /\ call.got = call.want \/ call.at > Len(zone_list)
  /\ call' = Idle(call.want)
  /\ UNCHANGED memory

\* All pages, no more zones, or a count that the free list belies.
AllocPagesReturn ==
  /\ call.op = "alloc_pages"
  /\ \/ call.got = call.want
     \/ call.at > Len(zone_list)
     \/ MoreHere /\ free_pages[zone_list[call.at]] = <<>>
  /\ call' = Idle(call.got)
  /\ UNCHANGED memory

-----------------------------------------------------------------------------
(* pmm_alloc_range(address, n, l): pages of given, consecutive frames. *)

AllocRangeBegin(a, n, l) ==
  /\ call.op = "idle"
  /\ IF n = 0 THEN call' = Idle(0) ELSE Begin("alloc_range", n, l, a)
  /\ UNCHANGED memory

Zone == zone_list[call.at]

RangePage == <<Zone, call.address - Base[Zone]>>

\* The frame at the address is in the zone and its page is not taken.
RangeMore == /\ call.at <= Len(zone_list) /\ call.got < call.want
             /\ AddressBelongs(call.address, Zone)
             /\ RangePage \notin nonfree

\* Variant: list_delete is missing.
UnlinkPage_Skipped(z, page) == UNCHANGED free_pages

\* Take the page out of its free list, wherever in the list it is.
UnlinkPage(z, page) ==
  \E i \in DOMAIN free_pages[z] :
     /\ free_pages[z][i] = page
     /\ free_pages' = [free_pages EXCEPT ![z] = RemoveAt(@, i)]

\* Variant: free_count is not decremented.
AllocRangeTake_NoCount ==
  /\ call.op = "alloc_range" /\ RangeMore /\ call.list # NULL
  /\ UnlinkPage(Zone, RangePage)
  /\ nonfree' = nonfree \cup {RangePage}
  /\ lists' = [lists EXCEPT ![call.list] = Append(@, RangePage)]
  /\ call' = [call EXCEPT !.got = @ + 1, !.address = @ + 1]
  /\ UNCHANGED <<zone_list, free_count, held, kpages>>

AllocRangeTake ==
  /\ call.op = "alloc_range" /\ RangeMore /\ call.list # NULL
  /\ UnlinkPage(Zone, RangePage)
  /\ nonfree' = nonfree \cup {RangePage}
  /\ lists' = [lists EXCEPT ![call.list] = Append(@, RangePage)]
  /\ free_count' = [free_count EXCEPT ![Zone] = @ - 1]
  /\ call' = [call EXCEPT !.got = @ + 1, !.address = @ + 1]
  /\ UNCHANGED <<zone_list, held, kpages>>

\* vm.c passes NULL for the list.  list_add_tail reads through it once the page
\* is off its free list and marked, before free_count is decremented; the page
\* fault handler returns to the same instruction, for ever.
AllocRangeFault ==
  /\ call.op = "alloc_range" /\ RangeMore /\ call.list = NULL
  /\ UnlinkPage(Zone, RangePage)
  /\ nonfree' = nonfree \cup {RangePage}
  /\ call' = [call EXCEPT !.op = "fault"]
  /\ UNCHANGED <<zone_list, free_count, lists, held, kpages>>

\* Variant: a taken page is tried again, not left.
AllocRangeNextZone_Retries ==
  /\ call.op = "alloc_range" /\ ~RangeMore
  /\ call.at <= Len(zone_list) /\ call.got < call.want
  /\ UNCHANGED vars

\* Nothing (more) to take here: the next zone, if there is one.
AllocRangeNextZone ==
  /\ call.op = "alloc_range" /\ ~RangeMore
  /\ call.at <= Len(zone_list) /\ call.got < call.want
  /\ call' = [call EXCEPT !.at = @ + 1]
  /\ UNCHANGED memory

AllocRangeReturn ==
  /\ call.op = "alloc_range"
  /\ call.got = call.want \/ call.at > Len(zone_list)
  /\ call' = Idle(call.got)
  /\ UNCHANGED memory

-----------------------------------------------------------------------------
(* Freeing. *)

\* Variant: the page goes to the first zone, not to its own.
GiveBack_FirstZone(page) ==
  IF \E k \in DOMAIN zone_list : PageBelongs(page, zone_list[k])
    THEN /\ nonfree' = nonfree \ {page}
         /\ free_pages' = [free_pages EXCEPT ![zone_list[1]] = Cons(page, @)]
         /\ free_count' = [free_count EXCEPT ![zone_list[1]] = @ + 1]
    ELSE UNCHANGED <<nonfree, free_pages, free_count>>

\* Variant: the flag is not cleared.
GiveBack_StaysMarked(page) ==
  IF \E k \in DOMAIN zone_list : PageBelongs(page, zone_list[k])
    THEN /\ free_pages' = [free_pages EXCEPT ![page[1]] = Cons(page, @)]
         /\ free_count' = [free_count EXCEPT ![page[1]] = @ + 1]
         /\ UNCHANGED nonfree
    ELSE UNCHANGED <<nonfree, free_pages, free_count>>

\* A page that has been taken off its list goes back to the zone it belongs to.
\* One that is found in no zone is dropped.
GiveBack(page) ==
  IF \E k \in DOMAIN zone_list : PageBelongs(page, zone_list[k])
    THEN /\ nonfree' = nonfree \ {page}
         /\ free_pages' = [free_pages EXCEPT ![page[1]] = Cons(page, @)]
         /\ free_count' = [free_count EXCEPT ![page[1]] = @ + 1]
    ELSE UNCHANGED <<nonfree, free_pages, free_count>>

Counted(page) == IF page \in Window THEN 1 ELSE 0

pmm_free_page(page) ==
  /\ call.op = "idle" /\ page \in held
  /\ GiveBack(page)
  /\ held' = held \ {page}
  /\ call' = Idle(Counted(page))
  /\ UNCHANGED <<zone_list, lists, kpages>>

FreePagesBegin(l) ==
  /\ call.op = "idle"
  /\ Begin("free_pages", 0, l, 0)
  /\ UNCHANGED memory

FreePagesStep ==
  /\ call.op = "free_pages" /\ lists[call.list] # <<>>
  /\ LET page == Head(lists[call.list]) IN
        /\ GiveBack(page)
        /\ call' = [call EXCEPT !.got = @ + Counted(page)]
  /\ lists' = [lists EXCEPT ![call.list] = Tail(@)]
  /\ UNCHANGED <<zone_list, held, kpages>>

FreePagesReturn ==
  /\ call.op = "free_pages" /\ lists[call.list] = <<>>
  /\ call' = Idle(call.got)
  /\ UNCHANGED memory

-----------------------------------------------------------------------------
\* What the callers may ask for.
Request == \/ \E z \in Zones : pmm_add_zone(z)
           \/ pmm_alloc_page \/ pmm_alloc_kpages \/ UsePageUnassigned
           \/ \E n \in 0..MaxCount, l \in Lists : AllocPagesBegin(n, l)
           \/ \E a \in 0..MaxAddress, n \in 0..MaxCount, l \in Lists \cup {NULL} :
                 AllocRangeBegin(a, n, l)
           \/ \E page \in Pages : pmm_free_page(page)
           \/ \E l \in Lists : FreePagesBegin(l)

\* The steps of a call in progress.
Progress == \/ AllocPagesTake \/ AllocPagesNextZone \/ AllocPagesReturn
            \/ AllocRangeTake \/ AllocRangeFault
            \/ AllocRangeNextZone \/ AllocRangeReturn
            \/ FreePagesStep \/ FreePagesReturn

Next == Request \/ Progress

\* Nothing preempts a call: the processor goes on with it.
Spec == Init /\ [][Next]_vars /\ WF_vars(Progress)

-----------------------------------------------------------------------------
(* Properties. *)

Added == Range(zone_list)

FreeSet == UNION {Range(free_pages[z]) : z \in Zones}

Listed(l) == Range(lists[l])

Owned == held \cup kpages \cup UNION {Listed(l) : l \in Lists}

\* Where the processor is stuck in pmm_alloc_range with the page at hand.
Stuck(page) == call.op = "fault" /\ page = RangePage

\* Types; free lists hold pages of their own zone.
TypeOK ==
  /\ zone_list \in Seq(Zones)
  /\ free_pages \in [Zones -> Seq(Pages)]
  /\ \A z \in Zones : Range(free_pages[z]) \subseteq PagesOf(z)
  /\ free_count \in [Zones -> Nat]
  /\ nonfree \subseteq Pages
  /\ lists \in [Lists -> Seq(Pages)]
  /\ held \subseteq Pages /\ kpages \subseteq Pages
  /\ call \in [op : Ops, want : Nat, got : Nat, list : Lists \cup {NULL},
               at : Nat \ {0}, address : Nat]

\* free_count is the length of free_pages, whatever mix of pmm_alloc_page,
\* pmm_alloc_pages, pmm_alloc_range and frees went before: the allocation loops
\* decide by the count and then take from the list.  A fault in the middle of
\* pmm_alloc_range leaves it one too high.
FreeCountMatches ==
  \A z \in Zones :
     free_count[z] = Len(free_pages[z])
                       + IF call.op = "fault" /\ z = Zone THEN 1 ELSE 0

\* VM_PAGE_FLAG_NONFREE is clear exactly on the pages in the free lists:
\* pmm_alloc_range unlinks a page from its free list on the word of the flag.
FlagTellsFree ==
  \A z \in Added : \A p \in PagesOf(z) :
     p \notin nonfree <=> p \in Range(free_pages[z])

\* No page has two owners or is in one list twice: not after a page was given
\* back and served again, nor in the middle of a call.
OneOwner ==
  /\ \A z \in Zones : IsInjective(free_pages[z])
  /\ \A l \in Lists : IsInjective(lists[l])
  /\ \A l, m \in Lists : l # m => Listed(l) \cap Listed(m) = {}
  /\ \A l \in Lists : Listed(l) \cap (held \cup kpages) = {}
  /\ held \cap kpages = {}
  /\ FreeSet \cap Owned = {}

\* A page that no list and no caller knows of has no kernel address: its zone is
\* not found by the page, or no mapping reaches its frame.  The only ways to lose
\* one are to free a page whose zone is not found and to ask for a page without an
\* address by its address.
OnlyWithoutAddressLost ==
  \A z \in Added : \A p \in PagesOf(z) :
     p \in FreeSet \/ p \in Owned \/ p \notin Addressed \/ Stuck(p)

\* pmm_alloc_range returns less than it was asked for only if the next frame is
\* in no zone, or taken, or in a zone that precedes in zone_list the zone of
\* the frame before it.
RangeStopsForCause ==
  [][ call.op = "alloc_range" /\ call'.op = "idle" /\ call.got < call.want =>
        \A i \in DOMAIN zone_list : \A p \in PagesOf(zone_list[i]) :
           FrameOf(p) = call.address =>
              \/ p \in nonfree
              \/ /\ call.got > 0
                 /\ \E j \in DOMAIN zone_list :
                       i < j /\ AddressBelongs(call.address - 1, zone_list[j])
    ]_vars

Looping == call.op \in {"alloc_pages", "alloc_range", "free_pages"}

\* Every call comes to an end: it returns, or faults.
CallEnds == Looping ~> ~Looping

\* What pmm.h says of pmm_free_pages ("Frees pages in the given list") and of a
\* zone ("Once the pages are freed they are added to the free pages list"): a page
\* that its owner no longer has, because pmm_free_pages took it off the list, is
\* free again.
FreedIsFree == [][\A p \in Owned : p \notin Owned' => p \in FreeSet']_vars

\* Where pmm_alloc_page reports success without a page, and its callers go on with
\* a pointer that nobody assigned, there is indeed no free page in any zone.
UnassignedOnlyWhenExhausted == call.op = "undefined" => FreeSet = {}
=============================================================================
