# A formal model of rix

rix is a draft of an x86_64 microkernel: about 4500 lines of C and assembly in
one directory, `src/`. This directory models the parts of it that decide
something, checks them with TLC on small instances and proves their central
invariants with TLAPS for instances of any size.

One processor runs, and on the way to the idle loop of `kmain` nothing executes
`sti`: only an exception or an NMI can come between two steps, and only
`exception.S` is written for that. What is hard in the rest of this code is
therefore not concurrency but long sequences of legal calls over shared,
intrusive, unchecked data structures; arithmetic at boundaries; state that is
kept twice, or kept too long; and the order of start-up.

## 1. Inventory

| Component | Source | State | Operations | Module |
|---|---|---|---|---|
| Intrusive lists | `list.h` | `next`, `prev` of every node and head | init, add, replace, delete, remove, split, splice, move, walks | `List`, `ListSpec`, `ListRefinement` |
| Physical memory manager (pmm) | `pmm.c`, `pmm.h` | `zone_list`; `free_pages`, `free_count` of a zone; flags of a page; lists of callers | add a zone; allocate a page, pages, a range, a kernel page; free | `Pmm`, `PmmSpec`, `PmmRefinement` |
| Boot memory | `platform.c`, `balloc.c`, `multiboot2.h` | `bst`, `phy_zones`, `boot_alloc_end` | read the memory map, make zones, allocate at boot | `BootMemory` |
| Init stage hooks | `init.c`, `init.h`, `main.c` | the sorted section of hooks, `init_hook_cur`, `stage` | sort, run up to a stage | `InitHooks` |
| Sort | `qsort.c` | the array, four moving pointers, pending segments | partition, insertion sort, pivot choice | `Qsort` |
| Virtual memory set-up | `vm.c`, `vmm.c` | `aspace_list` | mark the kernel's frames in use | part, in `Pmm` and `BootMemory` |
| Boot page tables | `start.S`, `ptable.h` | page tables, CR0, CR3, CR4, EFER, TLB | build, enable, jump high, unmap low | `BootPaging` |
| MMU set-up and queries | `mmu.c`, `mmu.h`, `arch.c` | CR0, CR4, EFER (reads page tables) | enable features, walk, query | `Mmu` |
| Exceptions, interrupts | `exception.S`, `irq.c`, `interrupt.c` | IDT, `int_table`, the frame on the stack, registers, the interrupt flag | `setup_idt`, register, enter, dispatch, return | `Exceptions` |
| Formatted output | `printf.c` | flags, width and precision of a conversion; the bounded buffer | scan a format, pad and cut, terminate | `Printf` |
| Text console, console registry | `console.c`, `debug.c`, `kernel/console/` | cursor; the list of consoles | put a character | not modelled |
| Kernel heap | `kheap.c`, `pgalloc.c` | free chunks, `remaining` | insert a chunk; `malloc` and `free` are empty | not modelled |
| Memory and string functions | `string.c` | | fill, copy | not modelled |
| Processors, threads | `processor.c`, `thread.*`, `cpu_data.*`, `cswitch.S`, ... | counted lists of a processor set | assign, remove; no scheduler exists | not modelled |
| Locks, local APIC, PIC | `spinlock.h`, `mutex.h`, `lapic.c`, `pic.c` | | unused declarations and stubs | not modelled |

**How they interact.** `start.S` builds page tables, enters 64-bit mode, loads the
IDT and calls `kmain` (`main.c`). `kmain` sorts the hooks (`init_hooks_init` calls
`qsort`), runs those up to `INIT_STAGE_VM`, sets up the MMU, and calls
`platform_init`. That reads the boot loader's memory map, and gives each region
above 1 MiB to the pmm, which takes its page array from `balloc`. Every collection
is a list of `list.h`: the pmm moves pages between the free list of a zone and lists
of its callers. A fault anywhere enters through `exception.S`, whose handler returns
to the same instruction. `vm.c` would then use `x86_mmu_query` and `pmm_alloc_range`
to mark the kernel's own frames, but nothing calls it.

**Not linked** by the `Makefile`: `pic.c`, `cswitch.S`, `processor.c`, `lapic.c`
and `kernel/console/kprint.c`. Never called by code that is linked:
`vm_init_preheap`, `kheap_init`, `register_isr`, `thread_init_early`, `printf.c`,
`pmm_alloc_range` except through `vm.c`. What is linked is modelled as its header
offers it to callers.

**Hard behaviours**, in the order of their weight here:

1. *Sequences of calls* on lists and pages: entries of one list that lead into
   another, a page with two owners, a page nobody knows of.
2. *Redundant state*: `free_count` beside `free_pages`, `VM_PAGE_FLAG_NONFREE`
   beside both, `init_hook_cur` beside the loop's iterator, `num_high_zones`
   beside `count`.
3. *Partial failure*: a range that is cut short, a fault between two stores.
4. *Boundaries*: the end of `page_array`, a region that begins or ends inside a
   frame, `stage - 1` of an unsigned, the pointers of a partition.
5. *Order of start-up*: hooks, zones before use, frames taken before they are
   handed out.
6. *Interruption* at any step of an entry or exit, on the same stack.
7. *State that outlives its use*: the flags of a conversion, a character read and
   not consumed, a translation in the TLB, a pivot that points into the array.
8. *Termination* of loops over lists that are being changed, of the walk over
   tags, of the sort, of start-up.

`PROJECT.json` lists each hazard at its line with the properties that cover it,
or the reason why none does.

## 2. The modules

### List, ListSpec, ListRefinement, MCList, ListProofs

`List` has one variable per pointer field, a function over all cells (heads and
entries, which are one type in the code), and one action per function of `list.h`
that stores. What `list.h` requires of its callers and never tests (do not add an
entry twice, do not initialise a head with entries) is in guards named
`Contract_...`, read off its comments and its uses. `on` is a history variable:
the list an entry was put on. `Visit` is the walk of `list_for_each`.

`ListSpec` has no pointers: each head names a sequence. `ListRefinement` maps the
pointers to the sequence that a forward walk meets and states that `List`
implements `ListSpec` (`ImplementsListSpec`), and that each function is the
operation its comment names, in its place (`EachAsNamed`): a step of `List` may
otherwise be *some* step of `ListSpec`, such as an insertion at the wrong end.
`MCList` adds the symmetry for TLC.

### Pmm, PmmSpec, PmmRefinement, MCPmm, PmmProofs

`Pmm` uses sequences for lists, which `List` justifies. A call that loops
(`pmm_alloc_pages`, `pmm_alloc_range`, `pmm_free_pages`) takes a step per
iteration, with the locals of the call in `call`, so that a fault in the middle
leaves the state it would leave. A call on the fast path is one step. Addresses
count frames; `PageSize` is `sizeof(vm_page_t)`, because the code confuses bytes
and elements (`pmm.c:17`) and what follows depends on that number.

A kernel page is given out by its address, in two steps that can fail apart:
`vm_page_to_paddr` finds the zone of the page (through `PAGE_BELONGS_TO_ZONE`, so
only inside `Window`), and `paddr_to_kvaddr` the entry of `mmu_initial_mappings`
that holds the physical address. `Addressed` are the pages that get through both;
for any other one `pmm_alloc_kpages` returns NULL when the page has already left the
free list. The table is a constant: `start.S` and `platform.c` fix it before the pmm
runs.

Two steps end the machine's progress. `AllocRangeFault` is the NULL list that
`vm.c` passes: the fault strikes between `pmm.c:157` and `:161`, and the page
fault handler returns to the same instruction for ever. `UsePageUnassigned` is
what the callers of `pmm_alloc_page` do when it returns success without a page,
because no zone has one or because there is no zone.

Not modelled: `pmm_alloc_kpages` for a count other than one, which falls off the end
of a function that returns a pointer, and `paddr_to_vm_page`, which is called only
under `#if 0`.

`PmmSpec` is the promise to callers: sets of pages change hands in one step, and the
count returned is true. A kernel page without an address changes hands and leaves
the caller nothing: the promise says so, since that is all it can say
(`OnlyWithoutAddressLost` is the price). `PmmRefinement` is the refinement mapping:
what an allocation in progress has taken (`Taken`) stays free until the call
returns, and what `pmm_free_pages` is still to give back (`ToGiveBack`) is free from
the start, so that the loops stutter and the call is one step, at its return or at
its start.

### BootMemory, MCBootMemory, BootMemoryProofs

From the tags of the boot loader to the first frames handed out: each tag, entry
and zone is a step of `init_boot_state` and `pmm_zone_init`; `balloc_ptr` and
`balloc_end` are `balloc`. Addresses are numbers, so that rounding is the
rounding of the code. `given` is a history variable of the frames handed out.
The model ends in `pc = "overrun"` where the code would store beyond
`mem_high_zones`. A boot loader is assumed to hand over at most one map, whose
entries do not overlap (`OneMap`); tags have a size of their own, not zero.

`BootMemoryProofs` proves of `BootMemory` what `Pmm` assumes of its zones
(`DisjointZones`).

### BootPaging, Mmu, BootPagingProofs

`BootPaging` is `start.S` from `_start` to the call of `kmain`, with one step per
store or iteration of a loop. The four tables and the array of 64 lie one after
the other in `.bss.ptables`; memory is one function of the places of their
entries, so that a loop that runs too far writes where the code would. An entry
has a low and a high word, because the code stores them apart: `Link` stores the low
word of an entry that leads to a table and leaves the high one. The module also has
a processor: `Walk` follows the entries from CR3, and while paging is on, `Cache`
may at any time put into the TLB what a walk finds and `Evict` may drop it, as the
architecture allows. `mmu_initial_mappings` is the table of `platform.c` that
tells the rest of the kernel what `start.S` has mapped.

`Mmu` extends it to `arch_init`: `x86_mmu_init` sets the bits it sets on a processor
with any subset of the features it tests for, sets bits of, or is meant to
(`Features`, named by what the bits mean to the processor, not by the macros of
`x86.h`), and stays at the instruction that is refused. `x86_mmu_get_mapping` and
`x86_mmu_query` are functions of the state and walk the tables that `BootPaging`
built, beside its `Walk`. A walker of `mmu.c` leaves the flag bits of an entry in
the address of the next table, with P and RW set by `start.S` and A by the processor
that walked through it, so that the next entry is read 35 bytes too far: `Misread`
says which bit of it is then taken for P. The runs of `BootPaging`'s properties use
`Mmu`, so that they hold through `arch_init` too, and so do the theorems of
`BootPagingProofs`.

Assumed of the boot loader: paging is off, CR4 has no PGE, the kernel lies in the
first pages (`Image`), below 16 MiB (`TablesLow`), and the bss holds anything
(`Junk`) or zeros. `setup_idt` is in `Exceptions`: it changes no mapping.

### Exceptions, ExceptionsProofs

A step is an instruction of `exception.S`, or a C function of `irq.c` and
`interrupt.c` that makes no difference to stack and registers inside. `rip` is a
label and how far the sequence behind it has got: `Save` pushes register after
register in the order of the source (`Pushed`), `Restore` pops in its own order
(`Popped`), and the handler reads the frame by the fields of a third file
(`Fields`). `SetupIdt` computes the offset of each descriptor as the code does,
from the length of the *last* stub; the stubs themselves lie at the sums of their
lengths (`_isr`). `Deliver` is the processor: any exception or NMI at any step,
any device while the flag is set, pushing a return frame and the error code that
the architecture pushes for the vector. `held` is a history variable of what was
interrupted. `Preserved` is the calling convention: C may lose the others.

Device callbacks return and do not enable interrupts. Vector 21 (#CP), which
pushes a code on processors later than this code, is not among the vectors. An
entry before `setup_idt` has run is not modelled: there is no IDT then.

### Printf, PrintfProofs

The format is not given beforehand: `fmt` is the character at the pointer, and
moving on meets any character, the terminator, or, behind it, what lies there
(`Past`), so that a run stands for every format over the letters of `Letters`. `-`
and `#` set flags that a branch tests; `+` and the space are read as flags too, but
nothing tests for them (both are `plus` in `FlagOf`). `c` and `fmt` are kept apart
because the code is: the character behind the flags is read and not consumed.
`flags` begins as anything and is never reset. A step is one iteration of a loop or
one branch of the scanner; a conversion's output is one step, with its length, since
`vsnprintf_internal` does with n characters what `Put` does; their number,
`printed`, is not bounded by the model, where the code's `int` overflows at 2^31.
Numbers are fetched, and `base`, `ntype` and `padc` set, but the code never prints
them, so these are left out, as are which argument is fetched and its value.

### InitHooks, MCInitHooks

The section of hooks is a sequence; `init_hooks_init` leaves any arrangement that
`hook_cmp` accepts, since `qsort` is not stable. A step enters a hook and another
one returns from it, so that what a hook can see of `stage` is a state. `stage`
is unsigned (`Wrap`; the model uses 256 for 2^32, which changes nothing but the
size of a number). Hooks do not call `kernel_init_upto` themselves.

### Qsort, MCQsort, QsortProofs

`qsort.c` pointer by pointer: `pa`, `pb`, `pc`, `pd` move in steps of their own,
the insertion sort below seven elements sinks one element per step, and segments
left to sort are a sequence. Whether the pivot is copied or stays in the first
cell (`PVINIT`, which depends on size and alignment) is chosen at the start.
Elements are numbers; how an element is swapped byte by byte is not modelled.

## 3. The runs

| Run | Shows | Instance |
|---|---|---|
| `list` | types, pointers inverse, lists apart, implements `ListSpec`, each function as named | 2 heads, 4 entries, symmetric |
| `pmm` | counts, flags and lists agree; one owner; only pages without a kernel address are lost outside a fault and a failed free; success without a page only when there is none; ranges; every call ends; implements `PmmSpec` | 2 adjoining zones of 3 and 1 frames in either order, 2 lists, counts up to 3 |
| `pmm_lost` | **violation**: `pmm_free_page` gives a page back and it is on no free list | same |
| `init` | the stage is truthful, hooks run once and in order, for the right call; calls return | 5 hooks, stages 0, 2 and 4, any calls |
| `qsort` | pointers stay in the segment and in order, the partition, order across segments, no element lost, the end | all arrays of up to 8 elements over 3 values, 7 arrays of 41 |
| `boot_memory` | zones apart, inside memory, complete; page arrays apart; booting ends | all maps of low memory and up to 2 regions over 12 addresses (frames of 4), one map too long |
| `boot_kernel` | **violation**: the pmm hands out the kernel's frames | same |
| `boot_paging` | the running code, its stack and GDT stay mapped, `kmain` gets exactly the mappings of `platform.c`, no walk meets an entry nobody wrote | tables of 8 entries, 3 tables in the array, 2 cached translations, every set of features |
| `mmu_query` | **violation**: `x86_mmu_query` finds no mapping for an address that is mapped | same |
| `mmu_protections` | **violation**: `arch_init` does not get through with the protections on that the processor has | same |
| `printf` | the buffer is kept and terminated, the format is read within its end, a field is as wide as it says | formats of up to 6 characters, buffers of 0, 1 and 3, strings of 0 and 3 |
| `exceptions` | the frame is true, what is interrupted resumes as it was, no callback inside another | 6 vectors of 40, nested twice |

**Why the bounds are enough.** *List*: an operation touches at most four cells; with
four entries on two heads every one of them has cells before, between and behind,
and both lists can hold several. *Pmm*: three frames with `PageSize = 2` put a frame
inside the look-up's window and one outside; the frame of the second zone is found
and lies in no mapping, so that both look-ups of a kernel page fail without the
other; the second zone makes a range cross zones in order and against it; a count of
three exceeds a zone's window, two lists let one caller's free meet another's.
`MaxAddress = 4` includes the last frame, and a range of three from it the first
address that is in no zone. *InitHooks*: two hooks equal under `hook_cmp`, a third
of their stage, a later and an earlier stage, and calls for stages in any order.
*Qsort*: the insertion sort takes up to six, so with seven and eight partitions and
their segments occur at every shape; 41 is one more than the threshold of the median
of nine. Three values are what a three-way partition tells apart. *BootMemory*:
bases and sizes run through every residue of the frame size, regions adjoin, leave a
gap smaller or larger than a frame, come in either order, are smaller than a frame.
*BootPaging*: a level has 8 entries instead of 512. The low word holds pages up to
`Split = 9`: more than one table maps (so that the low word of `boot_pd_table` is
enough, as in the code) and fewer than the 24 of the array (so that its high words
matter). `KernelSlot` is beyond the entries of the array. One stale translation
refutes any of the properties; the TLB holds two. *Mmu*: `Bit24` is what makes an
entry of a page below 16 MiB misread as not present, and all pages of `Image` lie
below it. *Printf*: six characters hold a percent sign, a flag, a width, a point and
a precision, and two conversions that share flags; `Word` is 256 for 2^32, so that a
width of three digits wraps; a buffer of 0 wraps `size - 1`, one of 1 has room for
the terminator only; widths and precisions through `*` are 0, 1 and the largest.
*Exceptions*: `NUM_ISR` of 40 and a `ShortPush` of 36 for 256 and 128, so that both
lengths of stub occur; the vectors have and have not an error code, are exceptions,
an NMI and devices on either side of `ShortPush`; two entries at a time meet one
another at each of their nearly forty steps, and a third would meet the second as
the second meets the first, which `ExceptionsProofs` shows for any depth.

**Deadlock** is checked where the system can always go on (lists, hooks,
exceptions). It is not where it may stop: in a fault or undefined behaviour
(`Pmm`), after the sort (`Qsort`), when all memory is handed out (`BootMemory`),
behind `arch_init` or at a refused instruction (`Mmu`), at the end of a format
(`Printf`).

**Fairness** is weak fairness of the steps of a call in progress, nothing else.
It is justified because one processor runs, nothing preempts it, and no call
waits for anything. `InitHooks` assumes in addition that hooks return. Callers
owe nothing: no fairness on requests. `Mmu`, `Exceptions` and `Printf` assume none
and state no liveness: an NMI may come for ever.

## 4. The proofs

`tlapm` proves, for any sets of heads, entries, zones, any sizes and bounds:

* **`ListProofs`**: `TypeCorrect`, `Linked`, `Separate`, `NoRing`, `Named`,
  `Implements`. The inductive invariant `IInv` is `TypeOK`, `WellLinked` (next and
  prev are inverse around every cell in use and lead to cells in use), `SameList`
  (neighbours are on the same list) and `Ascending`: there is a numbering of the
  entries that climbs along next until the head. `WellLinked` and `SameList` alone
  are not inductive for `list_splice_after` and `list_split_after`: a list with a
  ring of entries beside it satisfies both, and a split would tear the ring. Each
  operation renumbers; a splice puts the numbers of one list between those of the
  other. `Named` and `Implements` are the refinement of `ListSpec`. For them the
  invariant is joined by `Held`: there are sequences, one for each initialised head,
  along which the pointers lead, forward and back (`Holds`, `Chained`), the entries
  of each being those that `on` has on that list. For each function a lemma shows
  that the new pointers lead along the sequence that `ListSpec` makes of the old one
  (`AddedTo`, `ReplacedIn`, `UnlinkedFrom`, `SplitAt`, `SplicedInto`, `MovedTo`) and
  that no other head's cells are written (`Untouched`). That the sequence of the
  mapping, which a walk of `list_for_each` defines by recursion, is that sequence is
  `WalkOfList`: a walk exists (`WalkExists`) and meets entry i after i advances,
  since there is no least place at which it would not (`Smallest`, which takes the
  place of induction); it is back at the head after as many advances as there are
  entries, and not before. Assumptions: `ListAssumption` (heads, entries and NULL
  are different things), `RefinementAssumption` (finitely many cells, as
  `list_length` must end, and NULL is no sequence).

* **`PmmProofs`**: `TypeCorrect`, `CountsAgree`, `FlagsAgree`, `SingleOwner`,
  `LossBounded`, `UnassignedExhausted`, `RangeStops`, `KeepsPromise`. The invariant
  has five parts: what a free list is (`FreeInv`), who owns what (`OwnInv`), what
  can be lost (`KeptInv`, by `Addressed`), what the counts say (`CountInv`) and what
  a call in progress relies on (`CallInv`). The lemmas say what taking the head,
  removing an element, putting one in front and appending do to the elements, length
  and injectivity of a sequence; `AddressedFound`, that a page with a kernel address
  is one that its zone finds. That an unassigned page means that nothing is left is
  an action property: `pmm_alloc_page` looks for a count that is not zero, and where
  every count is zero `CountInv` makes every list empty (`NothingLeft`).
  `RangeStops` needs to know of the zones that `pmm_alloc_range` has passed that
  none of them had the next frame free, unless they precede the zone of the frame
  before (`Passed`). `KeepsPromise` is the refinement of `PmmSpec`: every step of
  `Pmm` is a step of `PmmSpec` or a stutter (`NextRefines`, one lemma per call). Two
  facts carry it. The free pages are those of the zones added that are not marked
  (`Unmarked`), so that what happens to the set of free pages can be read off the
  marks instead of the lists. And what a call has taken is the last `got` pages of
  the caller's list, as many as `got` says, of consecutive frames if it is a range,
  while the zones that `pmm_alloc_pages` has passed are empty (`Taking`): hence it
  returns all it was asked for or all there were. Assumptions: `PmmAssumption`,
  `MappingsAssumption` (the table is finite and NULL is the address of nothing),
  `DisjointZones`.

* **`InitHooksProofs`**: `TypeCorrect`, `HooksInOrder`, `StageTellsTruth`,
  `CallsRunTheirHooks`. The section holds every hook once (`Arranged`) in the order
  of `hook_cmp` (`Sorted`), and what has run is the part of it before the cursor
  (`Prefix`, `Cursor`); `StageTruthful` holds because the loop ends only at a hook
  of a later stage, behind which `Sorted` leaves no earlier one. Assumption:
  the hooks are a finite set.

* **`BootMemoryProofs`**: `TypeCorrect`, `DisjointZones`, `DisjointArrays`,
  `FramesAreMemory`, `NoMemoryMissed`. First
  arithmetic: the base of a region rounded up plus its size rounded down is at most
  the base of the next one rounded up (`EndBeforeBase`), since both are multiples
  of the frame size less than one frame apart; hence zones of disjoint regions are
  disjoint (`ZoneOfApart`). Then the invariant: the regions stored come from
  entries of the map in their order, none twice (`Scan`), so they are disjoint
  (`RegionsApart`); zones are made of them in order (`Made`); and an array begins
  where the ones before it have ended (`ArraysInv`). For the last two, `Found`
  adds where everything comes from and goes to: every region stored is that of an
  available high entry (`Sources`); every such entry that was passed is stored, and
  every region that was passed is a zone unless no frame is in it (`Complete`). What
  is left is arithmetic again: a frame of a zone begins in its region
  (`FrameBegins`), and a whole frame of a region is a frame of its zone
  (`FrameFound`). Assumptions:
  `BootMemoryAssumption`, `OneMap`: with two maps `count` would restart at zero
  while `num_high_zones` goes on.

* **`QsortProofs`**: `PointersStay`, `PartitionTrue`, `OrderedThroughout`,
  `NothingLost`, `SortedAtLast`, for arrays of any length and either way of keeping
  the pivot. Sinking, exchanging and block swaps are permutations of an interval
  (`Rearranged`, with the inverse as a witness), which keep the number of
  occurrences of each value and leave the rest of the array alone (`Within`,
  `SameOccurrences`). The invariant adds to the four checked ones that the segments
  to be sorted lie one behind the other (`TodoInv`), that the insertion sort has
  sorted up to `pm` (`InsertInv`), and that the pivot is at the front and, when `pc`
  moves down, `pb` stands at a greater element (`PivotInv`): without that, the step
  that exchanges them when they have just met could not be excluded. Whatever is
  moved inside the first segment, elements that are not both in it stay in order
  (`KeepsOrder`); inside it, the block swaps at the end of a partition leave lesser,
  equal and greater elements in this order (`Gathered`), and the calls left cover
  the first and the last of them. Assumption: `QsortAssumption` (an input is a
  finite array).

* **`PrintfProofs`**: `BufferSafe`, `FormatRead`, `FieldFilled`, for any formats,
  sizes but zero (which `BufferKept` excludes), widths and words. The invariant:
  width and precision are in the word (`NumInv`), the place in the buffer
  (`BufferInv`), and that `c` is the character at the pointer or the one before it
  (`ScanInv`), which is why only a character whose branch reads on can step over the
  terminator. Assumption: `PrintfAssumption`.

* **`ExceptionsProofs`**: `FrameIsTrue`, `ResumesAsItWas`, `NoReentryEver`, for any
  table of vectors and any depth of nesting. First the stubs: each takes 16 bytes
  whichever push it has, so that the length of the last one times the vector is
  where the vector's stub is (`StubPlace`). Then the stack: above what was there at
  the interruption lie the first so many words of a complete entry, how many of them
  is a function of the place of the processor (`Height`), and the registers are as
  they were except where the handler or the pops have them. `TopInv` says this of
  the running entry, `ChainInv` of each entry and the one that it interrupted,
  since an entry keeps the state it interrupted; the return from one makes the
  `ChainInv` of the next the `TopInv`. Assumption: `ExceptionsAssumption`.

* **`BootPagingProofs`**: `KernelMapped`, `NeverLedAstray`, `KmainMappings`, of
  `MmuSpec`, for tables of any length (on the processor 512 entries, and 2^27 pages
  of 2 MiB) and any bound on the TLB. The invariant says what is in every entry of
  every table at every label, a loop's own table up to the entry it is at (`Tables`,
  `LoopInv`; a store of the low word leaves zeros in the high one, since the bss was
  cleared, `LinkOverNothing`); from that, what a walk finds for a linear page given
  by its three indices (`WalkFinds`), every page having three (`PlaceFound`); from
  that, what the TLB can hold: what a walk finds now, or, between the unmapping of
  low memory and the load of CR3, a low page (`TlbInv`). The flush drops the latter
  because CR4 has no PGE. That a low page and a high one are never the same linear
  page is arithmetic on the indices. Assumption: `BootPagingAssumption`.

**Only model-checked**: liveness (`CallEnds`, `UptoReturns`, `Ends`, `BootEnds`),
which is out of the prover's reach with its fairness.

## 5. What disagrees

Shown by a run (`PROJECT.json` has the quotations):

* `PAGE_BELONGS_TO_ZONE` adds a number of frames to an address in bytes
  (`pmm.c:17`): a page beyond the first 1/24 of a zone cannot be freed.
* Nothing keeps the kernel's frames from being handed out (`main.c:20`).
* `x86_mmu_query` finds nothing (`mmu.c:73`): every walker returns the entry with
  its flags, and the next one takes it for an address.
* `x86_mmu_init` turns on other protections than it says (`mmu.c:406`). Bits 21 and
  22 of CR4 are SMAP and PKE, where `x86.h:11-12` has SMEP and SMAP; the CPUID bits
  tested are those of FDP and ADX; 0x1000 of EFER is SVME, where `x86.h:17` has NXE.
  Where the processor lacks the feature the write is refused, and start-up ends
  there.

Stated by a property that holds, or seen while modelling:

* `hook_cmp` puts the lower priority first (`init.c:26`), where `init.h:53-54` says
  that hooks with higher priority are called earlier. `OnceInOrder` holds of the
  order of the code; no hook of the repository shares a stage with another.
* `list_replace` leaves the pointers of the entry it replaces (`list.h:91`).
* `pmm_alloc_page` reports success when there is no page (`pmm.c:129`), and only
  then (`UnassignedOnlyWhenExhausted`).
* `pmm_alloc_kpages` drops a page whose address it cannot find (`pmm.c:285`), and
  `pmm_free_kpages` gives nothing back. `OnlyWithoutAddressLost` says that, apart
  from `pmm.c:17` and the fault of `pmm.c:159`, no other page is lost.
* `paddr_to_vm_page` (`pmm.c:320-331`) passes a physical address to
  `PAGE_BELONGS_TO_ZONE`, which compares it with addresses of `page_array`: it would
  find the zone of no frame, or a wrong one. Only code under `#if 0` calls it.
* `flags` of `__printf_internal` is never initialised nor reset; the character
  behind the flags is read twice; `%s` falls through to the numbers, which fetch
  another argument; a size of zero is no bound (`BufferKept` excludes it).
* `mark_pages_in_use` (`vm.c`) queries `va` for every offset.
* `memset` (`string.c`) does not count down the bytes it stores as words: its last
  loop stores as many again behind them. The only linked call clears a new page
  array, behind which nothing is allocated yet.
* `cswitch.S` moves `rbp` over `rsp` before it pushes, and `pic_send_eoi` tests `irq
  > 8` where the slave's interrupts begin with 8; neither is linked.
* `heap_insert_free_chunk` puts a chunk that no chunk follows at the front of the
  list, where the loop above it keeps the list in the order of addresses. It is
  called once, with an empty list.

## 6. Plan

What is left, the most consequential first:

1. Composition: `Pmm` with the lists of `List` for its sequences, which
   `Implements` of `ListProofs` justifies.
2. Composition: `Pmm` with the zones that `BootMemory` makes, instead of the
   assumption that `DisjointZones` of `BootMemoryProofs` justifies.
3. When the code grows callers for them: the heap (order of addresses, merging,
   `remaining`), processor sets and threads (counts against lists, composed from
   `List`), the context switch (the frame, as in `Exceptions`), the PIC.

## 7. Not modelled, and why

* **Declarations without a body or a caller**: locks, mutexes, the local APIC, the
  scheduler, tasks. `processor.c`, `pic.c`, `lapic.c`, `cswitch.S` and `kprint.c`
  are not linked.
* **The heap**: `kheap_malloc` and its siblings are empty, `kheap_init` has no
  caller; there is one state.
* **The console**: two fixed strings are printed at start-up and nothing else calls
  `put_char`; the cursor takes a single path.
* **The loop of `mark_pages_in_use`**: nothing runs it. What a step of it does is in
  `Pmm` (`AllocRangeFault`) and `Mmu` (`x86_mmu_query`).
* **Stateless code**: `string.c`, the accessors of `x86.h`, `x86_mmu_check_vaddr`
  and `x86_mmu_check_paddr`, which have no caller.
* **Code under `#if 0`**: `pmm_alloc_contiguous`, `x86_mmu_map_addr` and its
  helpers.
* **Build files** are not part of the running system.
