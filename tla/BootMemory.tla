------------------------------ MODULE BootMemory ------------------------------
(***************************************************************************)
(* How the kernel finds its memory: platform_init reads the memory map of  *)
(* the boot loader (init_boot_state), makes a zone of each high region     *)
(* (pmm_zone_init), whose page array comes from the boot time allocator    *)
(* (balloc) at the end of the kernel image, and from then on pages are     *)
(* handed out.  kmain never calls vm_init_preheap, so it is no step here.  *)
(*                                                                         *)
(* Addresses are physical; an address of the kernel image or of a page     *)
(* array stands for the virtual one KERNEL_VMA_BASE above it.  An entry of *)
(* the map, or a zone, is one step.  Sizes are those of the build, scaled  *)
(* down for TLC by the constants.                                          *)
(***************************************************************************)
EXTENDS Integers, SequencesExt

CONSTANTS
  PAGE_SIZE,      \* 4096
  WordSize,       \* 8, to which balloc aligns
  VmPageSize,     \* sizeof(vm_page_t)
  HighMem,        \* HIGHMEM_PADDR, 1 MiB
  MaxZones,       \* the length of mem_high_zones and of phy_zones, 10
  CodeStart,      \* __code_start
  End,            \* __end, the end of the kernel image
  Infos           \* what the boot loader may hand over: sequences of tags

\* A region of physical memory.
Region == [base : Nat, size : Nat]

Entry == [base : Nat, size : Nat, available : BOOLEAN]

Bytes(r) == r.base..(r.base + r.size - 1)

EntriesOf(b) == UNION {Range(b[t].entries) : t \in {t \in DOMAIN b : b[t].mmap}}

ASSUME BootMemoryAssumption ==
  /\ {PAGE_SIZE, WordSize, VmPageSize, HighMem, MaxZones} \subseteq Nat \ {0}
  /\ {CodeStart, End} \subseteq Nat
  /\ Infos \subseteq Seq([mmap : BOOLEAN, entries : Seq(Entry)])

\* A boot loader hands over at most one map, whose entries do not overlap.
ASSUME OneMap ==
  \A b \in Infos :
     /\ \A s, t \in DOMAIN b : b[s].mmap /\ b[t].mmap => s = t
     /\ \A t \in DOMAIN b : \A i, j \in DOMAIN b[t].entries :
           i # j => Bytes(b[t].entries[i]) \cap Bytes(b[t].entries[j]) = {}

VARIABLES
  info,             \* mbt_info: the tags
  pc,               \* "tag", "mmap", "zones", "up", or "overrun"
  tag,              \* the tag init_boot_state is at
  entry,            \* the entry of a map it is at
  count,            \* its local variable: the entries stored
  mem_lower,        \* bst.mem_lower
  mem_high_zones,   \* bst.mem_high_zones and
  num_high_zones,   \* bst.num_high_zones
  index,            \* the loop variable of pmm_zone_init
  phy_zones,        \* the zones added to the pmm, in order
  arrays,           \* their page_array, as regions
  boot_alloc_end,   \* where balloc goes on
  given             \* history: the frames handed out, by their address

boot == <<tag, entry, count, mem_lower, mem_high_zones, num_high_zones>>

zones == <<index, phy_zones, arrays, boot_alloc_end>>

vars == <<info, pc, boot, zones, given>>

Init == /\ info \in Infos /\ pc = "tag"
        /\ tag = 1 /\ entry = 1 /\ count = 0
        /\ mem_lower = 0 /\ num_high_zones = 0
        /\ mem_high_zones = [i \in 0..(MaxZones - 1) |-> [base |-> 0, size |-> 0]]
        /\ index = 0 /\ phy_zones = <<>> /\ arrays = <<>>
        /\ boot_alloc_end = End
        /\ given = {}

ROUND_DOWN(x, align) == x - (x % align)

ROUND_UP(x, align) == ROUND_DOWN(x + align - 1, align)

-----------------------------------------------------------------------------
(* init_boot_state *)

\* Variant: the pointer advances only past a map.
ReadTag_Stays ==
  /\ pc = "tag" /\ tag <= Len(info) /\ info[tag].mmap
  /\ pc' = "mmap" /\ entry' = 1 /\ count' = 0
  /\ UNCHANGED <<info, tag, mem_lower, mem_high_zones, num_high_zones,
                 zones, given>>

\* Go through the entries of a map, or past a tag of another type.
ReadTag ==
  /\ pc = "tag" /\ tag <= Len(info)
  /\ IF info[tag].mmap
       THEN pc' = "mmap" /\ entry' = 1 /\ count' = 0 /\ UNCHANGED tag
       ELSE tag' = tag + 1 /\ UNCHANGED <<pc, entry, count>>
  /\ UNCHANGED <<info, mem_lower, mem_high_zones, num_high_zones, zones, given>>

ReadEnd ==
  /\ pc = "tag" /\ tag > Len(info) /\ pc' = "zones"
  /\ UNCHANGED <<info, boot, zones, given>>

Here == info[tag].entries[entry]

\* Variant: the region that begins right there does not count.
IsHigh_Exclusive(e) == e.available /\ e.base > HighMem

\* The entry becomes a zone.
IsHigh(e) == e.available /\ e.base >= HighMem

ReadEntry ==
  /\ pc = "mmap" /\ entry <= Len(info[tag].entries)
  /\ mem_lower' = IF Here.base = 0 THEN Here.size ELSE mem_lower
  /\ entry' = entry + 1
  /\ IF IsHigh(Here)
       THEN IF count < MaxZones
              THEN /\ mem_high_zones' =
                        [mem_high_zones EXCEPT
                           ![count] = [base |-> Here.base, size |-> Here.size]]
                   /\ count' = count + 1
                   /\ num_high_zones' = num_high_zones + 1
                   /\ UNCHANGED pc
              ELSE \* a store beyond the array, over num_high_zones
                   /\ pc' = "overrun"
                   /\ UNCHANGED <<mem_high_zones, count, num_high_zones>>
       ELSE UNCHANGED <<pc, mem_high_zones, count, num_high_zones>>
  /\ UNCHANGED <<info, tag, zones, given>>

MapEnd ==
  /\ pc = "mmap" /\ entry > Len(info[tag].entries)
  /\ pc' = "tag" /\ tag' = tag + 1
  /\ UNCHANGED <<info, entry, count, mem_lower, mem_high_zones, num_high_zones,
                 zones, given>>

-----------------------------------------------------------------------------
(* pmm_zone_init *)

\* Variant: the end is rounded like the base.
ZoneOf_RoundsUp(r) == [base |-> ROUND_UP(r.base, PAGE_SIZE),
                       size |-> ROUND_UP(r.size, PAGE_SIZE)]

\* Variant: the base is rounded like the size.
ZoneOf_RoundsDown(r) == [base |-> ROUND_DOWN(r.base, PAGE_SIZE),
                         size |-> ROUND_DOWN(r.size, PAGE_SIZE)]

ZoneOf(r) == [base |-> ROUND_UP(r.base, PAGE_SIZE),
              size |-> ROUND_DOWN(r.size, PAGE_SIZE)]

FrameCount(z) == z.size \div PAGE_SIZE

\* Variant: the length is not added.
balloc_end_Short(len) == ROUND_UP(boot_alloc_end, WordSize)

\* Where balloc(len) begins, and where it leaves boot_alloc_end.
balloc_ptr == ROUND_UP(boot_alloc_end, WordSize)

balloc_end(len) == balloc_ptr + ROUND_UP(len, WordSize)

\* Variant: the loop runs once too often.
AddZone_OnePast ==
  /\ pc = "zones" /\ index <= num_high_zones
  /\ index' = index + 1
  /\ UNCHANGED <<info, pc, boot, phy_zones, arrays, boot_alloc_end, given>>

\* A zone, and pmm_add_zone, which refuses one without a frame.
AddZone ==
  /\ pc = "zones" /\ index < num_high_zones
  /\ LET z   == ZoneOf(mem_high_zones[index])
         len == FrameCount(z) * VmPageSize
     IN  IF z.size > 0
           THEN /\ phy_zones' = Append(phy_zones, z)
                /\ arrays' = Append(arrays, [base |-> balloc_ptr, size |-> len])
                /\ boot_alloc_end' = balloc_end(len)
           ELSE UNCHANGED <<phy_zones, arrays, boot_alloc_end>>
  /\ index' = index + 1
  /\ UNCHANGED <<info, pc, boot, given>>

ZonesEnd ==
  /\ pc = "zones" /\ index >= num_high_zones /\ pc' = "up"
  /\ UNCHANGED <<info, boot, zones, given>>

-----------------------------------------------------------------------------
\* The frames of a zone, by their addresses.
FramesIn(z) == {z.base + k * PAGE_SIZE : k \in 0..(FrameCount(z) - 1)}

\* pmm_alloc_page: the lowest frame that is left, of the first zone with any.
HandOut ==
  /\ pc = "up"
  /\ \E i \in DOMAIN phy_zones : \E f \in FramesIn(phy_zones[i]) \ given :
        /\ \A g \in FramesIn(phy_zones[i]) : g < f => g \in given
        /\ \A j \in 1..(i-1) : FramesIn(phy_zones[j]) \subseteq given
        /\ given' = given \cup {f}
  /\ UNCHANGED <<info, pc, boot, zones>>

Boot == ReadTag \/ ReadEnd \/ ReadEntry \/ MapEnd \/ AddZone \/ ZonesEnd

Next == Boot \/ HandOut

\* One processor, from the boot loader straight to the end of platform_init.
Spec == Init /\ [][Next]_vars /\ WF_vars(Boot)

-----------------------------------------------------------------------------
(* Properties. *)

TypeOK ==
  /\ info \in Seq([mmap : BOOLEAN, entries : Seq(Entry)])
  /\ pc \in {"tag", "mmap", "zones", "up", "overrun"}
  /\ {tag, entry} \subseteq Nat \ {0}
  /\ {count, mem_lower, boot_alloc_end} \subseteq Nat
  /\ num_high_zones \in 0..MaxZones /\ index \in 0..num_high_zones
  /\ mem_high_zones \in [0..(MaxZones - 1) -> Region]
  /\ phy_zones \in Seq(Region) /\ arrays \in Seq(Region)
  /\ given \subseteq Nat

\* However the regions begin and end, rounding never makes two zones share a
\* frame, though it rounds the base and the size independently.  The pmm counts
\* on it.
ZonesApart ==
  \A i, j \in DOMAIN phy_zones :
     i # j => Bytes(phy_zones[i]) \cap Bytes(phy_zones[j]) = {}

\* A frame of a zone begins in the region it was made of.  It need not end there:
\* the base moves up and the size does not shrink for it.
FramesBeginInMemory ==
  \A i \in DOMAIN phy_zones : \A f \in FramesIn(phy_zones[i]) :
     \E e \in EntriesOf(info) :
        e.available /\ e.base >= HighMem /\ f \in Bytes(e)

\* Once the zones are made, every whole frame of available high memory is in one,
\* whatever tags and entries came before it.
AllMemoryFound ==
  pc = "up" =>
    \A e \in EntriesOf(info) :
       e.available /\ e.base >= HighMem =>
         \A f \in Bytes(e) :
            f % PAGE_SIZE = 0 /\ f + PAGE_SIZE <= e.base + e.size =>
              \E i \in DOMAIN phy_zones : f \in FramesIn(phy_zones[i])

\* The page arrays do not run into one another or into the kernel image, and each
\* has room for the vm_page_t of every frame.
ArraysApart ==
  \A i \in DOMAIN arrays :
     /\ arrays[i].base >= End
     /\ arrays[i].base + FrameCount(phy_zones[i]) * VmPageSize <= boot_alloc_end
     /\ \A j \in DOMAIN arrays :
           i < j => arrays[i].base + FrameCount(phy_zones[i]) * VmPageSize
                      <= arrays[j].base

\* Booting ends, unless there are more high regions than zones.
BootEnds == <>(pc \in {"up", "overrun"})

\* What vm.c sets out to do ("mark all the kernel pages in use", "mark all the
\* pages used by the boot time allocator as used"): the pmm hands out no frame
\* that holds the kernel or a page array.
KernelKept ==
  \A f \in given :
     /\ f + PAGE_SIZE <= CodeStart \/ f >= End
     /\ \A i \in DOMAIN arrays : \/ f + PAGE_SIZE <= arrays[i].base
                                 \/ f >= arrays[i].base + arrays[i].size
=============================================================================
