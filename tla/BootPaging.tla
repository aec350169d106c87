------------------------------ MODULE BootPaging ------------------------------
(***************************************************************************)
(* start.S from the boot loader to kmain: the stores that build the boot   *)
(* page tables, the switch to paging while running at low addresses, the   *)
(* jump to high ones, and the unmapping of low memory.                     *)
(*                                                                         *)
(* The tables lie one after the other (.bss.ptables), so memory is a       *)
(* function of the place of an entry, and the loops store through %esi.    *)
(* Memory is counted in pages of 2 MiB; a linear address is the number of  *)
(* its page.  While paging is on the processor may at any time put into    *)
(* the TLB what a walk finds, or drop it.                                  *)
(***************************************************************************)
EXTENDS Integers, FiniteSets, TLC

CONSTANTS
  NUM_PT_ENTRIES,   \* 512; a level is a factor of it
  KernelSlot,       \* 510, where KERNEL_VMA_BASE is in boot_pdp_high_table
  PdeTables,        \* 64, the tables of boot_pde_array
  Split,            \* 2048, the pages that the low word of an entry can name
  Image,            \* the pages that hold the kernel
  MaxTlb            \* bound on the translations cached

N == NUM_PT_ENTRIES

ASSUME BootPagingAssumption ==
  /\ {N, PdeTables, Split} \subseteq Nat \ {0} /\ MaxTlb \in Nat
  /\ KernelSlot \in Nat /\ PdeTables <= KernelSlot /\ KernelSlot < N /\ N <= Split
  /\ Image \subseteq 0..(N - 1)

\* Where the tables begin.
boot_pml4_table     == 0
boot_pdp_table      == N
boot_pdp_high_table == 2 * N
boot_pd_table       == 3 * N
boot_pde_array      == 4 * N
ptables_end         == (4 + PdeTables) * N

\* An entry.  A table or a page is in the low word; high is the high word.
Nothing == [kind |-> "nothing", low |-> 0, high |-> 0]

Junk == [kind |-> "junk", low |-> 0, high |-> 1]

ToTable(at) == [kind |-> "table", low |-> at, high |-> 0]

Kinds == {"nothing", "junk", "table", "page"}

VARIABLES
  pc,        \* the label or, between labels, the next thing done
  mem,       \* the entries of all tables
  esi, eax,  \* the registers of the loops
  cr4, efer, cr3, cr0,
  rip, rsp,  \* whether code and stack are addressed low or high
  gdtr,      \* the same of the GDT, or "none"
  tlb        \* what is cached: pairs of linear and physical page

regs == <<esi, eax, cr4, efer, cr3, cr0, rip, rsp, gdtr>>

vars == <<pc, mem, regs, tlb>>

\* What the boot loader leaves: no paging, and anything in the bss.
Init == /\ pc = "_start"
        /\ mem \in {[c \in 0..(ptables_end - 1) |-> e] : e \in {Nothing, Junk}}
        /\ esi = 0 /\ eax = 0
        /\ cr4 = {} /\ efer = {} /\ cr3 = -1 /\ cr0 = {}
        /\ rip = "low" /\ rsp = "none" /\ gdtr = "none"
        /\ tlb = {}

Paging == "PG" \in cr0

-----------------------------------------------------------------------------
(* The processor. *)

None == -1       \* not mapped
Wild == -2       \* led by an entry that nobody wrote

\* The table that the entry at c leads to.
Follow(c) == CASE mem[c].kind = "nothing" -> None
               [] mem[c].kind = "table" /\ mem[c].high = 0 -> mem[c].low
               [] OTHER -> Wild

\* The page that the walk for linear page v ends in.
Walk(v) ==
  LET i4  == v \div (N * N)
      i3  == (v \div N) % N
      i2  == v % N
      pdp == Follow(cr3 + i4)
      pd  == IF pdp < 0 THEN pdp ELSE Follow(pdp + i3)
  IN  IF pd < 0 THEN pd
      ELSE CASE mem[pd + i2].kind = "nothing" -> None
             [] mem[pd + i2].kind = "page" ->
                  mem[pd + i2].high * Split + mem[pd + i2].low
             [] OTHER -> Wild

Linear == 0..(N * N * N - 1)

\* A walk that nobody asked for.
Cache(v) == /\ Paging /\ Walk(v) # None /\ Cardinality(tlb) < MaxTlb
            /\ tlb' = tlb \cup {<<v, Walk(v)>>}
            /\ UNCHANGED <<pc, mem, regs>>

Evict == /\ \E t \in tlb : tlb' = tlb \ {t}
         /\ UNCHANGED <<pc, mem, regs>>

\* What an access to v may meet.
Translations(v) == {Walk(v)} \cup {t[2] : t \in {t \in tlb : t[1] = v}}

-----------------------------------------------------------------------------
(* start.S. *)

LowGdt == /\ pc = "_start" /\ pc' = ".Lclear_bss"
          /\ gdtr' = "low" /\ rsp' = "low"
          /\ UNCHANGED <<mem, esi, eax, cr4, efer, cr3, cr0, rip, tlb>>

\* Variant: only the stack is cleared.
ClearBss_StackOnly ==
  /\ pc = ".Lclear_bss" /\ pc' = ".Lenable_paging64"
  /\ UNCHANGED <<mem, regs, tlb>>

ClearBss == /\ pc = ".Lclear_bss" /\ pc' = ".Lenable_paging64"
            /\ mem' = [c \in DOMAIN mem |-> Nothing]
            /\ UNCHANGED <<regs, tlb>>

\* Variant: global pages are enabled with it.
EnablePae_AndGlobal ==
  /\ pc = ".Lenable_paging64" /\ pc' = ".Lsetup_paging"
  /\ cr4' = cr4 \cup {"PAE", "PGE"} /\ efer' = efer \cup {"LME"}
  /\ UNCHANGED <<mem, esi, eax, cr3, cr0, rip, rsp, gdtr, tlb>>

EnablePae == /\ pc = ".Lenable_paging64" /\ pc' = ".Lsetup_paging"
             /\ cr4' = cr4 \cup {"PAE"} /\ efer' = efer \cup {"LME"}
             /\ UNCHANGED <<mem, esi, eax, cr3, cr0, rip, rsp, gdtr, tlb>>

\* The entry c once the low word of a link to the table at is stored in it.
Link(c, at) == [ToTable(at) EXCEPT !.high = mem[c].high]

\* The entries that link the tables, low, high and kernel.
SetupPaging ==
  /\ pc = ".Lsetup_paging" /\ pc' = ".Lfill_boot_pd_table"
  /\ cr3' = boot_pml4_table
  /\ mem' = [mem EXCEPT
               ![boot_pml4_table] = Link(boot_pml4_table, boot_pdp_table),
               ![boot_pdp_table] = Link(boot_pdp_table, boot_pd_table),
               ![boot_pml4_table + N - 1] = Link(boot_pml4_table + N - 1, boot_pdp_high_table),
               ![boot_pdp_high_table + KernelSlot] =
                  Link(boot_pdp_high_table + KernelSlot, boot_pd_table)]
  /\ esi' = boot_pd_table /\ eax' = 0
  /\ UNCHANGED <<cr4, efer, cr0, rip, rsp, gdtr, tlb>>

\* The end of an iteration: on to the next entry, or to a loop that begins at p.
Continue(last, label, p) ==
  IF eax < last
    THEN esi' = esi + 1 /\ eax' = eax + 1 /\ UNCHANGED pc
    ELSE esi' = p /\ eax' = 0 /\ pc' = label

\* The low word of the entry; the shift drops what does not fit in it.
FillPd ==
  /\ pc = ".Lfill_boot_pd_table"
  /\ mem' = [mem EXCEPT ![esi].kind = "page", ![esi].low = eax % Split]
  /\ Continue(N - 1, ".Lfill_boot_pde_array", boot_pde_array)
  /\ UNCHANGED <<cr4, efer, cr3, cr0, rip, rsp, gdtr, tlb>>

FillPdes ==
  /\ pc = ".Lfill_boot_pde_array"
  /\ mem' = [mem EXCEPT ![esi] =
               [kind |-> "page", low |-> eax % Split, high |-> eax \div Split]]
  /\ Continue(PdeTables * N - 1, ".Lfill_boot_pdp_high_table", boot_pdp_high_table)
  /\ UNCHANGED <<cr4, efer, cr3, cr0, rip, rsp, gdtr, tlb>>

FillPdpHigh ==
  /\ pc = ".Lfill_boot_pdp_high_table"
  /\ mem' = [mem EXCEPT ![esi] = Link(esi, boot_pde_array + eax * N)]
  /\ Continue(PdeTables - 1, "paging", 0)
  /\ UNCHANGED <<cr4, efer, cr3, cr0, rip, rsp, gdtr, tlb>>

EnablePaging ==
  /\ pc = "paging" /\ pc' = "retf"
  /\ cr0' = cr0 \cup {"PG"}
  /\ UNCHANGED <<mem, esi, eax, cr4, efer, cr3, rip, rsp, gdtr, tlb>>

\* Through the stack and the GDT to 64-bit code, still low; then high.
FarReturn == /\ pc = "retf" /\ pc' = "_start64"
             /\ UNCHANGED <<mem, regs, tlb>>

JumpHigh == /\ pc = "_start64" /\ pc' = "high_addr"
            /\ rip' = "high"
            /\ UNCHANGED <<mem, esi, eax, cr4, efer, cr3, cr0, rsp, gdtr, tlb>>

\* Variant: the GDT stays where it was.
HighStackAndGdt_StackOnly ==
  /\ pc = "high_addr" /\ pc' = "unmap"
  /\ rsp' = "high"
  /\ UNCHANGED <<mem, esi, eax, cr4, efer, cr3, cr0, rip, gdtr, tlb>>

HighStackAndGdt ==
  /\ pc = "high_addr" /\ pc' = "unmap"
  /\ rsp' = "high" /\ gdtr' = "high"
  /\ UNCHANGED <<mem, esi, eax, cr4, efer, cr3, cr0, rip, tlb>>

UnmapLow == /\ pc = "unmap" /\ pc' = "flush"
            /\ mem' = [mem EXCEPT ![boot_pml4_table] = Nothing]
            /\ UNCHANGED <<regs, tlb>>

\* Loading CR3 drops everything but global pages, and those too unless CR4 has
\* PGE.  All the boot pages have the bit G.
Flush == /\ pc = "flush" /\ pc' = "kmain"
         /\ tlb' = IF "PGE" \in cr4 THEN tlb ELSE {}
         /\ UNCHANGED <<mem, regs>>

Start == \/ LowGdt \/ ClearBss \/ EnablePae \/ SetupPaging
         \/ FillPd \/ FillPdes \/ FillPdpHigh
         \/ EnablePaging \/ FarReturn \/ JumpHigh
         \/ HighStackAndGdt \/ UnmapLow \/ Flush

Next == Start \/ Evict \/ \E v \in Linear : Cache(v)

Spec == Init /\ [][Next]_vars

-----------------------------------------------------------------------------
(* Properties. *)

\* The linear page at which the page n of the kernel is addressed.
AddressOf(half, n) == IF half = "low" THEN n ELSE ((N - 1) * N + KernelSlot) * N + n

\* While paging is on, every page of the kernel is where the code that runs, its
\* stack and the GDT are addressed, whether by a walk or by what the TLB kept:
\* through the switch to paging, the jump, the unmapping and the flush.
RunsMapped ==
  Paging => \A half \in {rip, rsp, gdtr} : \A n \in Image :
              Translations(AddressOf(half, n)) = {n}

\* platform.c's table of what start.S has mapped, in pages.
mmu_initial_mappings ==
  {[phys |-> 0, virt |-> (N - 1) * N * N, size |-> PdeTables * N],
   [phys |-> 0, virt |-> ((N - 1) * N + KernelSlot) * N, size |-> N]}

\* kmain starts with exactly the mappings of mmu_initial_mappings, and whatever
\* the TLB holds agrees with them: no low address works any more.
MapsAsTold ==
  pc = "kmain" =>
    \A v \in Linear :
       Translations(v) =
         IF \E m \in mmu_initial_mappings : v \in m.virt..(m.virt + m.size - 1)
           THEN {m.phys + v - m.virt :
                   m \in {m \in mmu_initial_mappings :
                            v \in m.virt..(m.virt + m.size - 1)}}
           ELSE {None}

\* Whatever the bss held, no walk is led by an entry that nobody wrote.
NeverWild == Paging => \A v \in Linear : Wild \notin Translations(v)
=============================================================================
