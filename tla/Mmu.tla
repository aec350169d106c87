---------------------------------- MODULE Mmu ----------------------------------
(***************************************************************************)
(* mmu.c after start.S: kmain sets up the processor with x86_mmu_init, and *)
(* from then on x86_mmu_query walks the page tables that start.S built.    *)
(*                                                                         *)
(* The walkers of mmu.c keep the flag bits of an entry in the pointer to   *)
(* the next table.  P and RW were set by start.S, A by the processor when  *)
(* it walked through the entry: the next entry is read 35 bytes too far,   *)
(* inside the fourth entry behind it, and bit 24 of what is there is taken *)
(* for the bit P.                                                          *)
(***************************************************************************)
EXTENDS BootPaging

CONSTANTS
  Bit24     \* 8, the pages of 2 MiB below the address bit 24

ASSUME MmuAssumption == Bit24 \in Nat \ {0}

\* The kernel, and in it the tables, lie below 16 MiB.
ASSUME TablesLow == \A n \in Image : n < Bit24

VARIABLE cpu     \* what CPUID tells x86_mmu_init, unknown before

\* What the bits that the code tests and sets stand for, and what it means by them,
\* as the processor defines them.  No-execute comes with 64-bit mode.
Features == {"ADX", "FDP", "PKU", "SMAP", "SMEP", "SVM"}

-----------------------------------------------------------------------------
\* Bit 19 of EBX.
x86_check_smap_availability(f) == "ADX" \in f

\* Bit 6 of EBX.
x86_check_smep_availability(f) == "FDP" \in f

\* X86_CR4_SMAP_BIT is the bit PKE, X86_CR4_SMEP_BIT is SMAP.
NewCr4(f) == cr4 \cup (IF x86_check_smap_availability(f) THEN {"PKE"} ELSE {})
                 \cup (IF x86_check_smep_availability(f) THEN {"SMAP"} ELSE {})

\* A reserved bit is refused: the exception returns to the same instruction, for
\* ever.  X86_IA32_MSR_EFER_NXE is the bit SVME.
x86_mmu_init ==
  /\ pc = "kmain" /\ cpu' \in SUBSET Features
  /\ cr0' = cr0 \cup {"WP"}
  /\ IF ("PKE" \in NewCr4(cpu') => "PKU" \in cpu') /\ ("SMAP" \in NewCr4(cpu') => "SMAP" \in cpu')
       THEN /\ cr4' = NewCr4(cpu')
            /\ IF "SVM" \in cpu' THEN efer' = efer \cup {"SVME"} /\ pc' = "up"
                                 ELSE UNCHANGED efer /\ pc' = "refused"
       ELSE UNCHANGED <<cr4, efer>> /\ pc' = "refused"
  /\ UNCHANGED <<mem, esi, eax, cr3, rip, rsp, gdtr, tlb>>

-----------------------------------------------------------------------------
\* Whether the entry at c, read so far beyond, seems present.
Misread(c) ==
  LET entry == mem[c + 4]
      page  == IF entry.kind = "table" THEN (CHOOSE n \in Image : TRUE) ELSE entry.low
  IN  entry.kind # "nothing" /\ (page \div Bit24) % 2 = 1

\* The table that pml4e leads to is found, its entry is not.  What a walk would
\* go on with from a misread entry that seems present is not a table at all.
x86_mmu_get_mapping(v) ==
  LET pml4e == cr3 + v \div (N * N)
      pdpe  == Follow(pml4e) + ((v \div N) % N)
  IN  CASE mem[pml4e].kind = "nothing" ->
             [status |-> "MMU_ERR_ENTRY_NOT_PRESENT", lvl |-> "PL_PML4", paddr |-> None]
        [] mem[pml4e].kind # "nothing" /\ ~Misread(pdpe) ->
             [status |-> "MMU_ERR_ENTRY_NOT_PRESENT", lvl |-> "PL_PDP", paddr |-> None]
        [] OTHER -> [status |-> "undefined", lvl |-> "PL_PD", paddr |-> Wild]

\* The answer, with the address that the caller's pointer receives.
x86_mmu_query(v) ==
  LET found == x86_mmu_get_mapping(v)
  IN  [status |-> found.status,
       paddr  |-> IF found.status = "MMU_NO_ERROR" THEN found.paddr ELSE None]

-----------------------------------------------------------------------------
MmuInit == Init /\ cpu = {}

MmuNext == (Next /\ UNCHANGED cpu) \/ x86_mmu_init

MmuSpec == MmuInit /\ [][MmuNext]_<<vars, cpu>>

\* What x86.h says of the bits that x86_mmu_init sets ("Supervisor Mode Execution
\* Protection", "Supervisor Mode Access Prevention", "No-Execute Enable") and the
\* names of the functions that ask for them: kmain gets through arch_init, with
\* each protection on that the processor has.
ProtectionsOn ==
  /\ pc # "refused"
  /\ pc = "up" => /\ "NXE" \in efer
                  /\ \A bit \in {"SMEP", "SMAP"} : bit \in cr4 <=> bit \in cpu

\* mmu.c and mmu.h of the walk: "Queries the MMU for the physical address mapped
\* to the virtual address."
QueryAnswers ==
  pc = "up" => \A v \in Linear :
                  Walk(v) # None => x86_mmu_query(v) = [status |-> "MMU_NO_ERROR",
                                                         paddr |-> Walk(v)]
=============================================================================
