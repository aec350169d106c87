--------------------------- MODULE BootPagingProofs ---------------------------
(***************************************************************************)
(* That start.S stays mapped while it turns paging on, jumps and unmaps    *)
(* low memory, and that kmain finds the mappings of platform.c: for page   *)
(* tables of any length, in particular for the 512 entries of the          *)
(* processor, where the number of addresses is beyond enumeration.         *)
(*                                                                         *)
(* The invariant says what is in each entry of each table at each label,   *)
(* half-filled tables included.  From it follows what a walk finds for     *)
(* every linear page, and from that what the TLB can hold.                 *)
(***************************************************************************)
EXTENDS Mmu, TLAPS

-----------------------------------------------------------------------------
(* The invariant. *)

Linking == {".Lfill_boot_pd_table", ".Lfill_boot_pde_array", ".Lfill_boot_pdp_high_table"}

Unmapped == {"flush", "kmain", "up", "refused"}

On == {"retf", "_start64", "high_addr", "unmap"} \cup Unmapped

Linked == Linking \cup {"paging"} \cup On

Labels == {"_start", ".Lclear_bss", ".Lenable_paging64", ".Lsetup_paging"} \cup Linked

\* The length of boot_pde_array.
Room == PdeTables * N

\* How many entries of a table its loop has stored.
Done(label, before, all) ==
  IF pc = label THEN eax ELSE IF pc \in before THEN 0 ELSE all

PdDone == Done(".Lfill_boot_pd_table", {}, N)

PdeDone == Done(".Lfill_boot_pde_array", {".Lfill_boot_pd_table"}, Room)

PdpDone == Done(".Lfill_boot_pdp_high_table",
                {".Lfill_boot_pd_table", ".Lfill_boot_pde_array"}, PdeTables)

Page(n) == [kind |-> "page", low |-> n % Split, high |-> n \div Split]

Pml4(i) == IF i = 0 THEN IF pc \in Unmapped THEN Nothing ELSE ToTable(boot_pdp_table)
           ELSE IF i = N - 1 THEN ToTable(boot_pdp_high_table) ELSE Nothing

Pdp(i) == IF i = 0 THEN ToTable(boot_pd_table) ELSE Nothing

PdpHigh(i) == IF i = KernelSlot THEN ToTable(boot_pd_table)
              ELSE IF i < PdpDone THEN ToTable(boot_pde_array + i * N) ELSE Nothing

Pd(i) == IF i < PdDone THEN Page(i) ELSE Nothing

Pde(j) == IF j < PdeDone THEN Page(j) ELSE Nothing

\* What is in the tables once they are linked.
Tables ==
  /\ \A i \in 0..(N - 1) : /\ mem[i] = Pml4(i)
                           /\ mem[N + i] = Pdp(i)
                           /\ mem[2 * N + i] = PdpHigh(i)
                           /\ mem[3 * N + i] = Pd(i)
  /\ \A j \in 0..(Room - 1) : mem[4 * N + j] = Pde(j)

MemInv ==
  /\ pc \in Labels
  /\ mem = [c \in 0..(ptables_end - 1) |-> mem[c]]
  /\ pc \in {".Lenable_paging64", ".Lsetup_paging"} =>
       \A c \in 0..(ptables_end - 1) : mem[c] = Nothing
  /\ pc \in Linked => Tables /\ cr3 = boot_pml4_table

\* The registers of the loops.
LoopInv ==
  /\ pc = ".Lfill_boot_pd_table" => eax \in 0..(N - 1) /\ esi = boot_pd_table + eax
  /\ pc = ".Lfill_boot_pde_array" => eax \in 0..(Room - 1) /\ esi = boot_pde_array + eax
  /\ pc = ".Lfill_boot_pdp_high_table" =>
       eax \in 0..(PdeTables - 1) /\ esi = boot_pdp_high_table + eax

\* Paging is on from its label on; code, stack and GDT are high before low memory
\* is unmapped; no page survives the load of CR3.
CpuInv ==
  /\ Paging <=> pc \in On
  /\ pc = "high_addr" => rip = "high"
  /\ pc \in Unmapped \cup {"unmap"} => rip = "high" /\ rsp = "high" /\ gdtr = "high"
  /\ "PGE" \notin cr4

\* The TLB holds what a walk finds, or until the flush a low page.
Current(t) == \/ t[2] = Walk(t[1])
              \/ pc = "flush" /\ t[1] \in 0..(N - 1) /\ t[2] = t[1]

TlbInv ==
  /\ pc \notin On => tlb = {}
  /\ \A t \in tlb : t[1] \in Linear /\ Current(t)

IInv == MemInv /\ LoopInv /\ CpuInv /\ TlbInv

-----------------------------------------------------------------------------
(* Numbers. *)

\* A product of naturals is one.
LEMMA NatProduct == ASSUME NEW m \in Nat, NEW n \in Nat PROVE m * n \in Nat
  OBVIOUS

\* Of two multiples the one that is not a unit higher has no greater factor.
LEMMA Factors ==
  ASSUME NEW P \in Nat \ {0}, NEW q \in Int, NEW r \in Int, q * P < r * P + P
  PROVE  q <= r
  <1> SUFFICES ASSUME q >= r + 1 PROVE FALSE
    OBVIOUS
  <1>1. (q - (r + 1)) * P >= 0
    OBVIOUS
  <1>2. (q - (r + 1)) * P = q * P - r * P - P
    OBVIOUS
  <1> QED BY <1>1, <1>2

\* Quotient and remainder put a number together.
LEMMA Parts ==
  ASSUME NEW P \in Nat \ {0}, NEW x \in Int
  PROVE  /\ x \div P \in Int /\ x % P \in 0..(P - 1)
         /\ x = (x \div P) * P + (x % P)
  <1>1. x % P \in 0..(P - 1) /\ x \div P \in Int
    OBVIOUS
  <1>2. x = P * (x \div P) + (x % P)
    OBVIOUS
  <1>3. P * (x \div P) = (x \div P) * P
    BY <1>1
  <1> QED BY <1>1, <1>2, <1>3

\* There is only one way to put it together.
LEMMA OneWay ==
  ASSUME NEW P \in Nat \ {0}, NEW q \in Int, NEW r \in 0..(P - 1)
  PROVE  (q * P + r) \div P = q /\ (q * P + r) % P = r
  <1> DEFINE x == q * P + r
             d == x \div P
             m == x % P
  <1>1. x \in Int
    OBVIOUS
  <1> HIDE DEF x
  <1>2. d \in Int /\ m \in 0..(P - 1) /\ x = d * P + m
    BY <1>1, Parts
  <1> HIDE DEF d, m
  <1>3. x = q * P + r
    BY DEF x
  <1>4. q * P \in Int /\ d * P \in Int
    BY <1>2
  <1>5. q <= d
    <2>1. q * P < d * P + P
      BY <1>2, <1>3, <1>4
    <2> QED BY <1>2, <2>1, Factors
  <1>6. d <= q
    <2>1. d * P < q * P + P
      BY <1>2, <1>3, <1>4
    <2> QED BY <1>2, <2>1, Factors
  <1>7. d = q
    BY <1>2, <1>5, <1>6
  <1>8. m = r
    BY <1>2, <1>3, <1>4, <1>7
  <1> QED BY <1>7, <1>8 DEF d, m, x

\* The sizes.  Entry 0 and the last entry of a table differ.
LEMMA Sizes ==
  /\ N \in Nat /\ N >= 2 /\ PdeTables \in Nat /\ PdeTables >= 1 /\ Split \in Nat \ {0}
  /\ KernelSlot \in Nat /\ PdeTables <= KernelSlot /\ KernelSlot <= N - 1
  /\ N <= Split /\ Image \subseteq 0..(N - 1)
  /\ Room \in Nat /\ Room >= N /\ ptables_end = 4 * N + Room
  <1>1. /\ N \in Nat /\ N >= 2 /\ PdeTables \in Nat /\ PdeTables >= 1 /\ Split \in Nat \ {0}
        /\ KernelSlot \in Nat /\ PdeTables <= KernelSlot /\ KernelSlot <= N - 1
        /\ N <= Split /\ Image \subseteq 0..(N - 1)
    BY BootPagingAssumption
  <1> HIDE DEF N
  <1>2. Room \in Nat
    BY <1>1, NatProduct DEF Room
  <1>3. Room >= N
    <2>1. PdeTables - 1 \in Nat
      BY <1>1
    <2>2. (PdeTables - 1) * N \in Nat
      BY <1>1, <2>1, NatProduct
    <2>3. (PdeTables - 1) * N = PdeTables * N - N
      BY <1>1
    <2> QED BY <1>1, <1>2, <2>2, <2>3 DEF Room
  <1>4. (4 + PdeTables) * N = 4 * N + PdeTables * N
    BY <1>1
  <1> QED BY <1>1, <1>2, <1>3, <1>4 DEF Room, ptables_end

\* A page number in an entry is read as it was stored.
LEMMA PageRead ==
  ASSUME NEW n \in Nat
  PROVE  Page(n).high * Split + Page(n).low = n /\ Page(n).kind = "page"
  <1>1. n \in Int /\ Split \in Nat \ {0}
    BY Sizes
  <1>2. n = (n \div Split) * Split + (n % Split)
    BY <1>1, Parts
  <1> QED BY <1>2 DEF Page

-----------------------------------------------------------------------------
(* Linear pages. *)

\* A place in the three levels of tables is that of one linear page.
LEMMA PlaceOf ==
  ASSUME NEW a \in 0..(N - 1), NEW b \in 0..(N - 1), NEW c \in 0..(N - 1)
  PROVE  LET v == (a * N + b) * N + c
         IN  /\ v \in Linear
             /\ v \div (N * N) = a /\ (v \div N) % N = b /\ v % N = c
  <1> DEFINE q == a * N + b
             v == q * N + c
             s == b * N + c
             NN == N * N
  <1>1. N \in Nat \ {0} /\ a \in Nat /\ b \in Nat /\ c \in Nat
    BY Sizes
  <1> HIDE DEF N
  <1>2. q \in Int /\ q \in Nat
    BY <1>1
  <1>3. q \div N = a /\ q % N = b
    <2>1. a \in Int
      BY <1>1
    <2> QED BY <1>1, <2>1, OneWay
  <1>4. v \div N = q /\ v % N = c
    <2> HIDE DEF q
    <2> QED BY <1>1, <1>2, OneWay
  <1>5. NN \in Nat \ {0} /\ NN = N * N
    <2>1. N * N \in Nat
      BY <1>1, NatProduct
    <2>2. N - 1 \in Nat
      BY <1>1
    <2>3. (N - 1) * N \in Nat /\ (N - 1) * N = N * N - N
      BY <1>1, <2>2, NatProduct
    <2> QED BY <1>1, <2>1, <2>3
  <1>6. s \in 0..(NN - 1)
    <2>1. b * N \in Nat /\ s \in Nat
      BY <1>1, NatProduct
    <2>2. (N - 1) - b \in Nat
      BY <1>1
    <2>3. ((N - 1) - b) * N \in Nat /\ ((N - 1) - b) * N = N * N - N - b * N
      BY <1>1, <2>2, NatProduct
    <2> HIDE DEF NN
    <2>4. b * N + N <= NN
      BY <1>1, <1>5, <2>1, <2>3
    <2>5. s <= NN - 1
      BY <1>1, <1>5, <2>1, <2>4
    <2> QED BY <1>5, <2>1, <2>5
  <1>7. v = a * NN + s
    <2>1. (a * N + b) * N = a * (N * N) + b * N
      BY <1>1
    <2> QED BY <1>1, <2>1
  <1> HIDE DEF NN, s, v
  <1>8. v \div NN = a
    <2>1. a \in Int
      BY <1>1
    <2> QED BY <1>5, <1>6, <1>7, <2>1, OneWay
  <1>9. v \in Linear
    <2>1. a * NN \in Nat /\ s \in Nat
      BY <1>1, <1>5, <1>6, NatProduct
    <2>2. (N - 1) - a \in Nat
      BY <1>1
    <2>3. ((N - 1) - a) * NN \in Nat /\ ((N - 1) - a) * NN = N * NN - NN - a * NN
      BY <1>1, <1>5, <2>2, NatProduct
    <2>4. N * NN \in Nat
      BY <1>1, <1>5, NatProduct
    <2>5. v \in Nat /\ v <= N * NN - 1
      BY <1>5, <1>6, <1>7, <2>1, <2>3, <2>4
    <2>6. N * N * N = N * NN
      BY <1>1 DEF NN
    <2> QED BY <2>4, <2>5, <2>6 DEF Linear
  <1> QED BY <1>3, <1>4, <1>8, <1>9 DEF NN, v

\* Every linear page is at such a place.
LEMMA PlaceFound ==
  ASSUME NEW v \in Linear
  PROVE  \E a, b, c \in 0..(N - 1) : v = (a * N + b) * N + c
  <1> DEFINE q == v \div N
             c == v % N
             a == q \div N
             b == q % N
  <1>1. N \in Nat \ {0} /\ v \in Nat /\ v < N * N * N
    <2>1. N \in Nat \ {0}
      BY Sizes
    <2> HIDE DEF N
    <2>2. N * N \in Nat
      BY <2>1, NatProduct
    <2>3. N * N * N \in Nat
      BY <2>1, <2>2, NatProduct
    <2> QED BY <2>1, <2>3 DEF Linear
  <1> HIDE DEF N
  <1>2. q \in Nat /\ c \in 0..(N - 1) /\ v = q * N + c
    <2>1. v \in Int /\ v \div N >= 0
      BY <1>1
    <2> QED BY <1>1, <2>1, Parts
  <1> HIDE DEF q, c
  <1>3. a \in Nat /\ b \in 0..(N - 1) /\ q = a * N + b
    <2>1. q \in Int /\ q \div N >= 0
      BY <1>1, <1>2
    <2> QED BY <1>1, <2>1, Parts
  <1> HIDE DEF a, b
  <1>4. a <= N - 1
    <2>1. a * N < (N - 1) * N + N
      <3>1. q < N * N
        <4>1. N * N \in Nat /\ q \in Int
          BY <1>1, <1>2, NatProduct
        <4>2. q * N < (N * N - 1) * N + N
          <5>1. (N * N - 1) * N + N = N * N * N
            BY <1>1, <4>1
          <5>2. q * N \in Nat
            BY <1>1, <1>2, NatProduct
          <5>3. q * N <= v
            BY <1>1, <1>2, <5>2
          <5> QED BY <1>1, <5>1, <5>2, <5>3
        <4>3. N * N - 1 \in Int
          BY <4>1
        <4>4. q <= N * N - 1
          BY <1>1, <4>1, <4>2, <4>3, Factors
        <4> QED BY <4>1, <4>4
      <3>2. (N - 1) * N + N = N * N
        BY <1>1
      <3>3. a * N \in Nat /\ a * N <= q
        BY <1>1, <1>3, NatProduct
      <3>4. N * N \in Nat
        BY <1>1, NatProduct
      <3> QED BY <1>2, <3>1, <3>2, <3>3, <3>4
    <2>2. a \in Int /\ N - 1 \in Int
      BY <1>1, <1>3
    <2> QED BY <1>1, <2>1, <2>2, Factors
  <1>5. a \in 0..(N - 1)
    BY <1>1, <1>3, <1>4
  <1> QED BY <1>2, <1>3, <1>5

\* What a walk finds at a place.
Expected(a, b, c) ==
  IF a = N - 1
    THEN IF b < PdeTables THEN b * N + c ELSE IF b = KernelSlot THEN c ELSE None
    ELSE IF a = 0 /\ b = 0 /\ pc \notin Unmapped THEN c ELSE None

Walks == \A a, b, c \in 0..(N - 1) : Walk((a * N + b) * N + c) = Expected(a, b, c)

\* A walk through the finished tables.
LEMMA WalkFinds == MemInv /\ pc \in On => Walks
  <1> SUFFICES ASSUME MemInv, pc \in On,
                      NEW a \in 0..(N - 1), NEW b \in 0..(N - 1), NEW c \in 0..(N - 1)
               PROVE  Walk((a * N + b) * N + c) = Expected(a, b, c)
    BY DEF Walks
  <1> DEFINE v   == (a * N + b) * N + c
             pdp == Follow(a)
             pd  == IF pdp < 0 THEN pdp ELSE Follow(pdp + b)
  <1>1. Tables /\ cr3 = 0
    BY DEF MemInv, Linked, boot_pml4_table
  <1>2. PdDone = N /\ PdeDone = Room /\ PdpDone = PdeTables
    BY DEF PdDone, PdeDone, PdpDone, Done, On, Unmapped
  <1>3. v \div (N * N) = a /\ (v \div N) % N = b /\ v % N = c
    BY PlaceOf
  <1>4. Walk(v) = IF pd < 0 THEN pd
                  ELSE CASE mem[pd + c].kind = "nothing" -> None
                         [] mem[pd + c].kind = "page" ->
                              mem[pd + c].high * Split + mem[pd + c].low
                         [] OTHER -> Wild
    <2>1. cr3 + a = a
      BY <1>1, Sizes
    <2> HIDE DEF v
    <2> QED BY <1>3, <2>1 DEF Walk
  <1> HIDE DEF v
  <1>5. /\ mem[a] = Pml4(a) /\ mem[N + b] = Pdp(b) /\ mem[2 * N + b] = PdpHigh(b)
        /\ mem[3 * N + c] = Pd(c)
    BY <1>1 DEF Tables
  <1>6. c \in Nat /\ b \in Nat /\ N \in Nat /\ N >= 2
    BY Sizes
  <1>7. mem[3 * N + c].kind = "page" /\ mem[3 * N + c].high * Split + mem[3 * N + c].low = c
    <2>1. mem[3 * N + c] = Page(c)
      BY <1>2, <1>5, <1>6 DEF Pd
    <2> QED BY <1>6, <2>1, PageRead
  <1>8. CASE a = N - 1
    <2>1. pdp = 2 * N /\ ~(pdp < 0)
      <3>1. mem[a] = ToTable(2 * N)
        BY <1>5, <1>6, <1>8 DEF Pml4, boot_pdp_high_table
      <3> QED BY <1>6, <3>1 DEF Follow, ToTable
    <2>2. pd = Follow(2 * N + b)
      BY <2>1
    <2> HIDE DEF pdp, pd
    <2>3. CASE b < PdeTables
      <3>1. b * N + c \in Nat /\ b * N \in Nat
        BY <1>6, NatProduct
      <3>2. mem[2 * N + b] = ToTable(4 * N + b * N)
        <4>1. b # KernelSlot
          BY <1>6, <2>3, Sizes
        <4> QED BY <1>2, <1>5, <2>3, <4>1 DEF PdpHigh, boot_pde_array
      <3>3. pd = 4 * N + b * N
        BY <2>2, <3>2 DEF Follow, ToTable
      <3>4. b * N + c < Room
        <4>1. (PdeTables - 1) - b \in Nat
          BY <1>6, <2>3, Sizes
        <4>2. ((PdeTables - 1) - b) * N \in Nat
          BY <1>6, <4>1, NatProduct
        <4>3. PdeTables \in Nat
          BY Sizes
        <4> HIDE DEF N
        <4>4. ((PdeTables - 1) - b) * N = PdeTables * N - N - b * N
          BY <1>6, <4>3
        <4>5. PdeTables * N \in Nat
          BY <1>6, <4>3, NatProduct
        <4> QED BY <1>6, <3>1, <4>2, <4>4, <4>5 DEF Room
      <3>5. mem[4 * N + (b * N + c)] = Page(b * N + c)
        <4>1. b * N + c \in 0..(Room - 1)
          BY <3>1, <3>4, Sizes
        <4>2. mem[4 * N + (b * N + c)] = Pde(b * N + c)
          BY <1>1, <4>1 DEF Tables
        <4> QED BY <1>2, <3>4, <4>2 DEF Pde
      <3>6. pd + c = 4 * N + (b * N + c) /\ ~(pd < 0)
        <4> HIDE DEF N
        <4> QED BY <1>6, <3>1, <3>3
      <3>7. Walk(v) = b * N + c
        BY <1>4, <3>1, <3>5, <3>6, PageRead
      <3> QED BY <1>8, <2>3, <3>7 DEF Expected, v
    <2>4. CASE b = KernelSlot
      <3>1. mem[2 * N + b] = ToTable(3 * N) /\ ~(b < PdeTables)
        BY <1>5, <2>4, Sizes DEF PdpHigh, boot_pd_table
      <3>2. pd = 3 * N /\ ~(pd < 0)
        BY <1>6, <2>2, <3>1 DEF Follow, ToTable
      <3>3. Walk(v) = c
        BY <1>4, <1>7, <3>2
      <3> QED BY <1>8, <2>4, <3>1, <3>3 DEF Expected, v
    <2>5. CASE b # KernelSlot /\ ~(b < PdeTables)
      <3>1. mem[2 * N + b] = Nothing
        BY <1>2, <1>5, <2>5 DEF PdpHigh
      <3>2. pd = None /\ pd < 0
        BY <2>2, <3>1 DEF Follow, Nothing, None
      <3>3. Walk(v) = None
        BY <1>4, <3>2
      <3> QED BY <1>8, <2>5, <3>3 DEF Expected, v
    <2> QED BY <2>3, <2>4, <2>5
  <1>9. CASE a # N - 1 /\ a = 0 /\ pc \notin Unmapped
    <2>1. pdp = N /\ ~(pdp < 0)
      <3>1. mem[a] = ToTable(N)
        BY <1>5, <1>9 DEF Pml4, boot_pdp_table
      <3> QED BY <1>6, <3>1 DEF Follow, ToTable
    <2>2. pd = Follow(N + b)
      BY <2>1
    <2> HIDE DEF pdp, pd
    <2>3. CASE b = 0
      <3>1. mem[N + b] = ToTable(3 * N)
        BY <1>5, <2>3 DEF Pdp, boot_pd_table
      <3>2. pd = 3 * N /\ ~(pd < 0)
        BY <1>6, <2>2, <3>1 DEF Follow, ToTable
      <3>3. Walk(v) = c
        BY <1>4, <1>7, <3>2
      <3> QED BY <1>9, <2>3, <3>3 DEF Expected, v
    <2>4. CASE b # 0
      <3>1. mem[N + b] = Nothing
        BY <1>5, <2>4 DEF Pdp
      <3>2. pd = None /\ pd < 0
        BY <2>2, <3>1 DEF Follow, Nothing, None
      <3>3. Walk(v) = None
        BY <1>4, <3>2
      <3> QED BY <1>9, <2>4, <3>3 DEF Expected, v
    <2> QED BY <2>3, <2>4
  <1>10. CASE a # N - 1 /\ (a # 0 \/ pc \in Unmapped)
    <2>1. mem[a] = Nothing
      BY <1>5, <1>10 DEF Pml4
    <2>2. pdp = None /\ pd = None /\ pd < 0
      BY <2>1 DEF Follow, Nothing, None
    <2> HIDE DEF pdp, pd
    <2>3. Walk(v) = None
      BY <1>4, <2>2
    <2> QED BY <1>10, <2>3 DEF Expected, v
  <1> QED BY <1>8, <1>9, <1>10

\* So it is after a step.
LEMMA WalkFindsNext == (MemInv /\ pc \in On)' => Walks'
  BY WalkFinds, PTL

-----------------------------------------------------------------------------
(* The stores. *)

Cells == 0..(ptables_end - 1)

\* Where the entries of the tables are.
LEMMA Places ==
  /\ \A i \in 0..(N - 1) : /\ i \in Cells /\ N + i \in Cells
                           /\ 2 * N + i \in Cells /\ 3 * N + i \in Cells
  /\ \A j \in 0..(Room - 1) : 4 * N + j \in Cells
  <1>1. N \in Nat /\ Room \in Nat /\ Room >= N /\ ptables_end = 4 * N + Room
    BY Sizes
  <1> HIDE DEF N
  <1> QED BY <1>1 DEF Cells

\* A store changes one entry.
LEMMA Store ==
  ASSUME mem = [c \in Cells |-> mem[c]], NEW p \in Cells, NEW e,
         mem' = [mem EXCEPT ![p] = e]
  PROVE  /\ mem' = [c \in Cells |-> mem'[c]]
         /\ mem'[p] = e
         /\ \A c \in Cells : c # p => mem'[c] = mem[c]
  OBVIOUS

\* The start up to the tables.
LEMMA EarlyStep == IInv /\ (LowGdt \/ ClearBss \/ EnablePae) => IInv'
  <1> SUFFICES ASSUME IInv, LowGdt \/ ClearBss \/ EnablePae PROVE IInv'
    OBVIOUS
  <1>1. /\ pc \in {"_start", ".Lclear_bss", ".Lenable_paging64"}
        /\ pc' \in {".Lclear_bss", ".Lenable_paging64", ".Lsetup_paging"}
        /\ cr4' \in {cr4, cr4 \cup {"PAE"}}
        /\ UNCHANGED <<esi, eax, cr3, cr0, rip, tlb>>
    BY DEF LowGdt, ClearBss, EnablePae, regs
  <1>2. MemInv'
    <2>1. CASE LowGdt
      BY <2>1 DEF LowGdt, IInv, MemInv, Labels, Linked, Linking, On, Unmapped
    <2>2. CASE ClearBss
      <3>1. pc' = ".Lenable_paging64" /\ mem' = [c \in DOMAIN mem |-> Nothing]
        BY <2>2 DEF ClearBss
      <3>2. DOMAIN mem = 0..(ptables_end - 1)
        BY DEF IInv, MemInv
      <3>3. mem' = [c \in 0..(ptables_end - 1) |-> Nothing]
        BY <3>1, <3>2
      <3>4. \A c \in 0..(ptables_end - 1) : mem'[c] = Nothing
        BY <3>3
      <3>5. mem' = [c \in 0..(ptables_end - 1) |-> mem'[c]]
        BY <3>3, <3>4
      <3>6. ptables_end' = ptables_end /\ Nothing' = Nothing
        BY DEF ptables_end, Nothing
      <3> QED BY <3>1, <3>4, <3>5, <3>6
              DEF MemInv, Labels, Linked, Linking, On, Unmapped, ptables_end
    <2>3. CASE EnablePae
      BY <2>3 DEF EnablePae, IInv, MemInv, Labels, Linked, Linking, On, Unmapped
    <2> QED BY <2>1, <2>2, <2>3
  <1>3. LoopInv'
    BY <1>1 DEF LoopInv
  <1>4. CpuInv'
    <2>1. pc \notin On /\ pc' \notin On
      BY <1>1 DEF On, Unmapped
    <2>2. "PGE" \notin cr4'
      BY <1>1 DEF IInv, CpuInv
    <2> QED BY <1>1, <2>1, <2>2 DEF IInv, CpuInv, Paging, Unmapped
  <1>5. TlbInv'
    <2>1. pc \notin On
      BY <1>1 DEF On, Unmapped
    <2>2. tlb' = {}
      BY <1>1, <2>1 DEF IInv, TlbInv
    <2> QED BY <2>2 DEF TlbInv
  <1> QED BY <1>2, <1>3, <1>4, <1>5 DEF IInv

\* What the steps between the clearing of the bss and paging have in common.
LEMMA OffStep ==
  ASSUME IInv, pc \notin On, pc' \in Linking \cup {"paging"}, MemInv', LoopInv',
         UNCHANGED <<cr4, cr0, rip, rsp, gdtr, tlb>>
  PROVE  IInv'
  <1>1. pc' \notin On /\ pc' # "high_addr" /\ pc' \notin Unmapped \cup {"unmap"}
    BY DEF Linking, On, Unmapped
  <1>2. tlb' = {}
    BY DEF IInv, TlbInv
  <1>3. CpuInv'
    BY <1>1 DEF IInv, CpuInv, Paging
  <1>4. TlbInv'
    BY <1>2 DEF TlbInv
  <1> QED BY <1>3, <1>4 DEF IInv

\* In an entry without a high word the low word of a link is all of the link.
LEMMA LinkOverNothing ==
  ASSUME NEW c, NEW at, mem[c] = Nothing
  PROVE  Link(c, at) = ToTable(at)
  <1>1. mem[c].high = 0
    BY DEF Nothing
  <1> QED BY <1>1 DEF Link, ToTable

\* The first entries.
LEMMA SetupPagingStep == IInv /\ SetupPaging => IInv'
  <1> SUFFICES ASSUME IInv, SetupPaging PROVE IInv'
    OBVIOUS
  <1> DEFINE m == [mem EXCEPT ![0] = ToTable(N), ![N] = ToTable(3 * N),
                              ![N - 1] = ToTable(2 * N),
                              ![2 * N + KernelSlot] = ToTable(3 * N)]
  <1>1. /\ pc = ".Lsetup_paging" /\ pc' = ".Lfill_boot_pd_table"
        /\ cr3' = 0 /\ esi' = 3 * N /\ eax' = 0
        /\ UNCHANGED <<cr4, cr0, rip, rsp, gdtr, tlb>>
    BY DEF SetupPaging, boot_pml4_table, boot_pd_table
  <1>2. /\ mem = [c \in Cells |-> mem[c]]
        /\ \A c \in Cells : mem[c] = Nothing
    BY <1>1 DEF IInv, MemInv, Cells
  <1>3. /\ N \in Nat /\ N >= 2 /\ KernelSlot \in 0..(N - 1) /\ Room \in Nat
    BY Sizes
  <1>4. 0 \in Cells /\ N \in Cells /\ N - 1 \in Cells /\ 2 * N + KernelSlot \in Cells
    <2>1. 0 \in 0..(N - 1) /\ N - 1 \in 0..(N - 1) /\ N + 0 = N
      BY <1>3
    <2> QED BY <1>3, <2>1, Places
  <1>5. mem' = m
    <2>1. 0 + N - 1 = N - 1
      BY Sizes
    <2>2. mem' = [mem EXCEPT ![0] = Link(0, N), ![N] = Link(N, 3 * N),
                             ![N - 1] = Link(N - 1, 2 * N),
                             ![2 * N + KernelSlot] = Link(2 * N + KernelSlot, 3 * N)]
      BY <2>1 DEF SetupPaging, boot_pml4_table, boot_pdp_table, boot_pdp_high_table,
                  boot_pd_table
    <2>3. \A c \in Cells : \A at : Link(c, at) = ToTable(at)
      BY <1>2, LinkOverNothing
    <2>4. /\ Link(0, N) = ToTable(N) /\ Link(N, 3 * N) = ToTable(3 * N)
          /\ Link(N - 1, 2 * N) = ToTable(2 * N)
          /\ Link(2 * N + KernelSlot, 3 * N) = ToTable(3 * N)
      BY <1>4, <2>3
    <2> QED BY <2>2, <2>4
  <1>6. 0 # N /\ 0 # N - 1 /\ N # N - 1 /\ 2 * N + KernelSlot \notin {0, N, N - 1}
    <2> HIDE DEF N
    <2> QED BY <1>3
  <1>7. \A c \in Cells :
           mem'[c] = IF c = 2 * N + KernelSlot THEN ToTable(3 * N)
                     ELSE IF c = N - 1 THEN ToTable(2 * N)
                     ELSE IF c = N THEN ToTable(3 * N)
                     ELSE IF c = 0 THEN ToTable(N)
                     ELSE Nothing
    <2> HIDE DEF N
    <2> QED BY <1>5, <1>2, <1>4, <1>6
  <1>8. mem' = [c \in Cells |-> mem'[c]]
    <2> HIDE DEF N
    <2>1. m = [c \in Cells |-> m[c]]
      BY <1>2
    <2> QED BY <1>5, <2>1
  <1> HIDE DEF m
  <1>9. PdDone' = 0 /\ PdeDone' = 0 /\ PdpDone' = 0
    BY <1>1 DEF PdDone, PdeDone, PdpDone, Done
  <1>10. Tables'
    <2>1. ASSUME NEW i \in 0..(N - 1)
          PROVE  /\ mem'[i] = Pml4(i)' /\ mem'[N + i] = Pdp(i)'
                 /\ mem'[2 * N + i] = PdpHigh(i)' /\ mem'[3 * N + i] = Pd(i)'
      <3>1. /\ i \in Cells /\ N + i \in Cells /\ 2 * N + i \in Cells /\ 3 * N + i \in Cells
        BY Places
      <3>2. mem'[i] = IF i = 0 THEN ToTable(N) ELSE IF i = N - 1 THEN ToTable(2 * N) ELSE Nothing
        <4>1. i # N /\ i # 2 * N + KernelSlot
          <5> HIDE DEF N
          <5> QED BY <1>3
        <4> QED BY <1>6, <1>7, <3>1, <4>1
      <3>3. mem'[N + i] = IF i = 0 THEN ToTable(3 * N) ELSE Nothing
        <4>1. /\ N + i # 2 * N + KernelSlot /\ N + i # N - 1 /\ N + i # 0
              /\ N + i = N <=> i = 0
          <5> HIDE DEF N
          <5> QED BY <1>3
        <4> QED BY <1>7, <3>1, <4>1
      <3>4. mem'[2 * N + i] = IF i = KernelSlot THEN ToTable(3 * N) ELSE Nothing
        <4>1. /\ 2 * N + i = 2 * N + KernelSlot <=> i = KernelSlot
              /\ 2 * N + i # N - 1 /\ 2 * N + i # N /\ 2 * N + i # 0
          <5> HIDE DEF N
          <5> QED BY <1>3
        <4> QED BY <1>7, <3>1, <4>1
      <3>5. mem'[3 * N + i] = Nothing
        <4>1. /\ 3 * N + i # 2 * N + KernelSlot
              /\ 3 * N + i # N - 1 /\ 3 * N + i # N /\ 3 * N + i # 0
          <5> HIDE DEF N
          <5> QED BY <1>3
        <4> QED BY <1>7, <3>1, <4>1
      <3>6. Pml4(i)' = IF i = 0 THEN ToTable(N)
                       ELSE IF i = N - 1 THEN ToTable(2 * N) ELSE Nothing
        BY <1>1 DEF Pml4, Unmapped, boot_pdp_table, boot_pdp_high_table, ToTable, Nothing
      <3>7. Pdp(i)' = IF i = 0 THEN ToTable(3 * N) ELSE Nothing
        BY DEF Pdp, boot_pd_table, ToTable, Nothing
      <3>8. PdpHigh(i)' = IF i = KernelSlot THEN ToTable(3 * N) ELSE Nothing
        BY <1>9 DEF PdpHigh, boot_pd_table, ToTable, Nothing
      <3>9. Pd(i)' = Nothing
        BY <1>9 DEF Pd, Nothing
      <3> QED BY <3>2, <3>3, <3>4, <3>5, <3>6, <3>7, <3>8, <3>9
    <2>2. ASSUME NEW j \in 0..(Room - 1)
          PROVE  mem'[4 * N + j] = Pde(j)'
      <3>1. 4 * N + j \in Cells
        BY Places
      <3>2. /\ 4 * N + j # 2 * N + KernelSlot
            /\ 4 * N + j # N - 1 /\ 4 * N + j # N /\ 4 * N + j # 0
        <4> HIDE DEF N
        <4> QED BY <1>3
      <3>3. mem'[4 * N + j] = Nothing
        BY <1>7, <3>1, <3>2
      <3>4. Pde(j)' = Nothing
        BY <1>9 DEF Pde, Nothing
      <3> QED BY <3>3, <3>4
    <2> QED BY <2>1, <2>2 DEF Tables, Room
  <1>11. MemInv'
    BY <1>1, <1>8, <1>10 DEF MemInv, Labels, Linked, Linking, Cells, boot_pml4_table, ptables_end
  <1>12. LoopInv'
    BY <1>1, <1>3 DEF LoopInv, boot_pd_table
  <1>13. pc \notin On /\ pc' \in Linking \cup {"paging"}
    BY <1>1 DEF On, Unmapped, Linking
  <1> QED BY <1>1, <1>11, <1>12, <1>13, OffStep

\* The number of an iteration goes up, or the next loop begins.
LEMMA Iterated ==
  ASSUME NEW last \in Int, NEW label, NEW p, eax \in Int, eax <= last,
         Continue(last, label, p)
  PROVE  \/ eax < last /\ esi' = esi + 1 /\ eax' = eax + 1 /\ pc' = pc
         \/ eax = last /\ esi' = p /\ eax' = 0 /\ pc' = label
  BY DEF Continue

\* The two words of an entry that was cleared.
LEMMA StoreLow ==
  ASSUME NEW D, NEW m, m = [c \in D |-> m[c]], NEW p \in D, NEW x,
         m[p] = [kind |-> "nothing", low |-> 0, high |-> 0]
  PROVE  [m EXCEPT ![p].kind = "page", ![p].low = x]
           = [m EXCEPT ![p] = [kind |-> "page", low |-> x, high |-> 0]]
  <1> DEFINE e == [kind |-> "page", low |-> 0, high |-> 0]
             f == [kind |-> "page", low |-> x, high |-> 0]
             m1 == [m EXCEPT ![p] = [m[p] EXCEPT !.kind = "page"]]
  <1>1. [m[p] EXCEPT !.kind = "page"] = e
    OBVIOUS
  <1>2. [e EXCEPT !.low = x] = f
    OBVIOUS
  <1>3. m1 = [m EXCEPT ![p] = e]
    BY <1>1
  <1>4. m1[p] = e
    BY <1>3
  <1>5. [m1 EXCEPT ![p] = [m1[p] EXCEPT !.low = x]] = [m1 EXCEPT ![p] = f]
    BY <1>2, <1>4
  <1>6. [m1 EXCEPT ![p] = f] = [m EXCEPT ![p] = f]
    <2> HIDE DEF e, f
    <2> QED BY <1>3
  <1>7. [m EXCEPT ![p].kind = "page", ![p].low = x]
          = [m1 EXCEPT ![p] = [m1[p] EXCEPT !.low = x]]
    OBVIOUS
  <1> QED BY <1>5, <1>6, <1>7

\* The pages of the kernel.
LEMMA FillPdStep == IInv /\ FillPd => IInv'
  <1> SUFFICES ASSUME IInv, FillPd PROVE IInv'
    OBVIOUS
  <1>1. /\ pc = ".Lfill_boot_pd_table" /\ eax \in 0..(N - 1) /\ esi = 3 * N + eax
        /\ mem = [c \in Cells |-> mem[c]] /\ Tables /\ cr3 = 0
        /\ mem' = [mem EXCEPT ![esi].kind = "page", ![esi].low = eax % Split]
        /\ Continue(N - 1, ".Lfill_boot_pde_array", boot_pde_array)
        /\ UNCHANGED <<cr3, cr4, cr0, rip, rsp, gdtr, tlb>>
    BY DEF FillPd, IInv, MemInv, LoopInv, Linked, Linking, Cells, boot_pml4_table, boot_pd_table
  <1>2. N \in Nat /\ N >= 2 /\ Room \in Nat /\ Room >= N /\ N <= Split /\ Split \in Nat \ {0}
    BY Sizes
  <1>3. \/ /\ eax < N - 1 /\ esi' = esi + 1 /\ eax' = eax + 1
           /\ pc' = ".Lfill_boot_pd_table"
        \/ /\ eax = N - 1 /\ esi' = 4 * N /\ eax' = 0
           /\ pc' = ".Lfill_boot_pde_array"
    <2>1. N - 1 \in Int /\ eax \in Int /\ eax <= N - 1
      BY <1>1, <1>2
    <2> QED BY <1>1, <2>1, Iterated DEF boot_pde_array
  <1>4. /\ PdDone = eax /\ PdeDone = 0 /\ PdpDone = 0
        /\ PdDone' = eax + 1 /\ PdeDone' = 0 /\ PdpDone' = 0
    <2>1. PdDone = eax /\ PdeDone = 0 /\ PdpDone = 0
      BY <1>1 DEF PdDone, PdeDone, PdpDone, Done
    <2>2. PdDone' = eax + 1 /\ PdeDone' = 0 /\ PdpDone' = 0
      BY <1>1, <1>2, <1>3 DEF PdDone, PdeDone, PdpDone, Done
    <2> QED BY <2>1, <2>2
  <1>5. esi \in Cells
    BY <1>1, Places
  <1>6. mem[esi] = Nothing
    BY <1>1, <1>4 DEF Tables, Pd
  <1>7. Page(eax) = [kind |-> "page", low |-> eax % Split, high |-> 0]
    <2>1. eax \in 0..(Split - 1) /\ 0 \in Int
      BY <1>1, <1>2
    <2>2. (0 * Split + eax) \div Split = 0
      BY <1>2, <2>1, OneWay
    <2>3. 0 * Split + eax = eax
      BY <1>2, <2>1
    <2> QED BY <2>2, <2>3 DEF Page
  <1>8. mem' = [mem EXCEPT ![esi] = Page(eax)]
    <2>1. mem[esi] = [kind |-> "nothing", low |-> 0, high |-> 0]
      BY <1>6 DEF Nothing
    <2> HIDE DEF Cells
    <2>2. [mem EXCEPT ![esi].kind = "page", ![esi].low = eax % Split]
            = [mem EXCEPT ![esi] = [kind |-> "page", low |-> eax % Split, high |-> 0]]
      BY <1>1, <1>5, <2>1, StoreLow
    <2> QED BY <1>1, <1>7, <2>2
  <1>9. /\ mem' = [c \in Cells |-> mem'[c]] /\ mem'[esi] = Page(eax)
        /\ \A c \in Cells : c # esi => mem'[c] = mem[c]
    <2> HIDE DEF Cells
    <2> QED BY <1>1, <1>5, <1>8, Store
  <1>10. Tables'
    <2>1. ASSUME NEW i \in 0..(N - 1)
          PROVE  /\ mem'[i] = Pml4(i)' /\ mem'[N + i] = Pdp(i)'
                 /\ mem'[2 * N + i] = PdpHigh(i)' /\ mem'[3 * N + i] = Pd(i)'
      <3>1. /\ i \in Cells /\ N + i \in Cells /\ 2 * N + i \in Cells /\ 3 * N + i \in Cells
        BY Places
      <3>2. /\ i # esi /\ N + i # esi /\ 2 * N + i # esi /\ (3 * N + i = esi <=> i = eax)
            /\ (i < eax + 1 <=> i < eax \/ i = eax)
        <4> HIDE DEF N
        <4> QED BY <1>1, <1>2
      <3>3. /\ mem'[i] = Pml4(i) /\ mem'[N + i] = Pdp(i) /\ mem'[2 * N + i] = PdpHigh(i)
            /\ i # eax => mem'[3 * N + i] = Pd(i)
        BY <1>1, <1>9, <3>1, <3>2 DEF Tables
      <3>4. Pml4(i)' = Pml4(i)
        BY <1>1, <1>3 DEF Pml4, Unmapped, boot_pdp_table, boot_pdp_high_table, ToTable, Nothing
      <3>5. Pdp(i)' = Pdp(i)
        BY DEF Pdp, boot_pd_table, ToTable, Nothing
      <3>6. PdpHigh(i)' = PdpHigh(i)
        BY <1>4 DEF PdpHigh, boot_pd_table, boot_pde_array, ToTable, Nothing
      <3>7. mem'[3 * N + i] = Pd(i)'
        <4>1. Pd(i)' = IF i < eax + 1 THEN Page(i) ELSE Nothing
          BY <1>4 DEF Pd, Page, Nothing
        <4>2. Pd(i) = IF i < eax THEN Page(i) ELSE Nothing
          BY <1>4 DEF Pd
        <4>3. CASE i = eax
          BY <1>9, <3>2, <4>1, <4>3
        <4>4. CASE i # eax
          BY <3>2, <3>3, <4>1, <4>2, <4>4
        <4> QED BY <4>3, <4>4
      <3> QED BY <3>3, <3>4, <3>5, <3>6, <3>7
    <2>2. ASSUME NEW j \in 0..(Room - 1)
          PROVE  mem'[4 * N + j] = Pde(j)'
      <3>1. 4 * N + j \in Cells
        BY Places
      <3>2. 4 * N + j # esi
        <4> HIDE DEF N
        <4> QED BY <1>1, <1>2
      <3>3. mem'[4 * N + j] = Pde(j)
        BY <1>1, <1>9, <3>1, <3>2 DEF Tables
      <3>4. Pde(j)' = Pde(j)
        BY <1>4 DEF Pde, Page, Nothing
      <3> QED BY <3>3, <3>4
    <2> QED BY <2>1, <2>2 DEF Tables, Room
  <1>11. MemInv'
    BY <1>1, <1>3, <1>9, <1>10
       DEF MemInv, Labels, Linked, Linking, Cells, boot_pml4_table, ptables_end
  <1>12. LoopInv'
    <2>1. CASE eax < N - 1
      <3>1. /\ pc' = ".Lfill_boot_pd_table" /\ eax' \in 0..(N - 1) /\ esi' = 3 * N + eax'
        <4> HIDE DEF N
        <4> QED BY <1>1, <1>2, <1>3, <2>1
      <3> QED BY <3>1 DEF LoopInv, boot_pd_table
    <2>2. CASE eax = N - 1
      <3>1. pc' = ".Lfill_boot_pde_array" /\ eax' \in 0..(Room - 1) /\ esi' = 4 * N + eax'
        <4> HIDE DEF N
        <4> QED BY <1>1, <1>2, <1>3, <2>2
      <3> QED BY <3>1 DEF LoopInv, boot_pde_array, Room
    <2> QED BY <1>3, <2>1, <2>2
  <1>13. pc \notin On /\ pc' \in Linking \cup {"paging"}
    BY <1>1, <1>3 DEF On, Unmapped, Linking
  <1> QED BY <1>1, <1>11, <1>12, <1>13, OffStep

\* The pages that are to be found at the beginning of high memory.
LEMMA FillPdesStep == IInv /\ FillPdes => IInv'
  <1> SUFFICES ASSUME IInv, FillPdes PROVE IInv'
    OBVIOUS
  <1>1. /\ pc = ".Lfill_boot_pde_array" /\ eax \in 0..(Room - 1) /\ esi = 4 * N + eax
        /\ mem = [c \in Cells |-> mem[c]] /\ Tables /\ cr3 = 0
        /\ mem' = [mem EXCEPT ![esi] = Page(eax)]
        /\ Continue(Room - 1, ".Lfill_boot_pdp_high_table", boot_pdp_high_table)
        /\ UNCHANGED <<cr3, cr4, cr0, rip, rsp, gdtr, tlb>>
    BY DEF FillPdes, IInv, MemInv, LoopInv, Linked, Linking, Cells, boot_pml4_table,
           boot_pde_array, Room, Page
  <1>2. /\ N \in Nat /\ N >= 2 /\ Room \in Nat /\ Room >= N
        /\ PdeTables \in Nat /\ PdeTables >= 1
    BY Sizes
  <1>3. \/ /\ eax < Room - 1 /\ esi' = esi + 1 /\ eax' = eax + 1
           /\ pc' = ".Lfill_boot_pde_array"
        \/ /\ eax = Room - 1 /\ esi' = 2 * N /\ eax' = 0
           /\ pc' = ".Lfill_boot_pdp_high_table"
    <2>1. Room - 1 \in Int /\ eax \in Int /\ eax <= Room - 1
      BY <1>1, <1>2
    <2> QED BY <1>1, <2>1, Iterated DEF boot_pdp_high_table
  <1>4. /\ PdDone = N /\ PdeDone = eax /\ PdpDone = 0
        /\ PdDone' = N /\ PdeDone' = eax + 1 /\ PdpDone' = 0
    <2>1. PdDone = N /\ PdeDone = eax /\ PdpDone = 0
      BY <1>1 DEF PdDone, PdeDone, PdpDone, Done
    <2>2. PdDone' = N /\ PdeDone' = eax + 1 /\ PdpDone' = 0
      <3>1. Room' = Room
        BY DEF Room
      <3> QED BY <1>1, <1>2, <1>3, <3>1 DEF PdDone, PdeDone, PdpDone, Done
    <2> QED BY <2>1, <2>2
  <1>5. esi \in Cells
    BY <1>1, Places
  <1>9. /\ mem' = [c \in Cells |-> mem'[c]] /\ mem'[esi] = Page(eax)
        /\ \A c \in Cells : c # esi => mem'[c] = mem[c]
    <2> HIDE DEF Cells
    <2> QED BY <1>1, <1>5, Store
  <1>10. Tables'
    <2>1. ASSUME NEW i \in 0..(N - 1)
          PROVE  /\ mem'[i] = Pml4(i)' /\ mem'[N + i] = Pdp(i)'
                 /\ mem'[2 * N + i] = PdpHigh(i)' /\ mem'[3 * N + i] = Pd(i)'
      <3>1. /\ i \in Cells /\ N + i \in Cells /\ 2 * N + i \in Cells /\ 3 * N + i \in Cells
        BY Places
      <3>2. i # esi /\ N + i # esi /\ 2 * N + i # esi /\ 3 * N + i # esi
        <4> HIDE DEF N
        <4> QED BY <1>1, <1>2
      <3>3. /\ mem'[i] = Pml4(i) /\ mem'[N + i] = Pdp(i) /\ mem'[2 * N + i] = PdpHigh(i)
            /\ mem'[3 * N + i] = Pd(i)
        BY <1>1, <1>9, <3>1, <3>2 DEF Tables
      <3>4. Pml4(i)' = Pml4(i)
        BY <1>1, <1>3 DEF Pml4, Unmapped, boot_pdp_table, boot_pdp_high_table, ToTable, Nothing
      <3>5. Pdp(i)' = Pdp(i)
        BY DEF Pdp, boot_pd_table, ToTable, Nothing
      <3>6. PdpHigh(i)' = PdpHigh(i)
        BY <1>4 DEF PdpHigh, boot_pd_table, boot_pde_array, ToTable, Nothing
      <3>7. Pd(i)' = Pd(i)
        BY <1>4 DEF Pd, Page, Nothing
      <3> QED BY <3>3, <3>4, <3>5, <3>6, <3>7
    <2>2. ASSUME NEW j \in 0..(Room - 1)
          PROVE  mem'[4 * N + j] = Pde(j)'
      <3>1. 4 * N + j \in Cells
        BY Places
      <3>2. (4 * N + j = esi <=> j = eax) /\ (j < eax + 1 <=> j < eax \/ j = eax)
        <4> HIDE DEF N
        <4> QED BY <1>1, <1>2
      <3>3. Pde(j)' = IF j < eax + 1 THEN Page(j) ELSE Nothing
        BY <1>4 DEF Pde, Page, Nothing
      <3>4. Pde(j) = IF j < eax THEN Page(j) ELSE Nothing
        BY <1>4 DEF Pde
      <3>5. CASE j = eax
        BY <1>9, <3>2, <3>3, <3>5
      <3>6. CASE j # eax
        <4>1. mem'[4 * N + j] = Pde(j)
          BY <1>1, <1>9, <3>1, <3>2, <3>6 DEF Tables
        <4> QED BY <3>2, <3>3, <3>4, <3>6, <4>1
      <3> QED BY <3>5, <3>6
    <2> QED BY <2>1, <2>2 DEF Tables, Room
  <1>11. MemInv'
    BY <1>1, <1>3, <1>9, <1>10
       DEF MemInv, Labels, Linked, Linking, Cells, boot_pml4_table, ptables_end
  <1>12. LoopInv'
    <2>1. CASE eax < Room - 1
      <3>1. /\ pc' = ".Lfill_boot_pde_array" /\ eax' \in 0..(Room - 1) /\ esi' = 4 * N + eax'
        <4> HIDE DEF N
        <4> QED BY <1>1, <1>2, <1>3, <2>1
      <3> QED BY <3>1 DEF LoopInv, boot_pde_array, Room
    <2>2. CASE eax = Room - 1
      <3>1. /\ pc' = ".Lfill_boot_pdp_high_table" /\ eax' \in 0..(PdeTables - 1)
            /\ esi' = 2 * N + eax'
        <4> HIDE DEF N
        <4> QED BY <1>1, <1>2, <1>3, <2>2
      <3> QED BY <3>1 DEF LoopInv, boot_pdp_high_table
    <2> QED BY <1>3, <2>1, <2>2
  <1>13. pc \notin On /\ pc' \in Linking \cup {"paging"}
    BY <1>1, <1>3 DEF On, Unmapped, Linking
  <1> QED BY <1>1, <1>11, <1>12, <1>13, OffStep

\* The tables of those pages.  KernelSlot lies beyond them.
LEMMA FillPdpHighStep == IInv /\ FillPdpHigh => IInv'
  <1> DEFINE e == ToTable(4 * N + eax * N)
  <1> SUFFICES ASSUME IInv, FillPdpHigh PROVE IInv'
    OBVIOUS
  <1>1. /\ pc = ".Lfill_boot_pdp_high_table" /\ eax \in 0..(PdeTables - 1)
        /\ esi = 2 * N + eax
        /\ mem = [c \in Cells |-> mem[c]] /\ Tables /\ cr3 = 0
        /\ mem' = [mem EXCEPT ![esi] = Link(esi, 4 * N + eax * N)]
        /\ Continue(PdeTables - 1, "paging", 0)
        /\ UNCHANGED <<cr3, cr4, cr0, rip, rsp, gdtr, tlb>>
    BY DEF FillPdpHigh, IInv, MemInv, LoopInv, Linked, Linking, Cells, boot_pml4_table,
           boot_pde_array, boot_pdp_high_table
  <1> HIDE DEF e
  <1>2. /\ N \in Nat /\ N >= 2 /\ Room \in Nat /\ PdeTables \in Nat /\ PdeTables >= 1
        /\ KernelSlot \in Nat /\ PdeTables <= KernelSlot /\ KernelSlot <= N - 1
    BY Sizes
  <1>3. \/ /\ eax < PdeTables - 1 /\ esi' = esi + 1 /\ eax' = eax + 1
           /\ pc' = ".Lfill_boot_pdp_high_table"
        \/ eax = PdeTables - 1 /\ pc' = "paging"
    <2>1. PdeTables - 1 \in Int /\ eax \in Int /\ eax <= PdeTables - 1
      BY <1>1, <1>2
    <2> QED BY <1>1, <2>1, Iterated
  <1>4. /\ PdDone = N /\ PdeDone = Room /\ PdpDone = eax
        /\ PdDone' = N /\ PdeDone' = Room /\ PdpDone' = eax + 1
    <2>1. PdDone = N /\ PdeDone = Room /\ PdpDone = eax
      BY <1>1 DEF PdDone, PdeDone, PdpDone, Done
    <2>2. PdDone' = N /\ PdeDone' = Room /\ PdpDone' = eax + 1
      <3>1. Room' = Room
        BY DEF Room
      <3> QED BY <1>1, <1>2, <1>3, <3>1 DEF PdDone, PdeDone, PdpDone, Done
    <2> QED BY <2>1, <2>2
  <1>5. esi \in Cells /\ eax \in 0..(N - 1)
    <2>1. eax \in 0..(N - 1)
      <3> HIDE DEF N
      <3> QED BY <1>1, <1>2
    <2> QED BY <1>1, <2>1, Places
  <1>6. mem[esi] = Nothing
    <2>1. mem[2 * N + eax] = PdpHigh(eax)
      BY <1>1, <1>5 DEF Tables
    <2>2. eax # KernelSlot /\ ~(eax < eax)
      <3> HIDE DEF N
      <3> QED BY <1>1, <1>2
    <2>3. PdpHigh(eax) = Nothing
      BY <1>4, <2>2 DEF PdpHigh
    <2> QED BY <1>1, <2>1, <2>3
  <1>7. Link(esi, 4 * N + eax * N) = e
    BY <1>6, LinkOverNothing DEF e
  <1>8. mem' = [mem EXCEPT ![esi] = e]
    BY <1>1, <1>7
  <1>9. /\ mem' = [c \in Cells |-> mem'[c]] /\ mem'[esi] = e
        /\ \A c \in Cells : c # esi => mem'[c] = mem[c]
    <2> HIDE DEF Cells
    <2> QED BY <1>1, <1>5, <1>8, Store
  <1>10. Tables'
    <2>1. ASSUME NEW i \in 0..(N - 1)
          PROVE  /\ mem'[i] = Pml4(i)' /\ mem'[N + i] = Pdp(i)'
                 /\ mem'[2 * N + i] = PdpHigh(i)' /\ mem'[3 * N + i] = Pd(i)'
      <3>1. /\ i \in Cells /\ N + i \in Cells /\ 2 * N + i \in Cells /\ 3 * N + i \in Cells
        BY Places
      <3>2. /\ i # esi /\ N + i # esi /\ (2 * N + i = esi <=> i = eax) /\ 3 * N + i # esi
            /\ (i < eax + 1 <=> i < eax \/ i = eax) /\ eax # KernelSlot
        <4> HIDE DEF N
        <4> QED BY <1>1, <1>2
      <3>3. /\ mem'[i] = Pml4(i) /\ mem'[N + i] = Pdp(i) /\ mem'[3 * N + i] = Pd(i)
            /\ i # eax => mem'[2 * N + i] = PdpHigh(i)
        BY <1>1, <1>9, <3>1, <3>2 DEF Tables
      <3>4. Pml4(i)' = Pml4(i)
        BY <1>1, <1>3 DEF Pml4, Unmapped, boot_pdp_table, boot_pdp_high_table, ToTable, Nothing
      <3>5. Pdp(i)' = Pdp(i)
        BY DEF Pdp, boot_pd_table, ToTable, Nothing
      <3>6. mem'[2 * N + i] = PdpHigh(i)'
        <4>1. PdpHigh(i)' = IF i = KernelSlot THEN ToTable(3 * N)
                            ELSE IF i < eax + 1 THEN ToTable(4 * N + i * N) ELSE Nothing
          BY <1>4 DEF PdpHigh, boot_pd_table, boot_pde_array, ToTable, Nothing
        <4>2. PdpHigh(i) = IF i = KernelSlot THEN ToTable(3 * N)
                           ELSE IF i < eax THEN ToTable(4 * N + i * N) ELSE Nothing
          BY <1>4 DEF PdpHigh, boot_pd_table, boot_pde_array
        <4>3. CASE i = eax
          BY <1>9, <3>2, <4>1, <4>3 DEF e
        <4>4. CASE i # eax
          BY <3>2, <3>3, <4>1, <4>2, <4>4
        <4> QED BY <4>3, <4>4
      <3>7. Pd(i)' = Pd(i)
        BY <1>4 DEF Pd, Page, Nothing
      <3> QED BY <3>3, <3>4, <3>5, <3>6, <3>7
    <2>2. ASSUME NEW j \in 0..(Room - 1)
          PROVE  mem'[4 * N + j] = Pde(j)'
      <3>1. 4 * N + j \in Cells
        BY Places
      <3>2. 4 * N + j # esi
        <4> HIDE DEF N
        <4> QED BY <1>1, <1>2
      <3>3. mem'[4 * N + j] = Pde(j)
        BY <1>1, <1>9, <3>1, <3>2 DEF Tables
      <3>4. Pde(j)' = Pde(j)
        BY <1>4 DEF Pde, Page, Nothing
      <3> QED BY <3>3, <3>4
    <2> QED BY <2>1, <2>2 DEF Tables, Room
  <1>11. MemInv'
    BY <1>1, <1>3, <1>9, <1>10
       DEF MemInv, Labels, Linked, Linking, Cells, boot_pml4_table, ptables_end
  <1>12. LoopInv'
    <2>1. CASE eax < PdeTables - 1
      <3>1. /\ pc' = ".Lfill_boot_pdp_high_table" /\ eax' \in 0..(PdeTables - 1)
            /\ esi' = 2 * N + eax'
        <4> HIDE DEF N
        <4> QED BY <1>1, <1>2, <1>3, <2>1
      <3> QED BY <3>1 DEF LoopInv, boot_pdp_high_table
    <2>2. CASE eax = PdeTables - 1
      <3>1. pc' = "paging"
        BY <1>3, <2>2
      <3> QED BY <3>1 DEF LoopInv
    <2> QED BY <1>3, <2>1, <2>2
  <1>13. pc \notin On /\ pc' \in Linking \cup {"paging"}
    BY <1>1, <1>3 DEF On, Unmapped, Linking
  <1> QED BY <1>1, <1>11, <1>12, <1>13, OffStep

-----------------------------------------------------------------------------
(* The steps with paging. *)

\* Steps that leave the tables alone, once they are finished, and do not unmap.
LEMMA KeepTables ==
  ASSUME MemInv, UNCHANGED <<mem, cr3>>,
         pc \in {"paging"} \cup On, pc' \in {"paging"} \cup On,
         pc' \in Unmapped <=> pc \in Unmapped
  PROVE  MemInv' /\ LoopInv' /\ \A v : Walk(v)' = Walk(v)
  <1>1. pc \in Linked /\ pc' \in Linked /\ pc \notin Linking /\ pc' \notin Linking
    BY DEF Linked, Linking, On, Unmapped
  <1>2. Tables /\ cr3 = boot_pml4_table
    BY <1>1 DEF MemInv
  <1>3. PdDone' = PdDone /\ PdeDone' = PdeDone /\ PdpDone' = PdpDone
    BY <1>1 DEF PdDone, PdeDone, PdpDone, Done, Linking, Room
  <1>4. /\ \A i : /\ Pml4(i)' = Pml4(i) /\ Pdp(i)' = Pdp(i)
                  /\ PdpHigh(i)' = PdpHigh(i) /\ Pd(i)' = Pd(i)
        /\ \A j : Pde(j)' = Pde(j)
    BY <1>3 DEF Pml4, Pdp, PdpHigh, Pd, Pde, Page, ToTable, Nothing, boot_pdp_table,
                boot_pdp_high_table, boot_pd_table, boot_pde_array
  <1>5. Tables'
    BY <1>2, <1>4 DEF Tables, Room
  <1>6. MemInv'
    BY <1>1, <1>2, <1>5 DEF MemInv, Labels, Linked, Linking, On, Unmapped,
                            boot_pml4_table, ptables_end
  <1>7. LoopInv'
    BY <1>1 DEF LoopInv, Linking
  <1>8. \A v : Walk(v)' = Walk(v)
    BY DEF Walk, Follow
  <1> QED BY <1>6, <1>7, <1>8

\* The TLB is not asked to change.
LEMMA KeepTlb ==
  ASSUME TlbInv, UNCHANGED tlb, \A v : Walk(v)' = Walk(v), pc \in On, pc' \in On,
         pc = "flush" => pc' = "flush"
  PROVE  TlbInv'
  <1>1. ASSUME NEW t \in tlb PROVE t[1] \in Linear /\ Current(t)'
    BY <1>1 DEF TlbInv, Current
  <1> QED BY <1>1 DEF TlbInv, Linear

\* Paging begins with the tables finished and the TLB empty.
LEMMA EnablePagingStep == IInv /\ EnablePaging => IInv'
  <1> SUFFICES ASSUME IInv, EnablePaging PROVE IInv'
    OBVIOUS
  <1>1. /\ pc = "paging" /\ pc' = "retf" /\ cr0' = cr0 \cup {"PG"}
        /\ UNCHANGED <<mem, cr3, cr4, tlb>>
    BY DEF EnablePaging
  <1>2. /\ pc \in {"paging"} \cup On /\ pc' \in {"paging"} \cup On
        /\ pc' \notin Unmapped /\ pc \notin Unmapped /\ pc \notin On /\ pc' \in On
    BY <1>1 DEF On, Unmapped
  <1>3. MemInv' /\ LoopInv'
    BY <1>1, <1>2, KeepTables DEF IInv
  <1>4. CpuInv'
    BY <1>1, <1>2 DEF IInv, CpuInv, Paging
  <1>5. TlbInv'
    BY <1>1, <1>2 DEF IInv, TlbInv
  <1> QED BY <1>3, <1>4, <1>5 DEF IInv

\* From the low addresses to the high ones.
LEMMA JumpStep == IInv /\ (FarReturn \/ JumpHigh \/ HighStackAndGdt) => IInv'
  <1> SUFFICES ASSUME IInv, FarReturn \/ JumpHigh \/ HighStackAndGdt PROVE IInv'
    OBVIOUS
  <1>1. /\ pc \in {"retf", "_start64", "high_addr"}
        /\ pc' \in {"_start64", "high_addr", "unmap"}
        /\ UNCHANGED <<mem, cr3, cr4, cr0, tlb>>
        /\ pc' = "high_addr" => rip' = "high"
        /\ pc' = "unmap" => pc = "high_addr" /\ rip' = rip /\ rsp' = "high" /\ gdtr' = "high"
    BY DEF FarReturn, JumpHigh, HighStackAndGdt, regs
  <1>2. pc \in On /\ pc' \in On /\ pc \notin Unmapped /\ pc' \notin Unmapped /\ pc # "flush"
    BY <1>1 DEF On, Unmapped
  <1>3. MemInv' /\ LoopInv' /\ \A v : Walk(v)' = Walk(v)
    BY <1>1, <1>2, KeepTables DEF IInv
  <1>4. CpuInv'
    BY <1>1, <1>2 DEF IInv, CpuInv, Paging
  <1>5. TlbInv'
    BY <1>1, <1>2, <1>3, KeepTlb DEF IInv
  <1> QED BY <1>3, <1>4, <1>5 DEF IInv

\* The low pages that the TLB may still hold are the only ones that a walk does not
\* find any more.
LEMMA UnmapLowStep == IInv /\ UnmapLow => IInv'
  <1> SUFFICES ASSUME IInv, UnmapLow PROVE IInv'
    OBVIOUS
  <1>1. /\ pc = "unmap" /\ pc' = "flush"
        /\ mem = [c \in Cells |-> mem[c]] /\ Tables /\ cr3 = 0
        /\ mem' = [mem EXCEPT ![0] = Nothing]
        /\ UNCHANGED <<cr3, cr4, cr0, rip, rsp, gdtr, tlb>>
    BY DEF UnmapLow, IInv, MemInv, Linked, On, Cells, boot_pml4_table, regs
  <1>2. N \in Nat /\ N >= 2 /\ Room \in Nat
    BY Sizes
  <1>3. 0 \in Cells
    <2>1. 0 \in 0..(N - 1)
      BY <1>2
    <2> QED BY <2>1, Places
  <1>4. /\ mem' = [c \in Cells |-> mem'[c]] /\ mem'[0] = Nothing
        /\ \A c \in Cells : c # 0 => mem'[c] = mem[c]
    <2> HIDE DEF Cells, Nothing
    <2> QED BY <1>1, <1>3, Store
  <1>5. /\ PdDone' = PdDone /\ PdeDone' = PdeDone /\ PdpDone' = PdpDone
    BY <1>1 DEF PdDone, PdeDone, PdpDone, Done, Room
  <1>6. Tables'
    <2>1. ASSUME NEW i \in 0..(N - 1)
          PROVE  /\ mem'[i] = Pml4(i)' /\ mem'[N + i] = Pdp(i)'
                 /\ mem'[2 * N + i] = PdpHigh(i)' /\ mem'[3 * N + i] = Pd(i)'
      <3>1. /\ i \in Cells /\ N + i \in Cells /\ 2 * N + i \in Cells /\ 3 * N + i \in Cells
        BY Places
      <3>2. N + i # 0 /\ 2 * N + i # 0 /\ 3 * N + i # 0
        <4> HIDE DEF N
        <4> QED BY <1>2
      <3>3. /\ i # 0 => mem'[i] = Pml4(i)
            /\ mem'[N + i] = Pdp(i) /\ mem'[2 * N + i] = PdpHigh(i) /\ mem'[3 * N + i] = Pd(i)
        BY <1>1, <1>4, <3>1, <3>2 DEF Tables
      <3>4. /\ i # 0 => Pml4(i)' = Pml4(i)
            /\ i = 0 => Pml4(i)' = Nothing
        BY <1>1 DEF Pml4, Unmapped, boot_pdp_table, boot_pdp_high_table, ToTable, Nothing
      <3>5. Pdp(i)' = Pdp(i)
        BY DEF Pdp, boot_pd_table, ToTable, Nothing
      <3>6. PdpHigh(i)' = PdpHigh(i)
        BY <1>5 DEF PdpHigh, boot_pd_table, boot_pde_array, ToTable, Nothing
      <3>7. Pd(i)' = Pd(i)
        BY <1>5 DEF Pd, Page, Nothing
      <3> QED BY <1>4, <3>3, <3>4, <3>5, <3>6, <3>7
    <2>2. ASSUME NEW j \in 0..(Room - 1)
          PROVE  mem'[4 * N + j] = Pde(j)'
      <3>1. 4 * N + j \in Cells
        BY Places
      <3>2. 4 * N + j # 0
        <4> HIDE DEF N
        <4> QED BY <1>2
      <3>3. mem'[4 * N + j] = Pde(j)
        BY <1>1, <1>4, <3>1, <3>2 DEF Tables
      <3>4. Pde(j)' = Pde(j)
        BY <1>5 DEF Pde, Page, Nothing
      <3> QED BY <3>3, <3>4
    <2> QED BY <2>1, <2>2 DEF Tables, Room
  <1>7. MemInv'
    BY <1>1, <1>4, <1>6
       DEF MemInv, Labels, Linked, On, Unmapped, Cells, boot_pml4_table, ptables_end
  <1>8. LoopInv'
    BY <1>1 DEF LoopInv
  <1>9. pc \in On /\ pc' \in On /\ pc \notin Unmapped /\ pc' \in Unmapped
    BY <1>1 DEF On, Unmapped
  <1>10. CpuInv'
    BY <1>1, <1>9 DEF IInv, CpuInv, Paging
  <1>11. TlbInv'
    <2>1. Walks /\ Walks'
      BY <1>7, <1>9, WalkFinds, WalkFindsNext DEF IInv
    <2>2. ASSUME NEW t \in tlb
          PROVE  /\ t[1] \in Linear
                 /\ \/ t[2] = Walk(t[1])'
                    \/ t[1] \in 0..(N - 1) /\ t[2] = t[1]
      <3>1. t[1] \in Linear /\ t[2] = Walk(t[1])
        BY <1>1, <2>2 DEF IInv, TlbInv, Current
      <3>2. PICK a \in 0..(N - 1), b \in 0..(N - 1), c \in 0..(N - 1) :
               t[1] = (a * N + b) * N + c
        BY <3>1, PlaceFound
      <3>3. t[2] = Expected(a, b, c)
        BY <2>1, <3>1, <3>2 DEF Walks
      <3>4. Walk((a * N + b) * N + c)' = Expected(a, b, c)'
        BY <2>1 DEF Walks, N
      <3>5. Walk(t[1])' = Expected(a, b, c)'
        BY <3>2, <3>4
      <3>6. CASE a = 0 /\ b = 0
        <4>1. a # N - 1 /\ c \in Nat
          BY <1>2, <3>6
        <4>2. t[2] = c
          BY <1>9, <3>3, <3>6, <4>1 DEF Expected
        <4>3. t[1] = c
          <5>1. 0 * N + 0 = 0 /\ 0 * N + c = c
            BY <1>2, <4>1
          <5> QED BY <3>2, <3>6, <5>1
        <4> QED BY <3>1, <4>2, <4>3
      <3>7. CASE ~(a = 0 /\ b = 0)
        <4>1. Expected(a, b, c)' = Expected(a, b, c)
          BY <3>7 DEF Expected, None, N
        <4> QED BY <3>1, <3>3, <3>5, <4>1
      <3> QED BY <3>6, <3>7
    <2>3. \A t \in tlb' : t[1] \in Linear' /\ Current(t)'
      BY <1>1, <2>2 DEF Current, Linear
    <2> QED BY <1>9, <2>3 DEF TlbInv
  <1> QED BY <1>7, <1>8, <1>10, <1>11 DEF IInv

\* Without PGE nothing stays in the TLB.
LEMMA FlushStep == IInv /\ Flush => IInv'
  <1> SUFFICES ASSUME IInv, Flush PROVE IInv'
    OBVIOUS
  <1>1. /\ pc = "flush" /\ pc' = "kmain" /\ tlb' = {}
        /\ UNCHANGED <<mem, esi, eax, cr3, cr4, cr0, rip, rsp, gdtr>>
    BY DEF Flush, IInv, CpuInv, regs
  <1>2. pc \in On /\ pc' \in On /\ pc \in Unmapped /\ pc' \in Unmapped
    BY <1>1 DEF On, Unmapped
  <1>3. MemInv' /\ LoopInv'
    BY <1>1, <1>2, KeepTables DEF IInv
  <1>4. CpuInv'
    BY <1>1, <1>2 DEF IInv, CpuInv, Paging
  <1>5. TlbInv'
    BY <1>1 DEF TlbInv
  <1> QED BY <1>3, <1>4, <1>5 DEF IInv

\* What the processor does with the TLB, or nothing at all.
LEMMA IdleStep ==
  IInv /\ (Evict \/ (\E v \in Linear : Cache(v)) \/ UNCHANGED vars) => IInv'
  <1> SUFFICES ASSUME IInv, Evict \/ (\E v \in Linear : Cache(v)) \/ UNCHANGED vars
               PROVE  IInv'
    OBVIOUS
  <1>1. UNCHANGED <<pc, mem, esi, eax, cr3, cr4, cr0, rip, rsp, gdtr>>
    BY DEF Evict, Cache, vars, regs
  <1>2. MemInv' /\ LoopInv' /\ \A v : Walk(v)' = Walk(v)
    <2>1. \A v : Walk(v)' = Walk(v)
      BY <1>1 DEF Walk, Follow
    <2>2. PdDone' = PdDone /\ PdeDone' = PdeDone /\ PdpDone' = PdpDone
      BY <1>1 DEF PdDone, PdeDone, PdpDone, Done, Room
    <2>3. /\ \A i : /\ Pml4(i)' = Pml4(i) /\ Pdp(i)' = Pdp(i)
                    /\ PdpHigh(i)' = PdpHigh(i) /\ Pd(i)' = Pd(i)
          /\ \A j : Pde(j)' = Pde(j)
      BY <1>1, <2>2 DEF Pml4, Pdp, PdpHigh, Pd, Pde, Page, ToTable, Nothing, boot_pdp_table,
                        boot_pdp_high_table, boot_pd_table, boot_pde_array
    <2>4. Tables => Tables'
      BY <1>1, <2>3 DEF Tables, Room
    <2>5. MemInv'
      BY <1>1, <2>4 DEF IInv, MemInv, boot_pml4_table, ptables_end, Nothing
    <2>6. LoopInv'
      BY <1>1 DEF IInv, LoopInv, boot_pd_table, boot_pde_array, boot_pdp_high_table, Room
    <2> QED BY <2>1, <2>5, <2>6
  <1>3. CpuInv'
    BY <1>1 DEF IInv, CpuInv, Paging
  <1>4. TlbInv'
    <2>1. CASE tlb' \subseteq tlb
      <3>1. \A t \in tlb : t[1] \in Linear /\ Current(t)
        BY DEF IInv, TlbInv
      <3>2. \A t \in tlb' : t[1] \in Linear' /\ Current(t)'
        BY <1>1, <1>2, <2>1, <3>1 DEF Current, Linear
      <3>3. pc' \notin On => tlb' = {}
        BY <1>1, <2>1 DEF IInv, TlbInv
      <3> QED BY <3>2, <3>3 DEF TlbInv
    <2>2. CASE \E v \in Linear : Cache(v)
      <3>1. PICK v \in Linear : Paging /\ tlb' = tlb \cup {<<v, Walk(v)>>}
        BY <2>2 DEF Cache
      <3>2. pc' \in On
        BY <1>1, <3>1 DEF IInv, CpuInv
      <3>3. ASSUME NEW t \in tlb' PROVE t[1] \in Linear /\ Current(t)'
        <4>1. CASE t \in tlb
          BY <1>1, <1>2, <4>1 DEF IInv, TlbInv, Current
        <4>2. CASE t = <<v, Walk(v)>>
          <5>1. t[1] = v /\ t[2] = Walk(v)
            BY <4>2
          <5>2. t[2] = Walk(t[1])'
            BY <1>2, <5>1
          <5> QED BY <5>1, <5>2 DEF Current
        <4> QED BY <3>1, <4>1, <4>2
      <3> QED BY <3>2, <3>3 DEF TlbInv, Linear
    <2>3. tlb' \subseteq tlb \/ \E v \in Linear : Cache(v)
      BY DEF Evict, vars
    <2> QED BY <2>1, <2>2, <2>3
  <1> QED BY <1>2, <1>3, <1>4 DEF IInv

\* kmain, which sets bits of the control registers and leaves PGE alone.
LEMMA MmuInitStep == IInv /\ x86_mmu_init => IInv'
  <1> SUFFICES ASSUME IInv, x86_mmu_init PROVE IInv'
    OBVIOUS
  <1>1. /\ pc = "kmain" /\ pc' \in {"up", "refused"} /\ cr0' = cr0 \cup {"WP"}
        /\ UNCHANGED <<mem, cr3, rip, rsp, gdtr, tlb>>
    BY DEF x86_mmu_init
  <1>2. cr4' \in {cr4, NewCr4(cpu')}
    BY DEF x86_mmu_init
  <1>3. pc \in On /\ pc' \in On /\ pc \in Unmapped /\ pc' \in Unmapped
    BY <1>1 DEF On, Unmapped
  <1>4. MemInv' /\ LoopInv' /\ \A v : Walk(v)' = Walk(v)
    BY <1>1, <1>3, KeepTables DEF IInv
  <1>5. "PGE" \notin cr4'
    BY <1>2 DEF IInv, CpuInv, NewCr4
  <1>6. CpuInv'
    BY <1>1, <1>3, <1>5 DEF IInv, CpuInv, Paging
  <1>7. TlbInv'
    BY <1>1, <1>3, <1>4, KeepTlb DEF IInv
  <1> QED BY <1>4, <1>6, <1>7 DEF IInv

\* Nothing is linked and nothing cached when the loader jumps to _start.
LEMMA InitIInv == Init => IInv
  <1> SUFFICES ASSUME Init PROVE IInv
    OBVIOUS
  <1>1. pc = "_start" /\ tlb = {} /\ cr0 = {} /\ cr4 = {}
    BY DEF Init
  <1>2. mem = [c \in 0..(ptables_end - 1) |-> mem[c]]
    BY DEF Init
  <1>3. MemInv
    BY <1>1, <1>2 DEF MemInv, Labels, Linked, Linking, On, Unmapped
  <1>4. LoopInv /\ CpuInv /\ TlbInv
    BY <1>1 DEF LoopInv, CpuInv, TlbInv, Paging, On, Unmapped
  <1> QED BY <1>3, <1>4 DEF IInv

\* Every step of start.S, of the processor and of kmain keeps the invariant.
LEMMA NextIInv == IInv /\ [MmuNext]_<<vars, cpu>> => IInv'
  BY EarlyStep, SetupPagingStep, FillPdStep, FillPdesStep, FillPdpHighStep,
     EnablePagingStep, JumpStep, UnmapLowStep, FlushStep, IdleStep, MmuInitStep
     DEF MmuNext, Next, Start

\* The invariant holds throughout.
LEMMA Invariance == MmuSpec => []IInv
  <1>1. MmuInit => IInv
    BY InitIInv DEF MmuInit
  <1> QED BY <1>1, NextIInv, PTL DEF MmuSpec

-----------------------------------------------------------------------------
(* The mappings. *)

\* A number reaches a multiple if its quotient reaches the factor.
LEMMA Floor ==
  ASSUME NEW P \in Nat \ {0}, NEW q \in Int, NEW r \in Int, NEW c \in 0..(P - 1)
  PROVE  q * P + c >= r * P <=> q >= r
  <1>1. q * P \in Int /\ r * P \in Int /\ c \in Int /\ 0 <= c /\ c < P
    OBVIOUS
  <1>2. ASSUME q * P + c >= r * P PROVE q >= r
    <2>1. r * P < q * P + P
      BY <1>1, <1>2
    <2> QED BY <2>1, Factors
  <1>3. ASSUME q >= r PROVE q * P + c >= r * P
    <2>1. q - r \in Nat
      BY <1>3
    <2>2. (q - r) * P \in Nat
      BY <2>1, NatProduct
    <2>3. (q - r) * P = q * P - r * P
      OBVIOUS
    <2> QED BY <1>1, <2>2, <2>3
  <1> QED BY <1>2, <1>3

\* Where the two ranges of mmu_initial_mappings are.
LEMMA TwoRanges ==
  ASSUME NEW a \in 0..(N - 1), NEW b \in 0..(N - 1), NEW c \in 0..(N - 1)
  PROVE  LET v  == (a * N + b) * N + c
             v1 == (N - 1) * N * N
             v2 == ((N - 1) * N + KernelSlot) * N
         IN  /\ v \in Nat /\ v1 \in Nat /\ v2 \in Nat
             /\ v \in v1..(v1 + Room - 1) <=> a = N - 1 /\ b < PdeTables
             /\ v \in v2..(v2 + N - 1) <=> a = N - 1 /\ b = KernelSlot
             /\ a = N - 1 => v - v1 = b * N + c
             /\ a = N - 1 /\ b = KernelSlot => v - v2 = c
  <1> DEFINE q  == a * N + b
             q1 == (N - 1) * N
             q2 == q1 + KernelSlot
             v  == q * N + c
             v1 == q1 * N
             v2 == q2 * N
  <1>1. /\ N \in Nat /\ N >= 2 /\ a \in Nat /\ b \in Nat /\ c \in Nat /\ Room \in Nat
        /\ Room = PdeTables * N /\ PdeTables \in Nat /\ KernelSlot \in Nat
    BY Sizes DEF Room
  <1> HIDE DEF N
  <1>2. q \in Nat /\ q1 \in Nat /\ q2 \in Nat
    <2>1. N - 1 \in Nat
      BY <1>1
    <2>2. a * N \in Nat /\ (N - 1) * N \in Nat
      BY <1>1, <2>1, NatProduct
    <2> QED BY <1>1, <2>2
  <1>3. v \in Nat /\ v1 \in Nat /\ v2 \in Nat
    <2> HIDE DEF q, q1, q2
    <2>1. q * N \in Nat /\ q1 * N \in Nat /\ q2 * N \in Nat
      BY <1>1, <1>2, NatProduct
    <2> QED BY <1>1, <2>1
  <1>4. q >= q1 <=> a = N - 1
    <2>1. N \in Nat \ {0} /\ a \in Int /\ N - 1 \in Int /\ a <= N - 1
      BY <1>1
    <2>2. a * N + b >= (N - 1) * N <=> a >= N - 1
      BY <2>1, Floor
    <2> QED BY <2>1, <2>2
  <1>5. a = N - 1 => q = q1 + b
    OBVIOUS
  <1>6. /\ v >= v1 <=> q >= q1
        /\ v >= v1 + Room <=> q >= q1 + PdeTables
        /\ v >= v2 <=> q >= q2
        /\ v >= v2 + N <=> q >= q2 + 1
    <2> HIDE DEF q, q1, q2
    <2>1. /\ N \in Nat \ {0} /\ q \in Int /\ q1 \in Int /\ q2 \in Int
          /\ q1 + PdeTables \in Int /\ q2 + 1 \in Int
      BY <1>1, <1>2
    <2>2. /\ (q1 + PdeTables) * N = q1 * N + Room
          /\ (q2 + 1) * N = q2 * N + N
      BY <1>1, <2>1
    <2>3. /\ q * N + c >= q1 * N <=> q >= q1
          /\ q * N + c >= (q1 + PdeTables) * N <=> q >= q1 + PdeTables
          /\ q * N + c >= q2 * N <=> q >= q2
          /\ q * N + c >= (q2 + 1) * N <=> q >= q2 + 1
      BY <2>1, Floor
    <2> QED BY <2>2, <2>3
  <1>7. a = N - 1 => v - v1 = b * N + c
    <2>1. (q1 + b) * N = q1 * N + b * N
      BY <1>1, <1>2
    <2> HIDE DEF q, q1
    <2>2. b * N \in Nat /\ q1 * N \in Nat
      BY <1>1, <1>2, NatProduct
    <2> QED BY <1>1, <1>5, <2>1, <2>2
  <1>8. a = N - 1 /\ b = KernelSlot => v - v2 = c
    <2>1. a = N - 1 /\ b = KernelSlot => q = q2
      BY <1>5
    <2> HIDE DEF q, q2
    <2>2. q2 * N \in Nat
      BY <1>1, <1>2, NatProduct
    <2> QED BY <1>1, <2>1, <2>2
  <1> HIDE DEF v, v1, v2
  <1>9. v \in v1..(v1 + Room - 1) <=> a = N - 1 /\ b < PdeTables
    <2>1. v \in v1..(v1 + Room - 1) <=> v >= v1 /\ ~(v >= v1 + Room)
      BY <1>1, <1>3
    <2> HIDE DEF q, q1
    <2> QED BY <1>1, <1>2, <1>4, <1>5, <1>6, <2>1
  <1>10. v \in v2..(v2 + N - 1) <=> a = N - 1 /\ b = KernelSlot
    <2>1. v \in v2..(v2 + N - 1) <=> v >= v2 /\ ~(v >= v2 + N)
      BY <1>1, <1>3
    <2>2. q2 = q1 + KernelSlot
      OBVIOUS
    <2> HIDE DEF q, q1, q2
    <2> QED BY <1>1, <1>2, <1>4, <1>5, <1>6, <2>1, <2>2
  <1> QED BY <1>3, <1>7, <1>8, <1>9, <1>10 DEF v, v1, v2

-----------------------------------------------------------------------------
(* What is proved of start.S. *)

\* Beyond the low pages a page has one translation while paging is on.
LEMMA OneTranslation ==
  ASSUME IInv, pc \in On, NEW v \in Linear, pc = "flush" => v \notin 0..(N - 1)
  PROVE  Translations(v) = {Walk(v)}
  <1>1. \A t \in tlb : t[1] = v => t[2] = Walk(v)
    BY DEF IInv, TlbInv, Current
  <1> QED BY <1>1 DEF Translations

\* A place that is not under the first entry is not that of a low page.
LEMMA NotLow ==
  ASSUME NEW a \in 0..(N - 1), NEW b \in 0..(N - 1), NEW c \in 0..(N - 1), a # 0
  PROVE  (a * N + b) * N + c \notin 0..(N - 1)
  <1> SUFFICES ASSUME NEW v \in 0..(N - 1), v = (a * N + b) * N + c
               PROVE  FALSE
    OBVIOUS
  <1>1. N \in Nat /\ N >= 2
    BY Sizes
  <1>2. 0 \in 0..(N - 1) /\ v \in Nat
    BY <1>1
  <1>3. ((0 * N + 0) * N + v) \div (N * N) = 0
    BY <1>2, PlaceOf
  <1>4. (0 * N + 0) * N + v = v
    <2> HIDE DEF N
    <2> QED BY <1>1, <1>2
  <1>5. v \div (N * N) = a
    BY PlaceOf
  <1> QED BY <1>3, <1>4, <1>5

\* From the switch to paging to kmain, and on, every page of the kernel is where
\* code, stack and GDT are addressed, at each of the steps of start.S and whatever
\* the TLB kept from before.
THEOREM KernelMapped == MmuSpec => []RunsMapped
  <1>1. IInv => RunsMapped
    <2> SUFFICES ASSUME IInv, Paging, NEW half \in {rip, rsp, gdtr}, NEW n \in Image
                 PROVE  Translations(AddressOf(half, n)) = {n}
      BY DEF RunsMapped
    <2>1. pc \in On /\ Walks
      BY WalkFinds DEF IInv, CpuInv
    <2>2. /\ N \in Nat /\ N >= 2 /\ n \in 0..(N - 1) /\ n \in Nat
          /\ KernelSlot \in 0..(N - 1) /\ ~(KernelSlot < PdeTables)
          /\ 0 \in 0..(N - 1) /\ N - 1 \in 0..(N - 1) /\ 0 # N - 1
      BY Sizes
    <2>3. CASE half = "low"
      <3>1. pc \notin Unmapped /\ pc # "flush"
        BY <2>3 DEF IInv, CpuInv, Unmapped
      <3>2. (0 * N + 0) * N + n = n
        <4> HIDE DEF N
        <4> QED BY <2>2
      <3>3. n \in Linear
        <4>1. (0 * N + 0) * N + n \in Linear
          BY <2>2, PlaceOf
        <4> QED BY <3>2, <4>1
      <3>4. Walk(n) = n
        <4>1. Walk((0 * N + 0) * N + n) = Expected(0, 0, n)
          BY <2>1, <2>2 DEF Walks
        <4>2. Expected(0, 0, n) = n
          BY <2>2, <3>1 DEF Expected
        <4> QED BY <3>2, <4>1, <4>2
      <3> QED BY <2>1, <2>3, <3>1, <3>3, <3>4, OneTranslation DEF AddressOf
    <2>4. CASE half # "low"
      <3> DEFINE v == ((N - 1) * N + KernelSlot) * N + n
      <3>1. v \in Linear
        BY <2>2, PlaceOf
      <3>2. v \notin 0..(N - 1)
        BY <2>2, NotLow
      <3>3. Walk(v) = Expected(N - 1, KernelSlot, n)
        BY <2>1, <2>2 DEF Walks
      <3>4. Expected(N - 1, KernelSlot, n) = n
        BY <2>2 DEF Expected
      <3>5. AddressOf(half, n) = v
        BY <2>4 DEF AddressOf
      <3> HIDE DEF v
      <3> QED BY <2>1, <3>1, <3>2, <3>3, <3>4, <3>5, OneTranslation
    <2> QED BY <2>3, <2>4
  <1> QED BY <1>1, Invariance, PTL

\* No walk meets an entry that start.S did not write, whatever the bss held.
THEOREM NeverLedAstray == MmuSpec => []NeverWild
  <1>1. IInv => NeverWild
    <2> SUFFICES ASSUME IInv, Paging, NEW v \in Linear PROVE Wild \notin Translations(v)
      BY DEF NeverWild
    <2>1. pc \in On /\ Walks
      BY WalkFinds DEF IInv, CpuInv
    <2>2. PICK a \in 0..(N - 1), b \in 0..(N - 1), c \in 0..(N - 1) :
             v = (a * N + b) * N + c
      BY PlaceFound
    <2>3. Walk(v) = Expected(a, b, c)
      BY <2>1, <2>2 DEF Walks
    <2>4. N \in Nat /\ b \in Nat /\ c \in Nat
      BY Sizes
    <2>5. b * N + c \in Nat
      BY <2>4, NatProduct
    <2>6. Walk(v) \in Nat \cup {None}
      BY <2>3, <2>4, <2>5 DEF Expected
    <2>7. ASSUME NEW t \in tlb, t[1] = v PROVE t[2] \in Nat \cup {None}
      BY <2>4, <2>6, <2>7 DEF IInv, TlbInv, Current
    <2>8. Wild \notin Nat \cup {None}
      BY DEF Wild, None
    <2> QED BY <2>6, <2>7, <2>8 DEF Translations
  <1> QED BY <1>1, Invariance, PTL

\* kmain finds the two mappings of mmu_initial_mappings and no other page: each
\* linear page of either leads to its frame, and the low ones nowhere.
THEOREM KmainMappings == MmuSpec => []MapsAsTold
  <1>1. IInv => MapsAsTold
    <2> DEFINE v1 == (N - 1) * N * N
               v2 == ((N - 1) * N + KernelSlot) * N
               m1 == [phys |-> 0, virt |-> v1, size |-> Room]
               m2 == [phys |-> 0, virt |-> v2, size |-> N]
               In(v, m) == v \in m.virt..(m.virt + m.size - 1)
    <2> SUFFICES ASSUME IInv, pc = "kmain", NEW v \in Linear
                 PROVE  Translations(v) =
                          IF \E m \in {m1, m2} : In(v, m)
                            THEN {m.phys + v - m.virt : m \in {m \in {m1, m2} : In(v, m)}}
                            ELSE {None}
      BY DEF MapsAsTold, mmu_initial_mappings, Room
    <2>1. pc \in On /\ pc \in Unmapped /\ pc # "flush" /\ Walks
      BY WalkFinds DEF IInv, On, Unmapped
    <2>2. PICK a \in 0..(N - 1), b \in 0..(N - 1), c \in 0..(N - 1) :
             v = (a * N + b) * N + c
      BY PlaceFound
    <2>3. Translations(v) = {Expected(a, b, c)}
      <3>1. Translations(v) = {Walk(v)}
        BY <2>1, OneTranslation
      <3> QED BY <2>1, <2>2, <3>1 DEF Walks
    <2>4. /\ v \in Nat /\ v1 \in Nat /\ v2 \in Nat
          /\ v \in v1..(v1 + Room - 1) <=> a = N - 1 /\ b < PdeTables
          /\ v \in v2..(v2 + N - 1) <=> a = N - 1 /\ b = KernelSlot
          /\ a = N - 1 => v - v1 = b * N + c
          /\ a = N - 1 /\ b = KernelSlot => v - v2 = c
      BY <2>2, TwoRanges
    <2> HIDE DEF v1, v2
    <2>5. In(v, m1) <=> a = N - 1 /\ b < PdeTables
      BY <2>4
    <2>6. In(v, m2) <=> a = N - 1 /\ b = KernelSlot
      BY <2>4
    <2>7. m1.phys + v - m1.virt = v - v1 /\ m2.phys + v - m2.virt = v - v2
      BY <2>4
    <2> HIDE DEF m1, m2, In
    <2>8. ~(KernelSlot < PdeTables)
      BY Sizes
    <2>9. CASE a = N - 1 /\ b < PdeTables
      <3>1. {m \in {m1, m2} : In(v, m)} = {m1}
        BY <2>5, <2>6, <2>8, <2>9
      <3>2. Expected(a, b, c) = m1.phys + v - m1.virt
        BY <2>4, <2>7, <2>9 DEF Expected
      <3> QED BY <2>3, <2>5, <2>9, <3>1, <3>2
    <2>10. CASE a = N - 1 /\ b = KernelSlot
      <3>1. {m \in {m1, m2} : In(v, m)} = {m2}
        BY <2>5, <2>6, <2>8, <2>10
      <3>2. Expected(a, b, c) = m2.phys + v - m2.virt
        BY <2>4, <2>7, <2>8, <2>10 DEF Expected
      <3> QED BY <2>3, <2>6, <2>10, <3>1, <3>2
    <2>11. CASE ~(a = N - 1 /\ b < PdeTables) /\ ~(a = N - 1 /\ b = KernelSlot)
      <3>1. ~\E m \in {m1, m2} : In(v, m)
        BY <2>5, <2>6, <2>11
      <3>2. Expected(a, b, c) = None
        BY <2>1, <2>11 DEF Expected
      <3> QED BY <2>3, <3>1, <3>2
    <2> QED BY <2>9, <2>10, <2>11
  <1> QED BY <1>1, Invariance, PTL
=============================================================================
