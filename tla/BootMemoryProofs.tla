-------------------------- MODULE BootMemoryProofs --------------------------
(***************************************************************************)
(* Whatever memory map the boot loader hands over: zones share no memory,  *)
(* page arrays lie apart, every frame is of memory that the map has, and   *)
(* no frame of it is missed.  The first is what module Pmm assumes of its  *)
(* zones (DisjointZones).                                                  *)
(***************************************************************************)
EXTENDS BootMemory, TLAPS

-----------------------------------------------------------------------------
(* Rounding. *)

\* A product of naturals.
LEMMA NatProduct == ASSUME NEW m \in Nat, NEW n \in Nat PROVE m * n \in Nat
  OBVIOUS

\* Of two multiples the one that is not a unit higher has no greater factor.
LEMMA Factors ==
  ASSUME NEW P \in Nat \ {0}, NEW q \in Int, NEW r \in Int, q * P < r * P + P
  PROVE  q <= r
  <1> SUFFICES ASSUME q >= r + 1 PROVE FALSE
    OBVIOUS
  <1>1. (q - (r + 1)) * P >= 0
    OBVIOUS
  <1>2. (q - (r + 1)) * P = q * P - r * P - P
    OBVIOUS
  <1> QED BY <1>1, <1>2

\* Multiples are a unit apart.
LEMMA Multiple ==
  ASSUME NEW P \in Nat \ {0}, NEW q \in Int, NEW r \in Int, q * P < r * P + P
  PROVE  q * P <= r * P
  <1>1. q <= r
    BY Factors
  <1>2. (r - q) * P >= 0
    BY <1>1
  <1>3. (r - q) * P = r * P - q * P
    OBVIOUS
  <1> QED BY <1>2, <1>3

\* Rounding down yields a multiple less than one unit below.
LEMMA Down ==
  ASSUME NEW P \in Nat \ {0}, NEW x \in Int
  PROVE  /\ ROUND_DOWN(x, P) = (x \div P) * P /\ x \div P \in Int
         /\ ROUND_DOWN(x, P) \in Int
         /\ ROUND_DOWN(x, P) <= x /\ x < ROUND_DOWN(x, P) + P
  <1> DEFINE d == x \div P
             m == x % P
  <1>1. x % P \in 0..(P - 1) /\ x \div P \in Int
    OBVIOUS
  <1>2. x = P * (x \div P) + (x % P)
    OBVIOUS
  <1>3. P * (x \div P) = (x \div P) * P
    BY <1>1
  <1> HIDE DEF d, m
  <1>4. ROUND_DOWN(x, P) = x - m
    BY DEF ROUND_DOWN, m
  <1>5. x = d * P + m /\ d \in Int /\ m \in 0..(P - 1) /\ d * P \in Int
    BY <1>1, <1>2, <1>3 DEF d, m
  <1>6. x - m = d * P /\ x - m <= x /\ x < x - m + P
    BY <1>5
  <1> QED BY <1>4, <1>5, <1>6 DEF d

\* Rounding down does not leave the naturals.
LEMMA DownNat ==
  ASSUME NEW P \in Nat \ {0}, NEW x \in Nat
  PROVE  ROUND_DOWN(x, P) \in Nat /\ x \div P \in Nat
  <1>1. ROUND_DOWN(x, P) = (x \div P) * P /\ x \div P \in Int /\ x < ROUND_DOWN(x, P) + P
    <2>1. x \in Int
      OBVIOUS
    <2> QED BY <2>1, Down
  <1>2. x \div P >= 0
    OBVIOUS
  <1> QED BY <1>1, <1>2

\* Rounding up does not lessen.
LEMMA Up ==
  ASSUME NEW P \in Nat \ {0}, NEW x \in Nat
  PROVE  ROUND_UP(x, P) \in Nat /\ x <= ROUND_UP(x, P)
  BY Down, DownNat DEF ROUND_UP

\* The end of a region is rounded to no more than the base of the next one is:
\* the sum of the two roundings is a multiple, and below a unit beyond the end.
LEMMA EndBeforeBase ==
  ASSUME NEW P \in Nat \ {0}, NEW b \in Nat, NEW s \in Nat, NEW c \in Nat,
         b + s <= c
  PROVE  ROUND_UP(b, P) + ROUND_DOWN(s, P) <= ROUND_UP(c, P)
  <1> DEFINE q == (b + P - 1) \div P
             r == s \div P
             t == (c + P - 1) \div P
  <1>0. b + P - 1 \in Int /\ c + P - 1 \in Int /\ s \in Int
    OBVIOUS
  <1>1. ROUND_UP(b, P) = q * P /\ q \in Int /\ ROUND_UP(b, P) <= b + P - 1
    BY <1>0, Down DEF ROUND_UP
  <1>2. ROUND_DOWN(s, P) = r * P /\ r \in Int /\ ROUND_DOWN(s, P) <= s
    BY <1>0, Down
  <1>3. ROUND_UP(c, P) = t * P /\ t \in Int /\ c + P - 1 < ROUND_UP(c, P) + P
    BY <1>0, Down DEF ROUND_UP
  <1> HIDE DEF q, r, t
  <1>4. (q + r) * P = q * P + r * P
    BY <1>1, <1>2
  <1>5. (q + r) * P < t * P + P
    BY <1>1, <1>2, <1>3, <1>4
  <1>6. (q + r) * P <= t * P
    BY <1>1, <1>2, <1>3, <1>5, Multiple
  <1> QED BY <1>1, <1>2, <1>3, <1>4, <1>6

\* Dividing a multiple gives its factor.
LEMMA FactorOf ==
  ASSUME NEW P \in Nat \ {0}, NEW q \in Int
  PROVE  (q * P) \div P = q
  <1> DEFINE x == q * P
             d == x \div P
  <1>1. x \in Int
    OBVIOUS
  <1> HIDE DEF x
  <1>2. ROUND_DOWN(x, P) = d * P /\ d \in Int /\ d * P <= x /\ x < d * P + P
    BY <1>1, Down
  <1> HIDE DEF d
  <1>3. d * P \in Int
    BY <1>2
  <1>4. d <= q
    <2>1. d * P < q * P + P
      BY <1>1, <1>2, <1>3 DEF x
    <2> QED BY <1>2, <2>1, Factors
  <1>5. q <= d
    <2>1. q * P < d * P + P
      BY <1>2 DEF x
    <2> QED BY <1>2, <2>1, Factors
  <1>6. d = q
    BY <1>2, <1>4, <1>5
  <1> QED BY <1>6 DEF d, x

\* A zone is a region.
LEMMA ZoneType == ASSUME NEW r \in Region PROVE ZoneOf(r) \in Region
  BY BootMemoryAssumption, Up, DownNat DEF ZoneOf, Region

\* The zones of disjoint regions are disjoint.
LEMMA ZoneOfApart ==
  ASSUME NEW r \in Region, NEW s \in Region, Bytes(r) \cap Bytes(s) = {}
  PROVE  Bytes(ZoneOf(r)) \cap Bytes(ZoneOf(s)) = {}
  <1>1. PAGE_SIZE \in Nat \ {0}
    BY BootMemoryAssumption
  <1>2. /\ r.base \in Nat /\ r.size \in Nat /\ s.base \in Nat /\ s.size \in Nat
    BY DEF Region
  <1>3. /\ ZoneOf(r).base \in Nat /\ ZoneOf(r).size \in Nat
        /\ ZoneOf(s).base \in Nat /\ ZoneOf(s).size \in Nat
    BY ZoneType DEF Region
  <1>4. CASE r.size = 0 \/ s.size = 0
    <2>1. ROUND_DOWN(0, PAGE_SIZE) = 0
      BY <1>1, Down, DownNat
    <2> QED BY <1>2, <1>3, <1>4, <2>1 DEF ZoneOf, Bytes
  <1>5. CASE r.size > 0 /\ s.size > 0
    <2>1. r.base + r.size <= s.base \/ s.base + s.size <= r.base
      <3> SUFFICES ASSUME s.base < r.base + r.size, r.base < s.base + s.size
                   PROVE  FALSE
        BY <1>2
      <3>1. CASE r.base <= s.base
        BY <1>2, <1>5, <3>1 DEF Bytes
      <3>2. CASE s.base < r.base
        BY <1>2, <1>5, <3>2 DEF Bytes
      <3> QED BY <1>2, <3>1, <3>2
    <2>2. \/ ZoneOf(r).base + ZoneOf(r).size <= ZoneOf(s).base
          \/ ZoneOf(s).base + ZoneOf(s).size <= ZoneOf(r).base
      BY <1>1, <1>2, <2>1, EndBeforeBase DEF ZoneOf
    <2> QED BY <1>3, <2>2 DEF Bytes
  <1> QED BY <1>2, <1>4, <1>5

-----------------------------------------------------------------------------
(* The frames of a zone. *)

\* The base of a zone is a multiple of PAGE_SIZE, as its size is.
LEMMA ZoneInUnits ==
  ASSUME NEW r \in Region
  PROVE  \E q \in Int, d \in Nat :
           /\ ZoneOf(r).base = q * PAGE_SIZE /\ ZoneOf(r).size = d * PAGE_SIZE
           /\ FrameCount(ZoneOf(r)) = d
           /\ r.base <= q * PAGE_SIZE /\ q * PAGE_SIZE < r.base + PAGE_SIZE
           /\ d * PAGE_SIZE <= r.size /\ r.size < d * PAGE_SIZE + PAGE_SIZE
  <1> DEFINE q == (r.base + PAGE_SIZE - 1) \div PAGE_SIZE
             d == r.size \div PAGE_SIZE
  <1>1. PAGE_SIZE \in Nat \ {0} /\ r.base \in Nat /\ r.size \in Nat
    BY BootMemoryAssumption DEF Region
  <1>2. r.base + PAGE_SIZE - 1 \in Int /\ r.size \in Int
    BY <1>1
  <1>3. /\ ROUND_UP(r.base, PAGE_SIZE) = q * PAGE_SIZE /\ q \in Int
        /\ ROUND_UP(r.base, PAGE_SIZE) <= r.base + PAGE_SIZE - 1
    BY <1>1, <1>2, Down DEF ROUND_UP
  <1>4. r.base <= ROUND_UP(r.base, PAGE_SIZE)
    BY <1>1, Up
  <1>5. /\ ROUND_DOWN(r.size, PAGE_SIZE) = d * PAGE_SIZE /\ d \in Nat
        /\ ROUND_DOWN(r.size, PAGE_SIZE) <= r.size
        /\ r.size < ROUND_DOWN(r.size, PAGE_SIZE) + PAGE_SIZE
    BY <1>1, <1>2, Down, DownNat
  <1>6. ZoneOf(r).base = q * PAGE_SIZE /\ ZoneOf(r).size = d * PAGE_SIZE
    BY <1>3, <1>5 DEF ZoneOf
  <1> HIDE DEF q, d
  <1>7. FrameCount(ZoneOf(r)) = d
    <2>1. d \in Int
      BY <1>5
    <2> QED BY <1>1, <1>6, <2>1, FactorOf DEF FrameCount
  <1>8. q * PAGE_SIZE < r.base + PAGE_SIZE
    BY <1>1, <1>3
  <1> QED BY <1>3, <1>4, <1>5, <1>6, <1>7, <1>8

\* A frame of a zone begins in the region.
LEMMA FrameBegins ==
  ASSUME NEW r \in Region, NEW f \in FramesIn(ZoneOf(r))
  PROVE  f \in Bytes(r)
  <1> DEFINE P == PAGE_SIZE
  <1>1. P \in Nat \ {0} /\ r.base \in Nat /\ r.size \in Nat
    BY BootMemoryAssumption DEF Region
  <1>2. PICK q \in Int, d \in Nat :
           /\ ZoneOf(r).base = q * P /\ FrameCount(ZoneOf(r)) = d
           /\ r.base <= q * P /\ q * P < r.base + P /\ d * P <= r.size
    BY ZoneInUnits
  <1>3. PICK k \in 0..(d - 1) : f = q * P + k * P
    BY <1>2 DEF FramesIn
  <1> HIDE DEF P
  <1>4. k \in Nat /\ k * P \in Nat /\ q * P \in Int /\ d * P \in Nat
    <2>1. k \in Nat
      OBVIOUS
    <2> QED BY <1>1, <2>1, NatProduct
  <1>5. k * P + P <= d * P
    <2>1. (k + 1) * P = k * P + P
      BY <1>1, <1>4
    <2>2. (d - (k + 1)) * P = d * P - (k + 1) * P
      BY <1>1, <1>4
    <2>3. d - (k + 1) \in Nat
      BY <1>4
    <2>4. (d - (k + 1)) * P \in Nat
      BY <1>1, <2>3, NatProduct
    <2> QED BY <1>1, <1>4, <2>1, <2>2, <2>4
  <1>6. r.base <= f /\ f <= r.base + r.size - 1 /\ f \in Int
    BY <1>1, <1>2, <1>3, <1>4, <1>5
  <1> QED BY <1>1, <1>6 DEF Bytes

\* A frame that lies in the region is one of the zone.
LEMMA FrameFound ==
  ASSUME NEW r \in Region, NEW f \in Nat, f % PAGE_SIZE = 0,
         r.base <= f, f + PAGE_SIZE <= r.base + r.size
  PROVE  f \in FramesIn(ZoneOf(r)) /\ ZoneOf(r).size > 0
  <1> DEFINE P == PAGE_SIZE
             g == f \div P
  <1>1. P \in Nat \ {0} /\ r.base \in Nat /\ r.size \in Nat
    BY BootMemoryAssumption DEF Region
  <1>2. PICK q \in Int, d \in Nat :
           /\ ZoneOf(r).base = q * P /\ ZoneOf(r).size = d * P
           /\ FrameCount(ZoneOf(r)) = d
           /\ r.base <= q * P /\ q * P < r.base + P /\ r.size < d * P + P
    BY ZoneInUnits
  <1>3. f = g * P /\ g \in Int
    <2>1. f \in Int /\ f % P = 0
      OBVIOUS
    <2>2. f = ROUND_DOWN(f, P)
      BY <2>1 DEF ROUND_DOWN
    <2> QED BY <1>1, <2>1, <2>2, Down
  <1>4. r.base <= f /\ f + P <= r.base + r.size
    OBVIOUS
  <1> HIDE DEF P, g
  <1>5. g * P \in Int /\ q * P \in Int /\ d * P \in Int
    BY <1>1, <1>3
  <1>6. q <= g
    <2>1. q * P < g * P + P
      BY <1>1, <1>2, <1>3, <1>4, <1>5
    <2> QED BY <1>1, <1>3, <2>1, Factors
  <1> DEFINE k == g - q
  <1>7. k \in Nat /\ k * P = g * P - q * P /\ (k + 1) * P = (g * P - q * P) + P
    BY <1>1, <1>3, <1>6
  <1>8. f = q * P + k * P
    BY <1>3, <1>5, <1>7
  <1>9. k + 1 <= d
    <2>1. (k + 1) * P < d * P + P
      BY <1>1, <1>2, <1>3, <1>4, <1>5, <1>7
    <2>2. k + 1 \in Int /\ d \in Int
      BY <1>7
    <2> HIDE DEF k
    <2> QED BY <1>1, <2>1, <2>2, Factors
  <1>10. k \in 0..(d - 1)
    BY <1>7, <1>9
  <1>11. d * P > 0
    <2>1. d - 1 \in Nat
      BY <1>10
    <2>2. (d - 1) * P \in Nat /\ (d - 1) * P = d * P - P
      BY <1>1, <2>1, NatProduct
    <2> QED BY <1>1, <1>5, <2>2
  <1> HIDE DEF k
  <1>12. f \in FramesIn(ZoneOf(r))
    BY <1>2, <1>8, <1>10 DEF FramesIn, P
  <1> QED BY <1>2, <1>11, <1>12

-----------------------------------------------------------------------------
(* The invariant. *)

\* One map, and the region of one of its entries for each one stored: with its
\* own entry in the order of the map, so that no entry is stored twice.
Given == info \in Infos

Scan ==
  /\ pc = "tag" /\ num_high_zones > 0 =>
       \E t \in 1..(tag - 1) : t \in DOMAIN info /\ info[t].mmap
  /\ pc = "mmap" =>
       /\ tag \in DOMAIN info /\ info[tag].mmap /\ count = num_high_zones
       /\ \A i \in 0..(num_high_zones - 1) :
             \E k \in 1..(entry - 1) :
                /\ k \in DOMAIN info[tag].entries
                /\ mem_high_zones[i].base = info[tag].entries[k].base
                /\ mem_high_zones[i].size = info[tag].entries[k].size
  /\ pc \in {"tag", "mmap"} => phy_zones = <<>> /\ index = 0

RegionsApart ==
  \A i, j \in 0..(num_high_zones - 1) :
     i # j => Bytes(mem_high_zones[i]) \cap Bytes(mem_high_zones[j]) = {}

\* Each zone is made of a region, and the next zone of a later one.
Made ==
  /\ \A a \in DOMAIN phy_zones : \E k \in 0..(index - 1) :
        phy_zones[a] = ZoneOf(mem_high_zones[k])
  /\ \A a, b \in DOMAIN phy_zones :
        a < b => \E k, l \in 0..(index - 1) :
                    /\ k < l
                    /\ phy_zones[a] = ZoneOf(mem_high_zones[k])
                    /\ phy_zones[b] = ZoneOf(mem_high_zones[l])

ArraysInv == /\ Len(arrays) = Len(phy_zones) /\ End <= boot_alloc_end
             /\ ArraysApart

IInv == TypeOK /\ Given /\ Scan /\ RegionsApart /\ Made /\ ArraysInv

-----------------------------------------------------------------------------
\* With nothing read and nothing added there is nothing to overlap.
LEMMA InitIInv == Init => IInv
  <1> SUFFICES ASSUME Init PROVE IInv
    OBVIOUS
  <1> USE BootMemoryAssumption DEF Init
  <1>1. TypeOK
    <2>1. info \in Seq([mmap : BOOLEAN, entries : Seq(Entry)])
      OBVIOUS
    <2>2. mem_high_zones \in [0..(MaxZones - 1) -> Region]
      BY DEF Region
    <2>3. {End, 0} \subseteq Nat /\ 0 \in 0..MaxZones
      OBVIOUS
    <2> QED BY <2>1, <2>2, <2>3 DEF TypeOK
  <1>2. Given /\ Scan /\ RegionsApart /\ Made
    BY DEF Given, Scan, RegionsApart, Made
  <1>3. ArraysInv
    BY DEF ArraysInv, ArraysApart
  <1> QED BY <1>1, <1>2, <1>3 DEF IInv

\* What stays true while the regions, or the zones, are left alone.
LEMMA KeepRegions ==
  ASSUME RegionsApart, UNCHANGED <<mem_high_zones, num_high_zones>>
  PROVE  RegionsApart'
  BY DEF RegionsApart, Bytes

\* A step that adds neither regions nor zones keeps what is known of them.
LEMMA KeepZones ==
  ASSUME Made, ArraysInv, UNCHANGED <<mem_high_zones, zones>>
  PROVE  Made' /\ ArraysInv'
  <1>1. Made'
    BY DEF Made, zones, ZoneOf
  <1>2. ArraysInv'
    BY DEF ArraysInv, ArraysApart, zones, FrameCount
  <1> QED BY <1>1, <1>2

\* Reading a tag: a second map, which would restart the count, is not among Infos.
LEMMA ReadTagStep == IInv /\ ReadTag => IInv'
  <1> SUFFICES ASSUME IInv, ReadTag PROVE IInv'
    OBVIOUS
  <1> USE DEF ReadTag, zones
  <1>1. TypeOK'
    BY DEF IInv, TypeOK
  <1>2. RegionsApart' /\ Made' /\ Given' /\ ArraysInv'
    BY KeepRegions, KeepZones DEF IInv, Given
  <1>3. Scan'
    <2>1. CASE info[tag].mmap
      <3>1. tag \in DOMAIN info
        BY DEF IInv, TypeOK
      <3>2. ~(num_high_zones > 0)
        BY <2>1, <3>1, OneMap DEF IInv, Given, Scan, TypeOK
      <3> QED BY <2>1, <3>1, <3>2 DEF IInv, TypeOK, Scan
    <2>2. CASE ~info[tag].mmap
      BY <2>2 DEF IInv, TypeOK, Scan
    <2> QED BY <2>1, <2>2
  <1> QED BY <1>1, <1>2, <1>3 DEF IInv

\* An element of a sequence.
LEMMA ElementOf == ASSUME NEW S, NEW s \in Seq(S), NEW i \in DOMAIN s PROVE s[i] \in S
  OBVIOUS

\* An entry is stored behind those stored before, and overlaps none of them.
LEMMA ReadEntryStep == IInv /\ ReadEntry => IInv'
  <1> SUFFICES ASSUME IInv, ReadEntry PROVE IInv'
    OBVIOUS
  <1> DEFINE es == info[tag].entries
             e  == es[entry]
             r  == [base |-> e.base, size |-> e.size]
  <1>0. /\ tag \in Nat /\ entry \in Nat \ {0} /\ num_high_zones \in 0..MaxZones
        /\ MaxZones \in Nat \ {0} /\ mem_high_zones \in [0..(MaxZones - 1) -> Region]
    BY BootMemoryAssumption DEF IInv, TypeOK
  <1>1. /\ tag \in DOMAIN info /\ info[tag].mmap /\ count = num_high_zones
        /\ phy_zones = <<>> /\ index = 0
        /\ \A i \in 0..(num_high_zones - 1) : \E k \in 1..(entry - 1) :
              /\ k \in DOMAIN es
              /\ mem_high_zones[i].base = es[k].base
              /\ mem_high_zones[i].size = es[k].size
    BY DEF IInv, Scan, ReadEntry
  <1>2. es \in Seq(Entry)
    <2>1. info \in Seq([mmap : BOOLEAN, entries : Seq(Entry)])
      BY DEF IInv, TypeOK
    <2>2. info[tag] \in [mmap : BOOLEAN, entries : Seq(Entry)]
      BY <1>1, <2>1, ElementOf
    <2> QED BY <2>2
  <1>3. entry \in DOMAIN es
    BY <1>0, <1>2 DEF ReadEntry
  <1>4. e \in Entry /\ e.base \in Nat /\ e.size \in Nat /\ r \in Region
    <2>1. e \in Entry
      BY <1>2, <1>3
    <2> QED BY <2>1 DEF Entry, Region
  <1>5. /\ pc = "mmap" /\ entry' = entry + 1 /\ mem_lower' \in {e.size, mem_lower}
        /\ UNCHANGED <<info, tag, index, phy_zones, arrays, boot_alloc_end, given>>
        /\ \/ /\ count < MaxZones
              /\ mem_high_zones' = [mem_high_zones EXCEPT ![count] = r]
              /\ count' = count + 1 /\ num_high_zones' = num_high_zones + 1
              /\ UNCHANGED pc
           \/ /\ UNCHANGED <<mem_high_zones, count, num_high_zones>>
              /\ pc' \in {pc, "overrun"}
    BY DEF ReadEntry, Here, zones
  <1>6. \A i, j \in DOMAIN es : i # j => Bytes(es[i]) \cap Bytes(es[j]) = {}
    BY <1>1, OneMap DEF IInv, Given
  <1>7. Given' /\ Made' /\ ArraysInv'
    <2>1. Made'
      BY <1>1, <1>5 DEF Made
    <2>2. ArraysInv'
      BY <1>5 DEF IInv, ArraysInv, ArraysApart, FrameCount
    <2> QED BY <1>5, <2>1, <2>2 DEF IInv, Given
  <1> HIDE DEF e, r
  <1>8. CASE /\ count < MaxZones
             /\ mem_high_zones' = [mem_high_zones EXCEPT ![count] = r]
             /\ count' = count + 1 /\ num_high_zones' = num_high_zones + 1
             /\ UNCHANGED pc
    <2>1. count \in 0..(MaxZones - 1)
      BY <1>0, <1>1, <1>8
    <2>2. mem_high_zones' \in [0..(MaxZones - 1) -> Region]
      BY <1>0, <1>4, <1>8
    <2>3. TypeOK'
      <3>1. num_high_zones' \in 0..MaxZones /\ index' \in 0..num_high_zones'
        BY <1>0, <1>1, <1>5, <1>8
      <3>2. {count', mem_lower', boot_alloc_end'} \subseteq Nat
        BY <1>0, <1>1, <1>4, <1>5, <1>8 DEF IInv, TypeOK
      <3> QED BY <1>0, <1>5, <1>8, <2>2, <3>1, <3>2 DEF IInv, TypeOK
    <2>4. /\ mem_high_zones'[count] = r
          /\ \A i \in 0..(num_high_zones - 1) :
                i # count /\ mem_high_zones'[i] = mem_high_zones[i]
      BY <1>0, <1>1, <1>8, <2>1
    <2>5. r.base = e.base /\ r.size = e.size
      BY DEF r
    <2>6. \A i \in 0..num_high_zones : i = count \/ i \in 0..(num_high_zones - 1)
      BY <1>0, <1>1
    <2>7. num_high_zones' - 1 = num_high_zones /\ entry' - 1 = entry
      BY <1>0, <1>5, <1>8
    <2>8. Scan'
      <3>1. ASSUME NEW i \in 0..num_high_zones
            PROVE  \E k \in 1..entry :
                      /\ k \in DOMAIN es
                      /\ mem_high_zones'[i].base = es[k].base
                      /\ mem_high_zones'[i].size = es[k].size
        <4> HIDE DEF es
        <4>1. CASE i = count
          <5>1. entry \in 1..entry
            BY <1>0
          <5> QED BY <1>3, <2>4, <2>5, <4>1, <5>1 DEF e
        <4>2. CASE i \in 0..(num_high_zones - 1)
          <5>1. PICK k \in 1..(entry - 1) :
                   /\ k \in DOMAIN es
                   /\ mem_high_zones[i].base = es[k].base
                   /\ mem_high_zones[i].size = es[k].size
            BY <1>1, <4>2
          <5>2. k \in 1..entry
            BY <1>0
          <5> QED BY <2>4, <4>2, <5>1, <5>2
        <4> QED BY <2>6, <4>1, <4>2
      <3> QED BY <1>1, <1>5, <1>8, <2>7, <3>1 DEF Scan
    <2>9. ASSUME NEW i \in 0..(num_high_zones - 1)
          PROVE  Bytes(mem_high_zones[i]) \cap Bytes(r) = {}
      <3>1. PICK k \in 1..(entry - 1) :
               /\ k \in DOMAIN es
               /\ mem_high_zones[i].base = es[k].base
               /\ mem_high_zones[i].size = es[k].size
        BY <1>1
      <3>2. k # entry
        BY <1>0
      <3>3. Bytes(es[k]) \cap Bytes(e) = {}
        BY <1>3, <1>6, <3>1, <3>2 DEF e
      <3>4. Bytes(mem_high_zones[i]) = Bytes(es[k]) /\ Bytes(r) = Bytes(e)
        BY <2>5, <3>1 DEF Bytes
      <3> QED BY <3>3, <3>4
    <2>10. RegionsApart'
      <3>1. ASSUME NEW i \in 0..num_high_zones, NEW j \in 0..num_high_zones, i # j
            PROVE  Bytes(mem_high_zones'[i]) \cap Bytes(mem_high_zones'[j]) = {}
        <4>1. CASE i = count
          BY <2>4, <2>6, <2>9, <3>1, <4>1
        <4>2. CASE j = count
          BY <2>4, <2>6, <2>9, <3>1, <4>2
        <4>3. CASE i # count /\ j # count
          BY <2>4, <2>6, <3>1, <4>3 DEF IInv, RegionsApart
        <4> QED BY <4>1, <4>2, <4>3
      <3> QED BY <2>7, <3>1 DEF RegionsApart, Bytes
    <2> QED BY <1>7, <2>3, <2>8, <2>10 DEF IInv
  <1>9. CASE /\ UNCHANGED <<mem_high_zones, count, num_high_zones>>
             /\ pc' \in {pc, "overrun"}
    <2>1. TypeOK'
      BY <1>0, <1>4, <1>5, <1>9 DEF IInv, TypeOK
    <2>2. RegionsApart'
      BY <1>9, KeepRegions DEF IInv
    <2>3. Scan'
      <3>1. \A k \in 1..(entry - 1) : k \in 1..(entry' - 1)
        BY <1>0, <1>5
      <3> QED BY <1>1, <1>5, <1>9, <3>1 DEF Scan
    <2> QED BY <1>7, <2>1, <2>2, <2>3 DEF IInv
  <1> QED BY <1>5, <1>8, <1>9

\* At the end of a map its regions are the ones stored, and no other map follows.
LEMMA MapEndStep == IInv /\ MapEnd => IInv'
  <1> SUFFICES ASSUME IInv, MapEnd PROVE IInv'
    OBVIOUS
  <1> USE DEF MapEnd, zones
  <1>1. TypeOK' /\ Given'
    BY DEF IInv, TypeOK, Given
  <1>3. RegionsApart' /\ Made' /\ ArraysInv'
    BY KeepRegions, KeepZones DEF IInv
  <1>2. Scan'
    <2>1. tag \in DOMAIN info /\ info[tag].mmap /\ phy_zones = <<>> /\ index = 0
      BY DEF IInv, Scan
    <2>2. tag \in 1..(tag' - 1)
      BY DEF IInv, TypeOK
    <2> QED BY <2>1, <2>2 DEF Scan
  <1> QED BY <1>1, <1>2, <1>3 DEF IInv

\* The number of frames of a zone.
LEMMA FrameCountNat ==
  ASSUME NEW z \in Region PROVE FrameCount(z) \in Nat
  <1>1. z.size \in Nat /\ PAGE_SIZE \in Nat \ {0}
    BY BootMemoryAssumption DEF Region
  <1> QED BY <1>1, DownNat DEF FrameCount

\* A zone added is made of the next region, and its array begins where the ones
\* before it have ended.
LEMMA AddZoneStep == IInv /\ AddZone => IInv'
  <1> SUFFICES ASSUME IInv, AddZone PROVE IInv'
    OBVIOUS
  <1> DEFINE z   == ZoneOf(mem_high_zones[index])
             len == FrameCount(z) * VmPageSize
             arr == [base |-> balloc_ptr, size |-> len]
  <1>0. /\ index \in Nat /\ num_high_zones \in 0..MaxZones /\ index < num_high_zones
        /\ {WordSize, VmPageSize, PAGE_SIZE, MaxZones} \subseteq Nat \ {0}
        /\ mem_high_zones \in [0..(MaxZones - 1) -> Region]
        /\ boot_alloc_end \in Nat /\ End \in Nat /\ End <= boot_alloc_end
        /\ phy_zones \in Seq(Region) /\ arrays \in Seq(Region)
        /\ Len(arrays) = Len(phy_zones)
    BY BootMemoryAssumption DEF IInv, TypeOK, ArraysInv, AddZone
  <1>1. z \in Region /\ len \in Nat
    <2>1. mem_high_zones[index] \in Region
      BY <1>0
    <2>2. z \in Region
      BY <2>1, ZoneType
    <2> HIDE DEF z
    <2>3. FrameCount(z) \in Nat
      BY <2>2, FrameCountNat
    <2> QED BY <1>0, <2>2, <2>3, NatProduct
  <1> HIDE DEF z, len
  <1>2. /\ balloc_ptr \in Nat /\ boot_alloc_end <= balloc_ptr
        /\ balloc_end(len) \in Nat /\ balloc_ptr + len <= balloc_end(len)
    <2>1. balloc_ptr \in Nat /\ boot_alloc_end <= balloc_ptr
      BY <1>0, Up DEF balloc_ptr
    <2>2. ROUND_UP(len, WordSize) \in Nat /\ len <= ROUND_UP(len, WordSize)
      BY <1>0, <1>1, Up
    <2> HIDE DEF balloc_ptr
    <2> QED BY <1>1, <2>1, <2>2 DEF balloc_end
  <1>3. /\ pc = "zones" /\ index' = index + 1
        /\ UNCHANGED <<info, pc, tag, entry, count, mem_lower, mem_high_zones,
                       num_high_zones, given>>
        /\ \/ /\ phy_zones' = Append(phy_zones, z) /\ arrays' = Append(arrays, arr)
              /\ boot_alloc_end' = balloc_end(len)
           \/ UNCHANGED <<phy_zones, arrays, boot_alloc_end>>
    BY DEF AddZone, boot, z, len
  <1>4. Given' /\ RegionsApart' /\ Scan'
    BY <1>3, KeepRegions DEF IInv, Given, Scan
  <1>5. index' \in 0..num_high_zones'
    BY <1>0, <1>3
  <1>6. index \in 0..(index' - 1) /\ \A k \in 0..(index - 1) : k \in 0..(index' - 1) /\ k < index
    BY <1>0, <1>3
  <1>7. CASE /\ phy_zones' = Append(phy_zones, z) /\ arrays' = Append(arrays, arr)
             /\ boot_alloc_end' = balloc_end(len)
    <2>1. arr \in Region
      BY <1>1, <1>2 DEF Region
    <2> DEFINE n == Len(phy_zones)
    <2>2. /\ phy_zones' \in Seq(Region) /\ arrays' \in Seq(Region)
          /\ n \in Nat /\ Len(phy_zones') = n + 1 /\ Len(arrays') = n + 1
          /\ DOMAIN phy_zones' = 1..(n + 1) /\ DOMAIN arrays' = 1..(n + 1)
          /\ DOMAIN phy_zones = 1..n /\ DOMAIN arrays = 1..n
          /\ phy_zones'[n + 1] = z /\ arrays'[n + 1] = arr
          /\ \A i \in 1..n : phy_zones'[i] = phy_zones[i] /\ arrays'[i] = arrays[i]
      BY <1>0, <1>1, <1>7, <2>1
    <2> HIDE DEF n, arr
    <2>3. TypeOK'
      BY <1>0, <1>2, <1>3, <1>5, <1>7, <2>2 DEF IInv, TypeOK
    <2>4. \A i \in 1..(n + 1) : i \in 1..n \/ i = n + 1
      BY <2>2
    <2>5. Made'
      <3>1. ASSUME NEW a \in 1..(n + 1)
            PROVE  \E k \in 0..(index' - 1) : phy_zones'[a] = ZoneOf(mem_high_zones[k])
        <4>1. CASE a = n + 1
          BY <1>6, <2>2, <4>1 DEF z
        <4>2. CASE a \in 1..n
          <5>1. PICK k \in 0..(index - 1) : phy_zones[a] = ZoneOf(mem_high_zones[k])
            BY <2>2, <4>2 DEF IInv, Made
          <5> QED BY <1>6, <2>2, <4>2, <5>1
        <4> QED BY <2>4, <4>1, <4>2
      <3>2. ASSUME NEW a \in 1..(n + 1), NEW b \in 1..(n + 1), a < b
            PROVE  \E k, l \in 0..(index' - 1) :
                      /\ k < l
                      /\ phy_zones'[a] = ZoneOf(mem_high_zones[k])
                      /\ phy_zones'[b] = ZoneOf(mem_high_zones[l])
        <4>0. a \in 1..n
          BY <2>2, <3>2
        <4>1. CASE b = n + 1
          <5>1. PICK k \in 0..(index - 1) : phy_zones[a] = ZoneOf(mem_high_zones[k])
            BY <2>2, <4>0 DEF IInv, Made
          <5> QED BY <1>6, <2>2, <4>0, <4>1, <5>1 DEF z
        <4>2. CASE b \in 1..n
          <5>1. PICK k \in 0..(index - 1), l \in 0..(index - 1) :
                   /\ k < l
                   /\ phy_zones[a] = ZoneOf(mem_high_zones[k])
                   /\ phy_zones[b] = ZoneOf(mem_high_zones[l])
            <6>1. a \in DOMAIN phy_zones /\ b \in DOMAIN phy_zones
              BY <2>2, <4>0, <4>2
            <6> QED BY <3>2, <6>1 DEF IInv, Made
          <5>2. phy_zones'[a] = phy_zones[a] /\ phy_zones'[b] = phy_zones[b]
            BY <2>2, <4>0, <4>2
          <5> QED BY <1>6, <5>1, <5>2
        <4> QED BY <2>4, <4>1, <4>2
      <3>3. (\A a \in DOMAIN phy_zones : \E k \in 0..(index - 1) :
                phy_zones[a] = ZoneOf(mem_high_zones[k]))'
        BY <1>3, <2>2, <3>1 DEF ZoneOf
      <3>4. (\A a, b \in DOMAIN phy_zones :
                a < b => \E k, l \in 0..(index - 1) :
                            /\ k < l
                            /\ phy_zones[a] = ZoneOf(mem_high_zones[k])
                            /\ phy_zones[b] = ZoneOf(mem_high_zones[l]))'
        <4>1. ASSUME NEW a \in 1..(n + 1), NEW b \in 1..(n + 1), a < b
              PROVE  \E k, l \in 0..(index' - 1) :
                        /\ k < l
                        /\ phy_zones'[a] = ZoneOf(mem_high_zones'[k])
                        /\ phy_zones'[b] = ZoneOf(mem_high_zones'[l])
          <5>1. mem_high_zones' = mem_high_zones
            BY <1>3
          <5>2. \E k, l \in 0..(index' - 1) :
                   /\ k < l
                   /\ phy_zones'[a] = ZoneOf(mem_high_zones[k])
                   /\ phy_zones'[b] = ZoneOf(mem_high_zones[l])
            BY <3>2, <4>1
          <5> QED BY <5>1, <5>2
        <4>2. DOMAIN phy_zones' = 1..(n + 1)
          BY <2>2
        <4> QED BY <4>1, <4>2 DEF ZoneOf
      <3> QED BY <3>3, <3>4 DEF Made
    <2>6. \A i \in 1..n :
             /\ FrameCount(phy_zones'[i]) = FrameCount(phy_zones[i])
             /\ arrays[i].base \in Nat
             /\ FrameCount(phy_zones[i]) * VmPageSize \in Nat
             /\ arrays[i].base >= End
             /\ arrays[i].base + FrameCount(phy_zones[i]) * VmPageSize <= boot_alloc_end
             /\ \A j \in 1..n : i < j =>
                   arrays[i].base + FrameCount(phy_zones[i]) * VmPageSize <= arrays[j].base
      <3> SUFFICES ASSUME NEW i \in 1..n
                   PROVE  /\ FrameCount(phy_zones'[i]) = FrameCount(phy_zones[i])
                          /\ arrays[i].base \in Nat
                          /\ FrameCount(phy_zones[i]) * VmPageSize \in Nat
        BY <2>2 DEF IInv, ArraysInv, ArraysApart
      <3>1. phy_zones[i] \in Region /\ arrays[i] \in Region
        BY <1>0, <2>2, ElementOf
      <3>2. FrameCount(phy_zones[i]) \in Nat
        BY <3>1, FrameCountNat
      <3> QED BY <1>0, <2>2, <3>1, <3>2, NatProduct DEF Region
    <2>7. /\ arrays'[n + 1].base = balloc_ptr
          /\ FrameCount(phy_zones'[n + 1]) * VmPageSize = len
      BY <2>2 DEF arr, len
    <2>8. ArraysApart'
      <3>1. ASSUME NEW i \in 1..(n + 1)
            PROVE  /\ arrays'[i].base >= End
                   /\ arrays'[i].base + FrameCount(phy_zones'[i]) * VmPageSize
                        <= boot_alloc_end'
                   /\ \A j \in 1..(n + 1) : i < j =>
                         arrays'[i].base + FrameCount(phy_zones'[i]) * VmPageSize
                           <= arrays'[j].base
        <4> HIDE DEF balloc_ptr, balloc_end
        <4>1. CASE i = n + 1
          <5>1. \A j \in 1..(n + 1) : ~(i < j)
            BY <2>2, <4>1
          <5>2. balloc_ptr >= End /\ balloc_ptr + len <= boot_alloc_end'
            BY <1>0, <1>1, <1>2, <1>7
          <5> QED BY <2>7, <4>1, <5>1, <5>2
        <4>2. CASE i \in 1..n
          <5> DEFINE room == arrays[i].base + FrameCount(phy_zones[i]) * VmPageSize
          <5>1. /\ arrays'[i].base = arrays[i].base /\ room \in Nat
                /\ arrays'[i].base + FrameCount(phy_zones'[i]) * VmPageSize = room
                /\ room <= boot_alloc_end /\ arrays[i].base >= End
            BY <2>2, <2>6, <4>2
          <5> HIDE DEF room
          <5>2. room <= boot_alloc_end' /\ room <= balloc_ptr
            BY <1>0, <1>1, <1>2, <1>7, <5>1
          <5>3. \A j \in 1..n : i < j => room <= arrays'[j].base
            BY <2>2, <2>6, <4>2 DEF room
          <5> QED BY <2>4, <2>7, <5>1, <5>2, <5>3
        <4> QED BY <2>4, <4>1, <4>2
      <3> QED BY <2>2, <3>1 DEF ArraysApart, FrameCount
    <2>9. ArraysInv'
      <3>1. End <= boot_alloc_end'
        BY <1>0, <1>1, <1>2, <1>7
      <3> QED BY <2>2, <2>8, <3>1 DEF ArraysInv
    <2> QED BY <1>4, <2>3, <2>5, <2>9 DEF IInv
  <1>8. CASE UNCHANGED <<phy_zones, arrays, boot_alloc_end>>
    <2>1. TypeOK'
      BY <1>3, <1>5, <1>8 DEF IInv, TypeOK
    <2>2. Made'
      BY <1>3, <1>6, <1>8 DEF IInv, Made, ZoneOf
    <2>3. ArraysInv'
      BY <1>8 DEF IInv, ArraysInv, ArraysApart, FrameCount
    <2> QED BY <1>4, <2>1, <2>2, <2>3 DEF IInv
  <1> QED BY <1>3, <1>7, <1>8

\* Handing out frames moves nothing that the invariant is about.
LEMMA HandOutStep == IInv /\ HandOut => IInv'
  <1> SUFFICES ASSUME IInv, HandOut PROVE IInv'
    OBVIOUS
  <1>1. /\ UNCHANGED <<info, pc, tag, entry, count, mem_lower, mem_high_zones,
                       num_high_zones, index, phy_zones, arrays, boot_alloc_end>>
        /\ \E i \in DOMAIN phy_zones : \E f \in FramesIn(phy_zones[i]) :
              given' = given \cup {f}
    BY DEF HandOut, boot, zones
  <1>2. PICK i \in DOMAIN phy_zones :
           \E g \in FramesIn(phy_zones[i]) : given' = given \cup {g}
    BY <1>1
  <1> PICK f \in FramesIn(phy_zones[i]) : given' = given \cup {f}
    BY <1>2
  <1>3. phy_zones[i] \in Region
    BY ElementOf DEF IInv, TypeOK
  <1>4. PICK k \in 0..(FrameCount(phy_zones[i]) - 1) :
           f = phy_zones[i].base + k * PAGE_SIZE
    BY DEF FramesIn
  <1>5. k \in Nat /\ PAGE_SIZE \in Nat /\ phy_zones[i].base \in Nat
    BY <1>3, FrameCountNat, BootMemoryAssumption DEF Region
  <1>6. f \in Nat
    BY <1>4, <1>5, NatProduct
  <1>7. TypeOK'
    BY <1>1, <1>2, <1>6 DEF IInv, TypeOK
  <1>8. RegionsApart' /\ Made' /\ ArraysInv'
    BY <1>1, KeepRegions, KeepZones DEF IInv, zones
  <1> QED BY <1>1, <1>7, <1>8 DEF IInv, Given, Scan

\* The steps from one loop to the next, and no step at all.
LEMMA EndsStep == IInv /\ (ReadEnd \/ ZonesEnd \/ UNCHANGED vars) => IInv'
  <1> SUFFICES ASSUME IInv, ReadEnd \/ ZonesEnd \/ UNCHANGED vars PROVE IInv'
    OBVIOUS
  <1>1. /\ UNCHANGED <<info, tag, entry, count, mem_lower, mem_high_zones,
                       num_high_zones, index, phy_zones, arrays, boot_alloc_end,
                       given>>
        /\ pc' \in {pc, "zones", "up"}
    BY DEF ReadEnd, ZonesEnd, vars, boot, zones
  <1>2. TypeOK'
    BY <1>1 DEF IInv, TypeOK
  <1>3. RegionsApart' /\ Made' /\ ArraysInv'
    BY <1>1, KeepRegions, KeepZones DEF IInv, zones
  <1> QED BY <1>1, <1>2, <1>3 DEF IInv, Given, Scan

\* Every step keeps the invariant.
LEMMA NextIInv == IInv /\ [Next]_vars => IInv'
  BY ReadTagStep, ReadEntryStep, MapEndStep, AddZoneStep, HandOutStep, EndsStep
     DEF Next, Boot

\* It holds in every state.
LEMMA Invariance == Spec => []IInv
  BY InitIInv, NextIInv, PTL DEF Spec

-----------------------------------------------------------------------------
(* What is proved of init_boot_state, pmm_zone_init and balloc. *)

\* The loops of init_boot_state and of pmm_zone_init stay within mem_high_zones,
\* and everything they compute is an address.
THEOREM TypeCorrect == Spec => []TypeOK
  <1>1. IInv => TypeOK
    BY DEF IInv
  <1> QED BY <1>1, Invariance, PTL

\* pmm_zone_init makes disjoint zones of the disjoint regions of any map, whatever
\* their ends and the size of a page.
THEOREM DisjointZones == Spec => []ZonesApart
  <1>1. IInv => ZonesApart
    <2> SUFFICES ASSUME IInv, NEW i \in DOMAIN phy_zones, NEW j \in DOMAIN phy_zones,
                        i < j
                 PROVE  Bytes(phy_zones[i]) \cap Bytes(phy_zones[j]) = {}
      <3>1. DOMAIN phy_zones \subseteq Int
        BY DEF IInv, TypeOK
      <3>2. \A i, j \in DOMAIN phy_zones : i # j => i < j \/ j < i
        BY <3>1
      <3> QED BY <3>2 DEF ZonesApart
    <2>1. PICK k \in 0..(index - 1), l \in 0..(index - 1) :
             /\ k < l
             /\ phy_zones[i] = ZoneOf(mem_high_zones[k])
             /\ phy_zones[j] = ZoneOf(mem_high_zones[l])
      BY DEF IInv, Made
    <2>2. /\ k # l /\ k \in 0..(num_high_zones - 1) /\ l \in 0..(num_high_zones - 1)
          /\ k \in 0..(MaxZones - 1) /\ l \in 0..(MaxZones - 1)
      <3>1. MaxZones \in Nat
        BY BootMemoryAssumption
      <3>2. num_high_zones \in 0..MaxZones /\ index \in 0..num_high_zones
        BY DEF IInv, TypeOK
      <3>3. k \in 0..(index - 1) /\ l \in 0..(index - 1) /\ k < l
        BY <2>1
      <3>4. k \in Int /\ l \in Int /\ index \in Int /\ num_high_zones \in Int
        BY <3>1, <3>2, <3>3
      <3> QED BY <3>1, <3>2, <3>3, <3>4
    <2>3. /\ mem_high_zones[k] \in Region /\ mem_high_zones[l] \in Region
          /\ Bytes(mem_high_zones[k]) \cap Bytes(mem_high_zones[l]) = {}
      BY <2>2 DEF IInv, TypeOK, RegionsApart
    <2> QED BY <2>1, <2>3, ZoneOfApart
  <1> QED BY <1>1, Invariance, PTL

\* balloc gives the page arrays memory of their own, beyond the kernel image, with
\* room for every frame of their zone.
THEOREM DisjointArrays == Spec => []ArraysApart
  <1>1. IInv => ArraysApart
    BY DEF IInv, ArraysInv
  <1> QED BY <1>1, Invariance, PTL

-----------------------------------------------------------------------------
(* Where the zones come from, and that none is missed. *)

StoredIn(zs, n, e) == \E i \in 0..(n - 1) : zs[i].base = e.base /\ zs[i].size = e.size

Stored(e) == StoredIn(mem_high_zones, num_high_zones, e)

\* Every region stored is that of an available high entry.
Sources ==
  \A i \in 0..(num_high_zones - 1) : \E e \in EntriesOf(info) :
     /\ IsHigh(e)
     /\ mem_high_zones[i].base = e.base /\ mem_high_zones[i].size = e.size

\* Every such entry that was passed is stored, and every region passed by
\* pmm_zone_init is a zone unless no frame is in it.
Complete ==
  /\ pc = "tag" =>
       \A t \in DOMAIN info : t < tag /\ info[t].mmap =>
          \A k \in DOMAIN info[t].entries :
             IsHigh(info[t].entries[k]) => Stored(info[t].entries[k])
  /\ pc = "mmap" =>
       \A k \in DOMAIN info[tag].entries :
          k < entry /\ IsHigh(info[tag].entries[k]) => Stored(info[tag].entries[k])
  /\ pc \in {"zones", "up"} =>
       \A e \in EntriesOf(info) : IsHigh(e) => Stored(e)
  /\ pc = "up" => index = num_high_zones
  /\ \A i \in 0..(index - 1) :
        ZoneOf(mem_high_zones[i]).size > 0 =>
          \E a \in DOMAIN phy_zones : phy_zones[a] = ZoneOf(mem_high_zones[i])

Found == IInv /\ Sources /\ Complete

\* The entries of the maps, by their places.
LEMMA EntryPlaces ==
  \A e : e \in EntriesOf(info) <=>
           \E t \in DOMAIN info : /\ info[t].mmap
                                  /\ \E k \in DOMAIN info[t].entries :
                                        e = info[t].entries[k]
  BY DEF EntriesOf, Range

\* Nothing is stored yet, and nothing was passed.
LEMMA InitFound == Init => Found
  <1> SUFFICES ASSUME Init PROVE Found
    OBVIOUS
  <1>1. num_high_zones = 0 /\ index = 0 /\ pc = "tag" /\ tag = 1 /\ info \in Infos
    BY DEF Init
  <1>2. DOMAIN info \subseteq Nat \ {0}
    BY <1>1, BootMemoryAssumption
  <1>3. Sources /\ Complete
    BY <1>1, <1>2 DEF Sources, Complete
  <1> QED BY <1>3, InitIInv DEF Found

\* A step that leaves the regions and the zones alone keeps their sources.
LEMMA KeepSources ==
  ASSUME Sources, UNCHANGED <<info, mem_high_zones, num_high_zones>>
  PROVE  Sources' /\ \A e : Stored(e)' <=> Stored(e)
  BY DEF Sources, Stored, StoredIn, EntriesOf, IsHigh

\* A tag that is no map is passed without an entry to store.
LEMMA ReadTagFound == Found /\ ReadTag => Found'
  <1> SUFFICES ASSUME Found, ReadTag PROVE Found'
    OBVIOUS
  <1>1. /\ pc = "tag" /\ tag <= Len(info)
        /\ UNCHANGED <<info, mem_high_zones, num_high_zones, index, phy_zones>>
        /\ \/ info[tag].mmap /\ pc' = "mmap" /\ entry' = 1 /\ tag' = tag
           \/ ~info[tag].mmap /\ pc' = "tag" /\ tag' = tag + 1
    BY DEF ReadTag, zones
  <1>2. Sources' /\ \A e : Stored(e)' <=> Stored(e)
    BY <1>1, KeepSources DEF Found
  <1>3. tag \in Nat /\ DOMAIN info \subseteq Nat /\ info \in Seq([mmap : BOOLEAN, entries : Seq(Entry)])
    BY DEF Found, IInv, TypeOK
  <1>4. Complete'
    <2>1. (\A i \in 0..(index - 1) :
             ZoneOf(mem_high_zones[i]).size > 0 =>
               \E a \in DOMAIN phy_zones : phy_zones[a] = ZoneOf(mem_high_zones[i]))'
      BY <1>1 DEF Found, Complete, ZoneOf
    <2>2. CASE info[tag].mmap
      <3>1. pc' = "mmap" /\ entry' = 1 /\ tag' = tag
        BY <1>1, <2>2
      <3>2. info[tag].entries \in Seq(Entry)
        <4>1. tag \in DOMAIN info
          BY <1>1, <1>3 DEF Found, IInv, TypeOK
        <4>2. info[tag] \in [mmap : BOOLEAN, entries : Seq(Entry)]
          BY <1>3, <4>1, ElementOf
        <4> QED BY <4>2
      <3>3. \A k \in DOMAIN info[tag].entries : ~(k < 1)
        BY <3>2
      <3> QED BY <1>1, <2>1, <3>1, <3>3 DEF Complete
    <2>3. CASE ~info[tag].mmap
      <3>1. pc' = "tag" /\ tag' = tag + 1
        BY <1>1, <2>3
      <3>2. \A t \in DOMAIN info : t < tag + 1 /\ info[t].mmap => t < tag
        BY <1>3, <2>3
      <3>3. \A t \in DOMAIN info : t < tag + 1 /\ info[t].mmap =>
               \A k \in DOMAIN info[t].entries :
                  IsHigh(info[t].entries[k]) => Stored(info[t].entries[k])
        BY <1>1, <3>2 DEF Found, Complete
      <3> QED BY <1>1, <1>2, <2>1, <3>1, <3>3 DEF Complete, IsHigh
    <2> QED BY <2>2, <2>3
  <1> QED BY <1>2, <1>4, ReadTagStep DEF Found

\* The entry that is passed is stored if it is available and high.
LEMMA ReadEntryFound == Found /\ ReadEntry => Found'
  <1> SUFFICES ASSUME Found, ReadEntry PROVE Found'
    OBVIOUS
  <1> DEFINE es == info[tag].entries
             e  == es[entry]
             r  == [base |-> e.base, size |-> e.size]
             n  == num_high_zones
  <1>1. /\ tag \in DOMAIN info /\ info[tag].mmap /\ count = n
        /\ pc = "mmap" /\ entry <= Len(es)
        /\ n \in Nat /\ n <= MaxZones /\ entry \in Nat \ {0} /\ index = 0
        /\ mem_high_zones \in [0..(MaxZones - 1) -> Region]
        /\ info \in Seq([mmap : BOOLEAN, entries : Seq(Entry)])
    BY BootMemoryAssumption DEF Found, IInv, TypeOK, Scan, ReadEntry
  <1>2. /\ entry' = entry + 1
        /\ UNCHANGED <<info, tag, index, phy_zones>>
        /\ \/ /\ IsHigh(e) /\ n < MaxZones
              /\ mem_high_zones' = [mem_high_zones EXCEPT ![n] = r]
              /\ num_high_zones' = n + 1 /\ pc' = "mmap"
           \/ /\ IsHigh(e) /\ UNCHANGED <<mem_high_zones, num_high_zones>>
              /\ pc' = "overrun"
           \/ /\ ~IsHigh(e) /\ UNCHANGED <<mem_high_zones, num_high_zones>>
              /\ pc' = "mmap"
    BY <1>1 DEF ReadEntry, Here, zones
  <1>3. es \in Seq(Entry)
    <2>1. info[tag] \in [mmap : BOOLEAN, entries : Seq(Entry)]
      BY <1>1, ElementOf
    <2> QED BY <2>1
  <1>4. entry \in DOMAIN es /\ DOMAIN es \subseteq Nat
    BY <1>1, <1>3
  <1>5. e \in EntriesOf(info)
    BY <1>1, <1>4, EntryPlaces
  <1>6. \A k \in DOMAIN es : k < entry + 1 => k < entry \/ k = entry
    BY <1>1, <1>4
  <1>7. \A k \in DOMAIN es : k < entry /\ IsHigh(es[k]) => Stored(es[k])
    BY <1>1 DEF Found, Complete
  <1>8. r.base = e.base /\ r.size = e.size
    OBVIOUS
  <1>9. index' = 0
    BY <1>1, <1>2
  <1>10. \A i \in 0..(index' - 1) : FALSE
    BY <1>9
  <1> HIDE DEF e, r, n
  <1>11. CASE /\ IsHigh(e) /\ n < MaxZones
              /\ mem_high_zones' = [mem_high_zones EXCEPT ![n] = r]
              /\ num_high_zones' = n + 1 /\ pc' = "mmap"
    <2>1. n \in 0..(MaxZones - 1) /\ num_high_zones' - 1 = n /\ n \in 0..n
      BY <1>1, <1>11, BootMemoryAssumption
    <2>2. /\ mem_high_zones'[n] = r
          /\ \A i \in 0..(n - 1) : i \in 0..n /\ mem_high_zones'[i] = mem_high_zones[i]
      BY <1>1, <1>11, <2>1
    <2>3. \A i \in 0..n : i = n \/ i \in 0..(n - 1)
      BY <1>1
    <2>4. \A x : Stored(x) => StoredIn(mem_high_zones', num_high_zones', x)
      BY <2>1, <2>2 DEF Stored, StoredIn, n
    <2>5. StoredIn(mem_high_zones', num_high_zones', e)
      BY <1>8, <2>1, <2>2 DEF StoredIn
    <2>6. Sources'
      <3>1. ASSUME NEW i \in 0..n
            PROVE  \E x \in EntriesOf(info) :
                      /\ IsHigh(x)
                      /\ mem_high_zones'[i].base = x.base
                      /\ mem_high_zones'[i].size = x.size
        <4>1. CASE i = n
          BY <1>5, <1>8, <1>11, <2>2, <4>1
        <4>2. CASE i \in 0..(n - 1)
          <5>1. mem_high_zones'[i] = mem_high_zones[i]
            BY <2>2, <4>2
          <5>2. \E x \in EntriesOf(info) :
                   /\ IsHigh(x)
                   /\ mem_high_zones[i].base = x.base
                   /\ mem_high_zones[i].size = x.size
            BY <4>2 DEF Found, Sources, n
          <5> QED BY <5>1, <5>2
        <4> QED BY <2>3, <4>1, <4>2
      <3>2. info' = info
        BY <1>2
      <3> QED BY <2>1, <3>1, <3>2 DEF Sources, EntriesOf, IsHigh
    <2>7. \A k \in DOMAIN es : k < entry + 1 /\ IsHigh(es[k]) =>
             StoredIn(mem_high_zones', num_high_zones', es[k])
      <3> HIDE DEF es
      <3> QED BY <1>6, <1>7, <2>4, <2>5 DEF e
    <2>8. Complete'
      <3>1. info' = info /\ tag' = tag /\ entry' = entry + 1 /\ pc' = "mmap"
        BY <1>2, <1>11
      <3> QED BY <1>10, <2>7, <3>1 DEF Complete, Stored, IsHigh
    <2> QED BY <2>6, <2>8, ReadEntryStep DEF Found
  <1>12. CASE /\ IsHigh(e) /\ UNCHANGED <<mem_high_zones, num_high_zones>>
              /\ pc' = "overrun"
    <2>1. Sources'
      BY <1>2, <1>12, KeepSources DEF Found
    <2>2. Complete'
      BY <1>10, <1>12 DEF Complete
    <2> QED BY <2>1, <2>2, ReadEntryStep DEF Found
  <1>13. CASE /\ ~IsHigh(e) /\ UNCHANGED <<mem_high_zones, num_high_zones>>
              /\ pc' = "mmap"
    <2>1. Sources' /\ \A x : Stored(x)' <=> Stored(x)
      BY <1>2, <1>13, KeepSources DEF Found
    <2>2. \A k \in DOMAIN es : k < entry + 1 /\ IsHigh(es[k]) => Stored(es[k])
      <3> HIDE DEF es
      <3> QED BY <1>6, <1>7, <1>13 DEF e
    <2>3. Complete'
      <3>1. info' = info /\ tag' = tag /\ entry' = entry + 1 /\ pc' = "mmap"
        BY <1>2, <1>13
      <3> QED BY <1>10, <2>1, <2>2, <3>1 DEF Complete, IsHigh
    <2> QED BY <2>1, <2>3, ReadEntryStep DEF Found
  <1> QED BY <1>2, <1>11, <1>12, <1>13

\* A map is passed once every entry of it is.
LEMMA MapEndFound == Found /\ MapEnd => Found'
  <1> SUFFICES ASSUME Found, MapEnd PROVE Found'
    OBVIOUS
  <1>1. /\ tag \in DOMAIN info /\ info[tag].mmap /\ tag \in Nat /\ info \in Infos
        /\ pc = "mmap" /\ entry > Len(info[tag].entries) /\ entry \in Nat
        /\ pc' = "tag" /\ tag' = tag + 1
        /\ UNCHANGED <<info, mem_high_zones, num_high_zones, index, phy_zones>>
        /\ info \in Seq([mmap : BOOLEAN, entries : Seq(Entry)])
    BY DEF Found, IInv, TypeOK, Given, Scan, MapEnd, zones
  <1>2. Sources' /\ \A e : Stored(e)' <=> Stored(e)
    BY <1>1, KeepSources DEF Found
  <1>3. \A k \in DOMAIN info[tag].entries : k < entry
    <2>1. info[tag] \in [mmap : BOOLEAN, entries : Seq(Entry)]
      BY <1>1, ElementOf
    <2>2. info[tag].entries \in Seq(Entry)
      BY <2>1
    <2> QED BY <1>1, <2>2
  <1>4. \A t \in DOMAIN info : info[t].mmap => t = tag
    BY <1>1, OneMap
  <1>5. \A t \in DOMAIN info : t < tag + 1 /\ info[t].mmap =>
           \A k \in DOMAIN info[t].entries :
              IsHigh(info[t].entries[k]) => Stored(info[t].entries[k])
    BY <1>1, <1>3, <1>4 DEF Found, Complete
  <1>6. (\A i \in 0..(index - 1) :
           ZoneOf(mem_high_zones[i]).size > 0 =>
             \E a \in DOMAIN phy_zones : phy_zones[a] = ZoneOf(mem_high_zones[i]))'
    BY <1>1 DEF Found, Complete, ZoneOf
  <1>7. Complete'
    BY <1>1, <1>2, <1>5, <1>6 DEF Complete, IsHigh
  <1> QED BY <1>2, <1>7, MapEndStep DEF Found

\* At the end of the tags every map was passed, and at the end of the regions each.
LEMMA EndsFound == Found /\ (ReadEnd \/ ZonesEnd \/ UNCHANGED vars) => Found'
  <1> SUFFICES ASSUME Found, ReadEnd \/ ZonesEnd \/ UNCHANGED vars PROVE Found'
    OBVIOUS
  <1>1. UNCHANGED <<info, tag, entry, mem_high_zones, num_high_zones, index, phy_zones>>
    BY DEF ReadEnd, ZonesEnd, vars, boot, zones
  <1>2. Sources' /\ \A e : Stored(e)' <=> Stored(e)
    BY <1>1, KeepSources DEF Found
  <1>3. (\A i \in 0..(index - 1) :
           ZoneOf(mem_high_zones[i]).size > 0 =>
             \E a \in DOMAIN phy_zones : phy_zones[a] = ZoneOf(mem_high_zones[i]))'
    BY <1>1 DEF Found, Complete, ZoneOf
  <1>4. EntriesOf(info)' = EntriesOf(info)
    BY <1>1 DEF EntriesOf
  <1>5. CASE ReadEnd
    <2>1. pc = "tag" /\ tag > Len(info) /\ pc' = "zones" /\ tag \in Nat
          /\ info \in Seq([mmap : BOOLEAN, entries : Seq(Entry)])
      BY <1>5 DEF ReadEnd, Found, IInv, TypeOK
    <2>2. \A t \in DOMAIN info : t < tag
      BY <2>1
    <2>3. ASSUME NEW e \in EntriesOf(info), IsHigh(e) PROVE Stored(e)
      <3>1. PICK t \in DOMAIN info : /\ info[t].mmap
                                    /\ \E k \in DOMAIN info[t].entries :
                                          e = info[t].entries[k]
        BY <2>3, EntryPlaces
      <3>2. \A k \in DOMAIN info[t].entries :
               IsHigh(info[t].entries[k]) => Stored(info[t].entries[k])
        BY <2>1, <2>2, <3>1 DEF Found, Complete
      <3> QED BY <2>3, <3>1, <3>2
    <2> QED BY <1>2, <1>3, <1>4, <2>1, <2>3, EndsStep DEF Found, Complete, IsHigh
  <1>6. CASE ZonesEnd
    <2>1. pc = "zones" /\ pc' = "up" /\ index = num_high_zones
      BY <1>6 DEF ZonesEnd, Found, IInv, TypeOK
    <2>2. \A e \in EntriesOf(info) : IsHigh(e) => Stored(e)
      BY <2>1 DEF Found, Complete
    <2> QED BY <1>1, <1>2, <1>3, <1>4, <2>1, <2>2, EndsStep DEF Found, Complete, IsHigh
  <1>7. CASE UNCHANGED vars
    <2>1. pc' = pc
      BY <1>7 DEF vars
    <2>2. Complete'
      BY <1>1, <1>2, <1>3, <1>4, <2>1 DEF Found, Complete, IsHigh
    <2> QED BY <1>2, <2>2, EndsStep DEF Found
  <1> QED BY <1>5, <1>6, <1>7

\* The region that is passed becomes a zone unless no frame is in it.
LEMMA AddZoneFound == Found /\ AddZone => Found'
  <1> SUFFICES ASSUME Found, AddZone PROVE Found'
    OBVIOUS
  <1> DEFINE z == ZoneOf(mem_high_zones[index])
  <1>1. /\ pc = "zones" /\ pc' = "zones" /\ index \in Nat /\ index' = index + 1
        /\ UNCHANGED <<info, mem_high_zones, num_high_zones>>
        /\ phy_zones \in Seq(Region) /\ mem_high_zones[index] \in Region
        /\ IF z.size > 0 THEN phy_zones' = Append(phy_zones, z)
                         ELSE phy_zones' = phy_zones
    <2>1. /\ pc = "zones" /\ pc' = "zones" /\ index' = index + 1
          /\ UNCHANGED <<info, mem_high_zones, num_high_zones>>
          /\ index < num_high_zones
          /\ IF z.size > 0 THEN phy_zones' = Append(phy_zones, z)
                           ELSE phy_zones' = phy_zones
      BY DEF AddZone, boot
    <2>2. /\ index \in Nat /\ phy_zones \in Seq(Region) /\ MaxZones \in Nat
          /\ num_high_zones \in Nat /\ num_high_zones <= MaxZones
          /\ mem_high_zones \in [0..(MaxZones - 1) -> Region]
      BY BootMemoryAssumption DEF Found, IInv, TypeOK
    <2>3. index \in 0..(MaxZones - 1)
      BY <2>1, <2>2
    <2> QED BY <2>1, <2>2, <2>3
  <1>2. Sources' /\ \A e : Stored(e)' <=> Stored(e)
    BY <1>1, KeepSources DEF Found
  <1>3. z \in Region
    BY <1>1, ZoneType
  <1> HIDE DEF z
  <1>4. ASSUME NEW i \in 0..(index - 1), ZoneOf(mem_high_zones[i]).size > 0
        PROVE  \E a \in DOMAIN phy_zones' : phy_zones'[a] = ZoneOf(mem_high_zones[i])
    <2>1. PICK a \in DOMAIN phy_zones : phy_zones[a] = ZoneOf(mem_high_zones[i])
      BY <1>4 DEF Found, Complete
    <2>2. a \in DOMAIN phy_zones' /\ phy_zones'[a] = phy_zones[a]
      <3>1. CASE z.size > 0
        BY <1>1, <1>3, <3>1
      <3>2. CASE ~(z.size > 0)
        BY <1>1, <3>2
      <3> QED BY <3>1, <3>2
    <2> QED BY <2>1, <2>2
  <1>5. ASSUME z.size > 0
        PROVE  \E a \in DOMAIN phy_zones' : phy_zones'[a] = z
    <2>1. /\ Len(phy_zones) + 1 \in DOMAIN phy_zones'
          /\ phy_zones'[Len(phy_zones) + 1] = z
      BY <1>1, <1>3, <1>5
    <2> QED BY <2>1
  <1>6. \A i \in 0..(index' - 1) : i \in 0..(index - 1) \/ i = index
    BY <1>1
  <1>7. \A i \in 0..(index' - 1) :
           ZoneOf(mem_high_zones[i]).size > 0 =>
             \E a \in DOMAIN phy_zones' : phy_zones'[a] = ZoneOf(mem_high_zones[i])
    BY <1>4, <1>5, <1>6 DEF z
  <1>8. \A e \in EntriesOf(info) : IsHigh(e) => Stored(e)
    BY <1>1 DEF Found, Complete
  <1>9. EntriesOf(info)' = EntriesOf(info)
    BY <1>1 DEF EntriesOf
  <1>10. (\A i \in 0..(index - 1) :
            ZoneOf(mem_high_zones[i]).size > 0 =>
              \E a \in DOMAIN phy_zones : phy_zones[a] = ZoneOf(mem_high_zones[i]))'
    BY <1>1, <1>7 DEF ZoneOf
  <1>11. Complete'
    BY <1>1, <1>2, <1>8, <1>9, <1>10 DEF Complete, IsHigh
  <1> QED BY <1>2, <1>11, AddZoneStep DEF Found

\* Handing out frames stores nothing and passes nothing.
LEMMA HandOutFound == Found /\ HandOut => Found'
  <1> SUFFICES ASSUME Found, HandOut PROVE Found'
    OBVIOUS
  <1>1. UNCHANGED <<info, pc, tag, entry, mem_high_zones, num_high_zones, index, phy_zones>>
    BY DEF HandOut, boot, zones
  <1>2. Sources' /\ \A e : Stored(e)' <=> Stored(e)
    BY <1>1, KeepSources DEF Found
  <1>3. (\A i \in 0..(index - 1) :
           ZoneOf(mem_high_zones[i]).size > 0 =>
             \E a \in DOMAIN phy_zones : phy_zones[a] = ZoneOf(mem_high_zones[i]))'
    BY <1>1 DEF Found, Complete, ZoneOf
  <1>4. EntriesOf(info)' = EntriesOf(info)
    BY <1>1 DEF EntriesOf
  <1>5. Complete'
    BY <1>1, <1>2, <1>3, <1>4 DEF Found, Complete, IsHigh
  <1> QED BY <1>2, <1>5, HandOutStep DEF Found

\* Every step keeps track of what was stored and passed.
LEMMA NextFound == Found /\ [Next]_vars => Found'
  BY ReadTagFound, ReadEntryFound, MapEndFound, AddZoneFound, HandOutFound, EndsFound
     DEF Next, Boot

\* And so it is in every state.
LEMMA FoundInvariance == Spec => []Found
  BY InitFound, NextFound, PTL DEF Spec

\* pmm_zone_init makes no frame out of memory that is not there: each begins in an
\* available region of the map, at or beyond HIGHMEM_PADDR.
THEOREM FramesAreMemory == Spec => []FramesBeginInMemory
  <1>1. Found => FramesBeginInMemory
    <2> SUFFICES ASSUME Found, NEW a \in DOMAIN phy_zones,
                        NEW f \in FramesIn(phy_zones[a])
                 PROVE  \E e \in EntriesOf(info) :
                           e.available /\ e.base >= HighMem /\ f \in Bytes(e)
      BY DEF FramesBeginInMemory
    <2>1. PICK k \in 0..(index - 1) : phy_zones[a] = ZoneOf(mem_high_zones[k])
      BY DEF Found, IInv, Made
    <2>2. k \in 0..(num_high_zones - 1) /\ mem_high_zones[k] \in Region
      <3>1. /\ index \in 0..num_high_zones /\ num_high_zones \in 0..MaxZones
            /\ mem_high_zones \in [0..(MaxZones - 1) -> Region] /\ MaxZones \in Nat
        BY BootMemoryAssumption DEF Found, IInv, TypeOK
      <3>2. k \in 0..(num_high_zones - 1) /\ k \in 0..(MaxZones - 1)
        BY <3>1
      <3> QED BY <3>1, <3>2
    <2>3. f \in Bytes(mem_high_zones[k])
      BY <2>1, <2>2, FrameBegins
    <2>4. PICK e \in EntriesOf(info) :
             /\ IsHigh(e)
             /\ mem_high_zones[k].base = e.base /\ mem_high_zones[k].size = e.size
      BY <2>2 DEF Found, Sources
    <2>5. f \in Bytes(e)
      BY <2>3, <2>4 DEF Bytes
    <2> QED BY <2>4, <2>5 DEF IsHigh
  <1> QED BY <1>1, FoundInvariance, PTL

\* init_boot_state and pmm_zone_init miss no memory: when the zones are made every
\* frame that lies in an available high region is in one of them.
THEOREM NoMemoryMissed == Spec => []AllMemoryFound
  <1>1. Found => AllMemoryFound
    <2> SUFFICES ASSUME Found, pc = "up", NEW e \in EntriesOf(info), IsHigh(e),
                        NEW f \in Bytes(e), f % PAGE_SIZE = 0,
                        f + PAGE_SIZE <= e.base + e.size
                 PROVE  \E a \in DOMAIN phy_zones : f \in FramesIn(phy_zones[a])
      BY DEF AllMemoryFound, IsHigh
    <2>1. PICK i \in 0..(num_high_zones - 1) :
             mem_high_zones[i].base = e.base /\ mem_high_zones[i].size = e.size
      BY DEF Found, Complete, Stored, StoredIn
    <2>2. i \in 0..(index - 1) /\ mem_high_zones[i] \in Region
      <3>1. /\ index = num_high_zones /\ num_high_zones \in 0..MaxZones
            /\ mem_high_zones \in [0..(MaxZones - 1) -> Region] /\ MaxZones \in Nat
        BY BootMemoryAssumption DEF Found, Complete, IInv, TypeOK
      <3>2. i \in 0..(index - 1) /\ i \in 0..(MaxZones - 1)
        BY <3>1
      <3> QED BY <3>1, <3>2
    <2>3. f \in Nat /\ e.base <= f
      BY <2>1, <2>2 DEF Bytes, Region
    <2>4. /\ f \in FramesIn(ZoneOf(mem_high_zones[i]))
          /\ ZoneOf(mem_high_zones[i]).size > 0
      BY <2>1, <2>2, <2>3, FrameFound
    <2>5. PICK a \in DOMAIN phy_zones : phy_zones[a] = ZoneOf(mem_high_zones[i])
      BY <2>2, <2>4 DEF Found, Complete
    <2> QED BY <2>4, <2>5
  <1> QED BY <1>1, FoundInvariance, PTL
=============================================================================
