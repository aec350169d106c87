---------------------------- MODULE MCBootMemory ----------------------------
(* Maps of low memory and up to two regions above it, each beginning and ending
   anywhere, available or not and in either order, with a tag of another type
   before or after the map; and one map with a region too many. *)
EXTENDS BootMemory

Low == [base |-> 0, size |-> 3, available |-> TRUE]

High == {e \in [base : HighMem..(HighMem + 11), size : 0..9,
                available : BOOLEAN] : e.base + e.size <= HighMem + 12}

Two == {s \in High \X High : Bytes(s[1]) \cap Bytes(s[2]) = {}}

TooMany == [i \in 1..(MaxZones + 1) |->
              [base |-> HighMem + i, size |-> 1, available |-> TRUE]]

Maps == {<<Low>> \o s : s \in Two} \cup {<<>>, TooMany}

Tag(map) == [mmap |-> TRUE, entries |-> map]

Other == [mmap |-> FALSE, entries |-> <<>>]

MCInfos == {<<Other, Tag(m)>> : m \in Maps}
             \cup {<<Tag(m), Other>> : m \in {<<Low, e>> : e \in High}}
             \cup {<<>>, <<Other>>}
=============================================================================
