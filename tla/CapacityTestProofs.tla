-------------------------- MODULE CapacityTestProofs --------------------------
(***************************************************************************)
(* Proofs about CapacityTest, for devices of any size, real or claimed,    *)
(* any number and place of slices, and any word: what the size that is     *)
(* found has to do with the storage that is there.                         *)
(***************************************************************************)
EXTENDS CapacityTest, TLAPS

----------------------------------------------------------------------------
(* Arithmetic modulo the word.  The search adds and halves sectors, which   *)
(* may wrap around, but the device is only ever asked for the byte at one,  *)
(* which depends on the sector modulo WordSectors: its place on the device. *)

WordSectors == Word \div sector_size

Place(s) == s % WordSectors

LEMMA Quotient ==
    ASSUME NEW a \in Int, NEW b \in Nat \ {0}
    PROVE  /\ a \div b \in Int /\ a % b \in 0 .. b - 1
           /\ a = b * (a \div b) + (a % b)
  OBVIOUS

LEMMA Remainder ==
    ASSUME NEW b \in Nat \ {0}, NEW q \in Int, NEW r \in 0 .. b - 1
    PROVE  (b * q + r) % b = r /\ (b * q + r) \div b = q
<1> DEFINE a == b * q + r
<1>1. a \in Int
  OBVIOUS
<1>2. PICK p \in Int, t \in 0 .. b - 1 : a = b * p + t /\ a \div b = p /\ a % b = t
  BY <1>1, Quotient
<1>3. b * (q - p) = t - r
  BY <1>2
<1>4. ~(q - p >= 1)
  <2>1. q - p >= 1 => b * (q - p) >= b
    OBVIOUS
  <2> QED BY <1>3, <2>1
<1>5. ~(p - q >= 1)
  <2>1. p - q >= 1 => b * (p - q) >= b
    OBVIOUS
  <2>2. b * (p - q) = r - t
    BY <1>2
  <2> QED BY <2>1, <2>2
<1>6. p = q
  BY <1>4, <1>5
<1>7. t = r
  BY <1>3, <1>6
<1> QED BY <1>2, <1>6, <1>7

LEMMA WordIsWhole ==
    /\ WordSectors \in Nat \ {0}
    /\ Word = WordSectors * sector_size
    /\ num_logical_sectors < WordSectors
<1>1. Word \in Nat \ {0} /\ sector_size \in Nat \ {0} /\ num_logical_sectors \in Nat \ {0}
  BY CapacityAssumption
<1>2. Word = sector_size * WordSectors /\ WordSectors \in Int
  BY <1>1, Quotient, CapacityAssumption DEF WordSectors
<1>3. WordSectors > 0
  <2>1. WordSectors <= 0 => sector_size * WordSectors <= 0
    BY <1>1, <1>2
  <2> QED BY <1>1, <1>2, <2>1
<1>4. num_logical_sectors * sector_size < Word
  <2>1. Word \div 2 \in Int /\ Word \div 2 <= Word
    BY <1>1
  <2> QED BY <1>1, <2>1, CapacityAssumption
<1>5. num_logical_sectors < WordSectors
  <2>1. num_logical_sectors >= WordSectors
          => sector_size * num_logical_sectors >= sector_size * WordSectors
    BY <1>1, <1>2
  <2> QED BY <1>1, <1>2, <1>4, <2>1
<1> QED BY <1>1, <1>2, <1>3, <1>5

LEMMA PlaceIsNat == \A s \in Int : Place(s) \in 0 .. WordSectors - 1
  BY WordIsWhole, Quotient DEF Place

\* The byte, and the sector that it is in, of a sector that may have wrapped.
LEMMA OffsetOfPlace ==
    ASSUME NEW s \in Int
    PROVE  /\ (s * sector_size) % Word = sector_size * Place(s)
           /\ ((s * sector_size) % Word) \div sector_size = Place(s)
<1>1. WordSectors \in Nat \ {0} /\ sector_size \in Nat \ {0} /\ Word = WordSectors * sector_size
  BY WordIsWhole, CapacityAssumption
<1>2. PICK q \in Int : s = WordSectors * q + Place(s)
  BY <1>1, Quotient DEF Place
<1>3. Place(s) \in 0 .. WordSectors - 1
  BY PlaceIsNat
<1>4. s * sector_size = Word * q + sector_size * Place(s)
  BY <1>1, <1>2, <1>3
<1>5. sector_size * Place(s) \in 0 .. Word - 1
  <2>1. sector_size * Place(s) <= sector_size * (WordSectors - 1)
    BY <1>1, <1>3
  <2>2. sector_size * (WordSectors - 1) = Word - sector_size
    BY <1>1
  <2>3. sector_size * Place(s) >= 0
    BY <1>1, <1>3
  <2> QED BY <1>1, <1>3, <2>1, <2>2, <2>3
<1>6. (s * sector_size) % Word = sector_size * Place(s)
  BY <1>4, <1>5, Remainder, CapacityAssumption
<1>7. (sector_size * Place(s) + 0) \div sector_size = Place(s)
  <2>1. 0 \in 0 .. sector_size - 1 /\ Place(s) \in Int
    BY <1>1, <1>3
  <2> QED BY <1>1, <2>1, Remainder
<1>8. sector_size * Place(s) + 0 = sector_size * Place(s)
  BY <1>1, <1>3
<1> QED BY <1>6, <1>7, <1>8

LEMMA PlaceOfWord ==
    ASSUME NEW s \in Int
    PROVE  Place(s % Word) = Place(s)
<1>1. WordSectors \in Nat \ {0} /\ sector_size \in Nat \ {0} /\ Word = WordSectors * sector_size
  BY WordIsWhole, CapacityAssumption
<1>2. Word \in Nat \ {0}
  BY CapacityAssumption
<1>3. PICK p \in Int : s = Word * p + (s % Word)
  BY <1>2, Quotient
<1>4. s % Word \in Int
  BY <1>2, Quotient
<1>5. PICK q \in Int : s % Word = WordSectors * q + Place(s % Word)
  BY <1>1, <1>4, Quotient DEF Place
<1>6. Place(s % Word) \in 0 .. WordSectors - 1
  BY <1>4, PlaceIsNat
<1>7. s = WordSectors * (sector_size * p + q) + Place(s % Word)
  BY <1>1, <1>3, <1>5, <1>6
<1>8. sector_size * p + q \in Int
  BY <1>1
<1>9. (WordSectors * (sector_size * p + q) + Place(s % Word)) % WordSectors = Place(s % Word)
  BY <1>1, <1>6, <1>8, Remainder
<1> QED BY <1>7, <1>9 DEF Place

LEMMA PlaceBehind ==
    ASSUME NEW s \in Int, NEW t \in Int, Place(s) + t \in 0 .. WordSectors - 1
    PROVE  Place(s + t) = Place(s) + t
<1>1. WordSectors \in Nat \ {0}
  BY WordIsWhole
<1>2. PICK q \in Int : s = WordSectors * q + Place(s)
  BY <1>1, Quotient DEF Place
<1>3. s + t = WordSectors * q + (Place(s) + t)
  <2>1. Place(s) \in Int /\ WordSectors * q \in Int
    BY <1>1, PlaceIsNat
  <2> QED BY <1>2, <2>1
<1>4. (WordSectors * q + (Place(s) + t)) % WordSectors = Place(s) + t
  BY <1>1, Remainder
<1> QED BY <1>3, <1>4 DEF Place

LEMMA PlaceOnDevice ==
    ASSUME NEW s \in 0 .. num_logical_sectors PROVE Place(s) = s
<1>1. Place(0) = 0
  <2>1. WordSectors * 0 + 0 = 0 /\ 0 \in Int
    BY WordIsWhole
  <2> QED BY <2>1, WordIsWhole, Remainder DEF Place
<1>2. s \in Int /\ 0 + s = s /\ s \in 0 .. WordSectors - 1
  BY WordIsWhole, CapacityAssumption
<1> QED BY <1>1, <1>2, PlaceBehind

----------------------------------------------------------------------------
(* The geometry: every region has room for its slice and the one before.    *)

LEMMA Sizes ==
    /\ num_logical_sectors \in Nat \ {0} /\ slice_sectors \in Nat \ {0}
    /\ sector_size \in Nat \ {0} /\ Word \in Nat \ {0}
    /\ num_slices \in Nat /\ num_slices > 2
    /\ Verified \in Nat \ {0} /\ Verified + Verified <= num_slices /\ Verified < num_slices - 1
    /\ Region \in Nat /\ Region >= 2 * slice_sectors
    /\ num_logical_sectors < Word
<1>1. Word >= WordSectors
  <2>1. WordSectors * sector_size >= WordSectors
    BY WordIsWhole, CapacityAssumption
  <2> QED BY <2>1, WordIsWhole
<1>2. Region \in Int
  BY CapacityAssumption DEF Region
<1> QED BY <1>1, <1>2, WordIsWhole, CapacityAssumption DEF Verified

LEMMA Regions ==
    ASSUME NEW k \in 1 .. num_slices - 2
    PROVE  /\ Region * k \in Nat
           /\ Region * k = Region * (k - 1) + Region
           /\ Region * k <= num_logical_sectors - 2 * slice_sectors
<1>1. Region * (num_slices - 1) <= num_logical_sectors
  <2> DEFINE b == num_slices - 1
  <2>1. b \in Nat \ {0} /\ num_logical_sectors \in Int /\ Region = num_logical_sectors \div b
    BY Sizes DEF Region
  <2> HIDE DEF b
  <2>2. b * Region <= num_logical_sectors
    BY <2>1, Quotient
  <2>3. Region * b = b * Region
    BY <2>1, Sizes
  <2> QED BY <2>2, <2>3 DEF b
<1>2. Region * (num_slices - 1 - k) >= Region
  BY Sizes
<1>3. Region * (num_slices - 1) = Region * k + Region * (num_slices - 1 - k)
  BY Sizes
<1> QED BY Sizes, <1>1, <1>2, <1>3

\* Slice k's position, drawn behind that of the slice before.
LEMMA DrawnInRegion ==
    ASSUME NEW k \in 1 .. num_slices - 2, NEW before \in Nat, NEW draw \in Draws,
           k = 1 => before = 0, k > 1 => before < Region * (k - 1)
    PROVE  LET from == draw_from(k, before)
               s    == from + (draw % (Region * k - from))
           IN  /\ s \in Nat /\ s < Region * k
               /\ before + slice_sectors <= s
<1> DEFINE from == draw_from(k, before)
<1>1. from \in Nat /\ before + slice_sectors <= from /\ from < Region * k
  <2>1. CASE k = 1
    <3>1. Region * 1 = Region
      BY Sizes
    <3> QED BY <2>1, <3>1, Sizes DEF draw_from
  <2>2. CASE k > 1
    <3>1. Region * (k - 1) \in Nat
      BY <2>2, Sizes
    <3> QED BY <2>2, <3>1, Regions, Sizes DEF draw_from, Larger
  <2> QED BY <2>1, <2>2
<1>2. Region * k - from \in Nat \ {0}
  BY <1>1, Regions
<1>3. draw \in Int
  BY CapacityAssumption
<1>4. draw % (Region * k - from) \in 0 .. Region * k - from - 1
  BY <1>2, <1>3, Quotient
<1> DEFINE more == draw % (Region * k - from)
<1>5. more \in 0 .. Region * k - from - 1 /\ Region * k \in Nat
  BY <1>4, Regions
<1> HIDE DEF more, from
<1>6. /\ from + more \in Nat /\ from + more < Region * k
      /\ before + slice_sectors <= from + more
  BY <1>1, <1>5, Sizes
<1> QED BY <1>6 DEF more, from

----------------------------------------------------------------------------
(* Types, and where the slices are: in order and apart.                     *)

PlacedSlices == IF pc = "place" THEN 0 .. i - 1 ELSE 0 .. num_slices - 1

SlicesApart ==
    /\ initial_sectors[0] = 0
    /\ initial_sectors[num_slices - 1] = last_slice
    /\ \A k \in PlacedSlices \ {0, num_slices - 1} : initial_sectors[k] < Region * k
    /\ \A a, b \in PlacedSlices :
          a < b => initial_sectors[a] + slice_sectors <= initial_sectors[b]

\* Which slice it is the turn of.
Turns ==
    /\ pc = "place"  => i \in 1 .. num_slices - 2
    /\ pc = "write"  => i \in 1 .. num_slices
    /\ pc = "read"   => i \in 0 .. num_slices - 1
    /\ pc = "verify" => i \in 0 .. Verified - 1

\* The area is on the device, and the position is lost by a fault only.
Reached ==
    /\ pc = "verify" => Place(cur) + num_slices * slice_sectors <= num_logical_sectors
    /\ faults = 0 => in_place = TRUE

TypeInv ==
    /\ TypeOK /\ Turns /\ SlicesApart /\ Reached
    /\ cache <= Verified
    /\ pc # "done" => device_info.is_fake_flash = "UNKNOWN"
    /\ pc \in {"place", "write"} => low = 0

LEMMA InitType == Init => TypeInv
<1> SUFFICES ASSUME Init PROVE TypeInv
  OBVIOUS
<1>1. last_slice \in 0 .. num_logical_sectors - slice_sectors
  <2>1. Region * 1 <= num_logical_sectors - 2 * slice_sectors /\ Region * 1 = Region
    BY Regions, Sizes
  <2> QED BY <2>1, Sizes DEF last_slice
<1>2. initial_sectors \in [0 .. num_slices - 1 -> 0 .. num_logical_sectors - slice_sectors]
  BY <1>1, Sizes DEF Init
<1>3. i \in 0 .. num_slices /\ {low, high, cur} \subseteq 0 .. Word - 1
  BY Sizes DEF Init
<1>4. cache \in 0 .. Verified /\ cache \in 0 .. num_slices /\ faults \in 0 .. MaxFaults
  BY Sizes, CapacityAssumption DEF Init, Verified
<1>5. TypeOK
  BY <1>2, <1>3, <1>4, Sizes DEF Init, TypeOK
<1>6. SlicesApart
  BY Sizes DEF Init, SlicesApart, PlacedSlices
<1> QED BY <1>4, <1>5, <1>6, Sizes DEF Init, TypeInv, Turns, Reached

LEMMA PlaceSliceType == ASSUME TypeInv, PlaceSlice PROVE TypeInv'
<1>1. PICK draw \in Draws :
        LET from == draw_from(i, initial_sectors[i - 1])
        IN  initial_sectors' =
               [initial_sectors EXCEPT ![i] = from + (draw % (Region * i - from))]
  BY DEF PlaceSlice
<1>2. i \in 1 .. num_slices - 2 /\ num_slices - 1 \in Nat /\ pc = "place"
  BY Sizes DEF TypeInv, Turns, PlaceSlice
<1> DEFINE before == initial_sectors[i - 1]
           from == draw_from(i, before)
           s == from + (draw % (Region * i - from))
<1>3. before \in Nat /\ (i = 1 => before = 0) /\ (i > 1 => before < Region * (i - 1))
  BY <1>2, Sizes DEF TypeInv, TypeOK, SlicesApart, PlacedSlices
<1>4. s \in Nat /\ s < Region * i /\ before + slice_sectors <= s
  BY <1>2, <1>3, DrawnInRegion
<1>5. initial_sectors' = [initial_sectors EXCEPT ![i] = s]
  BY <1>1
<1> HIDE DEF s
<1>6. s < num_logical_sectors - 2 * slice_sectors
  BY <1>2, <1>4, Regions, Sizes
<1>7. /\ initial_sectors'[i] = s
      /\ \A k \in 0 .. num_slices - 1 : k # i => initial_sectors'[k] = initial_sectors[k]
  BY <1>2, <1>5, Sizes DEF TypeInv, TypeOK
<1>8. initial_sectors' \in [0 .. num_slices - 1 -> 0 .. num_logical_sectors - slice_sectors]
  <2>1. s \in 0 .. num_logical_sectors - slice_sectors
    BY <1>4, <1>6, Sizes
  <2>2. initial_sectors \in [0 .. num_slices - 1 -> 0 .. num_logical_sectors - slice_sectors]
    BY DEF TypeInv, TypeOK
  <2> QED BY <1>5, <2>1, <2>2
<1>9. /\ PlacedSlices' \ {num_slices - 1} = 0 .. i
      /\ num_slices - 1 \in PlacedSlices' => i = num_slices - 2
  <2>1. CASE i = num_slices - 2
    <3>1. PlacedSlices' = 0 .. num_slices - 1
      BY <1>2, <2>1 DEF PlaceSlice, PlacedSlices
    <3>2. num_slices \in Nat /\ num_slices - 1 = i + 1 /\ i \in Nat
      BY <1>2, <2>1, Sizes
    <3>3. (0 .. i + 1) \ {i + 1} = 0 .. i
      BY <3>2
    <3> QED BY <2>1, <3>1, <3>2, <3>3
  <2>2. CASE i # num_slices - 2
    <3>1. PlacedSlices' = 0 .. i
      BY <1>2, <2>2 DEF PlaceSlice, PlacedSlices
    <3> QED BY <1>2, <2>2, <3>1, Sizes
  <2> QED BY <2>1, <2>2
<1>10. \A k \in 0 .. i : k # 0 => initial_sectors'[k] < Region * k
  BY <1>2, <1>4, <1>7, Sizes DEF TypeInv, SlicesApart, PlacedSlices
<1>11. \A a \in 0 .. i : a < i => initial_sectors[a] + slice_sectors <= s
  <2> SUFFICES ASSUME NEW a \in 0 .. i - 1 PROVE initial_sectors[a] + slice_sectors <= s
    BY <1>2
  <2>1. initial_sectors[a] \in Nat /\ a \in Nat
    BY <1>2, Sizes DEF TypeInv, TypeOK
  <2>2. a # i - 1 => initial_sectors[a] + slice_sectors <= before
    BY <1>2 DEF TypeInv, SlicesApart, PlacedSlices
  <2> QED BY <1>2, <1>3, <1>4, <2>1, <2>2, Sizes
<1>12. \A a, b \in 0 .. i : a < b => initial_sectors'[a] + slice_sectors <= initial_sectors'[b]
  BY <1>2, <1>7, <1>11, Sizes DEF TypeInv, SlicesApart, PlacedSlices
<1>13. i = num_slices - 2 =>
         \A a \in 0 .. i : initial_sectors'[a] + slice_sectors <= last_slice
  <2> SUFFICES ASSUME NEW a \in 0 .. i PROVE initial_sectors'[a] + slice_sectors <= last_slice
    OBVIOUS
  <2>1. initial_sectors'[a] <= s /\ initial_sectors'[a] \in Nat
    <3>1. initial_sectors'[a] \in Nat /\ (a = i => initial_sectors'[a] = s)
      BY <1>2, <1>7, <1>8, Sizes
    <3>2. a # i => initial_sectors'[a] + slice_sectors <= s
      BY <1>2, <1>7, <1>11, Sizes
    <3> QED BY <1>4, <3>1, <3>2, Sizes
  <2> QED BY <1>4, <1>6, <2>1, Sizes DEF last_slice
<1>14. SlicesApart'
  BY <1>2, <1>7, <1>9, <1>10, <1>12, <1>13, Sizes DEF SlicesApart, TypeInv, last_slice
<1>15. Turns' /\ i' \in 0 .. num_slices
  BY <1>2, Sizes DEF PlaceSlice, Turns
<1> QED BY <1>2, <1>8, <1>14, <1>15
        DEF TypeInv, TypeOK, Reached, PlaceSlice, result, medium

LEMMA WriteSliceType == ASSUME TypeInv, WriteSlice PROVE TypeInv'
  BY Sizes DEF TypeInv, TypeOK, Turns, Reached, SlicesApart, PlacedSlices, WriteSlice,
               result, medium

LEMMA CallFailsType == ASSUME TypeInv, CallFails PROVE TypeInv'
<1>1. i' = i /\ i \in 0 .. num_slices /\ pc' = "done" /\ pc # "place"
  BY DEF TypeInv, TypeOK, CallFails, Fail
<1>2. faults' \in 0 .. MaxFaults /\ faults' # 0
  BY CapacityAssumption DEF TypeInv, TypeOK, CallFails, Fault
<1>3. device_info' \in [num_physical_sectors : Nat, physical_size : Nat,
                        is_fake_flash : {"UNKNOWN", "YES", "NO"}]
  BY Sizes DEF TypeInv, TypeOK, CallFails, Fail
<1> QED BY <1>1, <1>2, <1>3
        DEF TypeInv, TypeOK, Turns, Reached, SlicesApart, PlacedSlices, CallFails, medium

----------------------------------------------------------------------------
(* What is read.                                                            *)

LEMMA FirstWrongIs ==
    ASSUME NEW good, NEW m \in 0 .. slice_sectors,
           \A j \in 0 .. m - 1 : good[j],
           m = slice_sectors \/ ~good[m]
    PROVE  FirstWrong(good) = m
<1> DEFINE P(k) == /\ \A j \in 0 .. k - 1 : good[j]
                   /\ k = slice_sectors \/ ~good[k]
<1>1. P(m)
  OBVIOUS
<1>2. FirstWrong(good) \in 0 .. slice_sectors /\ P(FirstWrong(good))
  BY <1>1 DEF FirstWrong
<1>3. ASSUME NEW k \in 0 .. slice_sectors, P(k) PROVE k = m
  <2>1. ~(k < m)
    BY <1>1, <1>3, Sizes
  <2>2. ~(m < k)
    BY <1>1, <1>3, Sizes
  <2> QED BY <2>1, <2>2, Sizes
<1> QED BY <1>2, <1>3

\* m sectors of the slice at s are there, and no more.
Has(m, s) == /\ m \in 0 .. slice_sectors
             /\ m > 0 => s + m <= real
             /\ m < slice_sectors => real <= s + m

\* Of a slice on the device as much is good as there is storage for.
LEMMA GoodStorage ==
    ASSUME real \in Nat, NEW s \in Nat, NEW good,
           \A j \in 0 .. slice_sectors - 1 : good[j] <=> s + j < real
    PROVE  Has(FirstWrong(good), s)
<1> DEFINE m == IF real <= s THEN 0
                ELSE IF real >= s + slice_sectors THEN slice_sectors ELSE real - s
<1>1. m \in 0 .. slice_sectors /\ Has(m, s)
  BY Sizes DEF Has
<1>2. (\A j \in 0 .. m - 1 : good[j]) /\ (m = slice_sectors \/ ~good[m])
  BY Sizes
<1>3. FirstWrong(good) = m
  BY <1>1, <1>2, FirstWrongIs
<1> QED BY <1>1, <1>3

\* No more is found equal than is, unless blindly.
LEMMA ComparedFacts ==
    ASSUME TypeOK, NEW m \in 0 .. slice_sectors, NEW n \in 0 .. slice_sectors, Compared(m, n)
    PROVE  /\ n <= m \/ (i = 0 /\ blind' = TRUE)
           /\ blind = TRUE => blind' = TRUE
           /\ faults' = 0 => faults = 0 /\ n = m /\ in_place' = in_place
           /\ faults' \in 0 .. MaxFaults /\ in_place' \in BOOLEAN /\ blind' \in BOOLEAN
<1>1. CASE n = m /\ UNCHANGED <<faults, in_place, blind>>
  BY <1>1, Sizes DEF TypeOK
<1>2. CASE Fault /\ in_place' = FALSE
  <2>1. faults' \in 0 .. MaxFaults /\ faults' # 0
    BY <1>2, CapacityAssumption DEF TypeOK, Fault
  <2>2. CASE UNCHANGED <<faults, in_place, blind>>
    BY <2>1, <2>2, <1>2, CapacityAssumption DEF Fault, TypeOK
  <2>3. CASE \E k \in 0 .. slice_sectors - 1 :
               n = (IF m < k THEN m ELSE k) /\ UNCHANGED blind
    <3>1. PICK k \in 0 .. slice_sectors - 1 : n = (IF m < k THEN m ELSE k) /\ UNCHANGED blind
      BY <2>3
    <3>2. n <= m
      BY <3>1, Sizes
    <3> QED BY <1>2, <2>1, <3>1, <3>2 DEF TypeOK
  <2>4. CASE i = 0 /\ blind' = TRUE
    BY <1>2, <2>1, <2>4 DEF TypeOK
  <2> QED BY <1>2, <2>2, <2>3, <2>4 DEF Compared, Fault
<1> QED BY <1>1, <1>2 DEF Compared

\* An initial slice is found in the cache, or has what is stored of it: no other
\* slice has overwritten it.
LEMMA ReadFacts ==
    ASSUME TypeInv, ReadSlice
    PROVE  \E m, n \in 0 .. slice_sectors :
              /\ Compared(m, n) /\ JudgeInitial(n)
              /\ i < cache => m = slice_sectors
              /\ i >= cache => Has(m, initial_sectors[i])
<1> DEFINE at == initial_sectors[i]
           good == [j \in 0 .. slice_sectors - 1 |-> Kept(i, at + j)]
<1>1. i \in 0 .. num_slices - 1 /\ pc = "read" /\ at \in Nat
  BY Sizes DEF TypeInv, TypeOK, Turns, ReadSlice
<1>2. ASSUME NEW j \in 0 .. slice_sectors - 1
      PROVE  good[j] <=> at + j < real \/ i < cache
  <2>1. ASSUME NEW l \in 0 .. i - 1
        PROVE  at + j \notin initial_sectors[l] .. initial_sectors[l] + slice_sectors - 1
    <3>1. initial_sectors[l] + slice_sectors <= at /\ initial_sectors[l] \in Nat
      BY <1>1, Sizes DEF TypeInv, TypeOK, SlicesApart, PlacedSlices
    <3> DEFINE l_at == initial_sectors[l]
    <3>2. slice_sectors \in Nat /\ j \in Nat /\ l_at \in Nat /\ l_at + slice_sectors <= at
      BY <3>1, Sizes
    <3> HIDE DEF l_at, at
    <3>3. at + j > l_at + slice_sectors - 1
      BY <1>1, <3>2
    <3>4. at + j \notin l_at .. l_at + slice_sectors - 1
      BY <1>1, <3>2, <3>3
    <3> QED BY <3>4 DEF l_at
  <2> QED BY <2>1 DEF Kept
<1>3. i < cache => FirstWrong(good) = slice_sectors
  <2>1. i < cache => \A j \in 0 .. slice_sectors - 1 : good[j]
    BY <1>2
  <2> QED BY <2>1, FirstWrongIs, Sizes
<1>4. i >= cache => Has(FirstWrong(good), at)
  <2>1. i >= cache => \A j \in 0 .. slice_sectors - 1 : good[j] <=> at + j < real
    BY <1>1, <1>2 DEF TypeInv, TypeOK
  <2>2. real \in Nat
    BY DEF TypeInv, TypeOK
  <2> QED BY <1>1, <2>1, <2>2, GoodStorage
<1>5. FirstWrong(good) \in 0 .. slice_sectors
  <2>1. i < cache \/ i >= cache
    BY <1>1, Sizes DEF TypeInv, TypeOK
  <2>2. slice_sectors \in 0 .. slice_sectors
    BY Sizes
  <2> QED BY <1>3, <1>4, <2>1, <2>2 DEF Has
<1>6. PICK n \in 0 .. slice_sectors : Compared(FirstWrong(good), n) /\ JudgeInitial(n)
  BY DEF ReadSlice
<1> QED BY <1>3, <1>4, <1>5, <1>6

\* A slice of an area: nothing of what is read back is in the cache.
LEMMA VerifyFacts ==
    ASSUME TypeInv, VerifySlice
    PROVE  \E m, n \in 0 .. slice_sectors :
              /\ Compared(m, n) /\ JudgeArea(n)
              /\ ~in_place => m = 0
              /\ in_place => Has(m, Place(cur) + i * slice_sectors)
<1> DEFINE at == Offset(cur) \div sector_size + i * slice_sectors
           good == [j \in 0 .. slice_sectors - 1 |->
                       in_place /\ (at + j < real \/ i >= num_slices - cache)]
<1>1. i \in 0 .. Verified - 1 /\ cur \in Int
  BY DEF TypeInv, TypeOK, Turns, VerifySlice
<1>2. at = Place(cur) + i * slice_sectors /\ Place(cur) \in Nat /\ i * slice_sectors \in Nat
  BY <1>1, OffsetOfPlace, PlaceIsNat, Sizes DEF Offset
<1> HIDE DEF at
<1>3. ~(i >= num_slices - cache)
  BY <1>1, Sizes DEF TypeInv, TypeOK
<1>4. \A j \in 0 .. slice_sectors - 1 : good[j] <=> in_place /\ at + j < real
  BY <1>3
<1>5. in_place => Has(FirstWrong(good), at)
  <2>1. at \in Nat /\ real \in Nat
    BY <1>2 DEF TypeInv, TypeOK
  <2> QED BY <1>4, <2>1, GoodStorage
<1>6. ~in_place => FirstWrong(good) = 0
  <2>1. 0 \in 0 .. slice_sectors /\ 0 \in 0 .. slice_sectors - 1 /\ 0 .. 0 - 1 = {}
    BY Sizes
  <2> QED BY <1>4, <2>1, FirstWrongIs
<1>7. FirstWrong(good) \in 0 .. slice_sectors
  BY <1>5, <1>6, Sizes DEF Has
<1>8. PICK n \in 0 .. slice_sectors : Compared(FirstWrong(good), n) /\ JudgeArea(n)
  BY DEF VerifySlice, at
<1> QED BY <1>2, <1>5, <1>6, <1>7, <1>8

----------------------------------------------------------------------------
(* Types, continued.                                                        *)

Devices == [num_physical_sectors : Nat, physical_size : Nat,
            is_fake_flash : {"UNKNOWN", "YES", "NO"}]
Tests   == [test_performed : BOOLEAN, num_sectors : Nat]

LEMMA SucceedType ==
    ASSUME NEW num \in Nat, Succeed(num)
    PROVE  /\ pc' = "done" /\ capacity_test_info' \in Tests /\ device_info' \in Devices
           /\ device_info'.num_physical_sectors = num
<1>1. num * sector_size \in Nat
  BY Sizes
<1> QED BY <1>1 DEF Succeed, Found, Devices, Tests

LEMMA FailType ==
    ASSUME TypeOK, device_info.is_fake_flash = "UNKNOWN", Fail
    PROVE  /\ pc' = "done" /\ device_info' \in Devices
           /\ device_info'.is_fake_flash = "UNKNOWN"
  BY Sizes DEF TypeOK, Fail, Devices

LEMMA WordContains ==
    /\ \A s \in Int : s % Word \in 0 .. Word - 1
    /\ \A s \in 0 .. num_logical_sectors : s \in 0 .. Word - 1
  BY Sizes, Quotient

LEMMA Lands ==
    ASSUME TypeInv, pc' # "place", pc # "place", UNCHANGED <<initial_sectors, medium>>
    PROVE  SlicesApart' /\ initial_sectors' \in [0 .. num_slices - 1 ->
                                                 0 .. num_logical_sectors - slice_sectors]
           /\ real' \in 0 .. num_logical_sectors /\ cache' \in 0 .. num_slices
           /\ cache' <= Verified
  BY DEF TypeInv, TypeOK, SlicesApart, PlacedSlices, medium

LEMMA JudgeInitialType ==
    ASSUME TypeInv, pc = "read", NEW n \in 0 .. slice_sectors, JudgeInitial(n)
    PROVE  /\ \/ /\ pc' = "read" /\ i' \in 0 .. num_slices - 1
                 /\ device_info' = device_info
              \/ pc' = "search" /\ device_info' = device_info
              \/ pc' = "done"
           /\ i' \in 0 .. num_slices
           /\ low' \in 0 .. Word - 1 /\ high' \in 0 .. Word - 1
           /\ capacity_test_info' \in Tests /\ device_info' \in Devices
<1>1. /\ i \in 0 .. num_slices - 1
      /\ initial_sectors[i] \in 0 .. num_logical_sectors - slice_sectors
      /\ low \in 0 .. Word - 1 /\ high \in 0 .. Word - 1
      /\ capacity_test_info \in Tests /\ device_info \in Devices
      /\ TypeOK /\ device_info.is_fake_flash = "UNKNOWN"
  BY Sizes DEF TypeInv, TypeOK, Turns, Tests, Devices
<1>2. /\ initial_sectors[i] + n \in 0 .. Word - 1
      /\ initial_sectors[i] + n \in Nat /\ initial_sectors[i] \in 0 .. Word - 1
  BY <1>1, Sizes
<1>3. CASE /\ n = slice_sectors /\ low' = initial_sectors[i] + slice_sectors
           /\ i' = i + 1 /\ UNCHANGED high
           /\ IF i' = num_slices THEN Succeed(num_logical_sectors) ELSE UNCHANGED <<pc, result>>
  <2>1. CASE i' = num_slices
    BY <1>1, <1>2, <1>3, <2>1, SucceedType, Sizes
  <2>2. CASE i' # num_slices
    BY <1>1, <1>2, <1>3, <2>2, Sizes DEF result
  <2> QED BY <2>1, <2>2
<1>4. CASE Fail /\ UNCHANGED <<i, low, high, capacity_test_info>>
  BY <1>1, <1>4, FailType, Sizes
<1>5. CASE /\ IF i = 0 THEN Found(n) /\ Fail ELSE Succeed(initial_sectors[i] + n)
           /\ low' = initial_sectors[i] + n /\ UNCHANGED <<i, high>>
  <2>1. i' \in 0 .. num_slices
    BY <1>1, <1>5, Sizes
  <2>2. CASE i = 0
    <3>1. Found(n) /\ Fail
      BY <1>5, <2>2
    <3>2. capacity_test_info' \in Tests
      BY <3>1, Sizes DEF Found, Tests
    <3> QED BY <1>1, <1>2, <1>5, <2>1, <3>1, <3>2, FailType
  <2>3. CASE i # 0
    BY <1>1, <1>2, <1>5, <2>1, <2>3, SucceedType
  <2> QED BY <2>2, <2>3
<1>6. CASE high' = initial_sectors[i] /\ i' = num_slices /\ Search /\ UNCHANGED low
  BY <1>1, <1>2, <1>6, Sizes DEF Search, result
<1> QED BY <1>3, <1>4, <1>5, <1>6 DEF JudgeInitial

LEMMA ReadSliceType == ASSUME TypeInv, ReadSlice PROVE TypeInv'
<1>1. PICK m, n \in 0 .. slice_sectors : Compared(m, n) /\ JudgeInitial(n)
  BY ReadFacts
<1>2. pc = "read" /\ UNCHANGED <<initial_sectors, cur, keep_searching, medium>>
  BY DEF ReadSlice
<1>3. /\ faults' \in 0 .. MaxFaults /\ in_place' \in BOOLEAN /\ blind' \in BOOLEAN
      /\ faults' = 0 => in_place' = TRUE
  BY <1>1, ComparedFacts DEF TypeInv, Reached
<1>4. pc' \in {"read", "search", "done"}
  BY <1>1, <1>2, JudgeInitialType
<1> QED BY <1>1, <1>2, <1>3, <1>4, JudgeInitialType, Lands
        DEF TypeInv, TypeOK, Turns, Reached, Tests, Devices

LEMMA ChosenArea ==
    ASSUME TypeInv, ChooseArea
    PROVE  cur' \in 0 .. Word - 1 /\ keep_searching' \in BOOLEAN
<1>1. low \in 0 .. Word - 1 /\ (high - low) % Word \in Int
  <2>1. low \in 0 .. Word - 1 /\ high - low \in Int
    BY Sizes DEF TypeInv, TypeOK
  <2> QED BY <2>1, WordContains
<1>2. ((high - low) % Word) \div 2 \in Int
  BY <1>1
<1>3. ((((high - low) % Word) \div 2) + low) % Word \in 0 .. Word - 1
  BY <1>1, <1>2, WordContains
<1> QED BY <1>1, <1>3 DEF ChooseArea, area, narrow

LEMMA WriteAreaType == ASSUME TypeInv, WriteArea PROVE TypeInv'
<1>1. cur' \in 0 .. Word - 1 /\ keep_searching' \in BOOLEAN
  BY ChosenArea DEF WriteArea
<1>2. Place(cur') + num_slices * slice_sectors <= num_logical_sectors
  <2>1. Offset(cur') \div sector_size = Place(cur')
    BY <1>1, OffsetOfPlace DEF Offset
  <2>2. Offset(cur') \div sector_size + num_slices * slice_sectors <= num_logical_sectors
    BY DEF WriteArea, Writable
  <2> QED BY <2>1, <2>2
<1>3. pc = "search" /\ pc' = "verify" /\ i' = 0
      /\ UNCHANGED <<initial_sectors, low, high, result, medium, faults, blind>>
      /\ in_place' = TRUE
  BY DEF WriteArea
<1>4. 0 \in 0 .. Verified - 1 /\ 0 \in 0 .. num_slices
  BY Sizes
<1> QED BY <1>1, <1>2, <1>3, <1>4, Lands DEF TypeInv, TypeOK, Turns, Reached, result

LEMMA WriteAreaFailsType == ASSUME TypeInv, WriteAreaFails PROVE TypeInv'
<1>1. cur' \in 0 .. Word - 1 /\ keep_searching' \in BOOLEAN
  BY ChosenArea DEF WriteAreaFails
<1>2. faults' \in 0 .. MaxFaults /\ (faults' = 0 => faults = 0)
  <2>1. Fault \/ UNCHANGED faults
    BY DEF WriteAreaFails
  <2>2. faults \in 0 .. MaxFaults /\ MaxFaults \in Nat
    BY CapacityAssumption DEF TypeInv, TypeOK
  <2> QED BY <2>1, <2>2 DEF Fault
<1>3. pc' = "done" /\ device_info' \in Devices
  BY FailType DEF WriteAreaFails, TypeInv
<1> QED BY <1>1, <1>2, <1>3, Lands
        DEF TypeInv, TypeOK, Turns, Reached, WriteAreaFails, Devices

LEMMA JudgeAreaType ==
    ASSUME TypeInv, pc = "verify", NEW n \in 0 .. slice_sectors, JudgeArea(n)
    PROVE  /\ \/ /\ pc' = "verify" /\ i' \in 0 .. Verified - 1
                 /\ device_info' = device_info
              \/ pc' = "search" /\ device_info' = device_info
              \/ pc' = "done"
           /\ i' \in 0 .. num_slices
           /\ low' \in 0 .. Word - 1 /\ high' \in 0 .. Word - 1
           /\ capacity_test_info' \in Tests /\ device_info' \in Devices
<1>1. /\ i \in 0 .. Verified - 1 /\ cur \in Int
      /\ low \in 0 .. Word - 1 /\ high \in 0 .. Word - 1
      /\ capacity_test_info \in Tests /\ device_info \in Devices
  BY Sizes DEF TypeInv, TypeOK, Turns, Tests, Devices
<1>2. /\ (cur + Verified * slice_sectors) % Word \in 0 .. Word - 1
      /\ (cur + i * slice_sectors) % Word \in 0 .. Word - 1
      /\ Verified \in 0 .. num_slices
  <2>1. cur + Verified * slice_sectors \in Int /\ cur + i * slice_sectors \in Int
    BY <1>1, Sizes
  <2>2. (cur + Verified * slice_sectors) % Word \in 0 .. Word - 1
    BY <2>1, WordContains
  <2>3. (cur + i * slice_sectors) % Word \in 0 .. Word - 1
    BY <2>1, WordContains
  <2> QED BY <2>2, <2>3, Sizes
<1>3. ASSUME NEW l \in 0 .. Word - 1, NextArea(l)
      PROVE  /\ (pc' = "search" /\ device_info' = device_info) \/ pc' = "done"
             /\ capacity_test_info' \in Tests /\ device_info' \in Devices
  BY <1>1, <1>3, SucceedType DEF NextArea, Search, result
<1>4. CASE /\ low' = (cur + read_back * slice_sectors) % Word
           /\ i' = i + 1 /\ UNCHANGED high
           /\ IF i' = read_back THEN NextArea(low') ELSE UNCHANGED <<pc, result>>
  <2>1. CASE i' = read_back
    BY <1>1, <1>2, <1>3, <1>4, <2>1, Sizes DEF read_back
  <2>2. CASE i' # read_back
    BY <1>1, <1>2, <1>4, <2>2, Sizes DEF read_back, result
  <2> QED BY <2>1, <2>2
<1>5. CASE /\ Succeed((((cur + i * slice_sectors + n) * sector_size) % Word) \div sector_size)
           /\ UNCHANGED <<i, low, high>>
  <2>1. cur + i * slice_sectors + n \in Int
    BY <1>1, Sizes
  <2>2. (((cur + i * slice_sectors + n) * sector_size) % Word) \div sector_size \in Nat
    BY <2>1, OffsetOfPlace, PlaceIsNat
  <2> QED BY <1>1, <1>5, <2>2, SucceedType, Sizes
<1>6. CASE high' = high_lowered /\ i' = read_back /\ NextArea(low) /\ UNCHANGED low
  BY <1>1, <1>2, <1>3, <1>6 DEF high_lowered, read_back
<1> QED BY <1>4, <1>5, <1>6 DEF JudgeArea

LEMMA VerifySliceType == ASSUME TypeInv, VerifySlice PROVE TypeInv'
<1>1. PICK m, n \in 0 .. slice_sectors : Compared(m, n) /\ JudgeArea(n)
  BY VerifyFacts
<1>2. pc = "verify" /\ UNCHANGED <<initial_sectors, cur, keep_searching, medium>>
  BY DEF VerifySlice
<1>3. /\ faults' \in 0 .. MaxFaults /\ in_place' \in BOOLEAN /\ blind' \in BOOLEAN
      /\ faults' = 0 => in_place' = TRUE
  BY <1>1, ComparedFacts DEF TypeInv, Reached
<1>4. pc' \in {"verify", "search", "done"}
  BY <1>1, <1>2, JudgeAreaType
<1> QED BY <1>1, <1>2, <1>3, <1>4, JudgeAreaType, Lands
        DEF TypeInv, TypeOK, Turns, Reached, Tests, Devices

LEMMA NextType == TypeInv /\ [Next]_vars => TypeInv'
<1> SUFFICES ASSUME TypeInv, [Next]_vars PROVE TypeInv'
  OBVIOUS
<1>1. CASE UNCHANGED vars
  BY <1>1 DEF vars, result, medium, TypeInv, TypeOK, Turns, Reached, SlicesApart, PlacedSlices
<1> QED BY <1>1, PlaceSliceType, WriteSliceType, ReadSliceType, CallFailsType, WriteAreaType,
           WriteAreaFailsType, VerifySliceType DEF Next

LEMMA TypeInvAlways == Spec => []TypeInv
  BY InitType, NextType, PTL DEF Spec

(* The variables keep their types; in particular no slice reaches beyond    *)
(* the device, wherever it is drawn.                                        *)
THEOREM CapacityTypeCorrect == Spec => []TypeOK
<1>1. TypeInv => TypeOK
  BY DEF TypeInv
<1> QED BY <1>1, TypeInvAlways, PTL

----------------------------------------------------------------------------
(* A genuine device.                                                        *)

GenuineInv ==
    real = num_logical_sectors /\ faults = 0 => pc \notin {"search", "verify"} /\ GenuineFound

LEMMA GenuineRead ==
    ASSUME TypeInv, GenuineInv, ReadSlice PROVE GenuineInv'
<1> SUFFICES ASSUME real' = num_logical_sectors, faults' = 0
             PROVE  pc' \notin {"search", "verify"} /\ GenuineFound'
  BY DEF GenuineInv
<1>1. PICK m, n \in 0 .. slice_sectors :
              /\ Compared(m, n) /\ JudgeInitial(n)
              /\ i < cache => m = slice_sectors
              /\ i >= cache => Has(m, initial_sectors[i])
  BY ReadFacts
<1>2. /\ pc = "read" /\ real = num_logical_sectors /\ TypeOK
      /\ i \in 0 .. num_slices - 1 /\ cache \in Nat
      /\ initial_sectors[i] \in 0 .. num_logical_sectors - slice_sectors
  <2>1. pc = "read" /\ real' = real
    BY DEF ReadSlice, medium
  <2>2. num_slices \in Nat
    BY Sizes
  <2> QED BY <2>1, <2>2 DEF TypeInv, TypeOK, Turns
<1>3. n = m
  BY <1>1, <1>2, ComparedFacts
<1>4. n = slice_sectors
  <2>1. CASE i < cache
    BY <1>1, <1>3, <2>1
  <2>2. CASE i >= cache
    BY <1>1, <1>2, <1>3, <2>2, Sizes DEF Has
  <2> QED BY <1>2, <2>1, <2>2, Sizes
<1>5. IF i' = num_slices THEN Succeed(num_logical_sectors) ELSE UNCHANGED <<pc, result>>
  BY <1>1, <1>4, Sizes DEF JudgeInitial
<1>6. CASE i' = num_slices
  BY <1>2, <1>5, <1>6 DEF Succeed, GenuineFound
<1>7. CASE i' # num_slices
  BY <1>2, <1>5, <1>7 DEF GenuineFound
<1> QED BY <1>6, <1>7

(* A device that is what it says, and does not fail, is found to be so,     *)
(* wherever the slices are drawn and however much of them is cached.        *)
THEOREM GenuineAccepted == Spec => []GenuineFound
<1>1. Init => GenuineInv
  BY DEF Init, GenuineInv, GenuineFound
<1>2. ASSUME TypeInv, GenuineInv, [Next]_vars PROVE GenuineInv'
  <2>1. CASE CallFails \/ WriteAreaFails
    <3>1. faults' = 0 => WriteAreaFails /\ faults = 0
      BY <1>2, <2>1, CapacityAssumption
         DEF CallFails, WriteAreaFails, Fault, TypeInv, TypeOK
    <3>2. WriteAreaFails => pc = "search" /\ real' = real
      BY DEF WriteAreaFails, medium
    <3> QED BY <1>2, <3>1, <3>2 DEF GenuineInv
  <2>2. CASE PlaceSlice \/ WriteSlice
    BY <1>2, <2>2 DEF PlaceSlice, WriteSlice, medium, GenuineInv, GenuineFound
  <2>3. CASE WriteArea \/ VerifySlice
    <3>1. pc \in {"search", "verify"} /\ real' = real
      BY <2>3 DEF WriteArea, VerifySlice, medium
    <3>2. faults' = 0 => faults = 0
      <4>1. CASE WriteArea
        BY <4>1 DEF WriteArea
      <4>2. CASE VerifySlice
        BY <1>2, <4>2, VerifyFacts, ComparedFacts DEF TypeInv
      <4> QED BY <2>3, <4>1, <4>2
    <3> QED BY <1>2, <3>1, <3>2 DEF GenuineInv
  <2>4. CASE UNCHANGED vars
    BY <1>2, <2>4 DEF vars, result, medium, GenuineInv, GenuineFound
  <2> QED BY <1>2, <2>1, <2>2, <2>3, <2>4, GenuineRead DEF Next
<1>3. GenuineInv => GenuineFound
  BY DEF GenuineInv, GenuineFound
<1> QED BY <1>1, <1>2, <1>3, TypeInvAlways, PTL DEF Spec

----------------------------------------------------------------------------
(* The limits.  When they have crossed, their difference wraps around, and  *)
(* it falls short of a multiple of WordSectors by little.  Each pass halves *)
(* it; half of an even multiple is a multiple, and half of an odd one is    *)
(* not on the device.  So there is no last pass, and in a last pass the     *)
(* lower limit has not wrapped around.                                      *)

ReadBack == Verified * slice_sectors
AreaSize == num_slices * slice_sectors

InOrder(l, h) == l \in Nat /\ h \in Nat /\ l <= h /\ h <= num_logical_sectors

Short(gap, q, d, p) ==
    /\ q \in 1 .. sector_size /\ d \in 0 .. 2 * ReadBack /\ d <= 2 * p
    /\ gap = q * WordSectors - d

HasCrossed(l, h) ==
    /\ Place(l) <= num_logical_sectors
    /\ \E q, d \in Nat : Short((h - l) % Word, q, d, Place(l))

Limits(l, h) == InOrder(l, h) \/ HasCrossed(l, h)

LimitsInv ==
    /\ pc = "read" => low <= initial_sectors[i]
    /\ pc = "search" => Limits(low, high)
    /\ pc = "verify" =>
         IF keep_searching
         THEN /\ i = 0 => Limits(low, cur)
              /\ i > 0 => low = (cur + ReadBack) % Word
              /\ Limits((cur + ReadBack) % Word, high)
         ELSE low <= num_logical_sectors /\ cur <= num_logical_sectors

LEMMA Widths ==
    /\ ReadBack \in Nat \ {0} /\ 2 * ReadBack <= AreaSize
    /\ AreaSize \in Nat /\ AreaSize <= num_logical_sectors
    /\ num_logical_sectors \in Nat /\ WordSectors \in Nat
    /\ 2 * num_logical_sectors < WordSectors
<1>1. ReadBack \in Nat \ {0} /\ 2 * ReadBack <= AreaSize /\ AreaSize \in Nat
  BY Sizes DEF ReadBack, AreaSize
<1>2. AreaSize <= num_logical_sectors
  <2>1. Region * (num_slices - 1) >= (2 * slice_sectors) * (num_slices - 1)
    BY Sizes
  <2>2. (2 * slice_sectors) * (num_slices - 1) >= AreaSize
    BY Sizes DEF AreaSize
  <2>3. Region * (num_slices - 1) <= num_logical_sectors
    <3> DEFINE b == num_slices - 1
    <3>1. b \in Nat \ {0} /\ num_logical_sectors \in Int /\ Region = num_logical_sectors \div b
      BY Sizes DEF Region
    <3> HIDE DEF b
    <3>2. b * Region <= num_logical_sectors /\ Region * b = b * Region
      BY <3>1, Quotient, Sizes
    <3> QED BY <3>2 DEF b
  <2>4. Region * (num_slices - 1) \in Int /\ (2 * slice_sectors) * (num_slices - 1) \in Int
    BY Sizes
  <2> QED BY <2>1, <2>2, <2>3, <2>4, <1>1, Sizes
<1>3. 2 * num_logical_sectors < WordSectors
  <2>1. 2 * (num_logical_sectors * sector_size) < Word
    <3>1. num_logical_sectors * sector_size \in Nat
      BY Sizes
    <3> QED BY <3>1, CapacityAssumption
  <2>2. 2 * num_logical_sectors >= WordSectors
          => sector_size * (2 * num_logical_sectors) >= sector_size * WordSectors
    BY WordIsWhole, Sizes
  <2>3. /\ sector_size * (2 * num_logical_sectors) = 2 * (num_logical_sectors * sector_size)
        /\ sector_size * WordSectors = Word
    BY WordIsWhole, Sizes
  <2> QED BY <2>1, <2>2, <2>3, WordIsWhole, Sizes
<1> QED BY <1>1, <1>2, <1>3, Sizes, WordIsWhole

LEMMA PlaceNotAbove == ASSUME NEW s \in Nat PROVE Place(s) \in 0 .. s
<1>1. WordSectors \in Nat \ {0}
  BY WordIsWhole
<1>2. s = WordSectors * (s \div WordSectors) + Place(s) /\ s \div WordSectors \in Int
  BY <1>1, Quotient DEF Place
<1>3. Place(s) \in 0 .. WordSectors - 1
  BY PlaceIsNat
<1>4. s \div WordSectors < 0 => WordSectors * (s \div WordSectors) <= 0 - WordSectors
  BY <1>1, <1>2
<1>5. s \div WordSectors >= 0 => WordSectors * (s \div WordSectors) >= 0
  BY <1>1, <1>2
<1>6. WordSectors * (s \div WordSectors) \in Int
  BY <1>1, <1>2
<1> QED BY <1>1, <1>2, <1>3, <1>4, <1>5, <1>6

LEMMA InWord == ASSUME NEW r \in 0 .. Word - 1 PROVE r % Word = r
<1>1. Word * 0 + r = r /\ 0 \in Int
  BY Sizes
<1> QED BY <1>1, Sizes, Remainder

LEMMA WordsApart ==
    ASSUME NEW a \in Int, NEW b \in Int, NEW c \in Int, a = b + Word * c
    PROVE  a % Word = b % Word
<1>1. b % Word \in 0 .. Word - 1 /\ b = Word * (b \div Word) + (b % Word) /\ b \div Word \in Int
  BY Sizes, Quotient
<1>2. a = Word * ((b \div Word) + c) + (b % Word) /\ (b \div Word) + c \in Int
  BY <1>1, Sizes
<1> QED BY <1>1, <1>2, Sizes, Remainder

\* A gap from a to b, and steps into it.
LEMMA GapBehind ==
    ASSUME NEW a \in Int, NEW b \in Int, NEW s \in Int, NEW g \in 0 .. Word - 1,
           ((b - a) % Word) - s = g
    PROVE  (b - ((a + s) % Word)) % Word = g
<1>1. a + s \in Int /\ b - a \in Int /\ Word \in Nat \ {0}
  BY Sizes
<1>2. PICK p \in Int : a + s = Word * p + ((a + s) % Word)
  BY <1>1, Quotient
<1>3. PICK q \in Int : b - a = Word * q + ((b - a) % Word)
  BY <1>1, Quotient
<1>4. (a + s) % Word \in Int /\ (b - a) % Word \in Int
  BY <1>1, Quotient
<1>5. b - ((a + s) % Word) = g + Word * (q + p) /\ q + p \in Int
  BY <1>1, <1>2, <1>3, <1>4
<1>6. (b - ((a + s) % Word)) % Word = g % Word
  BY <1>4, <1>5, WordsApart
<1> QED BY <1>6, InWord

LEMMA GapUpTo ==
    ASSUME NEW a \in Int, NEW s \in 0 .. Word - 1
    PROVE  (((a + s) % Word) - a) % Word = s
<1>1. a + s \in Int /\ Word \in Nat \ {0}
  BY Sizes
<1>2. PICK p \in Int : a + s = Word * p + ((a + s) % Word)
  BY <1>1, Quotient
<1>3. (a + s) % Word \in Int
  BY <1>1, Quotient
<1> DEFINE m == (a + s) % Word
<1> HIDE DEF m
<1>4. m - a = s + Word * (0 - p) /\ 0 - p \in Int
  <2>1. Word * (0 - p) = 0 - Word * p /\ Word * p \in Int
    BY <1>1
  <2>2. a + s = Word * p + m /\ m \in Int
    BY <1>2, <1>3 DEF m
  <2> DEFINE t == Word * p
  <2>3. t \in Int /\ Word * (0 - p) = 0 - t /\ a + s = t + m
    BY <2>1, <2>2
  <2> HIDE DEF t
  <2> QED BY <2>2, <2>3
<1>5. (m - a) % Word = s % Word
  BY <1>3, <1>4, WordsApart DEF m
<1> QED BY <1>5, InWord DEF m

LEMMA PlaceOfWhole ==
    ASSUME NEW k \in Int, NEW s \in Int
    PROVE  Place(k * WordSectors + s) = Place(s)
<1>1. WordSectors \in Nat \ {0}
  BY WordIsWhole
<1>2. s = WordSectors * (s \div WordSectors) + Place(s) /\ s \div WordSectors \in Int
  BY <1>1, Quotient DEF Place
<1>3. Place(s) \in 0 .. WordSectors - 1
  BY PlaceIsNat
<1>4. /\ k * WordSectors + s = WordSectors * (k + (s \div WordSectors)) + Place(s)
      /\ k + (s \div WordSectors) \in Int
  BY <1>1, <1>2, <1>3
<1>5. (WordSectors * (k + (s \div WordSectors)) + Place(s)) % WordSectors = Place(s)
  BY <1>1, <1>3, <1>4, Remainder
<1> QED BY <1>4, <1>5 DEF Place

\* Half of an odd multiple: the area would not be on the device.
LEMMA OddGap ==
    ASSUME NEW l \in Int, NEW k \in Nat, NEW d \in 0 .. 2 * ReadBack,
           d <= 2 * Place(l), Place(l) <= num_logical_sectors
    PROVE  Place((((2 * k + 1) * WordSectors - d) \div 2) + l) >= num_logical_sectors
<1> DEFINE w == WordSectors
           kw == k * WordSectors
           x == (w - d) \div 2
<1>1. w \in Nat /\ kw \in Int /\ (2 * k + 1) * WordSectors = 2 * kw + w
  BY WordIsWhole
<1>2. Place(l) \in Nat /\ d \in Nat /\ ReadBack \in Nat
  BY PlaceIsNat, Widths
<1>3. d <= w /\ 2 * num_logical_sectors < w /\ num_logical_sectors \in Nat
  BY <1>1, <1>2, Widths
<1> HIDE DEF kw
<1>4. /\ x \in Nat /\ 2 * x <= w /\ 2 * x >= w - d - 1
      /\ (((2 * k + 1) * WordSectors) - d) \div 2 = kw + x
  BY <1>1, <1>2, <1>3
<1> HIDE DEF w, x
<1>5. Place(l) + x \in 0 .. w - 1 /\ Place(l) + x >= num_logical_sectors
  BY <1>1, <1>2, <1>3, <1>4
<1>6. Place(l + x) = Place(l) + x
  BY <1>4, <1>5, PlaceBehind DEF w
<1>7. Place(kw + (l + x)) = Place(l + x)
  BY <1>4, PlaceOfWhole DEF kw
<1>8. (((2 * k + 1) * WordSectors - d) \div 2) + l = kw + (l + x)
  BY <1>1, <1>4
<1> QED BY <1>5, <1>6, <1>7, <1>8

\* An area between limits that have crossed: they stay so, and it is no last pass.
LEMMA AreaBetweenCrossed ==
    ASSUME NEW l \in 0 .. Word - 1, NEW h \in 0 .. Word - 1, HasCrossed(l, h),
           NEW c, c = ((((h - l) % Word) \div 2) + l) % Word,
           Place(c) + AreaSize <= num_logical_sectors
    PROVE  HasCrossed(l, c) /\ HasCrossed((c + ReadBack) % Word, h)
<1> DEFINE gap == (h - l) % Word
           half == gap \div 2
<1>1. PICK q, d \in Nat : Short(gap, q, d, Place(l))
  BY DEF HasCrossed
<1>2. /\ Place(l) \in Nat /\ Place(l) <= num_logical_sectors
      /\ h - l \in Int /\ gap \in 0 .. Word - 1 /\ half \in 0 .. Word - 1
      /\ Place(c) = Place(half + l) /\ c \in 0 .. Word - 1
  <2>1. h - l \in Int /\ Place(l) \in Nat
    BY PlaceIsNat, Sizes
  <2>2. gap \in 0 .. Word - 1
    BY <2>1, WordContains
  <2>3. half \in 0 .. Word - 1
    BY <2>2, Sizes
  <2>4. half + l \in Int /\ c = (half + l) % Word
    BY <2>3, Sizes
  <2>5. c \in 0 .. Word - 1 /\ Place(c) = Place(half + l)
    BY <2>4, WordContains, PlaceOfWord
  <2> QED BY <2>1, <2>2, <2>3, <2>5 DEF HasCrossed
<1>3. PICK k \in Nat : q = 2 * k \/ q = 2 * k + 1
  <2>1. q \div 2 \in Nat /\ (q = 2 * (q \div 2) \/ q = 2 * (q \div 2) + 1)
    BY <1>1
  <2> QED BY <2>1
<1>4. q # 2 * k + 1
  <2>1. q = 2 * k + 1 => Place(c) >= num_logical_sectors
    BY <1>1, <1>2, OddGap DEF Short
  <2> QED BY <1>2, <2>1, PlaceIsNat, Sizes, Widths
<1> DEFINE kw == k * WordSectors
           e  == d - (d \div 2)
           f  == (d \div 2) + ReadBack
<1>5. /\ kw \in Nat /\ gap = 2 * kw - d /\ k \in 1 .. sector_size
      /\ d \in 0 .. 2 * ReadBack /\ d <= 2 * Place(l) /\ ReadBack \in Nat
  BY <1>1, <1>3, <1>4, WordIsWhole, Widths, Sizes DEF Short
<1>6. kw >= WordSectors /\ WordSectors \in Nat
  BY <1>5, WordIsWhole
<1> HIDE DEF kw, gap
<1>7. /\ half = kw - e /\ e \in 0 .. 2 * ReadBack /\ e <= 2 * Place(l)
      /\ f \in 0 .. 2 * ReadBack
  BY <1>2, <1>5
<1>8. (c - l) % Word = half
  BY <1>2, GapUpTo DEF gap
<1>9. HasCrossed(l, c)
  <2>1. Short((c - l) % Word, k, e, Place(l))
    BY <1>5, <1>7, <1>8 DEF Short, kw
  <2> QED BY <1>2, <1>5, <1>7, <2>1 DEF HasCrossed
<1>10. c + ReadBack \in Int /\ Place((c + ReadBack) % Word) = Place(c) + ReadBack
       /\ Place(c) \in Nat
  <2>1. Place(c) \in Nat /\ c + ReadBack \in Int
    BY <1>2, <1>5, PlaceIsNat
  <2>2. Place(c) + ReadBack \in 0 .. WordSectors - 1
    BY <2>1, <1>5, Widths
  <2> QED BY <1>2, <1>5, <2>1, <2>2, PlaceBehind, PlaceOfWord
<1>11. (h - ((c + ReadBack) % Word)) % Word = kw - f
  <2>1. (h - c) % Word = gap - half
    <3>1. c = (l + half) % Word
      BY <1>2 DEF gap
    <3> DEFINE g == gap - half
    <3>2. g \in 0 .. Word - 1 /\ half \in Int
      BY <1>2, Sizes
    <3>3. ((h - l) % Word) - half = g /\ l \in Int /\ h \in Int
      BY Sizes DEF gap
    <3>4. g = gap - half
      OBVIOUS
    <3> HIDE DEF half, g
    <3>5. (h - ((l + half) % Word)) % Word = g
      BY <3>2, <3>3, GapBehind
    <3> QED BY <3>1, <3>4, <3>5
  <2>2. gap - half - ReadBack = kw - f /\ kw - f \in 0 .. Word - 1
    BY <1>2, <1>5, <1>6, <1>7, Widths, Sizes
  <2> QED BY <1>2, <1>5, <2>1, <2>2, GapBehind
<1>12. Short(kw - f, k, f, Place((c + ReadBack) % Word))
  BY <1>5, <1>7, <1>10 DEF Short, kw
<1>13. Place((c + ReadBack) % Word) <= num_logical_sectors
  BY <1>5, <1>10, Widths, Sizes
<1> QED BY <1>5, <1>7, <1>9, <1>11, <1>12, <1>13 DEF HasCrossed

\* ... as the gap is larger than an area.
LEMMA CrossedIsWide ==
    ASSUME NEW l \in Int, NEW h \in Int, HasCrossed(l, h)
    PROVE  ~narrow((h - l) % Word)
<1>1. PICK q, d \in Nat : Short((h - l) % Word, q, d, Place(l))
  BY DEF HasCrossed
<1>2. q * WordSectors >= WordSectors /\ q * WordSectors \in Int
  BY <1>1, WordIsWhole, Sizes DEF Short
<1>3. (h - l) % Word > AreaSize
  BY <1>1, <1>2, Widths, Sizes, WordIsWhole DEF Short
<1>4. (h - l) % Word \in Int
  BY WordContains, Sizes
<1> QED BY <1>3, <1>4, Widths DEF narrow, AreaSize

\* The places of the area, which is on the device.
LEMMA AreaPlaces ==
    ASSUME TypeInv, pc = "verify", NEW t \in 0 .. num_slices * slice_sectors
    PROVE  /\ Place(cur) \in Nat
           /\ Place((cur + t) % Word) = Place(cur) + t
           /\ (((cur + t) * sector_size) % Word) \div sector_size = Place(cur) + t
<1>1. cur \in Int /\ Place(cur) \in Nat /\ num_slices * slice_sectors \in Nat
  BY PlaceIsNat, Sizes DEF TypeInv, TypeOK
<1>2. Place(cur) + t \in 0 .. WordSectors - 1
  <2>1. Place(cur) + num_slices * slice_sectors <= num_logical_sectors
    BY DEF TypeInv, Reached
  <2> QED BY <1>1, <2>1, WordIsWhole, Sizes
<1>3. Place(cur + t) = Place(cur) + t /\ cur + t \in Int
  BY <1>1, <1>2, PlaceBehind
<1> QED BY <1>1, <1>3, PlaceOfWord, OffsetOfPlace

LEMMA LimitsRead == ASSUME TypeInv, LimitsInv, ReadSlice PROVE LimitsInv'
<1>1. PICK n \in 0 .. slice_sectors : JudgeInitial(n)
  BY ReadFacts
<1>2. /\ pc = "read" /\ UNCHANGED <<initial_sectors, keep_searching>>
      /\ i \in 0 .. num_slices - 1 /\ TypeOK /\ low <= initial_sectors[i] /\ low \in Nat
      /\ initial_sectors[i] \in 0 .. num_logical_sectors - slice_sectors
      /\ device_info.is_fake_flash = "UNKNOWN"
  BY Sizes DEF ReadSlice, TypeInv, TypeOK, Turns, LimitsInv
<1>3. CASE /\ low' = initial_sectors[i] + slice_sectors /\ i' = i + 1
           /\ IF i' = num_slices THEN Succeed(num_logical_sectors) ELSE UNCHANGED <<pc, result>>
  <2>1. CASE i' = num_slices
    BY <1>3, <2>1 DEF LimitsInv, Succeed
  <2>2. CASE i' # num_slices
    <3>1. i + 1 \in 0 .. num_slices - 1
      BY <1>2, <1>3, <2>2, Sizes
    <3>2. initial_sectors[i] + slice_sectors <= initial_sectors[i + 1]
      BY <1>2, <3>1, Sizes DEF TypeInv, SlicesApart, PlacedSlices
    <3> QED BY <1>2, <1>3, <2>2, <3>2 DEF LimitsInv
  <2> QED BY <2>1, <2>2
<1>4. CASE Fail \/ Succeed(initial_sectors[i] + n)
  BY <1>4 DEF LimitsInv, Fail, Succeed
<1>5. CASE high' = initial_sectors[i] /\ Search /\ UNCHANGED low
  <2>1. InOrder(low', high')
    BY <1>2, <1>5, Sizes DEF InOrder
  <2> QED BY <1>5, <2>1 DEF LimitsInv, Limits, Search
<1> QED BY <1>1, <1>3, <1>4, <1>5 DEF JudgeInitial

LEMMA LimitsWriteArea == ASSUME TypeInv, LimitsInv, WriteArea PROVE LimitsInv'
<1> DEFINE gap == (high - low) % Word
           half == gap \div 2
<1>1. /\ pc' = "verify" /\ i' = 0 /\ UNCHANGED <<low, high>>
      /\ cur' = (IF narrow(gap) THEN low ELSE (half + low) % Word)
      /\ keep_searching' = ~narrow(gap)
      /\ Limits(low, high)
      /\ low \in 0 .. Word - 1 /\ high \in 0 .. Word - 1
  BY DEF WriteArea, ChooseArea, area, LimitsInv, TypeInv, TypeOK
<1>2. CASE HasCrossed(low, high)
  <2>1. ~narrow(gap)
    <3>1. low \in Int /\ high \in Int
      BY <1>1, Sizes
    <3> QED BY <1>2, <3>1, CrossedIsWide
  <2>2. Place(cur') + AreaSize <= num_logical_sectors
    <3>1. TypeInv'
      BY WriteAreaType
    <3> QED BY <1>1, <3>1 DEF TypeInv, Reached, AreaSize
  <2>3. HasCrossed(low, cur') /\ HasCrossed((cur' + ReadBack) % Word, high)
    BY <1>1, <1>2, <2>1, <2>2, AreaBetweenCrossed
  <2>4. keep_searching'
    BY <1>1, <2>1
  <2> HIDE DEF gap
  <2> QED BY <1>1, <2>3, <2>4 DEF LimitsInv, Limits
<1>3. CASE InOrder(low, high)
  <2>1. gap = high - low /\ gap \in Nat /\ high <= num_logical_sectors
    <3>1. high - low \in 0 .. Word - 1
      BY <1>1, <1>3, Sizes DEF InOrder
    <3> QED BY <1>3, <3>1, InWord DEF InOrder
  <2>2. CASE narrow(gap)
    <3>1. ~keep_searching'
      BY <1>1, <2>2
    <3> HIDE DEF gap
    <3>2. low' <= num_logical_sectors /\ cur' <= num_logical_sectors
      BY <1>1, <1>3, <2>2, Sizes DEF InOrder
    <3> QED BY <1>1, <3>1, <3>2 DEF LimitsInv
  <2>3. CASE ~narrow(gap)
    <3> HIDE DEF gap
    <3>1. gap > 2 * ReadBack /\ ReadBack \in Nat
      BY <2>1, <2>3, Widths DEF narrow, AreaSize
    <3>2. half \in Nat /\ half + ReadBack <= gap
      BY <2>1, <3>1
    <3> HIDE DEF half
    <3>3. /\ half + low \in 0 .. num_logical_sectors
          /\ half + low + ReadBack \in 0 .. num_logical_sectors
          /\ half + low + ReadBack <= high
      BY <1>1, <2>1, <3>1, <3>2, Sizes
    <3>4. cur' = half + low /\ (cur' + ReadBack) % Word = half + low + ReadBack
      <4>1. (half + low) % Word = half + low
        BY <3>3, WordContains, InWord
      <4>2. (half + low + ReadBack) % Word = half + low + ReadBack
        BY <3>3, WordContains, InWord
      <4> QED BY <1>1, <2>3, <4>1, <4>2
    <3>5. InOrder(low, cur') /\ InOrder((cur' + ReadBack) % Word, high)
      BY <1>1, <2>1, <3>1, <3>2, <3>3, <3>4 DEF InOrder
    <3>6. keep_searching'
      BY <1>1, <2>3
    <3> QED BY <1>1, <3>5, <3>6 DEF LimitsInv, Limits
  <2> QED BY <2>2, <2>3
<1> QED BY <1>1, <1>2, <1>3 DEF Limits

\* The limits at the end of a last pass are on the device.
LEMMA LastLow ==
    ASSUME TypeInv, LimitsInv, pc = "verify", keep_searching = FALSE
    PROVE  /\ low \in 0 .. num_logical_sectors
           /\ cur \in 0 .. num_logical_sectors
           /\ (cur + ReadBack) % Word \in 0 .. num_logical_sectors
<1>1. low \in 0 .. num_logical_sectors /\ cur \in 0 .. num_logical_sectors
  BY Sizes DEF TypeInv, TypeOK, LimitsInv
<1>2. cur + AreaSize <= num_logical_sectors
  BY <1>1, PlaceOnDevice DEF TypeInv, Reached, AreaSize
<1>3. cur + ReadBack \in 0 .. num_logical_sectors
  BY <1>1, <1>2, Widths
<1> QED BY <1>1, <1>3, WordContains, InWord

LEMMA LimitsVerify == ASSUME TypeInv, LimitsInv, VerifySlice PROVE LimitsInv'
<1>1. PICK n \in 0 .. slice_sectors : JudgeArea(n)
  BY VerifyFacts
<1>2. /\ pc = "verify" /\ UNCHANGED <<cur, keep_searching>> /\ keep_searching \in BOOLEAN
      /\ i \in 0 .. Verified - 1 /\ cur \in 0 .. Word - 1
  BY DEF VerifySlice, TypeInv, TypeOK, Turns
<1>3. /\ keep_searching = FALSE => low \in 0 .. num_logical_sectors
                                   /\ cur \in 0 .. num_logical_sectors
                                   /\ (cur + ReadBack) % Word \in 0 .. num_logical_sectors
      /\ keep_searching = TRUE => /\ i = 0 => Limits(low, cur)
                                  /\ i > 0 => low = (cur + ReadBack) % Word
                                  /\ Limits((cur + ReadBack) % Word, high)
  BY <1>2, LastLow DEF LimitsInv
<1>4. CASE /\ low' = (cur + read_back * slice_sectors) % Word
           /\ i' = i + 1 /\ UNCHANGED high
           /\ IF i' = read_back THEN NextArea(low') ELSE UNCHANGED <<pc, result>>
  <2>1. low' = (cur + ReadBack) % Word /\ i' > 0
    BY <1>2, <1>4, Sizes DEF ReadBack, read_back
  <2>2. CASE Search /\ keep_searching = TRUE
    BY <1>3, <1>4, <2>1, <2>2 DEF LimitsInv, Search
  <2>3. CASE Succeed(low')
    BY <2>3 DEF LimitsInv, Succeed
  <2>4. CASE UNCHANGED <<pc, result>>
    BY <1>2, <1>3, <1>4, <2>1, <2>4, Sizes DEF LimitsInv
  <2> QED BY <1>2, <1>4, <2>2, <2>3, <2>4 DEF NextArea
<1>5. CASE Succeed((((cur + i * slice_sectors + n) * sector_size) % Word) \div sector_size)
  BY <1>5 DEF LimitsInv, Succeed
<1>6. CASE high' = high_lowered /\ i' = read_back /\ NextArea(low) /\ UNCHANGED low
  <2>1. CASE Succeed(low)
    BY <2>1 DEF LimitsInv, Succeed
  <2>2. CASE Search /\ keep_searching = TRUE
    <3>1. CASE i = 0
      <4>1. (cur + 0) % Word = cur /\ 0 * slice_sectors = 0
        BY <1>2, InWord, Sizes
      <4>2. high' = cur
        BY <1>6, <3>1, <4>1 DEF high_lowered
      <4> QED BY <1>3, <1>6, <2>2, <3>1, <4>2 DEF LimitsInv, Search
    <3>2. CASE i > 0
      <4> DEFINE d == (Verified - i) * slice_sectors
                 t == i * slice_sectors
                 l == (cur + ReadBack) % Word
                 h == (cur + t) % Word
      <4>1. /\ t \in Nat /\ ReadBack = t + d /\ d \in 1 .. ReadBack
        BY <1>2, <3>2, Sizes DEF ReadBack
      <4>2. l \in 0 .. Word - 1 /\ h \in 0 .. Word - 1
        BY <1>2, <4>1, WordContains, Widths
      <4>3. Place(l) = Place(cur) + ReadBack /\ Place(cur) \in Nat
            /\ Place(cur) + ReadBack <= num_logical_sectors
        <5>1. ReadBack \in 0 .. num_slices * slice_sectors
          BY Widths DEF AreaSize
        <5>2. Place(cur) + AreaSize <= num_logical_sectors
          BY <1>2 DEF TypeInv, Reached, AreaSize
        <5> QED BY <1>2, <5>1, <5>2, AreaPlaces, Widths DEF AreaSize
      <4>4. (h - l) % Word = Word - d
        <5> DEFINE g == Word - d
        <5>1. g \in 0 .. Word - 1 /\ h \in Int /\ cur \in Int /\ d \in Nat
          BY <1>2, <4>1, <4>2, Widths, Sizes
        <5> HIDE DEF t
        <5>2. PICK j \in Int : cur + ReadBack = Word * j + l
          <6>1. cur + ReadBack \in Int /\ Word \in Nat \ {0}
            BY <5>1, Sizes, Widths
          <6> QED BY <6>1, Quotient
        <5>3. PICK k \in Int : cur + t = Word * k + h
          <6>1. cur + t \in Int /\ Word \in Nat \ {0}
            BY <4>1, <5>1, Sizes
          <6> QED BY <6>1, Quotient
        <5>4. l \in Int
          BY <4>2, Sizes
        <5> HIDE DEF l, h, d
        <5>5. h - l = g + Word * (j - k - 1) /\ j - k - 1 \in Int
          BY <4>1, <5>1, <5>2, <5>3, <5>4, Sizes, Widths
        <5> HIDE DEF g
        <5>6. (h - l) % Word = g % Word
          BY <5>1, <5>4, <5>5, WordsApart
        <5>7. (h - l) % Word = g
          BY <5>1, <5>6, InWord
        <5> QED BY <5>7 DEF g
      <4>5. Short((h - l) % Word, sector_size, d, Place(l))
        BY <4>1, <4>3, <4>4, WordIsWhole, Sizes, Widths DEF Short
      <4>6. HasCrossed(l, h)
        BY <4>1, <4>3, <4>5, Sizes DEF HasCrossed
      <4> QED BY <1>3, <1>6, <2>2, <3>2, <4>6 DEF LimitsInv, Limits, Search, high_lowered
    <3> QED BY <1>2, <3>1, <3>2
  <2> QED BY <1>2, <1>6, <2>1, <2>2 DEF NextArea
<1> QED BY <1>1, <1>4, <1>5, <1>6 DEF JudgeArea

LEMMA LimitsAlways == Spec => []LimitsInv
<1>1. Init => LimitsInv
  BY DEF Init, LimitsInv
<1>2. ASSUME TypeInv, LimitsInv, [Next]_vars PROVE LimitsInv'
  <2>1. CASE PlaceSlice \/ CallFails \/ WriteAreaFails
    BY <1>2, <2>1 DEF PlaceSlice, CallFails, WriteAreaFails, Fail, LimitsInv
  <2>2. CASE WriteSlice
    <3>1. pc' \in {"write", "read"} /\ low' = 0 /\ (pc' = "read" => i' = 0)
          /\ initial_sectors'[0] = 0
      BY <1>2, <2>2 DEF WriteSlice, TypeInv, SlicesApart
    <3> QED BY <3>1 DEF LimitsInv
  <2>3. CASE UNCHANGED vars
    BY <1>2, <2>3 DEF vars, LimitsInv
  <2> QED BY <1>2, <2>1, <2>2, <2>3, LimitsRead, LimitsWriteArea, LimitsVerify DEF Next
<1> QED BY <1>1, <1>2, TypeInvAlways, PTL DEF Spec

----------------------------------------------------------------------------
(* Not too large.                                                           *)

Excess == (Verified - 1) * slice_sectors

\* The lower limit exceeds the storage by no more than the size may.
LowInv ==
    ~blind /\ ~Misled =>
      /\ pc = "read" => low <= real
      /\ pc \in {"search", "verify"} => Place(low) <= real + Excess
      /\ NotTooLarge

LEMMA ExcessType ==
    Excess \in Nat /\ Verified * slice_sectors = Excess + slice_sectors
  BY Sizes DEF Excess

\* Where a slice of the area is, and its sectors.
LEMMA AreaSlices ==
    ASSUME NEW k \in 0 .. Verified - 1, NEW n \in 0 .. slice_sectors
    PROVE  /\ k * slice_sectors \in Nat /\ (k > 0 => k * slice_sectors >= slice_sectors)
           /\ k * slice_sectors + n <= Verified * slice_sectors
           /\ Verified * slice_sectors \in 0 .. num_slices * slice_sectors
           /\ k * slice_sectors + n \in 0 .. num_slices * slice_sectors
           /\ k * slice_sectors \in 0 .. num_slices * slice_sectors
<1>1. k * slice_sectors + slice_sectors <= Verified * slice_sectors
  <2>1. (k + 1) * slice_sectors <= Verified * slice_sectors
    BY Sizes
  <2> QED BY <2>1, Sizes
<1>2. Verified * slice_sectors <= num_slices * slice_sectors
  BY Sizes
<1>3. k * slice_sectors \in Nat /\ (k > 0 => k * slice_sectors >= slice_sectors)
  BY Sizes
<1>4. Verified * slice_sectors \in Nat /\ num_slices * slice_sectors \in Nat
  BY Sizes
<1> QED BY <1>1, <1>2, <1>3, <1>4, Sizes

\* What has been found equal of an initial slice is stored.
LEMMA ReadIsStored ==
    ASSUME TypeInv, pc = "read", ~Misled,
           NEW m \in 0 .. slice_sectors, NEW n \in 0 .. slice_sectors, n <= m, n > 0,
           i < cache => m = slice_sectors,
           i >= cache => Has(m, initial_sectors[i])
    PROVE  initial_sectors[i] + n <= real
<1>1. /\ i \in 0 .. num_slices - 1 /\ cache \in 0 .. Verified /\ real \in Nat
      /\ \A k \in 0 .. num_slices - 1 : initial_sectors[k] \in Nat
  BY Sizes DEF TypeInv, TypeOK, Turns
<1>2. CASE i < cache
  <2>1. real >= initial_sectors[cache - 1] + slice_sectors
    BY <1>1, <1>2, Sizes DEF Misled
  <2>2. initial_sectors[i] <= initial_sectors[cache - 1]
    <3>1. i # cache - 1 => initial_sectors[i] + slice_sectors <= initial_sectors[cache - 1]
      BY <1>1, <1>2, Sizes DEF TypeInv, SlicesApart, PlacedSlices
    <3> QED BY <1>1, <1>2, <3>1, Sizes
  <2> QED BY <1>1, <1>2, <2>1, <2>2, Sizes
<1>3. CASE i >= cache
  BY <1>1, <1>3, Sizes DEF Has
<1> QED BY <1>1, <1>2, <1>3

LEMMA LowRead == ASSUME TypeInv, LowInv, ReadSlice PROVE LowInv'
<1> SUFFICES ASSUME ~blind', ~Misled' PROVE LowInv'
  BY DEF LowInv
<1>1. PICK m, n \in 0 .. slice_sectors :
              /\ Compared(m, n) /\ JudgeInitial(n)
              /\ i < cache => m = slice_sectors
              /\ i >= cache => Has(m, initial_sectors[i])
  BY ReadFacts
<1>2. /\ pc = "read" /\ real' = real /\ real \in Nat /\ TypeOK /\ ~Misled
      /\ low \in Nat
      /\ i \in 0 .. num_slices - 1 /\ initial_sectors[i] \in Nat
      /\ device_info.is_fake_flash = "UNKNOWN"
  <2>1. pc = "read" /\ UNCHANGED <<initial_sectors, real, cache>>
    BY DEF ReadSlice, medium
  <2>2. ~Misled
    BY <2>1 DEF Misled
  <2> QED BY <2>1, <2>2, Sizes DEF TypeInv, TypeOK, Turns
<1>3. n <= m /\ low <= real
  BY <1>1, <1>2, ComparedFacts DEF LowInv
<1>4. n > 0 => initial_sectors[i] + n <= real
  BY <1>1, <1>2, <1>3, ReadIsStored
<1>5. CASE /\ n = slice_sectors /\ low' = initial_sectors[i] + slice_sectors /\ i' = i + 1
           /\ IF i' = num_slices THEN Succeed(num_logical_sectors) ELSE UNCHANGED <<pc, result>>
  <2>1. low' <= real
    BY <1>4, <1>5, Sizes
  <2>2. CASE i' = num_slices
    <3>1. i = num_slices - 1
      BY <1>2, <1>5, <2>2, Sizes
    <3>2. real >= num_logical_sectors - 1
      BY <1>4, <1>5, <3>1, Sizes DEF TypeInv, SlicesApart, last_slice
    <3>3. real = num_logical_sectors - 1 \/ num_logical_sectors <= real + Excess
      BY <1>2, <3>2, ExcessType, Sizes
    <3> QED BY <1>2, <1>5, <2>2, <3>3 DEF LowInv, Succeed, NotTooLarge, Excess
  <2>3. CASE i' # num_slices
    BY <1>2, <1>5, <2>1, <2>3 DEF LowInv, NotTooLarge
  <2> QED BY <2>2, <2>3
<1>6. CASE Fail
  BY <1>2, <1>6, FailType DEF LowInv, NotTooLarge
<1>7. CASE n > 0 /\ Succeed(initial_sectors[i] + n)
  <2>1. initial_sectors[i] + n <= real + Excess
    BY <1>2, <1>4, <1>7, ExcessType
  <2> QED BY <1>2, <1>7, <2>1 DEF LowInv, Succeed, NotTooLarge, Excess
<1>8. CASE Search /\ UNCHANGED low
  <2>1. real <= num_logical_sectors
    BY DEF TypeInv, TypeOK
  <2>2. Place(low) = low
    BY <1>2, <1>3, <2>1, PlaceOnDevice, Sizes
  <2> QED BY <1>2, <1>3, <1>8, <2>2, ExcessType DEF LowInv, NotTooLarge, Search
<1> QED BY <1>1, <1>2, <1>5, <1>6, <1>7, <1>8, Sizes DEF JudgeInitial

LEMMA NextAreaLow ==
    ASSUME NextArea(low'), keep_searching \in BOOLEAN, Place(low') <= real' + Excess,
           keep_searching = FALSE => low' \in 0 .. num_logical_sectors
    PROVE  LowInv'
<1>1. CASE Search
  BY <1>1 DEF LowInv, NotTooLarge, Search
<1>2. CASE Succeed(low') /\ keep_searching = FALSE
  <2>1. Place(low') = low'
    BY <1>2, PlaceOnDevice
  <2> QED BY <1>2, <2>1 DEF LowInv, NotTooLarge, Succeed, Excess
<1> QED BY <1>1, <1>2 DEF NextArea

LEMMA LowVerify == ASSUME TypeInv, LimitsInv, LowInv, VerifySlice PROVE LowInv'
<1> SUFFICES ASSUME ~blind', ~Misled' PROVE LowInv'
  BY DEF LowInv
<1>1. PICK m, n \in 0 .. slice_sectors :
              /\ Compared(m, n) /\ JudgeArea(n)
              /\ ~in_place => m = 0
              /\ in_place => Has(m, Place(cur) + i * slice_sectors)
  BY VerifyFacts
<1>2. /\ pc = "verify" /\ real' = real /\ real \in Nat /\ TypeOK /\ ~Misled
      /\ low \in Int /\ i \in 0 .. Verified - 1 /\ Place(cur) \in Nat
      /\ device_info.is_fake_flash = "UNKNOWN" /\ keep_searching \in BOOLEAN
  <2>1. pc = "verify" /\ UNCHANGED <<initial_sectors, real, cache>>
    BY DEF VerifySlice, medium
  <2>2. ~Misled
    BY <2>1 DEF Misled
  <2>3. /\ cur \in Int /\ low \in Int /\ real \in Nat /\ TypeOK
        /\ i \in 0 .. Verified - 1 /\ device_info.is_fake_flash = "UNKNOWN"
        /\ keep_searching \in BOOLEAN
    BY <2>1 DEF TypeInv, TypeOK, Turns
  <2>4. Place(cur) \in Nat
    BY <2>3, PlaceIsNat
  <2> QED BY <2>1, <2>2, <2>3, <2>4
<1>3. n <= m /\ Place(low) <= real + Excess
  BY <1>1, <1>2, ComparedFacts DEF LowInv
<1>4. n > 0 => Place(cur) + i * slice_sectors + n <= real
  BY <1>1, <1>2, <1>3, AreaSlices, Sizes DEF Has
<1>5. CASE /\ n = slice_sectors
           /\ low' = (cur + read_back * slice_sectors) % Word
           /\ i' = i + 1 /\ UNCHANGED high
           /\ IF i' = read_back THEN NextArea(low') ELSE UNCHANGED <<pc, result>>
  <2>1. Place(low') = Place(cur) + Verified * slice_sectors
    BY <1>1, <1>2, <1>5, AreaSlices, AreaPlaces DEF read_back
  <2>2. Place(low') <= real + Excess
    BY <1>1, <1>2, <1>4, <1>5, <2>1, AreaSlices, ExcessType, Sizes
  <2>3. keep_searching = FALSE => low' \in 0 .. num_logical_sectors
    BY <1>2, <1>5, LastLow DEF read_back, ReadBack
  <2>4. CASE i' = read_back
    BY <1>2, <1>5, <2>2, <2>3, <2>4, NextAreaLow
  <2>5. CASE i' # read_back
    BY <1>2, <1>5, <2>2, <2>5 DEF LowInv, NotTooLarge
  <2> QED BY <2>4, <2>5
<1>6. CASE /\ 0 < n
           /\ Succeed((((cur + i * slice_sectors + n) * sector_size) % Word) \div sector_size)
  <2> DEFINE t == i * slice_sectors + n
  <2>1. t \in 0 .. num_slices * slice_sectors
    BY <1>1, <1>2, AreaSlices
  <2>2. cur + i * slice_sectors + n = cur + t
    BY <1>1, <1>2, AreaSlices, Sizes DEF TypeOK
  <2> HIDE DEF t
  <2>3. Succeed(Place(cur) + t)
    BY <1>2, <1>6, <2>1, <2>2, AreaPlaces
  <2>4. Place(cur) + t <= real + Excess
    BY <1>1, <1>2, <1>4, <1>6, ExcessType, AreaSlices DEF t
  <2> QED BY <1>2, <2>3, <2>4 DEF LowInv, Succeed, NotTooLarge, Excess
<1>7. CASE NextArea(low) /\ UNCHANGED low
  BY <1>2, <1>3, <1>7, LastLow, NextAreaLow
<1> QED BY <1>1, <1>5, <1>6, <1>7 DEF JudgeArea

(* The size that is found exceeds the storage by no more than the slices    *)
(* that are read back behind the first of an area, even if low and high     *)
(* have crossed and their difference wraps around; excepted are the last    *)
(* sector, slices that the cache had, and one that could not be read.       *)
THEOREM FoundNotTooLarge == Spec => []NotTooLarge
<1>1. Init => LowInv
  BY DEF Init, LowInv, NotTooLarge
<1>2. ASSUME TypeInv, LimitsInv, LowInv, [Next]_vars PROVE LowInv'
  <2>1. CASE CallFails \/ WriteAreaFails
    <3>1. Fail /\ device_info.is_fake_flash = "UNKNOWN" /\ TypeOK
      BY <1>2, <2>1 DEF CallFails, WriteAreaFails, TypeInv
    <3> QED BY <3>1, FailType DEF LowInv, NotTooLarge
  <2>2. CASE PlaceSlice \/ WriteSlice
    <3>1. /\ pc' \in {"place", "write", "read"} /\ low' = 0 /\ real' \in Nat
      BY <1>2, <2>2 DEF PlaceSlice, WriteSlice, medium, TypeInv, TypeOK
    <3> QED BY <3>1 DEF LowInv, NotTooLarge
  <2>3. CASE WriteArea
    BY <1>2, <2>3 DEF WriteArea, medium, LowInv, NotTooLarge, Misled
  <2>4. CASE UNCHANGED vars
    BY <1>2, <2>4 DEF vars, result, medium, LowInv, NotTooLarge, Misled
  <2> QED BY <1>2, <2>1, <2>2, <2>3, <2>4, LowRead, LowVerify DEF Next
<1>3. LowInv => NotTooLarge
  BY DEF LowInv, NotTooLarge
<1> QED BY <1>1, <1>2, <1>3, TypeInvAlways, LimitsAlways, PTL DEF Spec

----------------------------------------------------------------------------
(* Not much too small.                                                      *)

\* The storage ends before the upper limit and, in the last pass, in the area;
\* once a slice of an area was good, the lower limit is behind all of them.
HighInv ==
    faults = 0 =>
      /\ pc \in {"search", "verify"} => real <= Place(high)
      /\ pc = "verify" =>
           /\ i > 0 => Place(low) = Place(cur) + Verified * slice_sectors
           /\ keep_searching = FALSE => /\ real <= Place(cur) + AreaSize
                                        /\ i = 0 => low = cur
      /\ NotMuchTooSmall

\* What the size may fall short by.
Shortage == (num_slices - Verified) * slice_sectors

LEMMA ShortageType ==
    /\ Shortage \in Nat /\ AreaSize \in Nat
    /\ AreaSize = Verified * slice_sectors + Shortage
  BY Sizes DEF Shortage, AreaSize

LEMMA FoundEnough ==
    ASSUME NEW num \in Nat, Succeed(num), real' <= num + Shortage PROVE HighInv'
  BY DEF Succeed, HighInv, NotMuchTooSmall, Shortage

\* The gap is the distance of the limits, also when they have crossed.
LEMMA GapCovers ==
    ASSUME NEW a \in Int, NEW b \in 0 .. Word - 1
    PROVE  Place(b) <= Place(a) + ((b - a) % Word)
<1> DEFINE d == (b - a) % Word
<1>1. Word \in Nat \ {0} /\ b - a \in Int
  BY Sizes
<1>2. PICK q \in Int : b - a = Word * q + d
  BY <1>1, Quotient
<1>3. d \in 0 .. Word - 1
  BY <1>1, Quotient
<1> HIDE DEF d
<1>4. a + d = Word * (0 - q) + b /\ 0 - q \in Int
  BY <1>1, <1>2, <1>3
<1>5. (Word * (0 - q) + b) % Word = b
  BY <1>1, <1>4, Remainder
<1>6. (a + d) % Word = b /\ a + d \in Int
  BY <1>3, <1>4, <1>5
<1>7. Place(b) = Place(a + d)
  BY <1>6, PlaceOfWord
<1>8. Place(a) \in 0 .. WordSectors - 1 /\ Place(a + d) \in 0 .. WordSectors - 1
  BY <1>6, PlaceIsNat
<1>9. CASE Place(a) + d < WordSectors
  <2>1. Place(a) + d \in 0 .. WordSectors - 1
    BY <1>3, <1>8, <1>9, WordIsWhole
  <2>2. Place(a + d) = Place(a) + d
    BY <1>3, <2>1, PlaceBehind
  <2> QED BY <1>3, <1>7, <1>8, <2>2 DEF d
<1>10. CASE ~(Place(a) + d < WordSectors)
  <2>1. Place(a + d) <= Place(a) + d
    BY <1>3, <1>8, <1>10, WordIsWhole
  <2> QED BY <1>7, <2>1 DEF d
<1> QED BY <1>9, <1>10

LEMMA HighWriteArea == ASSUME TypeInv, HighInv, WriteArea PROVE HighInv'
<1> SUFFICES ASSUME faults' = 0 PROVE HighInv'
  BY DEF HighInv
<1>1. /\ pc = "search" /\ pc' = "verify" /\ i' = 0 /\ faults = 0 /\ real' = real
      /\ high' = high /\ low' = low
  BY DEF WriteArea, medium
<1>2. real <= Place(high)
  BY <1>1 DEF HighInv
<1>3. low \in Int /\ high \in 0 .. Word - 1 /\ real \in Int
  BY Sizes DEF TypeInv, TypeOK
<1>4. ASSUME keep_searching' = FALSE
      PROVE  cur' = low /\ real <= Place(cur') + AreaSize
  <2>1. narrow((high - low) % Word) /\ cur' = low
    BY <1>4 DEF WriteArea, ChooseArea, area
  <2>2. (high - low) % Word <= AreaSize /\ (high - low) % Word \in Int
    BY <1>3, <2>1, WordContains DEF narrow, AreaSize
  <2>3. Place(high) <= Place(low) + ((high - low) % Word)
    BY <1>3, GapCovers
  <2>4. Place(high) \in Int /\ Place(low) \in Int /\ AreaSize \in Int
    BY <1>3, PlaceIsNat, ShortageType
  <2> QED BY <1>2, <1>3, <2>1, <2>2, <2>3, <2>4
<1>5. ~(i' > 0) /\ real' <= Place(high') /\ pc' # "done"
  BY <1>1, <1>2
<1>6. keep_searching' = FALSE => real' <= Place(cur') + AreaSize /\ low' = cur'
  BY <1>1, <1>4
<1> QED BY <1>5, <1>6 DEF HighInv, NotMuchTooSmall

LEMMA HighRead == ASSUME TypeInv, HighInv, ReadSlice PROVE HighInv'
<1> SUFFICES ASSUME faults' = 0 PROVE HighInv'
  BY DEF HighInv
<1>1. PICK m, n \in 0 .. slice_sectors :
              /\ Compared(m, n) /\ JudgeInitial(n)
              /\ i < cache => m = slice_sectors
              /\ i >= cache => Has(m, initial_sectors[i])
  BY ReadFacts
<1>2. /\ pc = "read" /\ real' = real /\ real \in 0 .. num_logical_sectors /\ TypeOK
      /\ i \in 0 .. num_slices - 1 /\ cache \in Nat
      /\ initial_sectors[i] \in 0 .. num_logical_sectors - slice_sectors
      /\ device_info.is_fake_flash = "UNKNOWN"
  <2>1. pc = "read" /\ real' = real
    BY DEF ReadSlice, medium
  <2>2. num_slices \in Nat
    BY Sizes
  <2> QED BY <2>1, <2>2 DEF TypeInv, TypeOK, Turns
<1>3. n = m
  BY <1>1, <1>2, ComparedFacts
<1>4. n < slice_sectors => real <= initial_sectors[i] + n
  BY <1>1, <1>2, <1>3, Sizes DEF Has
<1>5. CASE IF i' = num_slices THEN Succeed(num_logical_sectors) ELSE UNCHANGED <<pc, result>>
  <2>1. real' <= num_logical_sectors + Shortage /\ num_logical_sectors \in Nat
    BY <1>2, ShortageType, Sizes
  <2>2. CASE i' = num_slices
    BY <1>5, <2>1, <2>2, FoundEnough
  <2>3. CASE i' # num_slices
    BY <1>2, <1>5, <2>3 DEF HighInv, NotMuchTooSmall
  <2> QED BY <2>2, <2>3
<1>6. CASE Fail
  BY <1>2, <1>6, FailType DEF HighInv, NotMuchTooSmall
<1>7. CASE n < slice_sectors /\ Succeed(initial_sectors[i] + n)
  <2>1. initial_sectors[i] + n \in Nat /\ real' <= initial_sectors[i] + n + Shortage
    BY <1>2, <1>4, <1>7, ShortageType, Sizes
  <2> QED BY <1>7, <2>1, FoundEnough
<1>8. CASE n = 0 /\ high' = initial_sectors[i] /\ Search
  <2>1. real <= initial_sectors[i]
    BY <1>2, <1>4, <1>8, Sizes
  <2>2. Place(high') = initial_sectors[i]
    BY <1>2, <1>8, PlaceOnDevice, Sizes
  <2> QED BY <1>2, <1>8, <2>1, <2>2 DEF HighInv, NotMuchTooSmall, Search
<1> QED BY <1>1, <1>2, <1>5, <1>6, <1>7, <1>8, Sizes DEF JudgeInitial

LEMMA HighVerify == ASSUME TypeInv, HighInv, VerifySlice PROVE HighInv'
<1> SUFFICES ASSUME faults' = 0 PROVE HighInv'
  BY DEF HighInv
<1>1. PICK m, n \in 0 .. slice_sectors :
              /\ Compared(m, n) /\ JudgeArea(n)
              /\ ~in_place => m = 0
              /\ in_place => Has(m, Place(cur) + i * slice_sectors)
  BY VerifyFacts
<1>2. /\ pc = "verify" /\ UNCHANGED <<cur, keep_searching>> /\ real' = real
      /\ i \in 0 .. Verified - 1 /\ cur \in Int /\ low \in Int /\ real \in Nat /\ TypeOK
      /\ keep_searching \in BOOLEAN
  BY DEF VerifySlice, medium, TypeInv, TypeOK, Turns
<1>3. n = m /\ faults = 0 /\ in_place = TRUE
  <2>1. n = m /\ faults = 0
    BY <1>1, <1>2, ComparedFacts
  <2> QED BY <2>1 DEF TypeInv, Reached
<1> DEFINE p == Place(cur)
<1>4. /\ p \in Nat /\ Place(low) \in Nat /\ real <= Place(high)
      /\ i > 0 => Place(low) = p + Verified * slice_sectors
      /\ keep_searching = FALSE => real <= p + AreaSize /\ (i = 0 => low = cur)
  BY <1>2, <1>3, PlaceIsNat DEF HighInv
<1>5. n < slice_sectors => real <= p + i * slice_sectors + n
  BY <1>1, <1>3 DEF Has
<1>6. /\ i * slice_sectors \in Nat /\ i * slice_sectors + n <= Verified * slice_sectors
      /\ Verified * slice_sectors \in Nat
  BY <1>1, <1>2, AreaSlices, Sizes
<1>7. CASE /\ n = slice_sectors
           /\ low' = (cur + read_back * slice_sectors) % Word
           /\ i' = i + 1 /\ UNCHANGED high
           /\ IF i' = read_back THEN NextArea(low') ELSE UNCHANGED <<pc, result>>
  <2>1. Place(low') = p + Verified * slice_sectors
    BY <1>1, <1>2, <1>7, AreaSlices, AreaPlaces DEF read_back
  <2>2. low' \in Nat /\ i' > 0 /\ Place(low') \in 0 .. low'
    <3>1. low' \in Nat /\ i' > 0
      BY <1>1, <1>2, <1>7, JudgeAreaType, Sizes
    <3> QED BY <3>1, PlaceNotAbove
  <2>3. CASE Succeed(low') /\ keep_searching = FALSE
    <3>1. real' <= low' + Shortage
      <4>1. real <= Place(low') + Shortage
        BY <1>2, <1>4, <1>6, <2>1, <2>3, ShortageType
      <4> DEFINE l == low'
                 pl == Place(l)
      <4>2. real' <= pl + Shortage /\ pl \in 0 .. l /\ l \in Nat
        BY <1>2, <2>2, <4>1
      <4>3. real' <= l + Shortage
        <5> HIDE DEF l, pl
        <5> QED BY <1>2, <4>2, ShortageType
      <4> QED BY <4>3
    <3> QED BY <2>2, <2>3, <3>1, FoundEnough
  <2>4. CASE Search
    BY <1>2, <1>4, <1>7, <2>4 DEF HighInv, NotMuchTooSmall, Search
  <2>5. CASE UNCHANGED <<pc, result>>
    BY <1>2, <1>4, <1>7, <2>1, <2>2, <2>5 DEF HighInv, NotMuchTooSmall
  <2> QED BY <1>2, <1>7, <2>3, <2>4, <2>5 DEF NextArea
<1>8. CASE /\ n < slice_sectors
           /\ Succeed((((cur + i * slice_sectors + n) * sector_size) % Word) \div sector_size)
  <2> DEFINE t == i * slice_sectors + n
  <2>1. t \in 0 .. num_slices * slice_sectors
    BY <1>1, <1>2, AreaSlices
  <2>2. cur + i * slice_sectors + n = cur + t
    BY <1>1, <1>2, <1>6
  <2> HIDE DEF t
  <2>3. Succeed(p + t)
    BY <1>2, <1>8, <2>1, <2>2, AreaPlaces
  <2>4. real' <= p + t + Shortage /\ p + t \in Nat
    BY <1>1, <1>2, <1>4, <1>5, <1>6, <1>8, ShortageType DEF t
  <2> QED BY <2>3, <2>4, FoundEnough
<1>9. CASE /\ n = 0
           /\ high' = high_lowered /\ NextArea(low) /\ UNCHANGED low
  <2>1. real <= p + i * slice_sectors
    BY <1>4, <1>5, <1>6, <1>9, Sizes
  <2>2. CASE Search
    <3>1. Place(high') = p + i * slice_sectors
      BY <1>1, <1>2, <1>9, AreaSlices, AreaPlaces DEF high_lowered
    <3> QED BY <1>2, <1>9, <2>1, <2>2, <3>1 DEF HighInv, NotMuchTooSmall, Search
  <2>3. CASE Succeed(low) /\ keep_searching = FALSE
    <3>1. real <= Place(low)
      <4>1. CASE i = 0
        BY <1>2, <1>4, <2>1, <2>3, <4>1, Sizes
      <4>2. CASE i > 0
        BY <1>2, <1>4, <1>6, <2>1, <4>2
      <4> QED BY <1>2, <4>1, <4>2
    <3>2. low \in Nat /\ Place(low) \in 0 .. low
      BY <1>2, PlaceNotAbove DEF TypeOK
    <3>3. real' <= low + Shortage
      BY <1>2, <1>4, <3>1, <3>2, ShortageType
    <3> QED BY <2>3, <3>2, <3>3, FoundEnough
  <2> QED BY <1>2, <1>9, <2>2, <2>3 DEF NextArea
<1> QED BY <1>1, <1>7, <1>8, <1>9, Sizes DEF JudgeArea

(* Nor does the size fall short of the storage by more than the slices of   *)
(* an area that are written and not read back, if no call fails.            *)
THEOREM FoundNotMuchTooSmall == Spec => []NotMuchTooSmall
<1>1. Init => HighInv
  BY DEF Init, HighInv, NotMuchTooSmall
<1>2. ASSUME TypeInv, HighInv, [Next]_vars PROVE HighInv'
  <2>1. CASE CallFails \/ WriteAreaFails
    <3>1. Fail /\ device_info.is_fake_flash = "UNKNOWN" /\ TypeOK
      BY <1>2, <2>1 DEF CallFails, WriteAreaFails, TypeInv
    <3> QED BY <3>1, FailType DEF HighInv, NotMuchTooSmall
  <2>2. CASE PlaceSlice \/ WriteSlice
    <3>1. pc' \in {"place", "write", "read"}
      BY <2>2 DEF PlaceSlice, WriteSlice
    <3> QED BY <3>1 DEF HighInv, NotMuchTooSmall
  <2>3. CASE UNCHANGED vars
    BY <1>2, <2>3 DEF vars, result, medium, HighInv, NotMuchTooSmall
  <2> QED BY <1>2, <2>1, <2>2, <2>3, HighRead, HighWriteArea, HighVerify DEF Next
<1>3. HighInv => NotMuchTooSmall
  BY DEF HighInv, NotMuchTooSmall
<1> QED BY <1>1, <1>2, <1>3, TypeInvAlways, PTL DEF Spec

=============================================================================
