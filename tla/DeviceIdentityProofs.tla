------------------------- MODULE DeviceIdentityProofs -------------------------
(***************************************************************************)
(* Proofs about DeviceIdentity, for devices, areas, slices and blocks of   *)
(* any size, and any number of rounds and faults: that the device under    *)
(* test is known again, and that no other is taken for it.                 *)
(***************************************************************************)
EXTENDS DeviceIdentity, FiniteSetTheorems, TLAPS

----------------------------------------------------------------------------
(* Geometry: every slice is a part of the device, no slice is empty, and   *)
(* every sector is in one of them.                                         *)

LEMMA ProductBelow ==
    ASSUME NEW q \in Nat, NEW i \in Nat, NEW j \in Nat, i <= j
    PROVE  q * i \in Nat /\ q * j \in Nat /\ q * i <= q * j
<1>1. q * (j - i) \in Nat /\ q * i \in Nat
  OBVIOUS
<1>2. q * j = q * i + q * (j - i)
  OBVIOUS
<1> QED BY <1>1, <1>2

LEMMA SliceGeometry ==
    ASSUME NEW i \in Slices
    PROVE  /\ get_slice_start(i) \in Nat
           /\ last_sector(i) \in Nat
           /\ get_slice_start(i) < last_sector(i)
           /\ last_sector(i) <= NumSectors
<1> DEFINE q == NumSectors \div NUM_SLICES
<1>1. q \in Nat /\ q >= 1 /\ q * NUM_SLICES <= NumSectors
  BY IdentityAssumption
<1>2. i \in Nat /\ i + 1 \in Nat /\ i + 1 <= NUM_SLICES /\ NUM_SLICES \in Nat
  BY IdentityAssumption DEF Slices
<1>3. q * (i + 1) \in Nat /\ q * (i + 1) <= NumSectors
  <2>1. q * (i + 1) \in Nat /\ q * NUM_SLICES \in Nat /\ q * (i + 1) <= q * NUM_SLICES
    BY <1>1, <1>2, ProductBelow
  <2> QED BY <1>1, <2>1, IdentityAssumption
<1>4. q * i \in Nat /\ q * (i + 1) = q * i + q
  BY <1>1, <1>2
<1> QED
  BY <1>1, <1>2, <1>3, <1>4, IdentityAssumption DEF get_slice_start, last_sector

LEMMA SlicesCover ==
    ASSUME NEW s \in Sectors
    PROVE  \E i \in Slices : s \in SliceSectors(i)
<1> DEFINE q == NumSectors \div NUM_SLICES
           d == s \div q
<1>1. /\ q \in Nat \ {0} /\ NUM_SLICES \in Nat \ {0}
      /\ s \in Nat /\ s < NumSectors /\ NumSectors \in Nat
  BY IdentityAssumption DEF Sectors
<1>2. d \in Nat /\ q * d <= s /\ s < q * (d + 1)
  BY <1>1
<1> HIDE DEF d, q
<1>3. CASE d < NUM_SLICES
  <2>1. d \in Slices
    BY <1>1, <1>2, <1>3 DEF Slices
  <2>2. get_slice_start(d) = q * d /\ last_sector(d) \in {q * (d + 1), NumSectors}
    BY DEF get_slice_start, last_sector, q
  <2>3. s \in get_slice_start(d) .. last_sector(d) - 1
    BY <1>1, <1>2, <2>1, <2>2, SliceGeometry
  <2> QED BY <2>1, <2>3 DEF SliceSectors
<1>4. CASE d >= NUM_SLICES
  <2> DEFINE i == NUM_SLICES - 1
  <2>1. i \in Slices /\ i \in Nat /\ i <= d
    BY <1>1, <1>2, <1>4 DEF Slices
  <2>2. q * i <= s /\ q * i \in Nat
    <3>1. q * i \in Nat /\ q * d \in Nat /\ q * i <= q * d
      BY <1>1, <1>2, <2>1, ProductBelow
    <3> QED BY <1>1, <1>2, <3>1
  <2>3. get_slice_start(i) = q * i /\ last_sector(i) = NumSectors
    BY DEF get_slice_start, last_sector, q
  <2>4. s \in get_slice_start(i) .. last_sector(i) - 1
    BY <1>1, <2>2, <2>3
  <2> QED BY <2>1, <2>4 DEF SliceSectors
<1> QED BY <1>1, <1>2, <1>3, <1>4

\* How many there are from a up to, but not including, b.
LEMMA IntervalSize ==
    ASSUME NEW a \in Int, NEW b \in Int, a <= b
    PROVE  IsFiniteSet(a .. b - 1) /\ Cardinality(a .. b - 1) = b - a
<1> DEFINE e == b - 1
<1>1. e \in Int /\ (a > e => a = b) /\ e - a + 1 = b - a
  OBVIOUS
<1> HIDE DEF e
<1>2. IsFiniteSet(a .. e) /\ Cardinality(a .. e) = IF a > e THEN 0 ELSE e - a + 1
  BY <1>1, FS_Interval
<1>3. Cardinality(a .. e) = b - a
  BY <1>1, <1>2
<1> QED BY <1>2, <1>3 DEF e

\* A set that has all from a up to each of its members is an interval.
LEMMA RunIsInterval ==
    ASSUME NEW a \in Nat, NEW b \in Nat, a <= b,
           NEW R \in SUBSET (a .. b - 1), \A i \in R : a .. i \subseteq R
    PROVE  /\ Cardinality(R) \in 0 .. b - a
           /\ R = a .. a + Cardinality(R) - 1
<1> DEFINE c == Cardinality(R)
<1>1. IsFiniteSet(a .. b - 1) /\ Cardinality(a .. b - 1) = b - a
  BY IntervalSize
<1>2. IsFiniteSet(R) /\ c \in Nat /\ c <= b - a
  BY <1>1, FS_Subset, FS_CardinalityType
<1>3. R \subseteq a .. a + c - 1
  <2> SUFFICES ASSUME NEW i \in R, i >= a + c PROVE FALSE
    BY <1>2
  <2>1. a .. i \in SUBSET R /\ i \in Int
    OBVIOUS
  <2>2. Cardinality(a .. i) = i - a + 1
    BY <1>2, <2>1, FS_Interval
  <2>3. Cardinality(a .. i) <= c
    BY <1>2, <2>1, FS_Subset
  <2> QED BY <1>2, <2>1, <2>2, <2>3
<1>4. Cardinality(a .. a + c - 1) = c /\ IsFiniteSet(a .. a + c - 1)
  <2> DEFINE e == a + c
  <2>1. e \in Int /\ a <= e /\ e - a = c
    BY <1>2
  <2> HIDE DEF e
  <2>2. IsFiniteSet(a .. e - 1) /\ Cardinality(a .. e - 1) = c
    BY <2>1, IntervalSize
  <2> QED BY <1>2, <2>2 DEF e
<1>5. R = a .. a + c - 1
  <2> HIDE DEF c
  <2> QED BY <1>3, <1>4, FS_Subset DEF c
<1> QED BY <1>2, <1>5

LEMMA SectorsFinite ==
    ASSUME NEW S, S \subseteq Sectors
    PROVE  IsFiniteSet(S) /\ Cardinality(S) \in Nat
<1>1. IsFiniteSet(Sectors)
  BY FS_Interval, IdentityAssumption DEF Sectors
<1> QED BY <1>1, FS_Subset, FS_CardinalityType

\* What is written in any round that a process can do is data.
LEMMA DatumIsData ==
    ASSUME generation \in 0 .. MaxGeneration, NEW s \in Sectors
    PROVE  Datum(s) \in Data /\ (generation > 0 => Carries(Datum(s)))
<1>1. MaxGeneration \in Nat /\ NumSectors \in Nat /\ NumSectors > 0
  BY IdentityAssumption DEF MaxGeneration
<1> DEFINE g == MaxGeneration
<1> HIDE DEF g
<1>2. g \in Nat /\ generation \in Nat /\ generation <= g
  BY <1>1 DEF g
<1>3. /\ NumSectors * generation \in Nat
      /\ NumSectors * generation <= NumSectors * g
  BY <1>1, <1>2, ProductBelow
<1>4. generation > 0 => NumSectors * 1 <= NumSectors * generation
  BY <1>1, <1>2, ProductBelow
<1>5. (g + 1) * NumSectors = NumSectors * g + NumSectors /\ NumSectors * g \in Nat
  BY <1>1, <1>2
<1>6. Datum(s) = NumSectors * generation + s
  BY <1>1, <1>2 DEF Datum
<1>7. s \in Nat /\ s < NumSectors
  BY <1>1 DEF Sectors
<1>8. -1 <= Datum(s) /\ Datum(s) <= NumSectors * g + NumSectors - 1
  BY <1>1, <1>3, <1>5, <1>6, <1>7
<1>9. Datum(s) \in Data
  <2>1. Datum(s) \in Int
    BY <1>1, <1>3, <1>6, <1>7
  <2> QED BY <1>1, <1>5, <1>8, <2>1 DEF Data, g
<1>10. generation > 0 => Datum(s) > 0
  BY <1>1, <1>3, <1>4, <1>6, <1>7
<1> QED BY <1>9, <1>10 DEF Carries

LEMMA ConstantsAreData == Zero \in Data /\ Other \in Data
<1>1. MaxGeneration \in Nat /\ NumSectors \in Nat /\ NumSectors > 0
  BY IdentityAssumption DEF MaxGeneration
<1>2. (MaxGeneration + 1) * NumSectors >= NumSectors
  <2>1. NumSectors * 1 <= NumSectors * (MaxGeneration + 1)
    BY <1>1, ProductBelow
  <2> QED BY <1>1, <2>1
<1> QED BY <1>1, <1>2 DEF Zero, Other, Data

----------------------------------------------------------------------------
(* The type invariant, by parts, and what it takes to keep it: where the    *)
(* loops stand, what the state file has, and how many rounds were begun.    *)

ControlOK ==
    /\ pc \in {"round", "seek", "write", "update", "late_update", "read", "wait",
               "reset_search", "off", "search", "ended", "lost"}
    /\ request \in {"none", "round", "seek", "write", "late_update", "read"}
    /\ pc = "wait" <=> request # "none"
    /\ rounds_completed \in 0 .. MaxRounds
    /\ generation \in 0 .. MaxGeneration
    /\ middle_of_device \in {NumSectors \div 2, 0}
    /\ saving \in BOOLEAN
    /\ present \subseteq Devices
    /\ fd \in Devices \cup {"dead"}
    /\ faults \in 0 .. MaxFaults

Marks == [bod : SUBSET Offsets, mod : SUBSET Offsets]

BuffersOK ==
    /\ bod_buffer \in [Offsets -> Data]
    /\ mod_buffer \in [Offsets -> Data]
    /\ spoilt \in Marks

MapOK == unusable \subseteq bad /\ bad \subseteq Sectors

PlaceOK ==
    /\ todo \subseteq Slices
    /\ slice \in Slices
    /\ block \in SliceSectors(slice)
    /\ cur \in block .. BlockEnd - 1
    /\ written \in 0 .. BlockEnd - cur
    /\ open \subseteq Slices

MediumOK ==
    /\ content \in [Sectors -> Data]
    /\ intact \subseteq stored
    /\ stored \subseteq Sectors

LEMMA TypeParts == TypeOK <=> ControlOK /\ BuffersOK /\ MapOK /\ PlaceOK /\ MediumOK
  BY DEF TypeOK, ControlOK, BuffersOK, MapOK, PlaceOK, MediumOK, Marks

Files == [rounds : 0 .. MaxRounds, middle : {NumSectors \div 2, 0},
          bod : [Offsets -> Data], mod : [Offsets -> Data],
          bad : SUBSET Sectors, spoilt : Marks]

\* The state file has the buffers as they are.
Saved ==
    /\ state_file.bod = bod_buffer
    /\ state_file.mod = mod_buffer
    /\ state_file.spoilt = spoilt

\* As long as saves do not fail the file keeps up with the buffers.  After a
\* crash it does, or nothing is known of what it was saved for.
FileInv ==
    /\ state_file = NoFile \/ state_file \in Files
    /\ saving => state_file = NoFile \/ Saved
    /\ pc = "off" => Loadable(state_file) /\ (open = Slices \/ Saved)

\* In a pass over a slice, in a round.
InSlice == \/ pc \in {"write", "update", "late_update", "reset_search"}
           \/ request \in {"write", "late_update"}
InRound == InSlice \/ pc \in {"seek", "read"} \/ request \in {"seek", "read"}

\* Blocks are counted from the start of the slice.
Aligned == \E k \in Nat : block = get_slice_start(slice) + SectorsPerBlock * k

Turns ==
    /\ InRound => generation > 0 /\ rounds_completed < MaxRounds
    /\ InSlice => slice \in open
    /\ pc = "seek" \/ request = "seek" => block = get_slice_start(slice) /\ cur = block
    /\ pc \in {"seek", "write"} \/ request = "seek" => written = 0
    /\ Aligned

\* Every crash costs all the rounds of a process at most.
Generations ==
    LET before == MaxRounds * faults
    IN  /\ generation <= before + MaxRounds
        /\ pc = "off" => generation <= before
        /\ pc \in {"round", "search"} \/ request = "round"
              => generation <= before + rounds_completed
        /\ InRound => generation <= before + rounds_completed + 1

TypeInv == ControlOK /\ BuffersOK /\ MapOK /\ PlaceOK /\ MediumOK
           /\ FileInv /\ Turns /\ Generations

LEMMA BlockFacts ==
    ASSUME PlaceOK
    PROVE  /\ block \in Nat /\ cur \in Nat /\ BlockEnd \in Nat /\ written \in Nat
           /\ get_slice_start(slice) \in Nat /\ last_sector(slice) \in Nat
           /\ get_slice_start(slice) <= block /\ block <= cur /\ cur < BlockEnd
           /\ cur + written <= BlockEnd
           /\ BlockEnd <= block + SectorsPerBlock
           /\ BlockEnd < last_sector(slice) => BlockEnd = block + SectorsPerBlock
           /\ BlockEnd <= last_sector(slice) /\ last_sector(slice) <= NumSectors
           /\ NumSectors \in Nat /\ SectorsPerBlock \in Nat
           /\ \A s \in cur .. BlockEnd - 1 : s \in Sectors /\ s \in SliceSectors(slice)
<1>1. slice \in Slices /\ block \in SliceSectors(slice)
  BY DEF PlaceOK
<1>2. /\ get_slice_start(slice) \in Nat /\ last_sector(slice) \in Nat
      /\ last_sector(slice) <= NumSectors
  BY <1>1, SliceGeometry
<1>3. /\ block \in Nat /\ get_slice_start(slice) <= block /\ block < last_sector(slice)
  BY <1>1, <1>2 DEF SliceSectors
<1>4. /\ BlockEnd \in Nat /\ BlockEnd <= last_sector(slice)
      /\ BlockEnd <= block + SectorsPerBlock /\ SectorsPerBlock \in Nat
      /\ BlockEnd < last_sector(slice) => BlockEnd = block + SectorsPerBlock
  BY <1>2, <1>3, IdentityAssumption DEF BlockEnd
<1>5. /\ cur \in Nat /\ block <= cur /\ cur < BlockEnd /\ written \in Nat
      /\ cur + written <= BlockEnd
  BY <1>3, <1>4 DEF PlaceOK
<1>6. \A s \in cur .. BlockEnd - 1 : s \in Sectors /\ s \in SliceSectors(slice)
  BY <1>2, <1>3, <1>4, <1>5, IdentityAssumption DEF Sectors, SliceSectors
<1> QED BY <1>2, <1>3, <1>4, <1>5, <1>6, IdentityAssumption

\* The place at the start of a slice.
LEMMA SliceBegins ==
    ASSUME slice' \in Slices, block' = get_slice_start(slice'), cur' = block', written' = 0,
           todo' \subseteq Slices, open' \subseteq Slices
    PROVE  PlaceOK' /\ Aligned'
<1>1. /\ get_slice_start(slice') \in Nat /\ last_sector(slice') \in Nat
      /\ get_slice_start(slice') < last_sector(slice')
  BY SliceGeometry
<1>2. BlockEnd' \in Nat /\ block' < BlockEnd'
  BY <1>1, IdentityAssumption DEF BlockEnd
<1>3. PlaceOK'
  BY <1>1, <1>2 DEF PlaceOK, SliceSectors
<1>4. Aligned'
  <2>1. block' = get_slice_start(slice') + SectorsPerBlock * 0 /\ 0 \in Nat
    BY <1>1, IdentityAssumption
  <2> QED BY <2>1 DEF Aligned
<1> QED BY <1>3, <1>4

LEMMA TakeSliceType ==
    ASSUME NEW S, S \subseteq Slices, TakeSlice(S), open' \subseteq Slices
    PROVE  /\ PlaceOK' /\ Aligned'
           /\ block' = get_slice_start(slice') /\ cur' = block' /\ written' = 0
<1>1. /\ slice' \in Slices /\ block' = get_slice_start(slice') /\ cur' = block'
      /\ written' = 0 /\ todo' \subseteq Slices
  BY DEF TakeSlice
<1> QED BY <1>1, SliceBegins

LEMMA RestartSliceType ==
    ASSUME PlaceOK, RestartSlice, open' = open
    PROVE  /\ PlaceOK' /\ Aligned'
           /\ block' = get_slice_start(slice') /\ cur' = block' /\ written' = 0
           /\ slice' = slice
<1>1. /\ slice' \in Slices /\ block' = get_slice_start(slice') /\ cur' = block'
      /\ written' = 0 /\ todo' \subseteq Slices /\ open' \subseteq Slices
      /\ slice' = slice
  BY DEF RestartSlice, PlaceOK
<1> QED BY <1>1, SliceBegins

\* The usable sectors from cur on, and the unusable ones from any sector on.
LEMMA WritableRunFacts ==
    ASSUME PlaceOK
    PROVE  /\ WritableRun(cur) \subseteq Sectors
           /\ WritableRun(cur) \subseteq SliceSectors(slice)
           /\ WritableRun(cur) \cap unusable = {}
  BY BlockFacts DEF WritableRun

LEMMA WritableRunIs ==
    ASSUME PlaceOK, cur \notin unusable
    PROVE  /\ Cardinality(WritableRun(cur)) \in 1 .. BlockEnd - cur
           /\ WritableRun(cur) = cur .. cur + Cardinality(WritableRun(cur)) - 1
<1> DEFINE R == WritableRun(cur)
<1>1. cur \in Nat /\ BlockEnd \in Nat /\ cur < BlockEnd
  BY BlockFacts
<1>2. R \in SUBSET (cur .. BlockEnd - 1) /\ \A i \in R : cur .. i \subseteq R
  BY <1>1 DEF WritableRun
<1>3. cur \in R
  BY <1>1 DEF WritableRun
<1> HIDE DEF R
<1>4. Cardinality(R) \in 0 .. BlockEnd - cur /\ R = cur .. cur + Cardinality(R) - 1
  BY <1>1, <1>2, RunIsInterval
<1>5. Cardinality(R) \in 1 .. BlockEnd - cur
  BY <1>1, <1>3, <1>4
<1> QED BY <1>4, <1>5 DEF R

LEMMA UnwritableRunIs ==
    ASSUME PlaceOK, NEW c \in cur .. BlockEnd
    PROVE  /\ Cardinality(UnwritableRun(c)) \in 0 .. BlockEnd - c
           /\ UnwritableRun(c) = c .. c + Cardinality(UnwritableRun(c)) - 1
           /\ UnwritableRun(c) \subseteq unusable
<1> DEFINE R == UnwritableRun(c)
<1>1. c \in Nat /\ BlockEnd \in Nat /\ c <= BlockEnd
  BY BlockFacts
<1>2. /\ R \in SUBSET (c .. BlockEnd - 1) /\ \A i \in R : c .. i \subseteq R
      /\ R \subseteq unusable
  BY <1>1 DEF UnwritableRun
<1> HIDE DEF R
<1>3. Cardinality(R) \in 0 .. BlockEnd - c /\ R = c .. c + Cardinality(R) - 1
  BY <1>1, <1>2, RunIsInterval
<1> QED BY <1>2, <1>3 DEF R

LEMMA GoOnFacts ==
    ASSUME PlaceOK, Aligned, NEW s \in cur .. BlockEnd, GoOn(s)
    PROVE  /\ PlaceOK' /\ Aligned'
           /\ \/ /\ pc' = "write" /\ slice' = slice /\ cur' = s /\ written' = 0
                 /\ open' = open
              \/ /\ pc' = "seek" /\ open' = open \ {slice} /\ s = last_sector(slice)
                 /\ block' = get_slice_start(slice') /\ cur' = block' /\ written' = 0
              \/ /\ pc' = "read" /\ open' = open \ {slice} /\ s = last_sector(slice)
<1>1. /\ block \in Nat /\ cur \in Nat /\ BlockEnd \in Nat /\ s \in Nat
      /\ get_slice_start(slice) \in Nat /\ last_sector(slice) \in Nat
      /\ get_slice_start(slice) <= block /\ block <= cur /\ cur <= s /\ s <= BlockEnd
      /\ cur < BlockEnd /\ BlockEnd <= last_sector(slice)
      /\ BlockEnd < last_sector(slice) => BlockEnd = block + SectorsPerBlock
      /\ SectorsPerBlock \in Nat /\ SectorsPerBlock > 0
  BY BlockFacts, IdentityAssumption
<1>2. CASE s < BlockEnd
  <2>1. /\ pc' = "write" /\ cur' = s /\ written' = 0 /\ block' = block /\ slice' = slice
        /\ todo' = todo /\ open' = open
    BY <1>2 DEF GoOn
  <2>2. BlockEnd' = BlockEnd
    BY <2>1 DEF BlockEnd
  <2>3. PlaceOK'
    BY <1>1, <1>2, <2>1, <2>2 DEF PlaceOK
  <2>4. Aligned'
    BY <2>1 DEF Aligned
  <2> QED BY <2>1, <2>3, <2>4
<1>3. CASE s >= BlockEnd /\ BlockEnd < last_sector(slice)
  <2>1. /\ pc' = "write" /\ cur' = BlockEnd /\ written' = 0 /\ block' = BlockEnd
        /\ slice' = slice /\ todo' = todo /\ open' = open
    BY <1>1, <1>3 DEF GoOn
  <2>2. BlockEnd' \in Nat /\ BlockEnd < BlockEnd'
    BY <1>1, <1>3, <2>1 DEF BlockEnd
  <2>3. block' \in SliceSectors(slice')
    BY <1>1, <1>3, <2>1 DEF SliceSectors
  <2>4. PlaceOK'
    <3> DEFINE e == BlockEnd
               f == BlockEnd'
    <3>1. e \in Nat /\ f \in Nat /\ e < f /\ block' = e /\ cur' = e /\ written' = 0
      BY <1>1, <2>1, <2>2
    <3> HIDE DEF e, f
    <3>2. cur' \in block' .. f - 1 /\ written' \in 0 .. f - cur'
      BY <3>1
    <3> QED BY <2>1, <2>3, <3>2 DEF PlaceOK, f
  <2>5. Aligned'
    <3>1. PICK k \in Nat : block = get_slice_start(slice) + SectorsPerBlock * k
      BY DEF Aligned
    <3>2. SectorsPerBlock * (k + 1) = SectorsPerBlock * k + SectorsPerBlock
          /\ SectorsPerBlock * k \in Nat /\ k + 1 \in Nat
      BY <1>1
    <3>3. block' = get_slice_start(slice') + SectorsPerBlock * (k + 1)
      BY <1>1, <1>3, <2>1, <3>1, <3>2
    <3> QED BY <3>2, <3>3 DEF Aligned
  <2> QED BY <1>1, <1>3, <2>1, <2>4, <2>5
<1>4. CASE s >= BlockEnd /\ BlockEnd >= last_sector(slice)
  <2>1. /\ open' = open \ {slice}
        /\ IF todo # {} THEN TakeSlice(todo) /\ pc' = "seek"
           ELSE pc' = "read" /\ UNCHANGED place
    BY <1>1, <1>4 DEF GoOn
  <2>2. s = last_sector(slice) /\ open' \subseteq Slices /\ todo \subseteq Slices
    BY <1>1, <1>4, <2>1 DEF PlaceOK
  <2>3. CASE todo # {}
    BY <2>1, <2>2, <2>3, TakeSliceType
  <2>4. CASE todo = {}
    <3>1. PlaceOK'
      BY <2>1, <2>2, <2>4 DEF place, PlaceOK, BlockEnd
    <3>2. Aligned'
      BY <2>1, <2>4 DEF place, Aligned
    <3> QED BY <2>1, <2>2, <2>4, <3>1, <3>2
  <2> QED BY <2>3, <2>4
<1> QED BY <1>1, <1>2, <1>3, <1>4

LEMMA StoreType ==
    ASSUME MediumOK, generation \in 0 .. MaxGeneration, NEW S \in SUBSET Sectors, Store(S)
    PROVE  MediumOK'
  BY DatumIsData DEF MediumOK, Store

LEMMA WriteAgainType ==
    ASSUME ControlOK, PlaceOK, MediumOK, WriteAgain, open' = open
    PROVE  /\ MediumOK' /\ PlaceOK' /\ Aligned'
           /\ block' = get_slice_start(slice') /\ cur' = block' /\ written' = 0
           /\ slice' = slice
<1>1. MediumOK'
  <2>1. CASE Store(WritableRun(cur))
    BY <2>1, WritableRunFacts, StoreType DEF ControlOK
  <2>2. CASE UNCHANGED medium
    BY <2>2 DEF medium, MediumOK
  <2> QED BY <2>1, <2>2 DEF WriteAgain
<1>2. RestartSlice
  BY DEF WriteAgain
<1> QED BY <1>1, <1>2, RestartSliceType

LEMMA CondemnType ==
    ASSUME MediumOK, MapOK, cur \in Sectors, Condemn
    PROVE  MediumOK' /\ MapOK'
  BY ConstantsAreData DEF MediumOK, MapOK, Condemn

FileKept == /\ state_file' = NoFile \/ state_file' \in Files
            /\ saving' => state_file' = NoFile \/ Saved'
            /\ saving' \in BOOLEAN
            /\ faults' \in 0 .. MaxFaults /\ faults <= faults'

\* What is saved is, or saving has failed for good.
LEMMA SaveType ==
    ASSUME ControlOK, FileInv, BuffersOK',
           NEW gone \in SUBSET Sectors,
           Save(rounds_completed, bod_buffer', mod_buffer', gone, spoilt')
    PROVE  FileKept
<1> USE DEF FileKept
<1>1. saving \in BOOLEAN /\ faults \in 0 .. MaxFaults /\ MaxFaults \in Nat
  BY IdentityAssumption DEF ControlOK
<1>2. CASE /\ saving
           /\ state_file' = [rounds |-> rounds_completed, middle |-> middle_of_device,
                             bod |-> bod_buffer', mod |-> mod_buffer', bad |-> gone,
                             spoilt |-> spoilt']
           /\ UNCHANGED <<saving, faults>>
  <2>1. state_file' \in Files
    BY <1>2 DEF Files, ControlOK, BuffersOK
  <2>2. Saved'
    BY <1>2 DEF Saved
  <2> QED BY <1>1, <1>2, <2>1, <2>2
<1>3. CASE saving /\ Fault /\ saving' = FALSE /\ UNCHANGED state_file
  <2>1. faults' \in 0 .. MaxFaults /\ faults <= faults'
    BY <1>1, <1>3 DEF Fault
  <2>2. state_file' = NoFile \/ state_file' \in Files
    BY <1>3 DEF FileInv
  <2> QED BY <1>3, <2>1, <2>2
<1>4. CASE ~saving /\ UNCHANGED <<state_file, saving, faults>>
  BY <1>1, <1>4 DEF FileInv
<1> QED BY <1>2, <1>3, <1>4 DEF Save

LEMMA ModSourceIs ==
    ASSUME ControlOK, NEW from \in Nat, NEW i \in Offsets
    PROVE  /\ ModSource(from, i) = middle_of_device + i
           /\ middle_of_device + i \in Sectors /\ i \in Sectors
           /\ middle_of_device \in Nat
<1>1. /\ NumSectors \in Nat /\ AreaSectors \in Nat /\ 2 * AreaSectors <= NumSectors
      /\ NumSectors \div 2 \in Nat /\ NumSectors = 2 * (NumSectors \div 2)
  BY IdentityAssumption
<1>2. middle_of_device \in Nat /\ middle_of_device <= NumSectors \div 2
  BY <1>1 DEF ControlOK
<1>3. i \in Nat /\ i < AreaSectors
  BY <1>1 DEF Offsets
<1> QED BY <1>1, <1>2, <1>3 DEF ModSource, Sectors

LEMMA PlacesInArea ==
    ASSUME ControlOK, NEW from \in Nat, NEW n \in Nat
    PROVE  BodPlaces(from, n) \subseteq Offsets /\ ModPlaces(from, n) \subseteq Offsets
<1>1. AreaSectors \in Nat /\ middle_of_device \in Nat
  BY IdentityAssumption DEF ControlOK
<1>2. BodPlaces(from, n) \subseteq Offsets
  BY <1>1 DEF BodPlaces, Offsets, Min
<1>3. ModPlaces(from, n) \subseteq Offsets
  <2>1. CASE from < middle_of_device
    BY <1>1, <2>1 DEF ModPlaces, Offsets, Min
  <2>2. CASE from >= middle_of_device
    BY <1>1, <2>2 DEF ModPlaces, Offsets, Min
  <2> QED BY <1>1, <2>1, <2>2
<1> QED BY <1>2, <1>3

LEMMA UpdateType ==
    ASSUME TypeInv, NEW from \in Nat, NEW n \in Nat, update_bod_mod_buffers(from, n)
    PROVE  BuffersOK' /\ FileKept
<1> DEFINE bods == BodPlaces(from, n)
           mods == ModPlaces(from, n)
<1>1. PICK behind \in {Zero, Other} :
        /\ bod_buffer' = [i \in Offsets |-> IF i \in bods THEN InBlock(i, behind)
                                            ELSE bod_buffer[i]]
        /\ mod_buffer' = [i \in Offsets |->
                            IF i \in mods THEN InBlock(ModSource(from, i), behind)
                            ELSE mod_buffer[i]]
  BY DEF update_bod_mod_buffers
<1>2. /\ spoilt' = [bod |-> (spoilt.bod \ bods) \cup {i \in bods : i >= BlockEnd},
                    mod |-> (spoilt.mod \ mods)
                               \cup {i \in mods : ModSource(from, i) >= BlockEnd}]
      /\ IF bods \cup mods = {} THEN UNCHANGED <<state_file, saving, faults>>
         ELSE Save(rounds_completed, bod_buffer', mod_buffer', bad, spoilt')
  BY DEF update_bod_mod_buffers
<1>3. \A s \in Sectors : InBlock(s, behind) \in Data
  BY DatumIsData, ConstantsAreData DEF InBlock, TypeInv, ControlOK
<1>4. bod_buffer' \in [Offsets -> Data] /\ mod_buffer' \in [Offsets -> Data]
  <2>1. \A i \in Offsets : /\ InBlock(i, behind) \in Data
                           /\ InBlock(ModSource(from, i), behind) \in Data
    BY <1>3, ModSourceIs DEF TypeInv
  <2> QED BY <1>1, <2>1 DEF TypeInv, BuffersOK
<1>5. bods \subseteq Offsets /\ mods \subseteq Offsets
  BY PlacesInArea DEF TypeInv
<1>6. spoilt' \in Marks
  BY <1>2, <1>5 DEF Marks, TypeInv, BuffersOK
<1>7. BuffersOK'
  BY <1>4, <1>6 DEF BuffersOK
<1>8. FileKept
  <2>1. CASE bods \cup mods = {}
    <3>1. bods = {} /\ mods = {} /\ UNCHANGED <<state_file, saving, faults>>
      BY <1>2, <2>1
    <3>2. bod_buffer' = bod_buffer /\ mod_buffer' = mod_buffer
      BY <1>1, <3>1 DEF TypeInv, BuffersOK
    <3>3. spoilt' = spoilt
      BY <1>2, <3>1 DEF TypeInv, BuffersOK, Marks
    <3>4. MaxFaults \in Nat
      BY IdentityAssumption
    <3> QED BY <3>1, <3>2, <3>3, <3>4 DEF FileKept, TypeInv, ControlOK, FileInv, Saved
  <2>2. CASE bods \cup mods # {}
    BY <1>2, <1>7, <2>2, SaveType DEF TypeInv, MapOK
  <2> QED BY <2>1, <2>2
<1> QED BY <1>7, <1>8

LEMMA GenerationsKept ==
    ASSUME ControlOK, Generations, generation' = generation,
           rounds_completed' = rounds_completed,
           faults' \in Nat, faults <= faults',
           pc' # "off", InRound' => InRound,
           pc' \in {"round", "search"} \/ request' = "round"
             => pc \in {"round", "search"} \/ request = "round"
    PROVE  Generations'
<1>1. MaxRounds \in Nat /\ faults \in Nat /\ generation \in Nat /\ rounds_completed \in Nat
  BY IdentityAssumption DEF ControlOK, MaxGeneration
<1>2. /\ MaxRounds * faults \in Nat /\ MaxRounds * faults' \in Nat
      /\ MaxRounds * faults <= MaxRounds * faults'
  BY <1>1, ProductBelow
<1> DEFINE before == MaxRounds * faults
           after == MaxRounds * faults'
<1>3. /\ generation <= before + MaxRounds
      /\ pc \in {"round", "search"} \/ request = "round"
            => generation <= before + rounds_completed
      /\ InRound => generation <= before + rounds_completed + 1
  BY DEF Generations
<1>4. before \in Nat /\ after \in Nat /\ before <= after
  BY <1>2
<1> HIDE DEF before, after
<1>5. /\ generation' <= after + MaxRounds
      /\ pc' = "off" => generation' <= after
      /\ pc' \in {"round", "search"} \/ request' = "round"
            => generation' <= after + rounds_completed'
      /\ InRound' => generation' <= after + rounds_completed' + 1
  BY <1>1, <1>3, <1>4
<1> QED BY <1>5 DEF Generations, after

----------------------------------------------------------------------------
(* The type invariant, action by action.                                    *)

LEMMA InitTypeInv == Init => TypeInv
<1> SUFFICES ASSUME Init PROVE TypeInv
  OBVIOUS
<1>1. /\ NumSectors \in Nat /\ NUM_SLICES \in Nat \ {0} /\ SectorsPerBlock \in Nat \ {0}
      /\ MaxRounds \in Nat /\ MaxFaults \in Nat /\ MaxGeneration \in Nat
      /\ MaxRounds * 0 = 0
  BY IdentityAssumption DEF MaxGeneration
<1>2. ControlOK
  BY <1>1 DEF Init, ControlOK, Devices
<1>3. BuffersOK
  BY ConstantsAreData DEF Init, BuffersOK, Marks
<1>4. MapOK
  BY DEF Init, MapOK
<1>5. 0 \in Slices /\ get_slice_start(0) = 0
  <2>1. NumSectors \div NUM_SLICES \in Nat
    BY <1>1
  <2> QED BY <1>1, <2>1 DEF Slices, get_slice_start
<1>6. PlaceOK
  <2>1. last_sector(0) \in Nat /\ 0 < last_sector(0)
    BY <1>5, SliceGeometry
  <2>2. block = 0 /\ slice = 0 /\ cur = 0 /\ written = 0 /\ open = {} /\ todo = {}
    BY DEF Init
  <2>3. BlockEnd \in Nat /\ 0 < BlockEnd
    BY <1>1, <2>1, <2>2 DEF BlockEnd
  <2>4. block \in SliceSectors(slice)
    BY <1>5, <2>1, <2>2 DEF SliceSectors
  <2> QED BY <1>5, <2>2, <2>3, <2>4 DEF PlaceOK
<1>7. MediumOK
  BY ConstantsAreData DEF Init, MediumOK
<1>8. FileInv
  BY DEF Init, FileInv
<1>9. Turns
  <2>1. Aligned
    <3>1. block = get_slice_start(slice) + SectorsPerBlock * 0 /\ 0 \in Nat
      BY <1>1, <1>5 DEF Init
    <3> QED BY <3>1 DEF Aligned
  <2> QED BY <2>1 DEF Init, Turns, InRound, InSlice
<1>10. Generations
  BY <1>1 DEF Init, Generations, InRound, InSlice
<1> QED BY <1>2, <1>3, <1>4, <1>6, <1>7, <1>8, <1>9, <1>10 DEF TypeInv

LEMMA StartRoundType == ASSUME TypeInv, StartRound PROVE TypeInv'
<1> USE DEF TypeInv
<1>1. /\ pc = "round" /\ request = "none" /\ pc' = "seek" /\ request' = "none"
      /\ rounds_completed < MaxRounds /\ rounds_completed' = rounds_completed
      /\ generation' = generation + 1 /\ TakeSlice(Slices) /\ open' = open
  BY DEF StartRound, ControlOK
<1>2. FileKept /\ BuffersOK'
  <2>1. BuffersOK'
    BY DEF StartRound, buffers, BuffersOK
  <2>2. CASE rounds_completed > 0
    <3>1. Save(rounds_completed, bod_buffer', mod_buffer', bad, spoilt')
      BY <2>2 DEF StartRound, buffers
    <3> QED BY <2>1, <3>1, SaveType DEF MapOK
  <2>3. CASE ~(rounds_completed > 0)
    <3>1. UNCHANGED <<state_file, saving, faults>> /\ UNCHANGED buffers
      BY <2>3 DEF StartRound
    <3>2. MaxFaults \in Nat
      BY IdentityAssumption
    <3> QED BY <2>1, <3>1, <3>2 DEF FileKept, FileInv, ControlOK, buffers, Saved
  <2> QED BY <2>1, <2>2, <2>3
<1>3. /\ MaxRounds \in Nat /\ MaxFaults \in Nat /\ faults \in Nat /\ faults' \in Nat
      /\ faults <= faults' /\ faults' <= MaxFaults
      /\ rounds_completed \in Nat /\ generation \in Nat
  BY <1>2, IdentityAssumption DEF ControlOK, FileKept, MaxGeneration
<1>4. generation' <= MaxRounds * faults' + rounds_completed + 1 /\ MaxRounds * faults' \in Nat
      /\ MaxRounds * faults' <= MaxRounds * MaxFaults
  <2>1. generation <= MaxRounds * faults + rounds_completed
    BY <1>1 DEF Generations
  <2>2. /\ MaxRounds * faults \in Nat /\ MaxRounds * faults' \in Nat
        /\ MaxRounds * faults <= MaxRounds * faults'
        /\ MaxRounds * faults' <= MaxRounds * MaxFaults /\ MaxRounds * MaxFaults \in Nat
    BY <1>3, ProductBelow
  <2> DEFINE before == MaxRounds * faults
             after == MaxRounds * faults'
             most == MaxRounds * MaxFaults
  <2>3. /\ before \in Nat /\ after \in Nat /\ most \in Nat /\ before <= after /\ after <= most
        /\ generation <= before + rounds_completed
    BY <2>1, <2>2
  <2> HIDE DEF before, after, most
  <2>4. generation' <= after + rounds_completed + 1
    BY <1>1, <1>3, <2>3
  <2> QED BY <2>3, <2>4 DEF after, most
<1>5. generation' \in 0 .. MaxGeneration /\ generation' > 0
  <2>1. MaxGeneration = MaxRounds * MaxFaults + MaxRounds /\ MaxRounds * MaxFaults \in Nat
    BY <1>3 DEF MaxGeneration
  <2> DEFINE after == MaxRounds * faults'
             most == MaxRounds * MaxFaults
  <2>2. /\ after \in Nat /\ most \in Nat /\ after <= most
        /\ generation' <= after + rounds_completed + 1 /\ MaxGeneration = most + MaxRounds
    BY <1>4, <2>1
  <2> HIDE DEF after, most
  <2> QED BY <1>1, <1>3, <2>2
<1>6. ControlOK'
  BY <1>1, <1>2, <1>5 DEF ControlOK, StartRound, FileKept
<1>7. PlaceOK' /\ Aligned' /\ block' = get_slice_start(slice') /\ cur' = block' /\ written' = 0
  BY <1>1, TakeSliceType DEF PlaceOK
<1>8. MapOK' /\ MediumOK'
  BY DEF StartRound, map, medium, MapOK, MediumOK
<1>9. FileInv'
  BY <1>1, <1>2 DEF FileInv, FileKept
<1>10. Turns'
  BY <1>1, <1>5, <1>7 DEF Turns, InRound, InSlice
<1>11. Generations'
  <2> DEFINE after == MaxRounds * faults'
  <2>1. after \in Nat /\ generation' <= after + rounds_completed' + 1
    BY <1>1, <1>4
  <2> HIDE DEF after
  <2>2. generation' <= after + MaxRounds
    BY <1>1, <1>3, <2>1
  <2> QED BY <1>1, <2>1, <2>2 DEF Generations, after
<1> QED BY <1>2, <1>6, <1>7, <1>8, <1>9, <1>10, <1>11

\* Steps that write nothing and move nowhere.
Still == UNCHANGED <<progress, buffers, map, state_file, saving, present, medium, place>>

LEMMA StillType ==
    ASSUME TypeInv, Still
    PROVE  BuffersOK' /\ MapOK' /\ MediumOK' /\ (open' \subseteq Slices => PlaceOK') /\ Aligned'
           /\ (state_file' = NoFile \/ state_file' \in Files)
           /\ (saving' => state_file' = NoFile \/ Saved')
<1> USE DEF TypeInv, Still
<1>1. BuffersOK' /\ MapOK' /\ MediumOK'
  BY DEF buffers, map, medium, BuffersOK, MapOK, MediumOK
<1>2. (open' \subseteq Slices => PlaceOK') /\ Aligned'
  BY DEF place, PlaceOK, Aligned, Turns, BlockEnd
<1>3. state_file' = NoFile \/ state_file' \in Files
  BY DEF FileInv
<1>4. saving' => state_file' = NoFile \/ Saved'
  BY DEF FileInv, Saved, buffers
<1> QED BY <1>1, <1>2, <1>3, <1>4

LEMMA SliceSeekType == ASSUME TypeInv, SliceSeek PROVE TypeInv'
<1> USE DEF TypeInv
<1>1. Still /\ faults' = faults /\ fd' = fd
  BY DEF SliceSeek, Still
<1>2. /\ pc = "seek" /\ request = "none" /\ open' \subseteq Slices
      /\ \/ pc' = "write" /\ open' = open \cup {slice} /\ request' = "none"
         \/ pc' = "wait" /\ request' = "seek" /\ open' = open
  BY DEF SliceSeek, Wait, ControlOK, PlaceOK
<1>3. ControlOK'
  BY <1>1, <1>2 DEF ControlOK, Still, progress
<1>4. Turns'
  BY <1>1, <1>2, StillType DEF Turns, InRound, InSlice, Still, place, progress
<1>5. Generations'
  BY <1>1, <1>2, GenerationsKept DEF Still, progress, ControlOK, InRound, InSlice
<1>6. FileInv'
  BY <1>1, <1>2, StillType DEF FileInv
<1> QED BY <1>1, <1>2, <1>3, <1>4, <1>5, <1>6, StillType

LEMMA WriteRunType == ASSUME TypeInv, WriteRun PROVE TypeInv'
<1> USE DEF TypeInv
<1>1. PICK k \in 1 .. Cardinality(WritableRun(cur)) :
        /\ IF k = Cardinality(WritableRun(cur)) THEN UNCHANGED faults ELSE Fault
        /\ Store(cur .. cur + k - 1)
        /\ written' = k
  BY DEF WriteRun
<1>2. /\ pc = "write" /\ request = "none" /\ pc' = "update" /\ request' = "none"
      /\ UNCHANGED <<progress, buffers, map, state_file, saving, present, fd,
                     todo, slice, block, cur, open>>
  BY DEF WriteRun, ControlOK
<1>3. /\ k \in Nat /\ k <= BlockEnd - cur /\ BlockEnd \in Nat /\ cur \in Nat
      /\ cur .. cur + k - 1 \in SUBSET Sectors
  <2>1. cur \notin unusable
    BY DEF WriteRun
  <2>2. k \in Nat /\ k <= BlockEnd - cur
    BY <2>1, WritableRunIs, BlockFacts
  <2> QED BY <2>2, BlockFacts
<1>4. faults' \in 0 .. MaxFaults /\ faults <= faults'
  BY <1>1, IdentityAssumption DEF ControlOK, Fault
<1>5. ControlOK'
  BY <1>2, <1>4 DEF ControlOK, progress
<1>6. BuffersOK' /\ MapOK' /\ FileInv'
  BY <1>2 DEF BuffersOK, MapOK, FileInv, Saved, buffers, map
<1>7. PlaceOK'
  <2>1. BlockEnd' = BlockEnd
    BY <1>2 DEF BlockEnd
  <2>2. written' \in 0 .. BlockEnd' - cur'
    BY <1>1, <1>2, <1>3, <2>1
  <2> QED BY <1>2, <2>1, <2>2 DEF PlaceOK
<1>8. MediumOK'
  BY <1>1, <1>3, StoreType DEF ControlOK
<1>9. Turns'
  BY <1>2 DEF Turns, InRound, InSlice, Aligned, progress
<1>10. Generations'
  BY <1>2, <1>4, GenerationsKept DEF progress, InRound, InSlice
<1> QED BY <1>5, <1>6, <1>7, <1>8, <1>9, <1>10

LEMMA NoWriteType == ASSUME TypeInv, NoWrite PROVE TypeInv'
<1> USE DEF TypeInv
<1>1. /\ pc = "write" /\ request = "none" /\ pc' = "update" /\ request' = "none"
      /\ Still /\ faults' = faults /\ fd' = fd /\ open' = open
  BY DEF NoWrite, Still, ControlOK
<1>2. ControlOK'
  BY <1>1 DEF ControlOK, Still, progress
<1>3. Turns'
  BY <1>1, StillType DEF Turns, InRound, InSlice, Still, place, progress
<1>4. Generations'
  BY <1>1, GenerationsKept DEF Still, progress, ControlOK, InRound, InSlice
<1>5. FileInv'
  BY <1>1, StillType DEF FileInv
<1> QED BY <1>1, <1>2, <1>3, <1>4, <1>5, StillType DEF PlaceOK

\* How far the turn that ends has got, and what the buffers are told of it.
LEMMA TurnEnds ==
    ASSUME PlaceOK
    PROVE  LET skipped == Cardinality(UnwritableRun(cur + written))
           IN  /\ cur + written + skipped \in cur .. BlockEnd
               /\ skipped \in Nat
               /\ Affected(skipped) \subseteq Nat
<1> DEFINE skipped == Cardinality(UnwritableRun(cur + written))
<1>1. /\ block \in Nat /\ cur \in Nat /\ BlockEnd \in Nat /\ written \in Nat
      /\ block <= cur /\ cur + written <= BlockEnd /\ SectorsPerBlock \in Nat
  BY BlockFacts
<1>2. skipped \in 0 .. BlockEnd - (cur + written)
  BY <1>1, UnwritableRunIs
<1> HIDE DEF skipped
<1>3. Affected(skipped) \subseteq Nat
  BY <1>1, <1>2 DEF Affected
<1> QED BY <1>1, <1>2, <1>3 DEF skipped

LEMMA EndTurnType == ASSUME TypeInv, EndTurn PROVE TypeInv'
<1> USE DEF TypeInv
<1> DEFINE skipped == Cardinality(UnwritableRun(cur + written))
           to == cur + written + skipped
<1>1. /\ pc = "update" /\ request = "none" /\ request' = "none" /\ GoOn(to)
      /\ UNCHANGED <<progress, map, present, fd, medium>>
      /\ \E n \in Affected(skipped) : update_bod_mod_buffers(cur, n)
  BY DEF EndTurn, ControlOK
<1>2. to \in cur .. BlockEnd /\ cur \in Nat
  BY TurnEnds, BlockFacts
<1>3. PICK n \in Nat : update_bod_mod_buffers(cur, n)
  BY <1>1, TurnEnds
<1>4. BuffersOK' /\ FileKept
  BY <1>2, <1>3, UpdateType
<1> HIDE DEF to
<1>5. /\ PlaceOK' /\ Aligned'
      /\ \/ /\ pc' = "write" /\ slice' = slice /\ open' = open /\ written' = 0
         \/ /\ pc' = "seek"
            /\ block' = get_slice_start(slice') /\ cur' = block' /\ written' = 0
         \/ pc' = "read"
  BY <1>1, <1>2, GoOnFacts DEF Turns
<1>6. ControlOK'
  BY <1>1, <1>4, <1>5 DEF ControlOK, FileKept, progress
<1>7. MapOK' /\ MediumOK'
  BY <1>1 DEF map, medium, MapOK, MediumOK
<1>8. FileInv'
  BY <1>4, <1>5 DEF FileInv, FileKept
<1>9. Turns'
  BY <1>1, <1>5 DEF Turns, InRound, InSlice, progress
<1>10. Generations'
  <2>1. faults' \in Nat /\ faults <= faults'
    BY <1>4 DEF FileKept
  <2> QED BY <1>1, <1>5, <2>1, GenerationsKept DEF progress, InRound, InSlice
<1> QED BY <1>4, <1>5, <1>6, <1>7, <1>8, <1>9, <1>10

LEMMA SkipSeekWaitsType == ASSUME TypeInv, SkipSeekWaits PROVE TypeInv'
<1> USE DEF TypeInv
<1>1. /\ pc = "update" /\ request = "none" /\ pc' = "wait" /\ request' = "late_update"
      /\ Still /\ faults' = faults /\ fd' = fd /\ open' = open
  BY DEF SkipSeekWaits, Still, Wait, ControlOK
<1>2. ControlOK'
  BY <1>1 DEF ControlOK, Still, progress
<1>3. Turns'
  BY <1>1, StillType DEF Turns, InRound, InSlice, Still, place, progress
<1>4. Generations'
  BY <1>1, GenerationsKept DEF Still, progress, ControlOK, InRound, InSlice
<1>5. FileInv'
  BY <1>1, StillType DEF FileInv
<1> QED BY <1>1, <1>2, <1>3, <1>4, <1>5, StillType DEF PlaceOK

LEMMA LateUpdateType == ASSUME TypeInv, LateUpdate PROVE TypeInv'
<1> USE DEF TypeInv
<1>1. /\ pc = "late_update" /\ request = "none" /\ pc' = "seek" /\ request' = "none"
      /\ RestartSlice /\ open' = open
      /\ UNCHANGED <<progress, map, present, fd, medium>>
  BY DEF LateUpdate, ControlOK
<1>2. PICK n \in Nat : update_bod_mod_buffers(cur, n)
  BY TurnEnds DEF LateUpdate
<1>3. BuffersOK' /\ FileKept
  BY <1>2, UpdateType, BlockFacts
<1>4. /\ PlaceOK' /\ Aligned'
      /\ block' = get_slice_start(slice') /\ cur' = block' /\ written' = 0
  BY <1>1, RestartSliceType
<1>5. ControlOK'
  BY <1>1, <1>3 DEF ControlOK, FileKept, progress
<1>6. MapOK' /\ MediumOK'
  BY <1>1 DEF map, medium, MapOK, MediumOK
<1>7. FileInv'
  BY <1>1, <1>3 DEF FileInv, FileKept
<1>8. Turns'
  BY <1>1, <1>4 DEF Turns, InRound, InSlice, progress
<1>9. Generations'
  <2>1. faults' \in Nat /\ faults <= faults'
    BY <1>3 DEF FileKept
  <2> QED BY <1>1, <2>1, GenerationsKept DEF progress, InRound, InSlice
<1> QED BY <1>3, <1>4, <1>5, <1>6, <1>7, <1>8, <1>9

LEMMA FaultType ==
    ASSUME ControlOK, Fault
    PROVE  faults' \in 0 .. MaxFaults /\ faults' \in Nat /\ faults <= faults' /\ faults' = faults + 1
  BY IdentityAssumption DEF ControlOK, Fault

LEMMA NoFaultType ==
    ASSUME ControlOK, faults' = faults
    PROVE  faults' \in 0 .. MaxFaults /\ faults' \in Nat /\ faults <= faults'
  BY IdentityAssumption DEF ControlOK

LEMMA WriteFailsType == ASSUME TypeInv, WriteFails PROVE TypeInv'
<1> USE DEF TypeInv
<1>1. /\ pc = "write" /\ request = "none" /\ request' = "none"
      /\ Fault /\ Condemn /\ GoOn(cur + 1)
      /\ UNCHANGED <<progress, buffers, state_file, saving, present, fd>>
  BY DEF WriteFails, ControlOK
<1>2. cur + 1 \in cur .. BlockEnd /\ cur \in Sectors
  BY BlockFacts
<1> DEFINE to == cur + 1
<1> HIDE DEF to
<1>3. /\ PlaceOK' /\ Aligned'
      /\ \/ /\ pc' = "write" /\ slice' = slice /\ open' = open /\ written' = 0
         \/ /\ pc' = "seek"
            /\ block' = get_slice_start(slice') /\ cur' = block' /\ written' = 0
         \/ pc' = "read"
  <2>1. to \in cur .. BlockEnd /\ GoOn(to)
    BY <1>1, <1>2 DEF to
  <2> QED BY <2>1, GoOnFacts DEF Turns
<1>4. ControlOK'
  BY <1>1, <1>3, FaultType DEF ControlOK, progress
<1>5. MapOK' /\ MediumOK'
  BY <1>1, <1>2, CondemnType
<1>6. BuffersOK' /\ FileInv'
  BY <1>1, <1>3 DEF BuffersOK, FileInv, Saved, buffers
<1>7. Turns'
  BY <1>1, <1>3 DEF Turns, InRound, InSlice, progress
<1>8. Generations'
  BY <1>1, <1>3, FaultType, GenerationsKept DEF progress, InRound, InSlice
<1> QED BY <1>3, <1>4, <1>5, <1>6, <1>7, <1>8

LEMMA WriteOnDeadHandleType == ASSUME TypeInv, WriteOnDeadHandle PROVE TypeInv'
<1> USE DEF TypeInv
<1>1. /\ pc = "write" /\ request = "none" /\ open' = open
      /\ UNCHANGED <<progress, buffers, state_file, saving, present, fd>>
  BY DEF WriteOnDeadHandle, ControlOK
<1>2. BuffersOK'
  BY <1>1 DEF BuffersOK, buffers
<1>3. CASE rounds_completed = 0
  <2>1. /\ Fault /\ Condemn /\ RestartSlice
        /\ \/ pc' = "wait" /\ request' = "seek"
           \/ pc' = "seek" /\ request' = "none"
    BY <1>1, <1>3 DEF WriteOnDeadHandle, Wait
  <2>2. MapOK' /\ MediumOK'
    BY <2>1, CondemnType, BlockFacts
  <2>3. /\ PlaceOK' /\ Aligned'
        /\ block' = get_slice_start(slice') /\ cur' = block' /\ written' = 0
    BY <1>1, <2>1, RestartSliceType
  <2>4. ControlOK'
    BY <1>1, <2>1, FaultType DEF ControlOK, progress
  <2>5. FileInv'
    BY <1>1, <2>1 DEF FileInv, Saved, buffers
  <2>6. Turns'
    BY <1>1, <2>1, <2>3 DEF Turns, InRound, InSlice, progress
  <2>7. Generations'
    BY <1>1, <2>1, FaultType, GenerationsKept DEF progress, InRound, InSlice
  <2> QED BY <1>2, <2>2, <2>3, <2>4, <2>5, <2>6, <2>7
<1>4. CASE rounds_completed # 0
  <2>1. Still /\ faults' = faults /\ pc' = "wait" /\ request' = "write"
    BY <1>1, <1>4 DEF WriteOnDeadHandle, Wait, Still
  <2>2. ControlOK'
    BY <1>1, <2>1 DEF ControlOK, progress
  <2>3. FileInv'
    BY <2>1, StillType DEF FileInv
  <2>4. Turns'
    BY <1>1, <2>1, StillType DEF Turns, InRound, InSlice, Still, place, progress
  <2>5. Generations'
    BY <1>1, <2>1, NoFaultType, GenerationsKept DEF progress, InRound, InSlice
  <2> QED BY <1>1, <2>1, <2>2, <2>3, <2>4, <2>5, StillType DEF PlaceOK
<1> QED BY <1>3, <1>4

LEMMA ResetTypeInv == ASSUME TypeInv, Reset PROVE TypeInv'
<1> USE DEF TypeInv
<1>1. /\ pc = "write" /\ request = "none" /\ pc' = "reset_search" /\ request' = "none"
      /\ Still /\ Fault /\ fd' = "dead" /\ open' = open
  BY DEF Reset, Still, ControlOK
<1>2. ControlOK'
  BY <1>1, FaultType DEF ControlOK, Still, progress
<1>3. Turns'
  BY <1>1, StillType DEF Turns, InRound, InSlice, Still, place, progress
<1>4. Generations'
  BY <1>1, FaultType, GenerationsKept DEF Still, progress, InRound, InSlice
<1>5. FileInv'
  BY <1>1, StillType DEF FileInv
<1> QED BY <1>1, <1>2, <1>3, <1>4, <1>5, StillType DEF PlaceOK

LEMMA ResetSearchType == ASSUME TypeInv, ResetSearch PROVE TypeInv'
<1> USE DEF TypeInv
<1>1. /\ pc = "reset_search" /\ request = "none" /\ open' = open
      /\ UNCHANGED <<progress, buffers, map, state_file, saving, present>>
  BY DEF ResetSearch, ControlOK
\* A device is taken.
<1>2. ASSUME NEW d \in present, Take(d, "seek"), request' = request, faults' = faults,
             IF d = "own" THEN WriteAgain ELSE UNCHANGED <<medium, place>>
      PROVE  TypeInv'
  <2>1. fd' \in Devices /\ pc' = (IF d = "own" THEN "seek" ELSE "lost")
    BY <1>2 DEF Take, ControlOK
  <2>2. /\ MediumOK' /\ PlaceOK' /\ Aligned'
        /\ pc' = "seek" => block' = get_slice_start(slice') /\ cur' = block' /\ written' = 0
    <3>1. CASE d = "own"
      BY <1>1, <1>2, <3>1, WriteAgainType
    <3>2. CASE d # "own"
      <4>1. Still
        BY <1>1, <1>2, <3>2 DEF Still
      <4> QED BY <1>1, <2>1, <3>2, <4>1, StillType DEF PlaceOK
    <3> QED BY <3>1, <3>2
  <2>3. ControlOK'
    BY <1>1, <1>2, <2>1 DEF ControlOK, progress
  <2>4. BuffersOK' /\ MapOK' /\ FileInv'
    BY <1>1, <2>1 DEF BuffersOK, MapOK, FileInv, Saved, buffers, map
  <2>5. Turns'
    BY <1>1, <1>2, <2>1, <2>2 DEF Turns, InRound, InSlice, progress
  <2>6. Generations'
    BY <1>1, <1>2, <2>1, NoFaultType, GenerationsKept DEF progress, InRound, InSlice
  <2> QED BY <2>2, <2>3, <2>4, <2>5, <2>6
\* None is, and the write waits or the test ends.
<1>3. ASSUME Fault \/ faults' = faults,
             Wait("write") \/ End, UNCHANGED <<fd, medium, place>>
      PROVE  TypeInv'
  <2>1. Still /\ fd' = fd
    BY <1>1, <1>3 DEF Still
  <2>2. (pc' = "wait" /\ request' = "write") \/ (pc' = "ended" /\ request' = "none")
    BY <1>1, <1>3 DEF Wait, End
  <2>3. faults' \in 0 .. MaxFaults /\ faults' \in Nat /\ faults <= faults'
    BY <1>3, FaultType, NoFaultType
  <2>4. ControlOK'
    BY <2>1, <2>2, <2>3 DEF ControlOK, Still, progress
  <2>5. Turns'
    BY <1>1, <2>1, <2>2, StillType DEF Turns, InRound, InSlice, Still, place, progress
  <2>6. Generations'
    BY <1>1, <2>2, <2>3, GenerationsKept DEF progress, InRound, InSlice
  <2>7. FileInv'
    BY <2>1, <2>2, StillType DEF FileInv
  <2> QED BY <1>1, <2>1, <2>4, <2>5, <2>6, <2>7, StillType DEF PlaceOK
\* There are several.
<1>4. ASSUME Wait("seek") \/ End, RestartSlice, UNCHANGED <<fd, medium, faults>>
      PROVE  TypeInv'
  <2>1. (pc' = "wait" /\ request' = "seek") \/ (pc' = "ended" /\ request' = "none")
    BY <1>1, <1>4 DEF Wait, End
  <2>2. /\ PlaceOK' /\ Aligned'
        /\ block' = get_slice_start(slice') /\ cur' = block' /\ written' = 0
    BY <1>1, <1>4, RestartSliceType
  <2>3. ControlOK'
    BY <1>1, <1>4, <2>1 DEF ControlOK, progress
  <2>4. BuffersOK' /\ MapOK' /\ MediumOK' /\ FileInv'
    BY <1>1, <1>4, <2>1
    DEF BuffersOK, MapOK, MediumOK, FileInv, Saved, buffers, map, medium
  <2>5. Turns'
    BY <1>1, <2>1, <2>2 DEF Turns, InRound, InSlice, progress
  <2>6. Generations'
    BY <1>1, <1>4, <2>1, NoFaultType, GenerationsKept DEF progress, InRound, InSlice
  <2> QED BY <2>2, <2>3, <2>4, <2>5, <2>6
<1> QED BY <1>2, <1>3, <1>4 DEF ResetSearch

LEMMA AnnouncedType ==
    ASSUME TypeInv, NEW d \in Devices, Announced(d) PROVE TypeInv'
<1> USE DEF TypeInv
<1>1. /\ pc = "wait" /\ request # "none" /\ open' = open
      /\ present' = present \cup {d}
      /\ UNCHANGED <<progress, buffers, map, state_file, saving, open>>
  BY DEF Announced, ControlOK
<1>2. present' \subseteq Devices
  BY <1>1 DEF ControlOK
<1>3. ASSUME Take(d, IF request = "write" THEN "seek" ELSE request),
             IF d = "own" /\ request = "write" THEN WriteAgain
             ELSE UNCHANGED <<medium, place>>,
             request' = "none", faults' = faults
      PROVE  TypeInv'
  <2>1. /\ fd' \in Devices
        /\ pc' = (IF d # "own" THEN "lost" ELSE IF request = "write" THEN "seek" ELSE request)
    BY <1>3 DEF Take
  <2>2. /\ MediumOK' /\ PlaceOK' /\ Aligned' /\ slice' = slice
        /\ pc' = "seek" => block' = get_slice_start(slice') /\ cur' = block' /\ written' = 0
    <3>1. CASE d = "own" /\ request = "write"
      BY <1>1, <1>3, <3>1, WriteAgainType
    <3>2. CASE ~(d = "own" /\ request = "write")
      <4>1. UNCHANGED <<medium, place>>
        BY <1>3, <3>2
      <4>2. MediumOK' /\ PlaceOK' /\ Aligned' /\ slice' = slice
        BY <1>1, <4>1 DEF medium, place, MediumOK, PlaceOK, BlockEnd, Turns, Aligned
      <4>3. pc' = "seek" => request = "seek"
        BY <2>1, <3>2
      <4> QED BY <4>1, <4>2, <4>3 DEF place, Turns
    <3> QED BY <3>1, <3>2
  <2>3. ControlOK'
    BY <1>1, <1>2, <1>3, <2>1 DEF ControlOK, progress
  <2>4. BuffersOK' /\ MapOK' /\ FileInv'
    BY <1>1, <2>1 DEF BuffersOK, MapOK, FileInv, Saved, buffers, map, ControlOK
  <2>5. Turns'
    BY <1>1, <1>3, <2>1, <2>2 DEF Turns, InRound, InSlice, progress, ControlOK
  <2>6. Generations'
    BY <1>1, <1>3, <2>1, NoFaultType, GenerationsKept
    DEF progress, InRound, InSlice, ControlOK
  <2> QED BY <2>2, <2>3, <2>4, <2>5, <2>6
<1>4. ASSUME Fault \/ faults' = faults, UNCHANGED <<pc, request, fd, medium, place>>
      PROVE  TypeInv'
  <2>1. faults' \in 0 .. MaxFaults /\ faults' \in Nat /\ faults <= faults'
    BY <1>4, FaultType, NoFaultType
  <2>2. ControlOK'
    BY <1>1, <1>2, <1>4, <2>1 DEF ControlOK, progress
  <2>3. BuffersOK' /\ MapOK' /\ MediumOK' /\ PlaceOK' /\ FileInv'
    BY <1>1, <1>4 DEF BuffersOK, MapOK, MediumOK, PlaceOK, BlockEnd, FileInv, Saved,
                      buffers, map, medium, place
  <2>4. Turns'
    BY <1>1, <1>4 DEF Turns, InRound, InSlice, Aligned, progress, place
  <2>5. Generations'
    BY <1>1, <1>4, <2>1, GenerationsKept DEF progress, InRound, InSlice
  <2> QED BY <2>2, <2>3, <2>4, <2>5
<1> QED BY <1>3, <1>4 DEF Announced

LEMMA ReadPhaseType == ASSUME TypeInv, ReadPhase PROVE TypeInv'
<1> USE DEF TypeInv
<1>1. /\ pc = "read" /\ request = "none" /\ pc' = "round" /\ request' = "none"
      /\ rounds_completed' = rounds_completed + 1 /\ rounds_completed < MaxRounds
      /\ bad' = bad \cup {s \in Sectors : content[s] # Datum(s)}
      /\ UNCHANGED <<generation, middle_of_device, buffers, unusable, state_file,
                     saving, present, fd, medium, place, faults, open>>
  BY DEF ReadPhase, ControlOK, Turns, InRound
<1>2. ControlOK'
  BY <1>1, IdentityAssumption DEF ControlOK
<1>3. BuffersOK' /\ MapOK' /\ MediumOK' /\ PlaceOK' /\ FileInv'
  BY <1>1 DEF BuffersOK, MapOK, MediumOK, PlaceOK, BlockEnd, FileInv, Saved,
              buffers, medium, place
<1>4. Turns'
  BY <1>1 DEF Turns, InRound, InSlice, Aligned, place
<1>5. Generations'
  <2> DEFINE before == MaxRounds * faults
  <2>1. generation <= before + rounds_completed + 1 /\ generation <= before + MaxRounds
    BY <1>1 DEF Generations, InRound
  <2>2. before \in Nat /\ rounds_completed \in Nat
    BY IdentityAssumption DEF ControlOK
  <2>3. before' = before /\ ~InRound'
    BY <1>1 DEF InRound, InSlice
  <2> HIDE DEF before
  <2>4. generation' <= before' + MaxRounds /\ generation' <= before' + rounds_completed'
    BY <1>1, <2>1, <2>2, <2>3
  <2> QED BY <1>1, <2>3, <2>4 DEF Generations, before
<1> QED BY <1>2, <1>3, <1>4, <1>5

LEMMA ReadWaitsType == ASSUME TypeInv, ReadWaits PROVE TypeInv'
<1> USE DEF TypeInv
<1>1. /\ pc = "read" /\ request = "none" /\ pc' = "wait" /\ request' = "read"
      /\ Still /\ faults' = faults /\ fd' = fd /\ open' = open
  BY DEF ReadWaits, Still, Wait, ControlOK
<1>2. ControlOK'
  BY <1>1 DEF ControlOK, Still, progress
<1>3. Turns'
  BY <1>1, StillType DEF Turns, InRound, InSlice, Still, place, progress
<1>4. Generations'
  BY <1>1, NoFaultType, GenerationsKept DEF Still, progress, InRound, InSlice
<1>5. FileInv'
  BY <1>1, StillType DEF FileInv
<1> QED BY <1>1, <1>2, <1>3, <1>4, <1>5, StillType DEF PlaceOK

LEMMA CrashType == ASSUME TypeInv, Crash PROVE TypeInv'
<1> USE DEF TypeInv
<1>1. /\ Loadable(state_file) /\ Fault /\ pc' = "off" /\ request' = "none" /\ fd' = "dead"
      /\ open' = (IF saving THEN open ELSE Slices) /\ Still
  BY DEF Crash, Still
<1>2. ControlOK'
  BY <1>1, FaultType DEF ControlOK, Still, progress
<1>3. Turns'
  BY <1>1, StillType DEF Turns, InRound, InSlice
<1>4. Generations'
  <2>1. generation <= MaxRounds * faults + MaxRounds /\ faults' = faults + 1
    BY <1>1, FaultType DEF Generations
  <2>2. MaxRounds \in Nat /\ faults \in Nat
    BY IdentityAssumption DEF ControlOK
  <2>3. MaxRounds * faults' = MaxRounds * faults + MaxRounds /\ MaxRounds * faults \in Nat
    BY <2>1, <2>2
  <2> DEFINE after == MaxRounds * faults'
  <2>4. generation' <= after /\ after \in Nat
    BY <1>1, <2>1, <2>2, <2>3 DEF Still, progress
  <2>5. ~InRound' /\ pc' = "off" /\ request' = "none"
    BY <1>1 DEF InRound, InSlice
  <2> HIDE DEF after
  <2>6. generation' <= after + MaxRounds
    BY <2>2, <2>4, <1>2 DEF ControlOK
  <2> QED BY <2>4, <2>5, <2>6 DEF Generations, after
<1>5. FileInv'
  <2>1. state_file # NoFile
    BY <1>1 DEF Loadable, NoFile
  <2>2. state_file' = state_file /\ saving' = saving /\ saving \in BOOLEAN
    BY <1>1 DEF Still, ControlOK
  <2>3. saving => Saved'
    BY <2>1, <2>2, StillType, <1>1
  <2>4. Loadable(state_file)' /\ (open' = Slices \/ Saved')
    BY <1>1, <2>2, <2>3 DEF Loadable
  <2>5. (state_file' = NoFile \/ state_file' \in Files) /\ (saving' => state_file' = NoFile \/ Saved')
    BY <1>1, StillType
  <2> QED BY <2>4, <2>5 DEF FileInv
<1>6. open' \subseteq Slices
  BY <1>1 DEF PlaceOK
<1> QED BY <1>1, <1>2, <1>3, <1>4, <1>5, <1>6, StillType

LEMMA LoadType == ASSUME TypeInv, Load PROVE TypeInv'
<1> USE DEF TypeInv
<1>1. /\ pc = "off" /\ request = "none" /\ pc' = "search" /\ request' = "none"
      /\ rounds_completed' = state_file.rounds
      /\ bod_buffer' = state_file.bod /\ mod_buffer' = state_file.mod
      /\ bad' = state_file.bad /\ spoilt' = state_file.spoilt
      /\ unusable' = {} /\ saving' = TRUE
      /\ UNCHANGED <<generation, middle_of_device, state_file, present, fd, medium, place,
                     faults, open>>
  BY DEF Load, ControlOK
<1>2. state_file \in Files /\ state_file.rounds \in 0 .. MaxRounds
  <2>1. state_file # NoFile
    BY <1>1 DEF FileInv, Loadable, NoFile
  <2>2. state_file \in Files
    BY <2>1 DEF FileInv
  <2> QED BY <2>2 DEF Files
<1>3. ControlOK'
  BY <1>1, <1>2 DEF ControlOK
<1>4. BuffersOK' /\ MapOK'
  BY <1>1, <1>2 DEF BuffersOK, MapOK, Files
<1>5. MediumOK' /\ PlaceOK'
  BY <1>1 DEF MediumOK, PlaceOK, BlockEnd, medium, place
<1>6. FileInv'
  BY <1>1, <1>2 DEF FileInv, Saved
<1>7. Turns'
  BY <1>1 DEF Turns, InRound, InSlice, Aligned, place
<1>8. Generations'
  <2> DEFINE before == MaxRounds * faults
  <2>1. generation <= before
    BY <1>1 DEF Generations
  <2>2. before \in Nat /\ before' = before /\ ~InRound' /\ MaxRounds \in Nat /\ generation \in Nat
    BY <1>1, IdentityAssumption DEF ControlOK, InRound, InSlice, MaxGeneration
  <2> HIDE DEF before
  <2>3. generation' <= before' + MaxRounds /\ generation' <= before' + rounds_completed'
    BY <1>1, <1>2, <2>1, <2>2
  <2> QED BY <1>1, <2>2, <2>3 DEF Generations, before
<1> QED BY <1>3, <1>4, <1>5, <1>6, <1>7, <1>8

LEMMA StartupSearchType == ASSUME TypeInv, StartupSearch PROVE TypeInv'
<1> USE DEF TypeInv
<1>1. pc = "search" /\ request = "none" /\ Still /\ open' = open
  BY DEF StartupSearch, Still, ControlOK
<1>2. /\ pc' \in {"round", "lost", "ended", "wait"}
      /\ \/ pc' = "wait" /\ request' = "round"
         \/ pc' # "wait" /\ request' = "none"
      /\ fd' \in Devices \cup {"dead"}
      /\ Fault \/ faults' = faults
  <2>1. ASSUME NEW d \in present, Take(d, "round"), UNCHANGED <<request, faults>>
        PROVE  /\ pc' \in {"round", "lost"} /\ request' = "none"
               /\ fd' \in Devices /\ faults' = faults
    BY <1>1, <2>1 DEF Take, ControlOK
  <2>2. ASSUME Wait("round") \/ End
        PROVE  \/ pc' = "wait" /\ request' = "round"
               \/ pc' = "ended" /\ request' = "none"
    BY <1>1, <2>2 DEF Wait, End
  <2>3. fd \in Devices \cup {"dead"}
    BY DEF ControlOK
  <2> QED BY <2>1, <2>2, <2>3 DEF StartupSearch
<1>3. faults' \in 0 .. MaxFaults /\ faults' \in Nat /\ faults <= faults'
  BY <1>2, FaultType, NoFaultType
<1>4. ControlOK'
  BY <1>1, <1>2, <1>3 DEF ControlOK, Still, progress
<1>5. Turns'
  BY <1>1, <1>2, StillType DEF Turns, InRound, InSlice
<1>6. Generations'
  BY <1>1, <1>2, <1>3, GenerationsKept DEF Still, progress, InRound, InSlice
<1>7. FileInv'
  BY <1>1, <1>2, StillType DEF FileInv
<1> QED BY <1>1, <1>4, <1>5, <1>6, <1>7, StillType DEF PlaceOK

\* What happens around the program leaves its variables, and what was stored.
LEMMA EnvironmentType ==
    ASSUME TypeInv, UNCHANGED <<pc, request, progress, buffers, map, state_file, saving,
                                stored, place, open>>,
           present' \subseteq Devices, fd' \in Devices \cup {"dead"},
           Fault \/ faults' = faults,
           content' \in [Sectors -> Data], intact' \subseteq intact
    PROVE  TypeInv'
<1> USE DEF TypeInv
<1>1. faults' \in 0 .. MaxFaults /\ faults' \in Nat /\ faults <= faults'
  BY FaultType, NoFaultType
<1>2. ControlOK'
  BY <1>1 DEF ControlOK, progress
<1>3. BuffersOK' /\ MapOK' /\ MediumOK' /\ PlaceOK' /\ FileInv'
  BY DEF BuffersOK, MapOK, MediumOK, PlaceOK, BlockEnd, FileInv, Saved,
         buffers, map, place
<1>4. Turns'
  BY DEF Turns, InRound, InSlice, Aligned, progress, place
<1>5. Generations'
  <2> DEFINE before == MaxRounds * faults
             after == MaxRounds * faults'
  <2>1. before \in Nat /\ after \in Nat /\ before <= after
    <3>1. MaxRounds \in Nat /\ faults \in Nat
      BY IdentityAssumption DEF ControlOK
    <3> QED BY <1>1, <3>1, ProductBelow
  <2>2. /\ MaxRounds \in Nat /\ rounds_completed \in Nat /\ generation \in Nat
        /\ InRound' <=> InRound
    BY IdentityAssumption DEF ControlOK, MaxGeneration, InRound, InSlice
  <2>3. /\ generation <= before + MaxRounds
        /\ pc = "off" => generation <= before
        /\ pc \in {"round", "search"} \/ request = "round"
              => generation <= before + rounds_completed
        /\ InRound => generation <= before + rounds_completed + 1
    BY DEF Generations
  <2> HIDE DEF before, after
  <2>4. /\ generation' <= after + MaxRounds
        /\ pc' = "off" => generation' <= after
        /\ pc' \in {"round", "search"} \/ request' = "round"
              => generation' <= after + rounds_completed'
        /\ InRound' => generation' <= after + rounds_completed' + 1
    BY <2>1, <2>2, <2>3 DEF progress
  <2> QED BY <2>4 DEF Generations, after
<1> QED BY <1>2, <1>3, <1>4, <1>5

LEMMA AttachType == ASSUME TypeInv, NEW d \in Devices, Attach(d) PROVE TypeInv'
  BY EnvironmentType DEF Attach, medium, TypeInv, ControlOK, MediumOK

LEMMA DetachType == ASSUME TypeInv, NEW d \in Devices, Detach(d) PROVE TypeInv'
  BY EnvironmentType DEF Detach, medium, TypeInv, ControlOK, MediumOK

LEMMA DecayType == ASSUME TypeInv, Decay PROVE TypeInv'
<1>1. content' \in [Sectors -> Data] /\ intact' \subseteq intact
  BY ConstantsAreData DEF Decay, TypeInv, MediumOK
<1> QED BY <1>1, EnvironmentType DEF Decay, TypeInv, ControlOK

LEMMA NextTypeInv == TypeInv /\ [Next]_vars => TypeInv'
<1> SUFFICES ASSUME TypeInv, [Next]_vars PROVE TypeInv'
  OBVIOUS
<1>1. CASE UNCHANGED vars
  BY <1>1, EnvironmentType DEF vars, medium, TypeInv, ControlOK, MediumOK
<1>2. CASE \E d \in Devices : Announced(d) \/ Attach(d) \/ Detach(d)
  BY <1>2, AnnouncedType, AttachType, DetachType
<1>3. CASE \/ StartRound \/ SliceSeek \/ WriteRun \/ NoWrite \/ EndTurn \/ SkipSeekWaits
           \/ LateUpdate \/ WriteFails \/ WriteOnDeadHandle
  BY <1>3, StartRoundType, SliceSeekType, WriteRunType, NoWriteType, EndTurnType,
     SkipSeekWaitsType, LateUpdateType, WriteFailsType, WriteOnDeadHandleType
<1>4. CASE \/ Reset \/ ResetSearch \/ ReadPhase \/ ReadWaits \/ Crash \/ Load
           \/ StartupSearch \/ Decay
  BY <1>4, ResetTypeInv, ResetSearchType, ReadPhaseType, ReadWaitsType, CrashType,
     LoadType, StartupSearchType, DecayType
<1> QED BY <1>1, <1>2, <1>3, <1>4 DEF Next

LEMMA TypeInvAlways == Spec => []TypeInv
  BY InitTypeInv, NextTypeInv, PTL DEF Spec

(* The variables keep their types: the place of a write stays in its slice   *)
(* and its block through skips, failures, reconnects and restarts, and what  *)
(* is not to be used is known to be bad.                                     *)
THEOREM IdentityTypeCorrect == Spec => []TypeOK
<1>1. TypeInv => TypeOK
  BY TypeParts DEF TypeInv
<1> QED BY <1>1, TypeInvAlways, PTL

----------------------------------------------------------------------------
(* What the buffers know.  An area is followed if no write to it goes      *)
(* unseen: the beginning always is, the middle if MiddleSeen.              *)

Followed == {a \in {"bod", "mod"} : a = "mod" => MiddleSeen}

\* The sector place i of area a is for, and what the place holds.
At(a, i)  == IF a = "bod" THEN i ELSE middle_of_device + i
Buffer(a) == IF a = "bod" THEN bod_buffer ELSE mod_buffer

Opened(s) == \E k \in open : s \in SliceSectors(k)

\* A place is up to date with its sector, if that was stored and the place was not
\* filled from behind a block.
Kept(a, i) ==
    \/ At(a, i) \notin stored
    \/ i \in spoilt[a]
    \/ /\ Carries(Buffer(a)[i])
       /\ At(a, i) \in intact => content[At(a, i)] = Buffer(a)[i]

\* Outside the slices that were begun, and in what the pass over a slice has passed,
\* every place is up to date.
KeptInv == \A a \in Followed, i \in Offsets : Opened(At(a, i)) \/ Kept(a, i)

Passed == pc \in {"write", "update"} =>
            \A a \in Followed, i \in Offsets :
              At(a, i) \in get_slice_start(slice) .. cur - 1 => Kept(a, i)

\* What this turn has written is still there.
Fresh == pc = "update" =>
           \A s \in cur .. cur + written - 1 : s \in intact => content[s] = Datum(s)

KnownInv == KeptInv /\ Passed /\ Fresh /\ unusable \cap stored = {}

LEMMA AtIsSector ==
    ASSUME ControlOK, NEW a \in {"bod", "mod"}, NEW i \in Offsets
    PROVE  At(a, i) \in Sectors /\ At(a, i) \in Nat
<1>1. i \in Nat /\ ModSource(i, i) = ModSource(i, i) /\ NumSectors \in Nat
  BY IdentityAssumption DEF Offsets
<1>2. middle_of_device + i \in Sectors /\ i \in Sectors
  BY <1>1, ModSourceIs
<1> QED BY <1>1, <1>2 DEF At, Sectors

LEMMA NothingWritten == \A c, w : c \in Nat /\ w = 0 => c .. c + w - 1 = {}
  OBVIOUS

\* Steps that neither write nor fill a place.
LEMMA StillKnown ==
    ASSUME KnownInv, UNCHANGED <<medium, buffers, middle_of_device, unusable>>,
           open \subseteq open',
           pc' \in {"write", "update"} =>
             \/ pc \in {"write", "update"} /\ UNCHANGED place
             \/ get_slice_start(slice') = cur' /\ cur' \in Nat,
           pc' = "update" =>
             \/ pc = "update" /\ UNCHANGED place /\ generation' = generation
             \/ written' = 0 /\ cur' \in Nat
    PROVE  KnownInv'
<1>1. \A a \in Followed, i \in Offsets :
        /\ At(a, i)' = At(a, i)
        /\ Kept(a, i) => Kept(a, i)'
  BY DEF At, Kept, Buffer, medium, buffers
<1>2. KeptInv'
  BY <1>1 DEF KnownInv, KeptInv, Opened
<1>3. Passed'
  <2>1. CASE pc' \in {"write", "update"} /\ pc \in {"write", "update"} /\ UNCHANGED place
    BY <1>1, <2>1 DEF KnownInv, Passed, place
  <2>2. CASE get_slice_start(slice') = cur' /\ cur' \in Nat
    BY <2>2 DEF Passed
  <2>3. CASE pc' \notin {"write", "update"}
    BY <2>3 DEF Passed
  <2> QED BY <2>1, <2>2, <2>3
<1>4. Fresh'
  <2>1. CASE pc' = "update" /\ pc = "update" /\ UNCHANGED place /\ generation' = generation
    BY <2>1 DEF KnownInv, Fresh, place, medium, Datum
  <2>2. CASE written' = 0 /\ cur' \in Nat
    <3>1. cur' .. cur' + written' - 1 = {}
      BY <2>2, NothingWritten
    <3> QED BY <3>1 DEF Fresh
  <2>3. CASE pc' # "update"
    BY <2>3 DEF Fresh
  <2> QED BY <2>1, <2>2, <2>3
<1>5. unusable' \cap stored' = {}
  BY DEF KnownInv, medium
<1> QED BY <1>2, <1>3, <1>4, <1>5 DEF KnownInv

\* A write is to the slice in hand.
LEMMA StoreKnown ==
    ASSUME TypeInv, KnownInv, slice \in open,
           NEW S, S \subseteq SliceSectors(slice), S \cap unusable = {}, Store(S),
           UNCHANGED <<buffers, middle_of_device, unusable, open>>
    PROVE  /\ KeptInv' /\ unusable' \cap stored' = {}
           /\ \A a \in Followed, i \in Offsets :
                /\ At(a, i)' = At(a, i)
                /\ At(a, i) \notin S /\ Kept(a, i) => Kept(a, i)'
<1>1. \A a \in Followed, i \in Offsets :
        /\ At(a, i)' = At(a, i)
        /\ At(a, i) \notin S /\ Kept(a, i) => Kept(a, i)'
  <2> SUFFICES ASSUME NEW a \in Followed, NEW i \in Offsets
               PROVE  /\ At(a, i)' = At(a, i)
                      /\ At(a, i) \notin S /\ Kept(a, i) => Kept(a, i)'
    OBVIOUS
  <2>1. At(a, i)' = At(a, i) /\ Buffer(a)' = Buffer(a) /\ spoilt' = spoilt
    BY DEF At, Buffer, buffers
  <2>2. At(a, i) \in Sectors
    BY AtIsSector DEF Followed, TypeInv
  <2>3. ASSUME At(a, i) \notin S
        PROVE  /\ content'[At(a, i)] = content[At(a, i)]
               /\ At(a, i) \in stored' <=> At(a, i) \in stored
               /\ At(a, i) \in intact' <=> At(a, i) \in intact
    BY <2>2, <2>3 DEF Store
  <2> QED BY <2>1, <2>3 DEF Kept
<1>2. KeptInv'
  <2> SUFFICES ASSUME NEW a \in Followed, NEW i \in Offsets, ~Opened(At(a, i))
               PROVE  Kept(a, i)'
    BY <1>1 DEF KeptInv, Opened
  <2>1. At(a, i) \notin S
    BY DEF Opened
  <2> QED BY <1>1, <2>1 DEF KnownInv, KeptInv
<1>3. unusable' \cap stored' = {}
  BY DEF KnownInv, Store
<1> QED BY <1>1, <1>2, <1>3

\* A write that fails leaves all but its sector, and nothing is stored there any more.
LEMMA CondemnKeeps ==
    ASSUME TypeInv, Condemn, UNCHANGED buffers, middle_of_device' = middle_of_device,
           NEW a \in Followed, NEW i \in Offsets
    PROVE  /\ At(a, i)' = At(a, i)
           /\ At(a, i) = cur \/ Kept(a, i) => Kept(a, i)'
<1>1. At(a, i)' = At(a, i) /\ Buffer(a)' = Buffer(a) /\ spoilt' = spoilt
  BY DEF At, Buffer, buffers
<1>2. At(a, i) \in Sectors
  BY AtIsSector DEF Followed, TypeInv
<1>3. ASSUME At(a, i) # cur
      PROVE  /\ content'[At(a, i)] = content[At(a, i)]
             /\ At(a, i) \in stored' <=> At(a, i) \in stored
             /\ At(a, i) \in intact' <=> At(a, i) \in intact
  BY <1>2, <1>3 DEF Condemn, TypeInv, MediumOK
<1>4. cur \notin stored'
  BY DEF Condemn
<1> QED BY <1>1, <1>3, <1>4 DEF Kept

\* A pass that begins, or ends with nothing known of it, leaves no claim.
LEMMA PassBegins ==
    ASSUME KeptInv', (unusable \cap stored)' = {}, pc' \notin {"write", "update"}
    PROVE  KnownInv'
  BY DEF KnownInv, Passed, Fresh

\* Where no block that straddles the middle is longer than an area and a sector.
LEMMA StraddlingBlock ==
    ASSUME TypeInv, MiddleSeen, block < NumSectors \div 2, BlockEnd > NumSectors \div 2
    PROVE  BlockEnd - block <= AreaSectors + 1
<1>1. slice \in Slices /\ block \in SliceSectors(slice)
  BY DEF TypeInv, PlaceOK
<1>2. block \in BlockStarts(slice)
  <2>1. PICK k \in Nat : block = get_slice_start(slice) + SectorsPerBlock * k
    BY DEF TypeInv, Turns, Aligned
  <2>2. /\ get_slice_start(slice) \in Nat /\ last_sector(slice) \in Nat
        /\ last_sector(slice) <= NumSectors /\ NumSectors \in Nat
        /\ block < last_sector(slice)
        /\ SectorsPerBlock \in Nat /\ 1 <= SectorsPerBlock
    BY <1>1, SliceGeometry, BlockFacts, IdentityAssumption DEF TypeInv
  <2>3. k * 1 <= k * SectorsPerBlock /\ k * SectorsPerBlock \in Nat
    BY <2>2, ProductBelow
  <2>4. SectorsPerBlock * k = k * SectorsPerBlock
    BY <2>2
  <2> DEFINE p == k * SectorsPerBlock
  <2>5. k <= p /\ p \in Nat /\ block = get_slice_start(slice) + p
    BY <2>1, <2>3, <2>4
  <2> HIDE DEF p
  <2>6. k \in 0 .. NumSectors
    BY <2>2, <2>5
  <2> QED BY <1>1, <2>1, <2>6 DEF BlockStarts
<1>3. BlockEnd = Min(block + SectorsPerBlock, last_sector(slice))
  BY BlockFacts, IdentityAssumption DEF TypeInv, BlockEnd, Min
<1> QED BY <1>1, <1>2, <1>3 DEF MiddleSeen

\* The places of area a that an update after n sectors fills.
Filled(a, n) == IF a = "bod" THEN BodPlaces(cur, n) ELSE ModPlaces(cur, n)

\* A place that is filled is for a sector at or behind the one the turn began at.
\* It gets that sector's data, or is behind the block and is known to be.
LEMMA UpdateFills ==
    ASSUME TypeInv, NEW n \in Nat, update_bod_mod_buffers(cur, n),
           UNCHANGED middle_of_device,
           NEW a \in {"bod", "mod"}, NEW i \in Offsets
    PROVE  /\ At(a, i)' = At(a, i)
           /\ i \in Filled(a, n) =>
                /\ At(a, i) >= cur
                /\ IF At(a, i) < BlockEnd THEN Buffer(a)'[i] = Datum(At(a, i))
                   ELSE i \in spoilt'[a]
           /\ i \notin Filled(a, n) =>
                Buffer(a)'[i] = Buffer(a)[i] /\ (i \in spoilt[a] => i \in spoilt'[a])
<1> DEFINE bods == BodPlaces(cur, n)
           mods == ModPlaces(cur, n)
<1>1. PICK behind \in {Zero, Other} :
        /\ bod_buffer' = [j \in Offsets |-> IF j \in bods THEN InBlock(j, behind)
                                            ELSE bod_buffer[j]]
        /\ mod_buffer' = [j \in Offsets |->
                            IF j \in mods THEN InBlock(ModSource(cur, j), behind)
                            ELSE mod_buffer[j]]
  BY DEF update_bod_mod_buffers
<1>2. spoilt' = [bod |-> (spoilt.bod \ bods) \cup {j \in bods : j >= BlockEnd},
                 mod |-> (spoilt.mod \ mods)
                            \cup {j \in mods : ModSource(cur, j) >= BlockEnd}]
  BY DEF update_bod_mod_buffers
<1>3. /\ cur \in Nat /\ BlockEnd \in Nat /\ middle_of_device \in Nat
      /\ i \in Nat /\ i < AreaSectors /\ AreaSectors \in Nat
      /\ ModSource(cur, i) = middle_of_device + i
  BY BlockFacts, ModSourceIs, IdentityAssumption DEF TypeInv, ControlOK, Offsets
<1>4. CASE a = "bod"
  <2>1. At(a, i) = i /\ At(a, i)' = i /\ Filled(a, n) = bods
    BY <1>4 DEF At, Filled
  <2>2. Buffer(a)[i] = bod_buffer[i]
        /\ Buffer(a)'[i] = (IF i \in bods THEN InBlock(i, behind) ELSE bod_buffer[i])
    BY <1>1, <1>4 DEF Buffer
  <2>3. i \in bods => i >= cur
    BY <1>3 DEF BodPlaces, Min
  <2>4. /\ i \in bods /\ i >= BlockEnd => i \in spoilt'[a]
        /\ i \notin bods /\ i \in spoilt[a] => i \in spoilt'[a]
    BY <1>2, <1>4
  <2> HIDE DEF bods
  <2> QED BY <1>3, <2>1, <2>2, <2>3, <2>4 DEF InBlock
<1>5. CASE a = "mod"
  <2>1. At(a, i) = middle_of_device + i /\ At(a, i)' = At(a, i) /\ Filled(a, n) = mods
    BY <1>5 DEF At, Filled
  <2>2. Buffer(a)[i] = mod_buffer[i]
        /\ Buffer(a)'[i] = (IF i \in mods THEN InBlock(middle_of_device + i, behind)
                            ELSE mod_buffer[i])
    BY <1>1, <1>3, <1>5 DEF Buffer
  <2>3. i \in mods => middle_of_device + i >= cur
    BY <1>3 DEF ModPlaces, Min
  <2>4. /\ i \in mods /\ middle_of_device + i >= BlockEnd => i \in spoilt'[a]
        /\ i \notin mods /\ i \in spoilt[a] => i \in spoilt'[a]
    BY <1>2, <1>3, <1>5
  <2> HIDE DEF mods
  <2> QED BY <1>3, <2>1, <2>2, <2>3, <2>4 DEF InBlock
<1> QED BY <1>4, <1>5

\* What is before the turn or behind the block stays up to date.
LEMMA UpdateKeeps ==
    ASSUME TypeInv, NEW n \in Nat, update_bod_mod_buffers(cur, n),
           UNCHANGED <<medium, middle_of_device>>,
           NEW a \in {"bod", "mod"}, NEW i \in Offsets,
           At(a, i) < cur \/ At(a, i) >= BlockEnd, Kept(a, i)
    PROVE  Kept(a, i)'
<1>1. At(a, i) \in Nat /\ cur \in Nat /\ BlockEnd \in Nat
  BY AtIsSector, BlockFacts DEF TypeInv
<1>2. /\ At(a, i)' = At(a, i) /\ content' = content /\ stored' = stored /\ intact' = intact
  BY UpdateFills DEF medium
<1>3. CASE i \in Filled(a, n)
  <2>1. i \in spoilt'[a]
    BY <1>1, <1>3, UpdateFills
  <2> QED BY <2>1 DEF Kept
<1>4. CASE i \notin Filled(a, n)
  <2>1. Buffer(a)'[i] = Buffer(a)[i] /\ (i \in spoilt[a] => i \in spoilt'[a])
    BY <1>4, UpdateFills
  <2> QED BY <1>2, <2>1 DEF Kept
<1> QED BY <1>3, <1>4

\* No sector of an area that is followed is written unseen.
LEMMA WrittenIsFilled ==
    ASSUME TypeInv, NEW a \in Followed, NEW i \in Offsets, NEW skipped \in Nat,
           cur + written + skipped <= BlockEnd,
           At(a, i) \in cur .. cur + written - 1
    PROVE  i \in Filled(a, cur + written - block + skipped)
<1> DEFINE n == cur + written - block + skipped
<1>1. /\ block \in Nat /\ cur \in Nat /\ written \in Nat /\ BlockEnd \in Nat /\ block <= cur
      /\ i \in Nat /\ i < AreaSectors /\ AreaSectors \in Nat
      /\ middle_of_device \in {NumSectors \div 2, 0} /\ NumSectors \div 2 \in Nat
  BY BlockFacts, IdentityAssumption DEF TypeInv, ControlOK, Offsets
<1>2. n \in Nat /\ cur + n >= cur + written /\ cur + n = cur - block + cur + written + skipped
  BY <1>1
<1>3. CASE a = "bod"
  <2>1. i >= cur /\ i < cur + written
    BY <1>1, <1>3 DEF At
  <2> HIDE DEF n
  <2>2. i \in BodPlaces(cur, n)
    BY <1>1, <1>2, <2>1 DEF BodPlaces, Min
  <2> QED BY <1>3, <2>2 DEF Filled, n
<1>4. CASE a = "mod"
  <2>1. MiddleSeen
    BY <1>4 DEF Followed
  <2>2. middle_of_device + i >= cur /\ middle_of_device + i < cur + written
    BY <1>1, <1>4 DEF At
  <2>3. was_mod_area_affected(cur, n)
    <3>1. CASE cur >= middle_of_device
      <4>1. cur - middle_of_device \in Offsets /\ cur = middle_of_device + (cur - middle_of_device)
        BY <1>1, <2>2, <3>1 DEF Offsets
      <4> QED BY <4>1 DEF was_mod_area_affected, InMod, Areas
    <3>2. CASE cur < middle_of_device
      <4>1. middle_of_device = NumSectors \div 2
        BY <1>1, <3>2
      <4>2. BlockEnd - block <= AreaSectors + 1
        BY <1>1, <2>1, <2>2, <3>2, <4>1, StraddlingBlock
      <4> DEFINE m == middle_of_device
                 j == cur + n - 1 - m
      <4>3. m \in Nat
        BY <1>1
      <4>4. j \in Nat /\ j < AreaSectors
        <5> HIDE DEF n
        <5> QED BY <1>1, <1>2, <2>2, <3>2, <4>2, <4>3
      <4>5. cur + n - 1 = m + j /\ j \in Offsets
        <5> HIDE DEF n
        <5> QED BY <1>1, <1>2, <4>3, <4>4 DEF Offsets
      <4> QED BY <4>5 DEF was_mod_area_affected, InMod, Areas
    <3> QED BY <1>1, <3>1, <3>2
  <2> HIDE DEF n
  <2>4. i \in ModPlaces(cur, n)
    BY <1>1, <1>2, <2>2, <2>3 DEF ModPlaces, Min
  <2> QED BY <1>4, <2>4 DEF Filled, n
<1> QED BY <1>3, <1>4 DEF Followed

\* After a turn all that the pass has passed is up to date: what was before the turn,
\* what it has written, and what it has skipped, on which nothing is stored.
LEMMA TurnKnown ==
    ASSUME TypeInv, KnownInv, pc = "update",
           NEW n \in Affected(Cardinality(UnwritableRun(cur + written))),
           update_bod_mod_buffers(cur, n), UNCHANGED <<medium, middle_of_device>>,
           NEW a \in Followed, NEW i \in Offsets,
           At(a, i) \in get_slice_start(slice)
                          .. (cur + written + Cardinality(UnwritableRun(cur + written))) - 1
    PROVE  Kept(a, i)'
<1> DEFINE skipped == Cardinality(UnwritableRun(cur + written))
<1>1. /\ n \in Nat /\ skipped \in Nat /\ cur + written + skipped \in cur .. BlockEnd
      /\ cur + written \in cur .. BlockEnd
      /\ cur \in Nat /\ written \in Nat /\ BlockEnd \in Nat
      /\ get_slice_start(slice) \in Nat /\ get_slice_start(slice) <= cur
  BY TurnEnds, BlockFacts DEF TypeInv
<1>2. a \in {"bod", "mod"} /\ At(a, i) \in Nat
  BY AtIsSector DEF Followed, TypeInv
<1>3. /\ At(a, i)' = At(a, i) /\ content' = content /\ stored' = stored /\ intact' = intact
  BY <1>1, <1>2, UpdateFills DEF medium
<1>4. UnwritableRun(cur + written) = cur + written .. cur + written + skipped - 1
      /\ UnwritableRun(cur + written) \subseteq unusable
  BY <1>1, UnwritableRunIs DEF TypeInv
<1> HIDE DEF skipped
<1>5. CASE At(a, i) < cur
  <2>1. Kept(a, i)
    BY <1>1, <1>2, <1>5 DEF KnownInv, Passed
  <2> QED BY <1>1, <1>2, <1>5, <2>1, UpdateKeeps
<1>6. CASE At(a, i) >= cur /\ At(a, i) < cur + written
  <2>1. written > 0 /\ n = cur + written - block + skipped
    BY <1>1, <1>2, <1>6 DEF Affected, skipped
  <2>2. i \in Filled(a, n)
    BY <1>1, <1>2, <1>6, <2>1, WrittenIsFilled
  <2>3. At(a, i) < BlockEnd
    BY <1>1, <1>2, <1>6
  <2>4. Buffer(a)'[i] = Datum(At(a, i))
    BY <1>1, <1>2, <2>2, <2>3, UpdateFills
  <2>5. At(a, i) \in Sectors /\ generation > 0
    BY <1>2, AtIsSector DEF TypeInv, Turns, InRound, InSlice
  <2>6. Carries(Datum(At(a, i)))
    BY <2>5, DatumIsData DEF TypeInv, ControlOK
  <2>7. At(a, i) \in intact => content[At(a, i)] = Datum(At(a, i))
    BY <1>1, <1>2, <1>6 DEF KnownInv, Fresh
  <2> QED BY <1>3, <2>4, <2>6, <2>7 DEF Kept, Carries
<1>7. CASE At(a, i) >= cur + written
  <2>1. At(a, i) \in cur + written .. cur + written + skipped - 1
    BY <1>1, <1>2, <1>7 DEF skipped
  <2>2. At(a, i) \in unusable
    BY <1>4, <2>1
  <2> QED BY <1>3, <2>2 DEF KnownInv, Kept
<1> QED BY <1>1, <1>2, <1>5, <1>6, <1>7

\* The turn, or the write that failed, was the last of its slice, or the pass goes on.
LEMMA GoOnKnown ==
    ASSUME TypeInv, InSlice, NEW to \in cur .. BlockEnd, GoOn(to),
           middle_of_device' = middle_of_device,
           \A a \in Followed, i \in Offsets :
             (\/ At(a, i) \in get_slice_start(slice) .. to - 1
              \/ Kept(a, i) /\ At(a, i) \notin SliceSectors(slice)) => Kept(a, i)',
           KeptInv, (unusable \cap stored)' = {}
    PROVE  KnownInv'
<1>1. /\ slice \in open /\ to \in Nat /\ get_slice_start(slice) \in Nat
      /\ last_sector(slice) \in Nat
  BY BlockFacts DEF TypeInv, Turns
<1>2. \A a \in Followed, i \in Offsets : At(a, i)' = At(a, i) /\ At(a, i) \in Nat
  BY AtIsSector DEF At, Followed, TypeInv
<1>3. \A a \in Followed, i \in Offsets :
        Opened(At(a, i)) \/ Kept(a, i)'
  <2> SUFFICES ASSUME NEW a \in Followed, NEW i \in Offsets, ~Opened(At(a, i))
               PROVE  Kept(a, i)'
    OBVIOUS
  <2>1. At(a, i) \notin SliceSectors(slice) /\ Kept(a, i)
    BY <1>1 DEF Opened, KeptInv
  <2> QED BY <2>1
<1>4. CASE pc' = "write" /\ slice' = slice /\ cur' = to /\ written' = 0 /\ open' = open
  <2>1. KeptInv'
    BY <1>2, <1>3, <1>4 DEF KeptInv, Opened
  <2>2. Passed'
    BY <1>2, <1>4 DEF Passed
  <2> QED BY <1>4, <2>1, <2>2 DEF KnownInv, Fresh
<1>5. CASE pc' \in {"seek", "read"} /\ open' = open \ {slice} /\ to = last_sector(slice)
  <2>1. \A a \in Followed, i \in Offsets :
          Opened(At(a, i))' \/ Kept(a, i)'
    <3> SUFFICES ASSUME NEW a \in Followed, NEW i \in Offsets, ~Opened(At(a, i))'
                 PROVE  Kept(a, i)'
      OBVIOUS
    <3>1. ~Opened(At(a, i)) \/ At(a, i) \in SliceSectors(slice)
      BY <1>2, <1>5 DEF Opened
    <3>2. At(a, i) \in SliceSectors(slice) => At(a, i) \in get_slice_start(slice) .. to - 1
      BY <1>5 DEF SliceSectors
    <3> QED BY <1>3, <3>1, <3>2
  <2>2. KeptInv'
    BY <2>1 DEF KeptInv
  <2> QED BY <1>5, <2>2 DEF KnownInv, Passed, Fresh
<1> QED BY <1>4, <1>5, GoOnFacts DEF TypeInv, Turns

----------------------------------------------------------------------------
(* What the buffers know, action by action.                                 *)

LEMMA InitKnown == Init => KnownInv
<1> SUFFICES ASSUME Init PROVE KnownInv
  OBVIOUS
<1>1. stored = {} /\ unusable = {} /\ pc = "round"
  BY DEF Init
<1> QED BY <1>1 DEF KnownInv, KeptInv, Kept, Passed, Fresh

LEMMA WriteRunKnown == ASSUME TypeInv, KnownInv, WriteRun PROVE KnownInv'
<1>1. PICK k \in 1 .. Cardinality(WritableRun(cur)) :
        Store(cur .. cur + k - 1) /\ written' = k
  BY DEF WriteRun
<1>2. /\ pc = "write" /\ pc' = "update" /\ cur \notin unusable
      /\ UNCHANGED <<progress, buffers, map, slice, block, cur, open>>
  BY DEF WriteRun
<1> DEFINE S == cur .. cur + k - 1
<1>3. /\ k \in Nat /\ cur \in Nat /\ S \subseteq WritableRun(cur)
      /\ get_slice_start(slice) \in Nat
  <2>1. cur \in Nat /\ get_slice_start(slice) \in Nat
    BY BlockFacts DEF TypeInv
  <2>2. /\ Cardinality(WritableRun(cur)) \in Nat
        /\ WritableRun(cur) = cur .. cur + Cardinality(WritableRun(cur)) - 1
    BY <1>2, WritableRunIs, BlockFacts DEF TypeInv
  <2> DEFINE c == Cardinality(WritableRun(cur))
  <2>3. c \in Nat /\ k \in 1 .. c /\ WritableRun(cur) = cur .. cur + c - 1
    BY <2>2
  <2> HIDE DEF c
  <2> QED BY <2>1, <2>3
<1>4. S \subseteq SliceSectors(slice) /\ S \cap unusable = {}
  BY <1>3, WritableRunFacts DEF TypeInv
<1>5. slice \in open
  BY <1>2 DEF TypeInv, Turns, InSlice
<1>6. Store(S) /\ UNCHANGED <<buffers, middle_of_device, unusable, open>>
  BY <1>1, <1>2 DEF progress, map
<1>7. \A a \in Followed, i \in Offsets :
        At(a, i) \in get_slice_start(slice) .. cur - 1 => At(a, i) \notin S
  BY <1>3
<1> HIDE DEF S
<1>8. /\ KeptInv' /\ unusable' \cap stored' = {}
      /\ \A a \in Followed, i \in Offsets :
           /\ At(a, i)' = At(a, i)
           /\ At(a, i) \notin S /\ Kept(a, i) => Kept(a, i)'
  BY <1>4, <1>5, <1>6, StoreKnown
<1>9. Passed'
  BY <1>2, <1>7, <1>8 DEF KnownInv, Passed
<1>10. Fresh'
  <2>1. \A s \in S : s \in Sectors
    BY <1>3, WritableRunFacts DEF S, TypeInv
  <2>2. \A s \in S : content'[s] = Datum(s) /\ Datum(s)' = Datum(s)
    BY <1>2, <1>6, <2>1 DEF Store, Datum, progress
  <2>3. S = cur' .. cur' + written' - 1
    BY <1>1, <1>2 DEF S
  <2> QED BY <2>2, <2>3 DEF Fresh
<1> QED BY <1>8, <1>9, <1>10 DEF KnownInv

LEMMA EndTurnKnown == ASSUME TypeInv, KnownInv, EndTurn PROVE KnownInv'
<1> DEFINE skipped == Cardinality(UnwritableRun(cur + written))
           to == cur + written + skipped
<1>1. /\ pc = "update" /\ GoOn(to) /\ InSlice
      /\ UNCHANGED <<progress, map, medium>> /\ middle_of_device' = middle_of_device
  BY DEF EndTurn, InSlice, progress
<1>2. PICK n \in Affected(skipped) : update_bod_mod_buffers(cur, n)
  BY DEF EndTurn
<1>3. /\ to \in cur .. BlockEnd /\ cur \in Nat /\ BlockEnd \in Nat /\ n \in Nat
      /\ get_slice_start(slice) \in Nat /\ get_slice_start(slice) <= cur
      /\ BlockEnd <= last_sector(slice) /\ last_sector(slice) \in Nat
  BY TurnEnds, BlockFacts DEF TypeInv
<1>4. \A a \in Followed, i \in Offsets :
        At(a, i) \in get_slice_start(slice) .. to - 1 => Kept(a, i)'
  <2> SUFFICES ASSUME NEW a \in Followed, NEW i \in Offsets,
                      At(a, i) \in get_slice_start(slice) .. to - 1
               PROVE  Kept(a, i)'
    OBVIOUS
  <2>1. UNCHANGED <<medium, middle_of_device>>
    BY <1>1
  <2> QED BY <1>1, <1>2, <2>1, TurnKnown
<1> HIDE DEF to, skipped
<1>5. \A a \in Followed, i \in Offsets :
        Kept(a, i) /\ At(a, i) \notin SliceSectors(slice) => Kept(a, i)'
  <2> SUFFICES ASSUME NEW a \in Followed, NEW i \in Offsets,
                      Kept(a, i), At(a, i) \notin SliceSectors(slice)
               PROVE  Kept(a, i)'
    OBVIOUS
  <2>1. a \in {"bod", "mod"} /\ At(a, i) \in Nat
    BY AtIsSector DEF Followed, TypeInv
  <2>2. At(a, i) < cur \/ At(a, i) >= BlockEnd
    BY <1>3, <2>1 DEF SliceSectors
  <2> QED BY <1>1, <1>2, <1>3, <2>1, <2>2, UpdateKeeps
<1>6. (unusable \cap stored)' = {}
  BY <1>1 DEF KnownInv, map, medium
<1> QED BY <1>1, <1>3, <1>4, <1>5, <1>6, GoOnKnown DEF KnownInv

LEMMA LateUpdateKnown == ASSUME TypeInv, KnownInv, LateUpdate PROVE KnownInv'
<1>1. /\ pc = "late_update" /\ pc' = "seek" /\ open' = open
      /\ UNCHANGED <<progress, map, medium>> /\ middle_of_device' = middle_of_device
  BY DEF LateUpdate, progress
<1>2. PICK n \in Nat : update_bod_mod_buffers(cur, n)
  BY TurnEnds DEF LateUpdate, TypeInv
<1>3. /\ cur \in Nat /\ BlockEnd \in Nat
      /\ get_slice_start(slice) \in Nat /\ get_slice_start(slice) <= cur
      /\ BlockEnd <= last_sector(slice) /\ last_sector(slice) \in Nat
      /\ slice \in open
  BY <1>1, BlockFacts DEF TypeInv, Turns, InSlice
<1>4. KeptInv'
  <2> SUFFICES ASSUME NEW a \in Followed, NEW i \in Offsets, ~Opened(At(a, i))
               PROVE  Kept(a, i)'
    BY <1>1 DEF KeptInv, Opened, At
  <2>1. a \in {"bod", "mod"} /\ At(a, i) \in Nat
    BY AtIsSector DEF Followed, TypeInv
  <2>2. At(a, i) \notin SliceSectors(slice) /\ Kept(a, i)
    BY <1>3 DEF Opened, KnownInv, KeptInv
  <2>3. At(a, i) < cur \/ At(a, i) >= BlockEnd
    BY <1>3, <2>1, <2>2 DEF SliceSectors
  <2> QED BY <1>1, <1>2, <2>1, <2>2, <2>3, UpdateKeeps
<1>5. (unusable \cap stored)' = {}
  BY <1>1 DEF KnownInv, map, medium
<1> QED BY <1>1, <1>4, <1>5, PassBegins

LEMMA WriteFailsKnown == ASSUME TypeInv, KnownInv, WriteFails PROVE KnownInv'
<1>1. /\ pc = "write" /\ Condemn /\ GoOn(cur + 1) /\ InSlice
      /\ UNCHANGED <<progress, buffers>> /\ middle_of_device' = middle_of_device
  BY DEF WriteFails, InSlice, progress
<1> DEFINE to == cur + 1
<1>2. /\ to \in cur .. BlockEnd /\ cur \in Nat /\ GoOn(to)
      /\ get_slice_start(slice) \in Nat /\ get_slice_start(slice) <= cur
      /\ \A s : s \in get_slice_start(slice) .. to - 1
                  => s = cur \/ s \in get_slice_start(slice) .. cur - 1
  BY <1>1, BlockFacts DEF TypeInv
<1>3. slice \in open
  BY <1>1 DEF TypeInv, Turns
<1> HIDE DEF to
<1>4. \A a \in Followed, i \in Offsets :
        /\ At(a, i)' = At(a, i)
        /\ At(a, i) = cur \/ Kept(a, i) => Kept(a, i)'
  BY <1>1, CondemnKeeps
<1>5. \A a \in Followed, i \in Offsets :
        (\/ At(a, i) \in get_slice_start(slice) .. to - 1
         \/ Kept(a, i) /\ At(a, i) \notin SliceSectors(slice)) => Kept(a, i)'
  BY <1>1, <1>2, <1>4 DEF KnownInv, Passed
<1>6. (unusable \cap stored)' = {}
  BY <1>1 DEF KnownInv, Condemn
<1> QED BY <1>1, <1>2, <1>5, <1>6, GoOnKnown DEF KnownInv

LEMMA WriteOnDeadHandleKnown ==
    ASSUME TypeInv, KnownInv, WriteOnDeadHandle PROVE KnownInv'
<1>1. /\ pc' \in {"wait", "seek"} /\ open' = open /\ UNCHANGED <<progress, buffers>>
      /\ middle_of_device' = middle_of_device
  BY DEF WriteOnDeadHandle, Wait, progress
<1>2. CASE rounds_completed = 0
  <2>1. Condemn
    BY <1>2 DEF WriteOnDeadHandle
  <2>2. \A a \in Followed, i \in Offsets :
          At(a, i)' = At(a, i) /\ (Kept(a, i) => Kept(a, i)')
    BY <1>1, <2>1, CondemnKeeps
  <2>3. KeptInv'
    BY <1>1, <2>2 DEF KnownInv, KeptInv, Opened
  <2>4. (unusable \cap stored)' = {}
    BY <2>1 DEF KnownInv, Condemn
  <2> QED BY <1>1, <2>3, <2>4, PassBegins
<1>3. CASE rounds_completed # 0
  <2>1. UNCHANGED <<map, medium>>
    BY <1>3 DEF WriteOnDeadHandle
  <2> QED BY <1>1, <2>1, StillKnown DEF map
<1> QED BY <1>2, <1>3

\* The request made again writes to the slice in hand, which is started over.
LEMMA WriteAgainKnown ==
    ASSUME TypeInv, KnownInv, InSlice, WriteAgain, pc' \notin {"write", "update"},
           UNCHANGED <<buffers, middle_of_device, unusable, open>>
    PROVE  KnownInv'
<1>1. CASE Store(WritableRun(cur))
  <2>1. slice \in open /\ WritableRun(cur) \subseteq SliceSectors(slice)
        /\ WritableRun(cur) \cap unusable = {}
    BY WritableRunFacts DEF TypeInv, Turns
  <2>2. KeptInv' /\ unusable' \cap stored' = {}
    BY <1>1, <2>1, StoreKnown
  <2> QED BY <2>2, PassBegins
<1>2. CASE UNCHANGED medium
  BY <1>2, StillKnown
<1> QED BY <1>1, <1>2 DEF WriteAgain

LEMMA ResetSearchKnown == ASSUME TypeInv, KnownInv, ResetSearch PROVE KnownInv'
<1>1. /\ pc = "reset_search" /\ InSlice
      /\ UNCHANGED <<buffers, middle_of_device, unusable, open>>
  BY DEF ResetSearch, InSlice, progress, map
<1>2. /\ pc' \in {"seek", "lost", "wait", "ended"}
      /\ WriteAgain \/ UNCHANGED medium
  <2>1. ASSUME NEW d \in present, Take(d, "seek"),
               IF d = "own" THEN WriteAgain ELSE UNCHANGED <<medium, place>>
        PROVE  pc' \in {"seek", "lost"} /\ (WriteAgain \/ UNCHANGED medium)
    BY <2>1 DEF Take
  <2>2. ASSUME NEW r, Wait(r) \/ End
        PROVE  pc' \in {"wait", "ended"}
    BY <2>2 DEF Wait, End
  <2> QED BY <2>1, <2>2 DEF ResetSearch
<1>3. CASE WriteAgain
  BY <1>1, <1>2, <1>3, WriteAgainKnown
<1>4. CASE UNCHANGED medium
  BY <1>1, <1>2, <1>4, StillKnown
<1> QED BY <1>2, <1>3, <1>4

LEMMA AnnouncedKnown ==
    ASSUME TypeInv, KnownInv, NEW d \in Devices, Announced(d) PROVE KnownInv'
<1>1. /\ pc = "wait" /\ UNCHANGED <<buffers, middle_of_device, unusable, open>>
  BY DEF Announced, progress, map
<1>2. ASSUME Take(d, IF request = "write" THEN "seek" ELSE request),
             IF d = "own" /\ request = "write" THEN WriteAgain
             ELSE UNCHANGED <<medium, place>>
      PROVE  KnownInv'
  <2>1. pc' \notin {"write", "update"}
    BY <1>2 DEF Take, TypeInv, ControlOK
  <2>2. CASE d = "own" /\ request = "write"
    BY <1>1, <1>2, <2>1, <2>2, WriteAgainKnown DEF InSlice
  <2>3. CASE ~(d = "own" /\ request = "write")
    <3>1. UNCHANGED medium
      BY <1>2, <2>3
    <3> QED BY <1>1, <2>1, <3>1, StillKnown
  <2> QED BY <2>2, <2>3
<1>3. ASSUME UNCHANGED <<pc, medium>>
      PROVE  KnownInv'
  <2>1. pc' \notin {"write", "update"} /\ UNCHANGED medium
    BY <1>1, <1>3
  <2> QED BY <1>1, <2>1, StillKnown
<1> QED BY <1>2, <1>3 DEF Announced

LEMMA CrashKnown == ASSUME TypeInv, KnownInv, Crash PROVE KnownInv'
<1>1. /\ UNCHANGED <<medium, buffers, middle_of_device, unusable>> /\ pc' = "off"
      /\ open' = (IF saving THEN open ELSE Slices)
  BY DEF Crash, progress, map
<1>2. open \subseteq open'
  BY <1>1 DEF TypeInv, PlaceOK
<1> QED BY <1>1, <1>2, StillKnown

\* What is loaded is what was in the buffers, or every slice counts as begun.
LEMMA LoadKnown == ASSUME TypeInv, KnownInv, Load PROVE KnownInv'
<1>1. /\ pc = "off" /\ pc' = "search" /\ unusable' = {}
      /\ bod_buffer' = state_file.bod /\ mod_buffer' = state_file.mod
      /\ spoilt' = state_file.spoilt /\ open' = open
      /\ UNCHANGED <<middle_of_device, medium>>
  BY DEF Load
<1>2. open = Slices \/ Saved
  BY <1>1 DEF TypeInv, FileInv
<1>3. CASE open = Slices
  <2>1. \A a \in Followed, i \in Offsets : Opened(At(a, i)) /\ At(a, i)' = At(a, i)
    BY <1>1, <1>3, AtIsSector, SlicesCover DEF Opened, At, Followed, TypeInv
  <2>2. KeptInv'
    BY <1>1, <2>1 DEF KeptInv, Opened
  <2> QED BY <1>1, <2>2, PassBegins
<1>4. CASE Saved
  <2>1. UNCHANGED buffers
    BY <1>1, <1>4 DEF Saved, buffers
  <2>2. \A a \in Followed, i \in Offsets :
          At(a, i)' = At(a, i) /\ (Kept(a, i) => Kept(a, i)')
    BY <1>1, <2>1 DEF At, Kept, Buffer, buffers, medium
  <2>3. KeptInv'
    BY <1>1, <2>2 DEF KnownInv, KeptInv, Opened
  <2> QED BY <1>1, <2>3, PassBegins
<1> QED BY <1>2, <1>3, <1>4

LEMMA DecayKnown == ASSUME TypeInv, KnownInv, Decay PROVE KnownInv'
<1>1. /\ pc' \notin {"write", "update"}
      /\ UNCHANGED <<buffers, middle_of_device, unusable, open, stored>>
  BY DEF Decay, progress, map
<1>2. PICK s \in intact, v \in {Zero, Other} :
        content' = [content EXCEPT ![s] = v] /\ intact' = intact \ {s}
  BY DEF Decay
<1>3. \A t \in intact' : t \in intact /\ content'[t] = content[t]
  BY <1>2 DEF TypeInv, MediumOK
<1>4. \A a \in Followed, i \in Offsets :
        At(a, i)' = At(a, i) /\ (Kept(a, i) => Kept(a, i)')
  BY <1>1, <1>3 DEF At, Kept, Buffer, buffers
<1>5. KeptInv'
  BY <1>1, <1>4 DEF KnownInv, KeptInv, Opened
<1> QED BY <1>1, <1>5, PassBegins DEF KnownInv

\* The others neither write nor fill a place.
LEMMA QuietKnown ==
    ASSUME TypeInv, KnownInv,
           \/ StartRound \/ SliceSeek \/ NoWrite \/ SkipSeekWaits \/ Reset
           \/ ReadPhase \/ ReadWaits \/ StartupSearch \/ UNCHANGED vars
           \/ \E d \in Devices : Attach(d) \/ Detach(d)
    PROVE  KnownInv'
<1>1. cur \in Nat
  BY BlockFacts DEF TypeInv
<1>2. CASE StartRound
  BY <1>2, StillKnown DEF StartRound, progress, map
<1>3. CASE SliceSeek
  <2>1. /\ UNCHANGED <<medium, buffers, middle_of_device, unusable, place>>
        /\ open \subseteq open'
        /\ pc = "seek" /\ pc' \in {"write", "wait"}
    BY <1>3 DEF SliceSeek, Wait, progress, map
  <2>2. get_slice_start(slice') = cur' /\ cur' \in Nat
    BY <1>1, <2>1 DEF place, TypeInv, Turns
  <2> QED BY <2>1, <2>2, StillKnown
<1>4. CASE NoWrite
  <2>1. /\ UNCHANGED <<medium, buffers, middle_of_device, unusable, place, open>>
        /\ pc = "write" /\ pc' = "update"
    BY <1>4 DEF NoWrite, progress, map
  <2>2. written' = 0 /\ cur' \in Nat
    BY <1>1, <2>1 DEF place, TypeInv, Turns
  <2> QED BY <2>1, <2>2, StillKnown
<1>5. CASE SkipSeekWaits \/ ReadWaits \/ Reset \/ ReadPhase
  <2>1. /\ UNCHANGED <<medium, buffers, middle_of_device, unusable, open>>
        /\ pc' \notin {"write", "update"}
    BY <1>5 DEF SkipSeekWaits, ReadWaits, Reset, ReadPhase, Wait, progress, map
  <2> QED BY <2>1, StillKnown
<1>6. CASE StartupSearch
  <2>1. UNCHANGED <<medium, buffers, middle_of_device, unusable, open>>
    BY <1>6 DEF StartupSearch, progress, map
  <2>2. pc' \notin {"write", "update"}
    BY <1>6 DEF StartupSearch, Take, Wait, End
  <2> QED BY <2>1, <2>2, StillKnown
<1>7. CASE UNCHANGED vars \/ \E d \in Devices : Attach(d) \/ Detach(d)
  <2>1. /\ UNCHANGED <<medium, buffers, middle_of_device, unusable, open>>
        /\ UNCHANGED <<pc, place, generation>>
    BY <1>7 DEF vars, Attach, Detach, progress, map
  <2> QED BY <2>1, StillKnown
<1> QED BY <1>2, <1>3, <1>4, <1>5, <1>6, <1>7

LEMMA NextKnown == TypeInv /\ KnownInv /\ [Next]_vars => KnownInv'
<1> SUFFICES ASSUME TypeInv, KnownInv, [Next]_vars PROVE KnownInv'
  OBVIOUS
<1>1. CASE \/ UNCHANGED vars \/ StartRound \/ SliceSeek \/ NoWrite \/ SkipSeekWaits
           \/ Reset \/ ReadPhase \/ ReadWaits \/ StartupSearch
  BY <1>1, QuietKnown
<1>2. CASE \E d \in Devices : Announced(d) \/ Attach(d) \/ Detach(d)
  BY <1>2, AnnouncedKnown, QuietKnown
<1>3. CASE \/ WriteRun \/ EndTurn \/ LateUpdate \/ WriteFails \/ WriteOnDeadHandle
           \/ ResetSearch \/ Crash \/ Load \/ Decay
  BY <1>3, WriteRunKnown, EndTurnKnown, LateUpdateKnown, WriteFailsKnown,
     WriteOnDeadHandleKnown, ResetSearchKnown, CrashKnown, LoadKnown, DecayKnown
<1> QED BY <1>1, <1>2, <1>3 DEF Next

LEMMA KnownAlways == Spec => [](TypeInv /\ KnownInv)
<1>1. Init => TypeInv /\ KnownInv
  BY InitTypeInv, InitKnown
<1>2. (TypeInv /\ KnownInv) /\ [Next]_vars => (TypeInv /\ KnownInv)'
  BY NextTypeInv, NextKnown
<1> QED BY <1>1, <1>2, PTL DEF Spec

----------------------------------------------------------------------------
(* The device under test is known again.                                    *)

\* An area that tells the device matches it in every place.
LEMMA TellingMatches ==
    ASSUME TypeInv, KnownInv, NEW a \in Followed, Telling(a)
    PROVE  ~BodModMismatch("own")
<1>1. \A i \in Offsets : At(a, i) \in Areas[a]
  BY DEF At, Areas, Followed
<1>2. \A i \in Offsets : Holds("own")[At(a, i)] = Buffer(a)[i] /\ At(a, i) \notin unusable
  <2> SUFFICES ASSUME NEW i \in Offsets
               PROVE  content[At(a, i)] = Buffer(a)[i] /\ At(a, i) \notin unusable
    BY DEF Holds
  <2>1. At(a, i) \in intact /\ At(a, i) \in stored
    BY <1>1 DEF Telling, TypeInv, MediumOK
  <2>2. ~Opened(At(a, i)) /\ i \notin spoilt[a]
    BY <1>1 DEF Telling, Opened
  <2>3. Kept(a, i)
    BY <2>2 DEF KnownInv, KeptInv
  <2> QED BY <2>1, <2>2, <2>3 DEF Kept, KnownInv
<1>3. CASE a = "bod"
  <2>1. MatchingBod("own") = Offsets
    BY <1>2, <1>3 DEF MatchingBod, ReadBuffer, At, Buffer
  <2> QED BY <2>1 DEF BodModMismatch, ExactMatch
<1>4. CASE a = "mod"
  <2>1. MatchingMod("own") = Offsets
    BY <1>2, <1>4 DEF MatchingMod, ReadBuffer, At, Buffer
  <2> QED BY <2>1 DEF BodModMismatch, ExactMatch
<1> QED BY <1>3, <1>4 DEF Followed

(* The beginning of the device tells it by itself: as long as it reads back  *)
(* as it was last written, no part of it is being written, and no update     *)
(* took it from behind a block, compare_bod_mod_data recognises the device,  *)
(* whatever the size of blocks, slices and areas.                            *)
THEOREM OwnFoundByBeginning == Spec => [](Telling("bod") => ~BodModMismatch("own"))
<1>1. TypeInv /\ KnownInv => (Telling("bod") => ~BodModMismatch("own"))
  BY TellingMatches DEF Followed
<1> QED BY <1>1, KnownAlways, PTL

(* Either area tells it, if no write to the middle goes unseen.              *)
THEOREM OwnFound ==
    ASSUME MiddleSeen
    PROVE  Spec => []OwnDeviceFound
<1>1. TypeInv /\ KnownInv => OwnDeviceFound
  BY TellingMatches DEF Followed, OwnDeviceFound
<1> QED BY <1>1, KnownAlways, PTL

----------------------------------------------------------------------------
(* No other device is taken for it.  The blank device matches where a place *)
(* of a buffer holds nothing that was written.                              *)

UnsureSectors(a) == {s \in Areas[a] : s \notin stored \/ \E i \in open : s \in SliceSectors(i)}

\* Places that hold nothing that was written are for sectors the program cannot be
\* sure of, each for its own, or were filled from behind a block.
LEMMA EmptyPlacesUnsure ==
    ASSUME TypeInv, KnownInv, NEW a \in Followed,
           NEW Z \in SUBSET Offsets, \A i \in Z : ~Carries(Buffer(a)[i])
    PROVE  Cardinality(Z) \in Nat /\ Unsure(a) \in Nat /\ Cardinality(Z) <= Unsure(a)
<1> DEFINE overrun == Z \cap spoilt[a]
           others == Z \ spoilt[a]
           U == UnsureSectors(a)
<1>1. \A i \in Offsets : /\ At(a, i) \in Areas[a] /\ At(a, i) \in Sectors
                         /\ i \in Int /\ middle_of_device \in Int
  BY AtIsSector, IdentityAssumption DEF At, Areas, Followed, Offsets, TypeInv, ControlOK
<1>2. IsFiniteSet(Offsets) /\ spoilt[a] \subseteq Offsets
  <2>1. AreaSectors \in Nat /\ 0 \in Int /\ AreaSectors - 1 \in Int
    BY IdentityAssumption
  <2>2. IsFiniteSet(Offsets)
    BY <2>1, FS_Interval DEF Offsets
  <2> QED BY <2>2 DEF TypeInv, BuffersOK, Marks, Followed
<1>3. U \subseteq Sectors
  <2> SUFFICES ASSUME NEW s \in Areas[a] PROVE s \in Sectors
    BY DEF UnsureSectors
  <2>1. \E i \in Offsets : s = At(a, i)
    BY DEF At, Areas, Followed
  <2> QED BY <1>1, <2>1
<1>4. IsFiniteSet(U) /\ Cardinality(U) \in Nat
  BY <1>3, SectorsFinite
<1>5. /\ IsFiniteSet(spoilt[a]) /\ Cardinality(spoilt[a]) \in Nat
      /\ IsFiniteSet(overrun) /\ Cardinality(overrun) \in Nat
      /\ Cardinality(overrun) <= Cardinality(spoilt[a])
  BY <1>2, FS_Subset, FS_CardinalityType
<1>6. IsFiniteSet(others) /\ Cardinality(others) \in Nat /\ Cardinality(others) <= Cardinality(U)
  <2> DEFINE f == [i \in others |-> At(a, i)]
  <2>1. \A i \in others : At(a, i) \in U
    <3> SUFFICES ASSUME NEW i \in others PROVE At(a, i) \in U
      OBVIOUS
    <3>1. i \in Offsets /\ i \notin spoilt[a] /\ ~Carries(Buffer(a)[i])
      OBVIOUS
    <3>2. Opened(At(a, i)) \/ At(a, i) \notin stored
      BY <3>1 DEF KnownInv, KeptInv, Kept
    <3> QED BY <1>1, <3>1, <3>2 DEF UnsureSectors, Opened
  <2>2. \A i, j \in others : At(a, i) = At(a, j) => i = j
    BY <1>1 DEF At
  <2> HIDE DEF U, others
  <2>3. f \in Injection(others, U)
    BY <2>1, <2>2 DEF Injection, IsInjective
  <2>4. IsFiniteSet(others) /\ Cardinality(others) <= Cardinality(U)
    BY <1>4, <2>3, FS_Injection
  <2> QED BY <2>4, FS_CardinalityType
<1>7. Cardinality(Z) = Cardinality(overrun) + Cardinality(others)
  <2>1. Z = overrun \cup others /\ overrun \cap others = {}
    OBVIOUS
  <2> HIDE DEF overrun, others
  <2>2. Cardinality(Z) = Cardinality(overrun) + Cardinality(others) - Cardinality(overrun \cap others)
    BY <1>5, <1>6, <2>1, FS_Union
  <2>3. Cardinality(overrun \cap others) = 0
    BY <2>1, FS_EmptySet
  <2> QED BY <1>5, <1>6, <2>2, <2>3
<1>8. Unsure(a) = Cardinality(U) + Cardinality(spoilt[a])
  BY DEF Unsure, UnsureSectors
<1> HIDE DEF overrun, others, U
<1> QED BY <1>4, <1>5, <1>6, <1>7, <1>8

\* So a device that has none of the test's data is accepted only while that many are.
LEMMA BlankAccepted ==
    ASSUME TypeInv, KnownInv, MiddleSeen, Accepts("blank")
    PROVE  Unsure("bod") + Unsure("mod") >= AreaSectors
<1>1. \A s \in Sectors : Holds("blank")[s] = 0
  BY DEF Holds, Zero
<1>2. ~UuidMatch("blank")
  <2>1. Agreeing("blank") = {}
    BY <1>1 DEF Agreeing, Drawable, Carries
  <2>2. Cardinality(Agreeing("blank")) = 0
    BY <2>1, FS_EmptySet
  <2>3. SampleSize \in Nat /\ SampleSize > 1 /\ SampleSize \div 2 >= 1
    BY IdentityAssumption
  <2>4. Min(Cardinality(Agreeing("blank")), SampleSize) = 0
    BY <2>2, <2>3 DEF Min
  <2> QED BY <2>3, <2>4 DEF UuidMatch
<1>3. BodModMatch("blank")
  BY <1>2 DEF Accepts
<1> DEFINE B == MatchingBod("blank")
           M == MatchingMod("blank")
<1>4. /\ B \in SUBSET Offsets /\ \A i \in B : ~Carries(Buffer("bod")[i])
      /\ M \in SUBSET Offsets /\ \A i \in M : ~Carries(Buffer("mod")[i])
  <2>1. \A i \in Offsets : i \in Sectors /\ middle_of_device + i \in Sectors
    BY ModSourceIs, IdentityAssumption DEF TypeInv
  <2>2. \A s \in Sectors : ReadBuffer("blank", s) = 0
    BY <1>1 DEF ReadBuffer, Zero
  <2> QED BY <2>1, <2>2 DEF MatchingBod, MatchingMod, Buffer, Carries
<1>5. "bod" \in Followed /\ "mod" \in Followed
  BY DEF Followed
<1> HIDE DEF B, M
<1>6. /\ Cardinality(B) \in Nat /\ Unsure("bod") \in Nat /\ Cardinality(B) <= Unsure("bod")
      /\ Cardinality(M) \in Nat /\ Unsure("mod") \in Nat /\ Cardinality(M) <= Unsure("mod")
  BY <1>4, <1>5, EmptyPlacesUnsure
<1>7. Cardinality(B) + Cardinality(M) >= AreaSectors
  <2>1. AreaSectors \in Nat /\ Cardinality(Offsets) = AreaSectors
    <3>1. AreaSectors \in Nat /\ AreaSectors - 0 = AreaSectors
      BY IdentityAssumption
    <3> QED BY <3>1, IntervalSize DEF Offsets
  <2>2. CASE B = Offsets \/ M = Offsets
    BY <1>6, <2>1, <2>2
  <2>3. CASE Cardinality(B) + Cardinality(M) >= AreaSectors
    BY <2>3
  <2> QED BY <1>3, <2>2, <2>3 DEF BodModMatch, ExactMatch, partial_match_threshold, B, M
<1> QED BY <1>6, <1>7, IdentityAssumption

\* A device is found only where the search accepts it.
LEMMA FoundAccepted ==
    ASSUME NEW D, NEW M \in Matches(D), NEW name, NEW d, Found(M, name, d)
    PROVE  Accepts(d)
  BY DEF Found, Preferred, Matches

LEMMA StrangersKept ==
    ASSUME TypeInv, KnownInv, MiddleSeen, StrangersSpared, [Next]_vars
    PROVE  StrangersSpared'
<1> SUFFICES ASSUME pc' = "lost"
             PROVE  (Unsure("bod") + Unsure("mod"))' >= AreaSectors
  BY DEF StrangersSpared
<1>1. ASSUME UNCHANGED <<middle_of_device, stored, open, spoilt>>
      PROVE  (Unsure("bod") + Unsure("mod"))' = Unsure("bod") + Unsure("mod")
  BY <1>1 DEF Unsure, Areas
<1>2. CASE pc = "lost"
  <2>1. UNCHANGED vars
    BY <1>2 DEF Next, StartRound, SliceSeek, WriteRun, NoWrite, EndTurn, SkipSeekWaits,
                LateUpdate, WriteFails, WriteOnDeadHandle, Reset, ResetSearch, ReadPhase,
                ReadWaits, Crash, Load, StartupSearch, Decay, Announced, Attach, Detach
  <2>2. UNCHANGED <<middle_of_device, stored, open, spoilt>>
    BY <2>1 DEF vars, progress, medium, buffers
  <2> QED BY <1>1, <1>2, <2>2 DEF StrangersSpared
<1>3. ASSUME Accepts("blank"), UNCHANGED <<middle_of_device, stored, open, spoilt>>
      PROVE  (Unsure("bod") + Unsure("mod"))' >= AreaSectors
  BY <1>1, <1>3, BlankAccepted
<1>4. CASE pc # "lost" /\ ResetSearch
  <2>1. UNCHANGED <<middle_of_device, open, spoilt>>
    BY <1>4 DEF ResetSearch, progress, buffers
  <2>2. PICK M \in Matches(present), d \in present :
          /\ Found(M, "own", d) /\ Take(d, "seek")
          /\ IF d = "own" THEN WriteAgain ELSE UNCHANGED <<medium, place>>
    BY <1>4 DEF ResetSearch, Wait, End
  <2>3. d # "own" /\ d \in Devices
    BY <2>2 DEF Take, TypeInv, ControlOK
  <2>4. d = "blank" /\ UNCHANGED stored
    BY <2>2, <2>3 DEF Devices, medium
  <2> QED BY <1>3, <2>1, <2>2, <2>4, FoundAccepted
<1>5. CASE pc # "lost" /\ StartupSearch
  <2>1. UNCHANGED <<middle_of_device, open, spoilt, stored>>
    BY <1>5 DEF StartupSearch, progress, buffers, medium
  <2>2. PICK M \in Matches(present), named \in Devices \cup {"none"}, d \in present :
          Found(M, named, d) /\ Take(d, "round")
    BY <1>5 DEF StartupSearch, Wait, End
  <2>3. d # "own" /\ d \in Devices
    BY <2>2 DEF Take, TypeInv, ControlOK
  <2>4. d = "blank"
    BY <2>3 DEF Devices
  <2> QED BY <1>3, <2>1, <2>2, <2>4, FoundAccepted
<1>6. CASE pc # "lost" /\ \E d \in Devices : Announced(d)
  <2>1. PICK d \in Devices : Announced(d)
    BY <1>6
  <2>2. UNCHANGED <<middle_of_device, open, spoilt>>
    BY <2>1 DEF Announced, progress, buffers
  <2>3. /\ Accepts(d) /\ Take(d, IF request = "write" THEN "seek" ELSE request)
        /\ IF d = "own" /\ request = "write" THEN WriteAgain ELSE UNCHANGED <<medium, place>>
    BY <1>6, <2>1 DEF Announced
  <2>4. d # "own"
    BY <2>3 DEF Take, TypeInv, ControlOK
  <2>5. d = "blank" /\ UNCHANGED stored
    BY <2>3, <2>4 DEF Devices, medium
  <2> QED BY <1>3, <2>2, <2>3, <2>5
<1>7. CASE \/ UNCHANGED vars \/ StartRound \/ SliceSeek \/ WriteRun \/ NoWrite
           \/ SkipSeekWaits \/ LateUpdate \/ WriteOnDeadHandle \/ Reset \/ ReadPhase
           \/ ReadWaits \/ Crash \/ Load \/ Decay
           \/ \E d \in Devices : Attach(d) \/ Detach(d)
  <2>1. pc' # "lost" \/ pc' = pc
    BY <1>7 DEF vars, StartRound, SliceSeek, WriteRun, NoWrite, SkipSeekWaits,
                LateUpdate, WriteOnDeadHandle, Reset, ReadPhase, ReadWaits, Crash, Load,
                Decay, Attach, Detach, Wait
  <2> QED BY <1>2, <2>1
<1>8. CASE EndTurn \/ WriteFails
  <2>1. PICK to : GoOn(to)
    BY <1>8 DEF EndTurn, WriteFails
  <2> QED BY <2>1 DEF GoOn
<1> QED BY <1>2, <1>4, <1>5, <1>6, <1>7, <1>8 DEF Next

(* No device that has none of the test's data is taken and overwritten, by   *)
(* the search at startup, after a reset or when one is announced, unless the *)
(* program cannot be sure of as many sectors of the two areas as make a      *)
(* match: not written yet, failed, in a slice being written, or overrun.     *)
THEOREM StrangersRefused ==
    ASSUME MiddleSeen
    PROVE  Spec => []StrangersSpared
<1> DEFINE Inv == (TypeInv /\ KnownInv) /\ StrangersSpared
<1>1. Init => Inv
  BY InitTypeInv, InitKnown DEF Init, StrangersSpared
<1>2. Inv /\ [Next]_vars => Inv'
  BY NextTypeInv, NextKnown, StrangersKept
<1>3. Inv => StrangersSpared
  OBVIOUS
<1> QED BY <1>1, <1>2, <1>3, PTL DEF Spec

----------------------------------------------------------------------------
(* Where the hypothesis on the middle holds.                                *)

(* Blocks of up to an area and a sector cannot hide the middle (1 MB and 512 *)
(* bytes in the program, whatever the device).                               *)
THEOREM SmallBlocksSeen == SectorsPerBlock <= AreaSectors + 1 => MiddleSeen
<1> SUFFICES ASSUME SectorsPerBlock <= AreaSectors + 1,
                    NEW i \in Slices, NEW b \in BlockStarts(i)
             PROVE  Min(b + SectorsPerBlock, last_sector(i)) - b <= AreaSectors + 1
  BY DEF MiddleSeen
<1>1. b \in Nat /\ last_sector(i) \in Nat
  BY SliceGeometry DEF BlockStarts, SliceSectors
<1> QED BY <1>1, IdentityAssumption DEF Min

(* Nor can longer ones, if the slices divide the device evenly and there is  *)
(* an even number of them, for the middle then begins a slice.               *)
THEOREM EvenSlicesSeen ==
    ASSUME NEW h \in Nat, NUM_SLICES = 2 * h, NumSectors % NUM_SLICES = 0
    PROVE  MiddleSeen
<1> SUFFICES ASSUME NEW i \in Slices, NEW b \in BlockStarts(i),
                    b < NumSectors \div 2,
                    Min(b + SectorsPerBlock, last_sector(i)) > NumSectors \div 2
             PROVE  FALSE
  BY DEF MiddleSeen
<1> DEFINE q == NumSectors \div NUM_SLICES
           m == NumSectors \div 2
<1>1. q \in Nat /\ i \in Nat /\ i + 1 <= NUM_SLICES /\ NUM_SLICES \in Nat \ {0}
      /\ NumSectors \in Nat /\ m \in Nat
  BY IdentityAssumption DEF Slices
<1>2. m = q * h
  <2>1. NumSectors = NUM_SLICES * q
    BY <1>1
  <2>2. NUM_SLICES * q = 2 * (q * h) /\ q * h \in Nat
    BY <1>1
  <2> DEFINE p == q * h
  <2>3. NumSectors = 2 * p /\ p \in Nat
    BY <2>1, <2>2
  <2> HIDE DEF p
  <2>4. NumSectors \div 2 = p
    BY <2>3
  <2> QED BY <2>4 DEF p
<1>3. get_slice_start(i) = q * i /\ get_slice_start(i + 1) = q * (i + 1)
  BY DEF get_slice_start
<1>4. b \in Nat /\ b >= get_slice_start(i) /\ get_slice_start(i) \in Nat
      /\ last_sector(i) \in Nat /\ SectorsPerBlock \in Nat
  BY SliceGeometry, IdentityAssumption DEF BlockStarts, SliceSectors
<1> HIDE DEF q, m
<1>5. CASE i >= h
  <2>1. q * h <= q * i
    BY <1>1, <1>5, ProductBelow
  <2> QED BY <1>1, <1>2, <1>3, <1>4, <2>1 DEF m
<1>6. CASE i < h
  <2>1. q * (i + 1) \in Nat /\ q * (i + 1) <= q * h
    BY <1>1, <1>6, ProductBelow
  <2>2. i # NUM_SLICES - 1
    BY <1>1, <1>6
  <2>3. last_sector(i) <= m
    BY <1>2, <1>3, <2>1, <2>2 DEF last_sector
  <2> QED BY <1>1, <1>4, <2>3 DEF Min, m
<1> QED BY <1>1, <1>5, <1>6

=============================================================================
