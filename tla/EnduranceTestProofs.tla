------------------------- MODULE EnduranceTestProofs -------------------------
(***************************************************************************)
(* Proofs about EnduranceTest, for devices, slices, blocks, retry limits   *)
(* and numbers of rounds and faults of any size: types, places, and what   *)
(* the test knows of bad sectors.  EnduranceRoundProofs has the rest.      *)
(***************************************************************************)
EXTENDS EnduranceTest, FiniteSetTheorems, TLAPS

----------------------------------------------------------------------------
(* Geometry: every slice is a non-empty part of the device, and a block a  *)
(* non-empty part of its slice (get_slice_start and the two slice loops).  *)

LEMMA ProductBelow ==
    ASSUME NEW q \in Nat, NEW i \in Nat, NEW j \in Nat, i <= j,
           NEW n \in Nat, q * j <= n
    PROVE  q * i \in Nat /\ q * i <= n
<1>1. q * (j - i) \in Nat
  OBVIOUS
<1>2. q * j = q * i + q * (j - i)
  OBVIOUS
<1> QED BY <1>1, <1>2

LEMMA SliceGeometry ==
    ASSUME NEW i \in Slices
    PROVE  /\ get_slice_start(i) \in Nat
           /\ last_sector(i) \in Nat
           /\ get_slice_start(i) < last_sector(i)
           /\ last_sector(i) <= NumSectors
<1> DEFINE q == NumSectors \div NUM_SLICES
<1>1. q \in Nat /\ q >= 1 /\ q * NUM_SLICES <= NumSectors
  BY EnduranceAssumption
<1>2. i \in Nat /\ i + 1 \in Nat /\ i + 1 <= NUM_SLICES /\ NUM_SLICES \in Nat
  BY EnduranceAssumption DEF Slices
<1>3. q * (i + 1) \in Nat /\ q * (i + 1) <= NumSectors
  BY <1>1, <1>2, ProductBelow, EnduranceAssumption
<1>4. q * i \in Nat /\ q * (i + 1) = q * i + q
  BY <1>1, <1>2
<1> QED
  BY <1>1, <1>2, <1>3, <1>4, EnduranceAssumption DEF get_slice_start, last_sector

LEMMA BlockGeometry ==
    ASSUME NEW i \in Slices, NEW b \in SliceSectors(i)
    PROVE  /\ b \in Nat /\ block_end(i, b) \in Nat
           /\ get_slice_start(i) <= b
           /\ b < block_end(i, b)
           /\ block_end(i, b) <= last_sector(i)
           /\ block_end(i, b) <= NumSectors
           /\ block_end(i, b) < last_sector(i) => block_end(i, b) \in SliceSectors(i)
           /\ b .. block_end(i, b) - 1 \subseteq Sectors
<1>1. /\ get_slice_start(i) \in Nat /\ last_sector(i) \in Nat
      /\ last_sector(i) <= NumSectors
      /\ b \in Nat /\ get_slice_start(i) <= b /\ b < last_sector(i)
  BY SliceGeometry DEF SliceSectors
<1>2. /\ block_end(i, b) \in Nat
      /\ b < block_end(i, b) /\ block_end(i, b) <= last_sector(i)
  BY <1>1, EnduranceAssumption DEF block_end
<1> QED BY <1>1, <1>2, EnduranceAssumption DEF SliceSectors, Sectors

LEMMA TakeSliceFacts ==
    ASSUME NEW S, S \subseteq Slices, TakeSlice(S)
    PROVE  /\ slice' \in Slices
           /\ todo' \subseteq Slices
           /\ block' \in SliceSectors(slice')
           /\ block' = get_slice_start(slice') /\ cur' = block'
           /\ block' \in 0 .. NumSectors
  BY SliceGeometry, EnduranceAssumption DEF TakeSlice, SliceSectors

LEMMA AdvanceFacts ==
    ASSUME slice \in Slices, block \in SliceSectors(slice),
           NEW c \in block .. BlockEnd, NEW part, NEW skip, NEW done,
           Advance(c, part, skip, done)
    PROVE  /\ cur' \in c .. BlockEnd
           /\ \/ pc' = skip
              \/ pc' = done /\ c = BlockEnd /\ cur' = BlockEnd
              \/ pc' = part /\ c < BlockEnd /\ cur' = c
  BY BlockGeometry DEF Advance, BlockEnd

----------------------------------------------------------------------------
(* Type correctness, and where the loops and the file position stand.      *)

LEMMA MarkType ==
    ASSUME sector_map \in [Sectors -> SUBSET Flags], NEW S, NEW fs \in SUBSET Flags
    PROVE  Mark(S, fs) \in [Sectors -> SUBSET Flags]
  BY DEF Mark

LEMMA ResetType ==
    ASSUME sector_map \in [Sectors -> SUBSET Flags], NEW S
    PROVE  Reset(S) \in [Sectors -> SUBSET Flags]
  BY DEF Reset

LEMMA SectorsFinite ==
    ASSUME NEW S, S \subseteq Sectors
    PROVE  IsFiniteSet(S) /\ Cardinality(S) \in Nat
<1>1. IsFiniteSet(Sectors)
  BY FS_Interval, EnduranceAssumption DEF Sectors
<1> QED BY <1>1, FS_Subset, FS_CardinalityType

\* The loops of the phases, block by block.
Working == {"write_slice_seek", "write_chunk", "write_skip", "block_written",
            "read_slice_seek", "read_chunk", "read_skip", "block_read"}

Places ==
    /\ pc \in Working =>
         /\ rounds_completed < MaxRounds
         /\ block \in SliceSectors(slice)
         /\ cur \in block .. BlockEnd
    /\ pc \in {"write_slice_seek", "read_slice_seek"} =>
         block = get_slice_start(slice) /\ cur = block
    /\ pc \in {"write_chunk", "read_chunk"} => cur < BlockEnd
    /\ pc = "block_read" => cur = BlockEnd /\ pos = cur
    /\ pc = "summary" => rounds_completed < MaxRounds
    /\ ReadsInPlace

TypeInv == TypeOK /\ Places

LEMMA InBlock ==
    ASSUME TypeInv, pc \in Working
    PROVE  /\ slice \in Slices /\ block \in SliceSectors(slice)
           /\ block \in Nat /\ BlockEnd \in Nat
           /\ block < BlockEnd /\ BlockEnd <= NumSectors /\ NumSectors \in Nat
           /\ cur \in block .. BlockEnd
           /\ block .. BlockEnd - 1 \subseteq Sectors
           /\ BlockEnd < last_sector(slice) => BlockEnd \in SliceSectors(slice)
  BY BlockGeometry, EnduranceAssumption
  DEF TypeInv, TypeOK, ControlOK, Places, BlockEnd

LEMMA SeekType ==
    ASSUME DeviceOK, NEW target \in 0 .. NumSectors, NEW disc, LseekOk(target, disc)
    PROVE  DeviceOK' /\ pos' = target
  BY DEF DeviceOK, LseekOk

LEMMA SeekFailsType ==
    ASSUME DeviceOK, NEW disc, LseekFails(disc)
    PROVE  DeviceOK'
  BY EnduranceAssumption DEF DeviceOK, LseekFails, Fault

LEMMA MarkBadType ==
    ASSUME DataOK, CountsOK, NEW S \in SUBSET Sectors, NEW fs \in SUBSET Flags,
           MarkBad(S, fs)
    PROVE  sector_map' \in [Sectors -> SUBSET Flags] /\ total_bad_sectors' \in Nat
<1>1. Cardinality({s \in S : ~is_sector_bad(s)}) \in Nat
  BY SectorsFinite
<1>2. {"FAILED", "FAILED_THIS_ROUND"} \cup fs \in SUBSET Flags
  BY DEF Flags
<1> QED BY <1>1, <1>2, MarkType DEF MarkBad, DataOK, CountsOK

LEMMA InitTypeInv == Init => TypeInv
<1> SUFFICES ASSUME Init PROVE TypeInv
  OBVIOUS
<1>1. 0 \in Slices /\ 0 \in 0 .. NumSectors
  BY EnduranceAssumption DEF Slices
<1>2. ControlOK
  BY <1>1, EnduranceAssumption DEF Init, ControlOK
<1>3. CountsOK
  BY EnduranceAssumption DEF Init, CountsOK, Never
<1>4. DeviceOK
  BY EnduranceAssumption DEF Init, DeviceOK
<1>5. DataOK
  BY EnduranceAssumption DEF Init, DataOK, Content, Garbage
<1>6. SwitchesOK
  BY DEF Init, SwitchesOK
<1>7. Places
  BY DEF Init, Places, Working, ReadsInPlace
<1> QED BY <1>2, <1>3, <1>4, <1>5, <1>6, <1>7 DEF TypeInv, TypeOK

----------------------------------------------------------------------------
(* Type correctness, action by action: the parts of TypeOK, and Places.    *)

LEMMA StartRoundType == ASSUME TypeInv, StartRound PROVE TypeInv'
<1> USE DEF TypeInv, TypeOK, StartRound, verdict, counters, place, session
<1>1. ControlOK'
  BY TakeSliceFacts DEF ControlOK
<1>2. CountsOK'
  BY DEF CountsOK
<1>3. DeviceOK'
  BY DEF DeviceOK
<1>4. DataOK'
  BY ResetType, EnduranceAssumption
  DEF DataOK, Content, Garbage, ForgetSession
<1>5. SwitchesOK'
  BY DEF SwitchesOK, ForgetSession
<1>6. Places'
  BY TakeSliceFacts, BlockGeometry
  DEF Places, CountsOK, Working, ReadsInPlace, BlockEnd
<1> QED BY <1>1, <1>2, <1>3, <1>4, <1>5, <1>6

LEMMA FiftyPercentType == ASSUME TypeInv, FiftyPercent PROVE TypeInv'
<1> USE DEF TypeInv, TypeOK, FiftyPercent, verdict, counters, place, session
<1>1. ControlOK'
  BY DEF ControlOK, End
<1>2. CountsOK'
  BY DEF CountsOK
<1>3. DeviceOK'
  BY DEF DeviceOK
<1>4. DataOK'
  BY DEF DataOK
<1>5. SwitchesOK'
  BY DEF SwitchesOK
<1>6. Places'
  BY DEF Places, End, Working, ReadsInPlace
<1> QED BY <1>1, <1>2, <1>3, <1>4, <1>5, <1>6

LEMMA WriteSliceSeekType == ASSUME TypeInv, WriteSliceSeek PROVE TypeInv'
<1> USE DEF TypeInv, TypeOK, WriteSliceSeek, verdict, counters, place, session
<1>1. pc \in Working /\ get_slice_start(slice) = cur /\ cur \in 0 .. NumSectors
  BY DEF Working, Places, ControlOK
<1>2. ControlOK'
  BY DEF ControlOK
<1>3. CountsOK'
  BY DEF CountsOK
<1>4. DeviceOK'
  BY <1>1, SeekType DEF DeviceOK
<1>5. DataOK'
  BY DEF DataOK
<1>6. SwitchesOK'
  BY DEF SwitchesOK
<1>7. Places'
  BY <1>1, SeekType, InBlock DEF Places, Working, ReadsInPlace, BlockEnd
<1> QED BY <1>2, <1>3, <1>4, <1>5, <1>6, <1>7

LEMMA WriteSliceSeekFailsType == ASSUME TypeInv, WriteSliceSeekFails PROVE TypeInv'
<1> USE DEF TypeInv, TypeOK, WriteSliceSeekFails, verdict, counters, place, session
<1>1. ControlOK'
  BY DEF ControlOK, End
<1>2. CountsOK'
  BY DEF CountsOK
<1>3. DeviceOK'
  BY SeekFailsType DEF DeviceOK
<1>4. DataOK'
  BY DEF DataOK
<1>5. SwitchesOK'
  BY DEF SwitchesOK
<1>6. Places'
  BY DEF Places, End, Working, ReadsInPlace
<1> QED BY <1>1, <1>2, <1>3, <1>4, <1>5, <1>6

LEMMA WriteChunkType == ASSUME TypeInv, WriteChunk PROVE TypeInv'
<1> USE DEF TypeInv, TypeOK, WriteChunk, verdict, counters, place, session
<1>1. pc \in Working /\ cur \in block .. BlockEnd /\ cur < BlockEnd
  BY InBlock DEF Working, Places
<1>2. PICK k \in 1 .. BlockEnd - cur, disc \in BOOLEAN :
        /\ WriteOk(k, disc)
        /\ device_was_disconnected' = disc
        /\ IF disc THEN pc' = "block_written" /\ cur' = cur + k
           ELSE Advance(cur + k, "write_chunk", "write_skip", "block_written")
  BY <1>1, InBlock
<1>3. cur + k \in block .. BlockEnd
  BY <1>1, InBlock
<1>4. /\ cur' \in block .. BlockEnd
      /\ \/ pc' \in {"write_skip", "block_written"}
         \/ pc' = "write_chunk" /\ cur' < BlockEnd
  BY <1>1, <1>2, <1>3, InBlock, AdvanceFacts
<1>5. rounds_completed \in Content /\ Garbage \in Content
  BY EnduranceAssumption DEF CountsOK, Content, Garbage
<1>6. cur' \in 0 .. NumSectors
  BY <1>1, <1>4, InBlock
<1>7. cur + k <= NumSectors /\ cur \in 0 .. NumSectors
  BY <1>1, InBlock
<1>8. ControlOK'
  BY <1>4, <1>6 DEF ControlOK
<1>9. CountsOK'
  BY DEF CountsOK
<1>10. DeviceOK'
  <2>1. pos' \in 0 .. NumSectors
    <3>1. CASE disc
      BY <1>2, <1>7, <3>1, InBlock DEF WriteOk
    <3>2. CASE ~disc
      <4>1. pos .. pos + k - 1 \subseteq Sectors /\ pos' = pos + k
        BY <1>2, <3>2 DEF WriteOk
      <4> QED BY <1>2, <4>1, EnduranceAssumption DEF DeviceOK, Sectors
    <3> QED BY <3>1, <3>2
  <2>2. fd' = "open"
    BY <1>2 DEF WriteOk
  <2>3. faults' \in 0 .. MaxFaults
    BY <1>2, EnduranceAssumption DEF DeviceOK, WriteOk, FailsBecause, Fault
  <2> QED BY <2>1, <2>2, <2>3 DEF DeviceOK
<1>11. DataOK'
  BY <1>2, <1>5 DEF DataOK, WriteOk
<1>12. SwitchesOK'
  BY <1>2 DEF SwitchesOK, WriteOk
<1>13. Places'
  BY <1>1, <1>4, InBlock DEF Places, Working, ReadsInPlace, BlockEnd
<1> QED BY <1>8, <1>9, <1>10, <1>11, <1>12, <1>13

LEMMA WriteChunkFailsType == ASSUME TypeInv, WriteChunkFails PROVE TypeInv'
<1> USE DEF TypeInv, TypeOK, WriteChunkFails, verdict, counters, place, session
<1>1. pc \in Working /\ cur \in block .. BlockEnd /\ cur < BlockEnd
  BY InBlock DEF Working, Places
<1>2. /\ cur \in Sectors /\ cur + 1 \in block .. BlockEnd
      /\ cur + 1 \in 0 .. NumSectors
  BY <1>1, InBlock
<1>3. {"DO_NOT_USE"} \in SUBSET Flags
  BY DEF Flags
<1>4. sector_map' \in [Sectors -> SUBSET Flags] /\ total_bad_sectors' \in Nat
  BY <1>2, <1>3, MarkBadType
<1>5. ControlOK'
  BY <1>2 DEF ControlOK
<1>6. CountsOK'
  BY <1>4 DEF CountsOK
<1>7. DeviceOK'
  BY <1>1, InBlock, EnduranceAssumption DEF DeviceOK, WriteFails, FailsBecause, Fault
<1>8. DataOK'
  BY <1>4 DEF DataOK, WriteFails, Break
<1>9. SwitchesOK'
  BY DEF SwitchesOK, WriteFails, Break
<1>10. Places'
  BY <1>1, <1>2, InBlock DEF Places, Working, ReadsInPlace, BlockEnd
<1> QED BY <1>5, <1>6, <1>7, <1>8, <1>9, <1>10

LEMMA WriteChunkLosesDeviceType == ASSUME TypeInv, WriteChunkLosesDevice PROVE TypeInv'
<1> USE DEF TypeInv, TypeOK, WriteChunkLosesDevice, verdict, counters, place, session
<1>1. ControlOK'
  BY DEF ControlOK
<1>2. CountsOK'
  BY DEF CountsOK
<1>3. DeviceOK'
  BY EnduranceAssumption DEF DeviceOK, WriteLosesDevice, FailsBecause, Fault
<1>4. DataOK'
  BY DEF DataOK, WriteLosesDevice, Break
<1>5. SwitchesOK'
  BY DEF SwitchesOK, WriteLosesDevice, Break
<1>6. Places'
  BY DEF Places, Working, ReadsInPlace, BlockEnd
<1> QED BY <1>1, <1>2, <1>3, <1>4, <1>5, <1>6

LEMMA WriteNothingType == ASSUME TypeInv, WriteNothing PROVE TypeInv'
<1> USE DEF TypeInv, TypeOK, WriteNothing, verdict, counters, place, session
<1>1. pc \in Working /\ cur \in block .. BlockEnd
  BY InBlock DEF Working
<1>2. /\ cur' \in block .. BlockEnd /\ cur' \in 0 .. NumSectors
      /\ \/ pc' = "write_skip"
         \/ pc' = "block_written" /\ cur = BlockEnd
         \/ pc' = "write_chunk" /\ cur' < BlockEnd
  BY <1>1, InBlock, AdvanceFacts
<1>3. ControlOK'
  BY <1>2 DEF ControlOK
<1>4. CountsOK'
  BY DEF CountsOK
<1>5. DeviceOK'
  BY DEF DeviceOK
<1>6. DataOK'
  BY DEF DataOK
<1>7. SwitchesOK'
  BY DEF SwitchesOK
<1>8. Places'
  BY <1>1, <1>2, InBlock DEF Places, Working, ReadsInPlace, BlockEnd
<1> QED BY <1>3, <1>4, <1>5, <1>6, <1>7, <1>8

LEMMA WriteSkipType == ASSUME TypeInv, WriteSkip PROVE TypeInv'
<1> USE DEF TypeInv, TypeOK, WriteSkip, verdict, counters, place, session
<1>1. pc \in Working /\ cur \in 0 .. NumSectors
  BY DEF Working, ControlOK
<1>2. ControlOK'
  BY DEF ControlOK
<1>3. CountsOK'
  BY DEF CountsOK
<1>4. DeviceOK'
  BY <1>1, SeekType DEF DeviceOK
<1>5. DataOK'
  BY DEF DataOK
<1>6. SwitchesOK'
  BY DEF SwitchesOK
<1>7. Places'
  BY <1>1, InBlock DEF Places, Working, ReadsInPlace, BlockEnd
<1> QED BY <1>2, <1>3, <1>4, <1>5, <1>6, <1>7

LEMMA WriteSkipFailsType == ASSUME TypeInv, WriteSkipFails PROVE TypeInv'
<1> USE DEF TypeInv, TypeOK, WriteSkipFails, verdict, counters, place, session
<1>1. ControlOK'
  BY DEF ControlOK
<1>2. CountsOK'
  BY DEF CountsOK
<1>3. DeviceOK'
  BY SeekFailsType DEF DeviceOK
<1>4. DataOK'
  BY DEF DataOK
<1>5. SwitchesOK'
  BY DEF SwitchesOK
<1>6. Places'
  BY DEF Places, Working, ReadsInPlace, BlockEnd
<1> QED BY <1>1, <1>2, <1>3, <1>4, <1>5, <1>6

LEMMA BlockWrittenType == ASSUME TypeInv, BlockWritten PROVE TypeInv'
<1> USE DEF TypeInv, TypeOK, BlockWritten, verdict, counters, place, session
<1>1. pc \in Working
  BY DEF Working
<1>2. get_slice_start(slice) \in SliceSectors(slice) /\ get_slice_start(slice) \in 0 .. NumSectors
  <2>1. slice \in Slices
    BY <1>1, InBlock
  <2> QED BY <2>1, SliceGeometry, EnduranceAssumption DEF SliceSectors
<1>3. \/ pc' = "write_slice_seek" /\ slice' = slice /\ todo' = todo
         /\ block' = get_slice_start(slice) /\ cur' = block'
      \/ pc' = "write_chunk" /\ slice' = slice /\ todo' = todo
         /\ block' = BlockEnd /\ cur' = block' /\ BlockEnd < last_sector(slice)
      \/ pc' \in {"write_slice_seek", "read_slice_seek"}
         /\ \E S \in SUBSET Slices : TakeSlice(S)
  BY DEF WriteSliceDone, ControlOK
<1>4. /\ slice' \in Slices /\ todo' \subseteq Slices
      /\ block' \in SliceSectors(slice') /\ block' \in 0 .. NumSectors
      /\ cur' = block'
      /\ \/ pc' = "write_chunk"
         \/ pc' \in {"write_slice_seek", "read_slice_seek"}
            /\ block' = get_slice_start(slice')
  BY <1>1, <1>2, <1>3, InBlock, TakeSliceFacts DEF ControlOK
<1>5. block' < block_end(slice', block')
  BY <1>4, BlockGeometry
<1>6. {"WRITTEN_THIS_ROUND"} \in SUBSET Flags
  BY DEF Flags
<1>7. ControlOK'
  BY <1>4 DEF ControlOK
<1>8. CountsOK'
  BY DEF CountsOK
<1>9. DeviceOK'
  BY DEF DeviceOK
<1>10. DataOK'
  BY <1>6, ResetType, MarkType DEF DataOK, ForgetSession
<1>11. SwitchesOK'
  BY DEF SwitchesOK, ForgetSession
<1>12. Places'
  BY <1>1, <1>4, <1>5, BlockGeometry
  DEF Places, Working, ReadsInPlace, BlockEnd
<1> QED BY <1>7, <1>8, <1>9, <1>10, <1>11, <1>12

LEMMA ReadSliceSeekType == ASSUME TypeInv, ReadSliceSeek PROVE TypeInv'
<1> USE DEF TypeInv, TypeOK, ReadSliceSeek, verdict, counters, place, session
<1>1. pc \in Working /\ get_slice_start(slice) = cur /\ cur \in 0 .. NumSectors
  BY DEF Working, Places, ControlOK
<1>2. ControlOK'
  BY EnduranceAssumption DEF ControlOK
<1>3. CountsOK'
  BY DEF CountsOK
<1>4. DeviceOK'
  BY <1>1, SeekType DEF DeviceOK
<1>5. DataOK'
  BY DEF DataOK
<1>6. SwitchesOK'
  BY DEF SwitchesOK
<1>7. Places'
  BY <1>1, SeekType, InBlock DEF Places, Working, ReadsInPlace, BlockEnd
<1> QED BY <1>2, <1>3, <1>4, <1>5, <1>6, <1>7

LEMMA ReadSliceSeekFailsType == ASSUME TypeInv, ReadSliceSeekFails PROVE TypeInv'
<1> USE DEF TypeInv, TypeOK, ReadSliceSeekFails, verdict, counters, place, session
<1>1. ControlOK'
  BY DEF ControlOK, End
<1>2. CountsOK'
  BY DEF CountsOK
<1>3. DeviceOK'
  BY SeekFailsType DEF DeviceOK
<1>4. DataOK'
  BY DEF DataOK
<1>5. SwitchesOK'
  BY DEF SwitchesOK
<1>6. Places'
  BY DEF Places, End, Working, ReadsInPlace
<1> QED BY <1>1, <1>2, <1>3, <1>4, <1>5, <1>6

LEMMA ReadChunkType == ASSUME TypeInv, ReadChunk PROVE TypeInv'
<1> USE DEF TypeInv, TypeOK, ReadChunk, verdict, counters, place, session
<1>1. pc \in Working /\ cur \in block .. BlockEnd /\ cur < BlockEnd /\ pos = cur
  BY InBlock DEF Working, Places, ReadsInPlace
<1>2. PICK k \in 1 .. BlockEnd - cur, mangled \in BOOLEAN :
        /\ IF mangled THEN Fault ELSE UNCHANGED faults
        /\ pos' = pos + k
        /\ Advance(cur + k, "read_chunk", "read_skip", "block_read")
        /\ compare_buf' = [s \in Sectors |->
             IF s \notin cur .. cur' - 1 THEN compare_buf[s]
             ELSE IF s >= cur + k THEN Zeroes
             ELSE IF mangled THEN Foreign
             ELSE IF pos = cur THEN content[s] ELSE Garbage]
  BY <1>1, InBlock
<1>3. cur + k \in block .. BlockEnd
  BY <1>1, InBlock
<1>4. /\ cur' \in block .. BlockEnd /\ pos' \in block .. BlockEnd
      /\ cur' \in 0 .. NumSectors
      /\ \/ pc' = "read_skip"
         \/ pc' = "block_read" /\ cur' = BlockEnd /\ pos' = cur'
         \/ pc' = "read_chunk" /\ cur' < BlockEnd /\ pos' = cur'
  BY <1>1, <1>2, <1>3, InBlock, AdvanceFacts
<1>5. {Zeroes, Foreign, Garbage} \subseteq Content
  BY EnduranceAssumption DEF Content, Zeroes, Foreign, Garbage
<1>6. ControlOK'
  BY <1>4 DEF ControlOK
<1>7. CountsOK'
  BY DEF CountsOK
<1>8. DeviceOK'
  BY <1>1, <1>2, <1>4, InBlock, EnduranceAssumption DEF DeviceOK, Fault
<1>9. DataOK'
  BY <1>2, <1>5 DEF DataOK
<1>10. SwitchesOK'
  BY DEF SwitchesOK
<1>11. Places'
  BY <1>1, <1>4, InBlock DEF Places, Working, ReadsInPlace, BlockEnd
<1> QED BY <1>6, <1>7, <1>8, <1>9, <1>10, <1>11

LEMMA ReadChunkFailsType == ASSUME TypeInv, ReadChunkFails PROVE TypeInv'
<1> USE DEF TypeInv, TypeOK, ReadChunkFails, verdict, counters, place, session
<1>1. pc \in Working /\ cur \in block .. BlockEnd /\ cur < BlockEnd
  BY InBlock DEF Working, Places
<1>2. /\ cur \in Sectors /\ cur + 1 \in block .. BlockEnd
      /\ cur + 1 \in 0 .. NumSectors
  BY <1>1, InBlock
<1>3. {"DO_NOT_USE"} \in SUBSET Flags
  BY DEF Flags
<1>4. sector_map' \in [Sectors -> SUBSET Flags] /\ total_bad_sectors' \in Nat
  BY <1>2, <1>3, MarkBadType
<1>5. Zeroes \in Content
  BY EnduranceAssumption DEF Content, Zeroes
<1>6. ControlOK'
  BY <1>2 DEF ControlOK
<1>7. CountsOK'
  BY <1>4 DEF CountsOK
<1>8. DeviceOK'
  BY EnduranceAssumption DEF DeviceOK, ReadFails, FailsBecause, Fault
<1>9. DataOK'
  BY <1>4, <1>5 DEF DataOK
<1>10. SwitchesOK'
  BY DEF SwitchesOK
<1>11. Places'
  BY <1>1, <1>2, InBlock DEF Places, Working, ReadsInPlace, BlockEnd
<1> QED BY <1>6, <1>7, <1>8, <1>9, <1>10, <1>11

LEMMA ReadChunkLosesDeviceType == ASSUME TypeInv, ReadChunkLosesDevice PROVE TypeInv'
<1> USE DEF TypeInv, TypeOK, ReadChunkLosesDevice, verdict, counters, place, session
<1>1. ControlOK'
  BY DEF ControlOK, End
<1>2. CountsOK'
  BY DEF CountsOK
<1>3. DeviceOK'
  BY EnduranceAssumption DEF DeviceOK, ReadFails, FailsBecause, Fault
<1>4. DataOK'
  BY DEF DataOK
<1>5. SwitchesOK'
  BY DEF SwitchesOK
<1>6. Places'
  BY DEF Places, End, Working, ReadsInPlace
<1> QED BY <1>1, <1>2, <1>3, <1>4, <1>5, <1>6

LEMMA ReadNothingType == ASSUME TypeInv, ReadNothing PROVE TypeInv'
<1> USE DEF TypeInv, TypeOK, ReadNothing, verdict, counters, place, session
<1>1. /\ pc \in Working /\ cur \in block .. BlockEnd /\ cur < BlockEnd
      /\ pos = cur
  BY InBlock DEF Working, Places, ReadsInPlace
<1>2. /\ cur' \in block .. BlockEnd /\ cur' \in 0 .. NumSectors
      /\ \/ pc' = "read_skip"
         \/ pc' = "read_chunk" /\ cur' = cur
  BY <1>1, InBlock, AdvanceFacts
<1>3. Zeroes \in Content
  BY EnduranceAssumption DEF Content, Zeroes
<1>4. ControlOK'
  BY <1>2 DEF ControlOK
<1>5. CountsOK'
  BY DEF CountsOK
<1>6. DeviceOK'
  BY DEF DeviceOK
<1>7. DataOK'
  BY <1>3 DEF DataOK
<1>8. SwitchesOK'
  BY DEF SwitchesOK
<1>9. Places'
  BY <1>1, <1>2, InBlock DEF Places, Working, ReadsInPlace, BlockEnd
<1> QED BY <1>4, <1>5, <1>6, <1>7, <1>8, <1>9

LEMMA ReadSkipType == ASSUME TypeInv, ReadSkip PROVE TypeInv'
<1> USE DEF TypeInv, TypeOK, ReadSkip, verdict, counters, place, session
<1>1. pc \in Working /\ cur \in 0 .. NumSectors
  BY DEF Working, ControlOK
<1>2. ControlOK'
  BY DEF ControlOK
<1>3. CountsOK'
  BY DEF CountsOK
<1>4. DeviceOK'
  BY <1>1, SeekType DEF DeviceOK
<1>5. DataOK'
  BY DEF DataOK
<1>6. SwitchesOK'
  BY DEF SwitchesOK
<1>7. Places'
  BY <1>1, SeekType, InBlock DEF Places, Working, ReadsInPlace, BlockEnd
<1> QED BY <1>2, <1>3, <1>4, <1>5, <1>6, <1>7

LEMMA ReadSkipFailsType == ASSUME TypeInv, ReadSkipFails PROVE TypeInv'
<1> USE DEF TypeInv, TypeOK, ReadSkipFails, verdict, counters, place, session
<1>1. ControlOK'
  BY DEF ControlOK, End
<1>2. CountsOK'
  BY DEF CountsOK
<1>3. DeviceOK'
  BY SeekFailsType DEF DeviceOK
<1>4. DataOK'
  BY DEF DataOK
<1>5. SwitchesOK'
  BY DEF SwitchesOK
<1>6. Places'
  BY DEF Places, End, Working, ReadsInPlace
<1> QED BY <1>1, <1>2, <1>3, <1>4, <1>5, <1>6

LEMMA RereadMangledType == ASSUME TypeInv, RereadMangled PROVE TypeInv'
<1> USE DEF TypeInv, TypeOK, RereadMangled, verdict, counters, place, session
<1>1. pc \in Working /\ block \in 0 .. NumSectors
  BY DEF Working, ControlOK
<1>2. ControlOK'
  BY <1>1, EnduranceAssumption DEF ControlOK, MangledAndRetriesLeft
<1>3. CountsOK'
  BY DEF CountsOK
<1>4. DeviceOK'
  BY <1>1, SeekType DEF DeviceOK
<1>5. DataOK'
  BY DEF DataOK
<1>6. SwitchesOK'
  BY DEF SwitchesOK
<1>7. Places'
  BY <1>1, SeekType, InBlock DEF Places, Working, ReadsInPlace, BlockEnd
<1> QED BY <1>2, <1>3, <1>4, <1>5, <1>6, <1>7

LEMMA RereadMangledFailsType == ASSUME TypeInv, RereadMangledFails PROVE TypeInv'
<1> USE DEF TypeInv, TypeOK, RereadMangledFails, verdict, counters, place, session
<1>1. ControlOK'
  BY DEF ControlOK, End
<1>2. CountsOK'
  BY DEF CountsOK
<1>3. DeviceOK'
  BY SeekFailsType DEF DeviceOK
<1>4. DataOK'
  BY DEF DataOK
<1>5. SwitchesOK'
  BY DEF SwitchesOK
<1>6. Places'
  BY DEF Places, End, Working, ReadsInPlace
<1> QED BY <1>1, <1>2, <1>3, <1>4, <1>5, <1>6

LEMMA CompareBlockType == ASSUME TypeInv, CompareBlock PROVE TypeInv'
<1> USE DEF TypeInv, TypeOK, CompareBlock, verdict, counters, place, session
<1> DEFINE B     == block .. BlockEnd - 1
           wrong == {s \in B : compare_buf[s] # rounds_completed}
           new   == {s \in wrong : ~is_sector_bad(s)}
           good  == {s \in B \ wrong : is_sector_bad(s)}
<1>1. pc \in Working /\ cur = BlockEnd /\ pos = cur
  BY DEF Working, Places
<1>2. B \subseteq Sectors
  BY <1>1, InBlock
<1>3. /\ Cardinality(wrong) \in Nat
      /\ Cardinality(new) \in Nat
      /\ Cardinality(good) \in Nat
  <2>1. wrong \subseteq Sectors /\ new \subseteq Sectors /\ good \subseteq Sectors
    BY <1>2
  <2> HIDE DEF wrong, new, good
  <2> QED BY <2>1, SectorsFinite
<1>4. \/ /\ pc' = "read_chunk" /\ slice' = slice /\ todo' = todo
         /\ BlockEnd < last_sector(slice) /\ block' = BlockEnd /\ cur' = block'
      \/ pc' = "read_slice_seek" /\ \E S \in SUBSET Slices : TakeSlice(S)
      \/ /\ pc' = "summary" /\ slice' = slice /\ todo' = todo /\ block' = block
         /\ cur' = cur
  BY DEF ReadSliceDone, ControlOK
<1>5. /\ slice' \in Slices /\ todo' \subseteq Slices
      /\ block' \in SliceSectors(slice') /\ block' \in 0 .. NumSectors
      /\ cur' \in 0 .. NumSectors
      /\ \/ pc' = "read_chunk" /\ cur' = block' /\ pos' = cur'
         \/ pc' = "read_slice_seek" /\ cur' = block' /\ block' = get_slice_start(slice')
         \/ pc' = "summary"
  BY <1>1, <1>4, InBlock, TakeSliceFacts DEF ControlOK
<1>6. block' < block_end(slice', block')
  BY <1>5, BlockGeometry
<1>7. ControlOK'
  BY <1>5, EnduranceAssumption DEF ControlOK
<1>8. CountsOK'
  BY <1>3 DEF CountsOK
<1>9. DeviceOK'
  BY DEF DeviceOK
<1>10. DataOK'
  BY DEF DataOK, Flags
<1>11. SwitchesOK'
  BY DEF SwitchesOK
<1>12. Places'
  BY <1>1, <1>5, <1>6, BlockGeometry DEF Places, Working, ReadsInPlace, BlockEnd
<1> QED BY <1>7, <1>8, <1>9, <1>10, <1>11, <1>12

LEMMA EndRoundType == ASSUME TypeInv, EndRound PROVE TypeInv'
<1> USE DEF TypeInv, TypeOK, EndRound, verdict, counters, place, session
<1>1. ControlOK'
  BY DEF ControlOK
<1>2. CountsOK'
  BY EnduranceAssumption DEF CountsOK, Places, Divisor
<1>3. DeviceOK'
  BY DEF DeviceOK
<1>4. DataOK'
  BY DEF DataOK
<1>5. SwitchesOK'
  BY DEF SwitchesOK
<1>6. Places'
  BY DEF Places, Working, ReadsInPlace
<1> QED BY <1>1, <1>2, <1>3, <1>4, <1>5, <1>6

LEMMA DisconnectType == ASSUME TypeInv, Disconnect PROVE TypeInv'
<1> USE DEF TypeInv, TypeOK, Disconnect, verdict, counters, place, session
<1>1. ControlOK'
  BY DEF ControlOK
<1>2. CountsOK'
  BY DEF CountsOK
<1>3. DeviceOK'
  BY EnduranceAssumption DEF DeviceOK, Fault
<1>4. DataOK'
  BY DEF DataOK, Break
<1>5. SwitchesOK'
  BY DEF SwitchesOK, Break
<1>6. Places'
  BY DEF Places, Working, ReadsInPlace, BlockEnd
<1> QED BY <1>1, <1>2, <1>3, <1>4, <1>5, <1>6

LEMMA DecayType == ASSUME TypeInv, Decay PROVE TypeInv'
<1> USE DEF TypeInv, TypeOK, Decay, verdict, counters, place, session
<1>1. Garbage \in Content
  BY EnduranceAssumption DEF Content, Garbage
<1>2. ControlOK'
  BY DEF ControlOK
<1>3. CountsOK'
  BY DEF CountsOK
<1>4. DeviceOK'
  BY EnduranceAssumption DEF DeviceOK, Fault
<1>5. DataOK'
  BY <1>1 DEF DataOK
<1>6. SwitchesOK'
  BY DEF SwitchesOK
<1>7. Places'
  BY DEF Places, Working, ReadsInPlace, BlockEnd
<1> QED BY <1>2, <1>3, <1>4, <1>5, <1>6, <1>7

LEMMA NextTypeInv == TypeInv /\ [Next]_vars => TypeInv'
<1> SUFFICES ASSUME TypeInv, [Next]_vars PROVE TypeInv'
  OBVIOUS
<1>1. CASE UNCHANGED vars
  BY <1>1 DEF vars, verdict, counters, place, session, TypeInv, TypeOK, ControlOK,
     CountsOK, DeviceOK, DataOK, SwitchesOK, Places, Working, ReadsInPlace, BlockEnd
<1>2. CASE StartRound \/ FiftyPercent \/ EndRound
  BY <1>2, StartRoundType, FiftyPercentType, EndRoundType
<1>3. CASE WriteStep
  BY <1>3, WriteSliceSeekType, WriteSliceSeekFailsType, WriteChunkType,
     WriteChunkFailsType, WriteChunkLosesDeviceType, WriteNothingType,
     WriteSkipType, WriteSkipFailsType, BlockWrittenType
  DEF WriteStep
<1>4. CASE ReadStep
  BY <1>4, ReadSliceSeekType, ReadSliceSeekFailsType, ReadChunkType,
     ReadChunkFailsType, ReadChunkLosesDeviceType, ReadNothingType,
     ReadSkipType, ReadSkipFailsType, RereadMangledType,
     RereadMangledFailsType, CompareBlockType
  DEF ReadStep
<1>5. CASE Disconnect \/ Decay
  BY <1>5, DisconnectType, DecayType
<1> QED BY <1>1, <1>2, <1>3, <1>4, <1>5 DEF Next, MainThread

LEMMA TypeInvAlways == Spec => []TypeInv
  BY InitTypeInv, NextTypeInv, PTL DEF Spec

(* The variables keep their types: the block loops stay inside the slice,  *)
(* the slices inside the device, and the file position inside the device.  *)
THEOREM TypeCorrect == Spec => []TypeOK
<1>1. TypeInv => TypeOK
  BY DEF TypeInv
<1> QED BY <1>1, TypeInvAlways, PTL

(* The read phase compares each sector with the data read from that very   *)
(* sector's position.                                                      *)
THEOREM ReadInPlace == Spec => []ReadsInPlace
<1>1. TypeInv => ReadsInPlace
  BY DEF TypeInv, Places
<1> QED BY <1>1, TypeInvAlways, PTL

----------------------------------------------------------------------------
(* Bad sectors: the running count is exact, nothing is forgotten, unusable  *)
(* sectors are left alone, and the test therefore keeps the promise of      *)
(* EnduranceRounds.                                                         *)

Bad      == Flagged("FAILED")
Unusable == Flagged("DO_NOT_USE")

\* A step that leaves what is known of bad sectors as it is ...
Kept ==
    /\ Bad' = Bad
    /\ Unusable' = Unusable
    /\ total_bad_sectors' = total_bad_sectors

\* ... or finds the sectors of S bad, and those of U unusable.
Found(S, U) ==
    /\ Bad' = Bad \cup S
    /\ Unusable' = Unusable \cup U
    /\ total_bad_sectors' = total_bad_sectors + Cardinality(S \ Bad)

LEMMA Untouched ==
    ASSUME sector_map' = sector_map, total_bad_sectors' = total_bad_sectors
    PROVE  Kept
  BY DEF Kept, Bad, Unusable, Flagged

LEMMA ResetKeeps ==
    ASSUME DataOK, NEW S, sector_map' = Reset(S), total_bad_sectors' = total_bad_sectors
    PROVE  Kept
  BY DEF Kept, Bad, Unusable, Flagged, Reset, DataOK

LEMMA MarkWrittenKeeps ==
    ASSUME DataOK, NEW S, sector_map' = Mark(S, {"WRITTEN_THIS_ROUND"}),
           total_bad_sectors' = total_bad_sectors
    PROVE  Kept
  BY DEF Kept, Bad, Unusable, Flagged, Mark, DataOK

LEMMA CondemnedFound ==
    ASSUME DataOK, cur \in Sectors, MarkBad({cur}, {"DO_NOT_USE"})
    PROVE  Found({cur}, {cur})
<1>1. {s \in {cur} : ~is_sector_bad(s)} = {cur} \ Bad
  BY DEF Bad, Flagged, is_sector_bad
<1> QED BY <1>1 DEF Found, MarkBad, Mark, Bad, Unusable, Flagged, DataOK

\* The actions that condemn sectors, or compare them.
Judging == WriteChunkFails \/ ReadChunkFails \/ CompareBlock

LEMMA CompareFound ==
    ASSUME TypeInv, CompareBlock
    PROVE  \E S \in SUBSET Sectors : Found(S, {})
<1> DEFINE B     == block .. BlockEnd - 1
           wrong == {s \in B : compare_buf[s] # rounds_completed}
<1>1. B \subseteq Sectors
  BY InBlock DEF CompareBlock, Working
<1>2. {s \in wrong : ~is_sector_bad(s)} = wrong \ Bad
  BY <1>1 DEF Bad, Flagged, is_sector_bad
<1>3. /\ sector_map' = [s \in Sectors |->
             sector_map[s] \cup (IF s \in B THEN {"READ_THIS_ROUND"} ELSE {})
                           \cup (IF s \in wrong THEN {"FAILED", "FAILED_THIS_ROUND"}
                                                ELSE {})]
      /\ total_bad_sectors' = total_bad_sectors + Cardinality(wrong \ Bad)
  BY <1>2 DEF CompareBlock
<1> HIDE DEF B
<1>4. wrong \in SUBSET Sectors
  BY <1>1
<1> HIDE DEF wrong
<1>5. Found(wrong, {})
  BY <1>3, <1>4 DEF Found, Bad, Unusable, Flagged
<1> QED BY <1>4, <1>5

LEMMA JudgingFound ==
    ASSUME TypeInv, Judging
    PROVE  \E S \in SUBSET Sectors : \E U \in SUBSET S : Found(S, U)
<1>1. CASE CompareBlock
  BY <1>1, CompareFound
<1>2. CASE WriteChunkFails \/ ReadChunkFails
  <2>1. cur \in Sectors
    BY <1>2, InBlock DEF TypeInv, Places, Working, WriteChunkFails, ReadChunkFails
  <2>2. Found({cur}, {cur})
    BY <1>2, <2>1, CondemnedFound DEF TypeInv, TypeOK, WriteChunkFails, ReadChunkFails
  <2> QED BY <2>1, <2>2
<1> QED BY <1>1, <1>2 DEF Judging

LEMMA OthersKeep ==
    ASSUME TypeInv, [Next]_vars, ~Judging
    PROVE  Kept
<1>1. CASE StartRound
  BY <1>1, ResetKeeps DEF StartRound, TypeInv, TypeOK
<1>2. CASE BlockWritten
  BY <1>2, ResetKeeps, MarkWrittenKeeps DEF BlockWritten, TypeInv, TypeOK
<1>3. CASE FiftyPercent \/ EndRound \/ Disconnect \/ Decay \/ UNCHANGED vars
  BY <1>3, Untouched
  DEF FiftyPercent, EndRound, Disconnect, Decay, vars, verdict
<1>4. CASE WriteStep /\ ~BlockWritten
  BY <1>4, Untouched
  DEF Judging, WriteStep, WriteSliceSeek, WriteSliceSeekFails, WriteChunk,
      WriteChunkLosesDevice, WriteNothing, WriteSkip, WriteSkipFails, verdict
<1>5. CASE ReadStep
  BY <1>5, Untouched
  DEF Judging, ReadStep, ReadSliceSeek, ReadSliceSeekFails, ReadChunk,
      ReadChunkLosesDevice, ReadNothing, ReadSkip, ReadSkipFails,
      RereadMangled, RereadMangledFails, verdict
<1> QED BY <1>1, <1>2, <1>3, <1>4, <1>5 DEF Next, MainThread

----------------------------------------------------------------------------
(* The running count is exact.                                             *)

\* Only bad sectors are unusable, and the bad ones are all counted.
BadInv ==
    /\ TypeInv
    /\ BadCountMatchesMap
    /\ Unusable \subseteq Bad

LEMMA CountUnion ==
    ASSUME NEW S \in SUBSET Sectors
    PROVE  Cardinality(Bad \cup S) = Cardinality(Bad) + Cardinality(S \ Bad)
<1>1. IsFiniteSet(Bad) /\ IsFiniteSet(S \ Bad)
  BY SectorsFinite DEF Bad, Flagged
<1>2. Bad \cap (S \ Bad) = {} /\ Bad \cup S = Bad \cup (S \ Bad)
  OBVIOUS
<1>3. Cardinality({}) = 0 /\ Cardinality(Bad) \in Nat /\ Cardinality(S \ Bad) \in Nat
  BY <1>1, FS_EmptySet, FS_CardinalityType
<1>4. Cardinality(Bad \cup (S \ Bad)) =
        Cardinality(Bad) + Cardinality(S \ Bad) - Cardinality(Bad \cap (S \ Bad))
  BY <1>1, FS_Union
<1>5. Cardinality(Bad \cap (S \ Bad)) = 0
  BY <1>2, <1>3
<1>6. Cardinality(Bad \cup S) = Cardinality(Bad \cup (S \ Bad))
  BY <1>2
<1> QED BY <1>3, <1>4, <1>5, <1>6

LEMMA InitBadInv == Init => BadInv
<1> SUFFICES ASSUME Init PROVE BadInv
  OBVIOUS
<1>1. Bad = {} /\ Unusable = {}
  BY DEF Init, Bad, Unusable, Flagged
<1>2. BadCountMatchesMap
  BY <1>1, FS_EmptySet DEF Init, BadCountMatchesMap, Bad
<1> QED BY <1>1, <1>2, InitTypeInv DEF BadInv

LEMMA NextBadInv == BadInv /\ [Next]_vars => BadInv'
<1> SUFFICES ASSUME BadInv, [Next]_vars PROVE BadInv'
  OBVIOUS
<1>1. TypeInv'
  BY NextTypeInv DEF BadInv
<1>2. CASE ~Judging
  BY <1>1, <1>2, OthersKeep DEF BadInv, Kept, BadCountMatchesMap, Bad
<1>3. CASE Judging
  <2>1. PICK S \in SUBSET Sectors : \E U \in SUBSET S : Found(S, U)
    BY <1>3, JudgingFound DEF BadInv
  <2>2. Unusable' \subseteq Bad'
    BY <2>1 DEF BadInv, Found
  <2>3. Cardinality(Bad') = total_bad_sectors'
    BY <2>1, CountUnion DEF BadInv, Found, BadCountMatchesMap, Bad
  <2> QED BY <1>1, <2>2, <2>3 DEF BadInv, BadCountMatchesMap, Bad
<1> QED BY <1>2, <1>3

LEMMA BadInvAlways == Spec => []BadInv
  BY InitBadInv, NextBadInv, PTL DEF Spec

(* total_bad_sectors, which decides when the test ends and is what the     *)
(* screen and the log report, is the number of sectors flagged as failed.  *)
THEOREM CountExact == Spec => []BadCountMatchesMap
<1>1. BadInv => BadCountMatchesMap
  BY DEF BadInv
<1> QED BY <1>1, BadInvAlways, PTL

(* No map reset, slice restart or later success takes the mark off a       *)
(* sector that has failed or is not to be used.                            *)
THEOREM BadStaysBad == Spec => BadSectorsStayBad
<1>1. TypeInv /\ [Next]_vars =>
        [\A s \in Sectors : \A f \in {"FAILED", "DO_NOT_USE"} :
            f \in sector_map[s] => f \in sector_map'[s]]_vars
  <2> SUFFICES ASSUME TypeInv, [Next]_vars
               PROVE  \A s \in Sectors : \A f \in {"FAILED", "DO_NOT_USE"} :
                        f \in sector_map[s] => f \in sector_map'[s]
    OBVIOUS
  <2>1. Bad \subseteq Bad' /\ Unusable \subseteq Unusable'
    BY OthersKeep, JudgingFound DEF Kept, Found
  <2> QED BY <2>1 DEF Bad, Unusable, Flagged
<1> QED BY <1>1, TypeInvAlways, PTL DEF Spec, BadSectorsStayBad

----------------------------------------------------------------------------
(* Sectors that are not to be used are left alone.                         *)

LEMMA OnlyWriteChunkWrites ==
    ASSUME TypeInv, [Next]_vars, content' # content
    PROVE  WriteChunk \/ Decay
<1> USE DEF verdict, counters, place, session
<1>1. CASE StartRound \/ FiftyPercent \/ EndRound \/ Disconnect \/ UNCHANGED vars
  BY <1>1 DEF StartRound, FiftyPercent, EndRound, Disconnect, vars
<1>2. CASE WriteStep
  BY <1>2 DEF WriteStep, WriteSliceSeek, WriteSliceSeekFails, WriteChunkFails,
     WriteChunkLosesDevice, WriteNothing, WriteSkip, WriteSkipFails, BlockWritten
<1>3. CASE ReadStep
  BY <1>3 DEF ReadStep, ReadSliceSeek, ReadSliceSeekFails, ReadChunk,
     ReadChunkFails, ReadChunkLosesDevice, ReadNothing, ReadSkip, ReadSkipFails,
     RereadMangled, RereadMangledFails, CompareBlock
<1> QED BY <1>1, <1>2, <1>3 DEF Next, MainThread

LEMMA WritesWithinRun ==
    ASSUME TypeInv, WriteChunk, NEW s \in Sectors,
           content'[s] # content[s], content'[s] # Garbage
    PROVE  "DO_NOT_USE" \notin sector_map[s]
<1>1. cur \in Nat /\ BlockEnd \in Nat
  BY InBlock DEF WriteChunk, Working
<1>2. PICK n \in 1 .. BlockEnd - cur :
        WritableRun(cur, n) /\ \E k \in 1 .. n, disc \in BOOLEAN : WriteOk(k, disc)
  BY DEF WriteChunk
<1>3. PICK k \in 1 .. n, disc \in BOOLEAN : WriteOk(k, disc)
  BY <1>2
<1>4. s \in cur .. cur + k - 1
  BY <1>3 DEF WriteOk
<1>5. s \in cur .. cur + n - 1
  BY <1>1, <1>4
<1> QED BY <1>2, <1>5 DEF WritableRun

(* A sector flagged as not to be used is never written to again by a block *)
(* loop that knows where the device's file position is.                    *)
THEOREM UnusableLeftAlone == Spec => UnusableNeverWritten
<1>1. TypeInv /\ [Next]_vars =>
        [\A s \in Sectors : content'[s] # content[s] /\ content'[s] # Garbage
            => "DO_NOT_USE" \notin sector_map[s]]_vars
  <2> SUFFICES ASSUME TypeInv, [Next]_vars, NEW s \in Sectors,
                      content'[s] # content[s], content'[s] # Garbage
               PROVE  "DO_NOT_USE" \notin sector_map[s]
    OBVIOUS
  <2>1. CASE WriteChunk
    BY <2>1, WritesWithinRun
  <2>2. CASE Decay
    BY <2>2 DEF Decay, TypeInv, TypeOK, DataOK
  <2> QED BY <2>1, <2>2, OnlyWriteChunkWrites
<1> QED BY <1>1, TypeInvAlways, PTL DEF Spec, UnusableNeverWritten

----------------------------------------------------------------------------
(* The endurance test implements EnduranceRounds.                          *)

LEMMA InitRefines == Init => Rounds!Init
<1> SUFFICES ASSUME Init PROVE Rounds!Init
  OBVIOUS
<1>1. Flagged("FAILED") = {} /\ Flagged("DO_NOT_USE") = {}
  BY DEF Init, Flagged
<1>2. rounds_to.first = -1
  BY DEF Init, Divisor, Never
<1> QED BY <1>1, <1>2 DEF Init, Rounds!Init, Status

LEMMA FirstErrorAtOne == NumSectors \div NumSectors = 1 /\ NumSectors % NumSectors = 0
  BY EnduranceAssumption

LEMMA EndRoundRefines ==
    ASSUME BadInv, EndRound
    PROVE  Rounds!Complete
<1>1. Bad' = Bad /\ Unusable' = Unusable
  BY DEF EndRound, Bad, Unusable, Flagged
<1>2. total_bad_sectors >= sectors_to("first") <=> Bad # {}
  <2>1. IsFiniteSet(Bad) /\ total_bad_sectors \in Nat
    BY SectorsFinite DEF Bad, Flagged, BadInv, TypeInv, TypeOK, CountsOK
  <2>2. total_bad_sectors = 0 <=> Bad = {}
    BY <2>1, FS_EmptySet DEF BadInv, BadCountMatchesMap, Bad
  <2>3. sectors_to("first") = 1
    BY FirstErrorAtOne DEF sectors_to, Divisor
  <2> QED BY <2>1, <2>2, <2>3
<1>3. rounds_to'.first = IF rounds_to.first = -1 /\ Bad # {}
                         THEN rounds_completed ELSE rounds_to.first
  <2>1. "first" \in DOMAIN Divisor
    BY DEF Divisor
  <2>2. CASE num_new_bad_sectors_this_round = 0 /\ total_bad_sectors = 0
    <3>1. sectors_to("first") = 1
      BY FirstErrorAtOne DEF sectors_to, Divisor
    <3>2. Bad = {}
      BY <2>2, <3>1, <1>2
    <3> QED BY <2>2, <3>2 DEF EndRound
  <2>3. CASE ~(num_new_bad_sectors_this_round = 0 /\ total_bad_sectors = 0)
    BY <2>1, <2>3, <1>2 DEF EndRound, Crossed, Never
  <2> QED BY <2>2, <2>3
<1> QED BY <1>1, <1>3 DEF EndRound, Rounds!Complete, Status, Bad, Unusable

LEMMA HalfBadIsWornOut == BadInv => (HalfBad <=> Rounds!WornOut)
  BY DEF BadInv, BadCountMatchesMap, HalfBad, Rounds!WornOut, Cardinality,
     Rounds!Cardinality

LEMMA StartRoundRefines ==
    ASSUME BadInv, StartRound
    PROVE  Rounds!Begin
<1>1. Bad' = Bad /\ Unusable' = Unusable
  BY OthersKeep DEF BadInv, Kept, StartRound, Judging, WriteChunkFails,
     ReadChunkFails, CompareBlock, Next, MainThread
<1>2. ~Rounds!WornOut
  BY HalfBadIsWornOut DEF StartRound
<1>3. /\ Status = "between" /\ Status' = "testing"
      /\ rounds_completed' = rounds_completed /\ rounds_to' = rounds_to
  BY DEF StartRound, Status
<1> QED BY <1>1, <1>2, <1>3 DEF Rounds!Begin, Bad, Unusable

LEMMA FiftyPercentRefines ==
    ASSUME BadInv, FiftyPercent
    PROVE  Rounds!Conclude
<1>1. Bad' = Bad /\ Unusable' = Unusable
  BY DEF FiftyPercent, verdict, Bad, Unusable, Flagged
<1>2. Rounds!WornOut
  BY HalfBadIsWornOut DEF FiftyPercent
<1>3. /\ Status = "between" /\ Status' = "worn_out"
      /\ rounds_completed' = rounds_completed /\ rounds_to' = rounds_to
  BY DEF FiftyPercent, End, verdict, Status
<1> QED BY <1>1, <1>2, <1>3 DEF Rounds!Conclude, Bad, Unusable

LEMMA JudgingRefines ==
    ASSUME BadInv, [Next]_vars, Judging
    PROVE  Rounds!Find
<1>1. PICK S \in SUBSET Sectors : \E U \in SUBSET S : Found(S, U)
  BY JudgingFound DEF BadInv
<1>2. /\ Bad \subseteq Bad' /\ Unusable \subseteq Unusable'
      /\ Bad' \subseteq 0 .. NumSectors - 1 /\ Unusable' \subseteq Bad'
  BY <1>1 DEF Found, BadInv, Bad, Flagged, Sectors
<1>3. /\ pc \in Working /\ pc' \notin {"round", "ended"}
      /\ rounds_completed' = rounds_completed /\ rounds_to' = rounds_to
  BY DEF Judging, WriteChunkFails, ReadChunkFails, CompareBlock, ReadSliceDone,
     Working, counters
<1>4. Status = "testing" /\ Status' = "testing"
  BY <1>3 DEF Status, Working
<1> QED BY <1>2, <1>3, <1>4 DEF Rounds!Find, Bad, Unusable

\* The actions that end the test for an error.
Ending == WriteSliceSeekFails \/ ReadSliceSeekFails \/ ReadChunkLosesDevice
          \/ ReadSkipFails \/ RereadMangledFails

LEMMA EndingRefines ==
    ASSUME BadInv, Ending
    PROVE  Rounds!GiveUp
<1>1. Bad' = Bad /\ Unusable' = Unusable
  BY DEF Ending, WriteSliceSeekFails, ReadSliceSeekFails, ReadChunkLosesDevice,
     ReadSkipFails, RereadMangledFails, verdict, Bad, Unusable, Flagged
<1>2. /\ Status = "testing" /\ Status' = "gave_up"
      /\ rounds_completed' = rounds_completed /\ rounds_to' = rounds_to
  BY DEF Ending, WriteSliceSeekFails, ReadSliceSeekFails, ReadChunkLosesDevice,
     ReadSkipFails, RereadMangledFails, verdict, End, Status
<1> QED BY <1>1, <1>2 DEF Rounds!GiveUp, Bad, Unusable

\* All other steps are invisible.
Inner == WriteSliceSeek \/ WriteChunk \/ WriteChunkLosesDevice \/ WriteNothing
         \/ WriteSkip \/ WriteSkipFails \/ BlockWritten \/ ReadSliceSeek
         \/ ReadChunk \/ ReadNothing \/ ReadSkip \/ RereadMangled

LEMMA InnerStutters ==
    ASSUME BadInv, [Next]_vars, Inner \/ Disconnect \/ Decay \/ UNCHANGED vars,
           ~Judging
    PROVE  UNCHANGED Rounds!vars
<1>1. Bad' = Bad /\ Unusable' = Unusable
  BY OthersKeep DEF BadInv, Kept
<1>2. CASE Inner
  <2>1. /\ pc \in Working /\ pc' \in Working
        /\ rounds_completed' = rounds_completed /\ rounds_to' = rounds_to
    <3>1. CASE WriteSliceSeek \/ WriteChunkLosesDevice \/ WriteSkip
               \/ WriteSkipFails \/ ReadSliceSeek \/ ReadSkip \/ RereadMangled
      BY <3>1 DEF WriteSliceSeek, WriteChunkLosesDevice, WriteSkip, WriteSkipFails,
         ReadSliceSeek, ReadSkip, RereadMangled, verdict, Working
    <3>2. CASE WriteChunk \/ WriteNothing \/ ReadChunk \/ ReadNothing
      BY <3>2 DEF WriteChunk, WriteNothing, ReadChunk, ReadNothing, Advance,
         verdict, Working
    <3>3. CASE BlockWritten
      BY <3>3 DEF BlockWritten, WriteSliceDone, Working
    <3> QED BY <1>2, <3>1, <3>2, <3>3 DEF Inner
  <2>2. Status = "testing" /\ Status' = "testing"
    BY <2>1 DEF Status, Working
  <2> QED BY <1>1, <2>1, <2>2 DEF Rounds!vars, Bad, Unusable
<1>3. CASE Disconnect \/ Decay \/ UNCHANGED vars
  <2>1. /\ Status' = Status
        /\ rounds_completed' = rounds_completed /\ rounds_to' = rounds_to
    BY <1>3 DEF Disconnect, Decay, vars, verdict, Status
  <2> QED BY <1>1, <2>1 DEF Rounds!vars, Bad, Unusable
<1> QED BY <1>2, <1>3

LEMMA NextRefines == BadInv /\ [Next]_vars => [Rounds!Next]_(Rounds!vars)
<1> SUFFICES ASSUME BadInv, [Next]_vars PROVE [Rounds!Next]_(Rounds!vars)
  OBVIOUS
<1>1. CASE StartRound
  BY <1>1, StartRoundRefines DEF Rounds!Next
<1>2. CASE FiftyPercent
  BY <1>2, FiftyPercentRefines DEF Rounds!Next
<1>3. CASE EndRound
  BY <1>3, EndRoundRefines DEF Rounds!Next
<1>4. CASE Judging
  BY <1>4, JudgingRefines DEF Rounds!Next
<1>5. CASE Ending
  BY <1>5, EndingRefines DEF Rounds!Next
<1>6. CASE (Inner \/ Disconnect \/ Decay \/ UNCHANGED vars) /\ ~Judging
  BY <1>6, InnerStutters
<1> QED BY <1>1, <1>2, <1>3, <1>4, <1>5, <1>6
        DEF Next, MainThread, WriteStep, ReadStep, Judging, Ending, Inner

(* The endurance test runs rounds one after the other until half of the    *)
(* sectors really are bad or it gives the device up; it never forgets a    *)
(* bad sector, excludes only bad ones, and records the first bad round.    *)
THEOREM Refinement == Spec => KeepsPromise
  BY InitRefines, NextRefines, BadInvAlways, PTL
  DEF Spec, KeepsPromise, Rounds!Spec
=============================================================================
