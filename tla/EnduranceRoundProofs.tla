------------------------- MODULE EnduranceRoundProofs -------------------------
(***************************************************************************)
(* What a round of the endurance test leaves: the dates it gives to the    *)
(* thresholds, slices written in one session with the device, a verdict on *)
(* every sector, and a report that adds up; and why the test comes to an   *)
(* end.                                                                    *)
(***************************************************************************)
EXTENDS EnduranceTestProofs, WellFoundedInduction

----------------------------------------------------------------------------
(* The thresholds.                                                         *)

\* A threshold that has a date has been crossed, earlier than any other that
\* takes as many sectors; after a round, one that has been crossed has a date.
DatesInv ==
    /\ \A t \in DOMAIN Divisor :
         rounds_to[t] # Never => /\ rounds_to[t] \in 0 .. rounds_completed - 1
                                 /\ total_bad_sectors >= sectors_to(t)
    /\ \A t, u \in DOMAIN Divisor :
         sectors_to(t) <= sectors_to(u) /\ rounds_to[u] # Never
           => rounds_to[t] # Never /\ rounds_to[t] <= rounds_to[u]
    /\ pc = "round" => \A t \in DOMAIN Divisor :
                         total_bad_sectors >= sectors_to(t) => rounds_to[t] # Never

LEMMA SomeSectors ==
    ASSUME NEW t \in DOMAIN Divisor
    PROVE  sectors_to(t) \in Nat \ {0}
<1>1. NumSectors \in Nat \ {0}
  BY EnduranceAssumption
<1>2. Divisor[t] \in {NumSectors, 1000, 100, 10, 4}
  BY DEF Divisor
<1>3. ASSUME NEW d \in {1000, 100, 10, 4} PROVE NumSectors \div d \in Nat /\ NumSectors % d \in Nat
                                              /\ (NumSectors % d = 0 => NumSectors \div d # 0)
  BY <1>1, <1>3
<1>4. NumSectors \div NumSectors = 1 /\ NumSectors % NumSectors = 0
  BY <1>1
<1>5. CASE Divisor[t] = NumSectors
  BY <1>4, <1>5 DEF sectors_to
<1>6. CASE Divisor[t] \in {1000, 100, 10, 4}
  BY <1>3, <1>6 DEF sectors_to
<1> QED BY <1>2, <1>5, <1>6

LEMMA DatesInit == Init => DatesInv
<1> SUFFICES ASSUME Init PROVE DatesInv
  OBVIOUS
<1>1. \A t \in DOMAIN Divisor : rounds_to[t] = Never
  BY DEF Init
<1>2. \A t \in DOMAIN Divisor : ~(total_bad_sectors >= sectors_to(t))
  BY SomeSectors DEF Init
<1> QED BY <1>1, <1>2 DEF DatesInv

\* Bad sectors only become more.
LEMMA CountGrows ==
    ASSUME TypeInv, [Next]_vars
    PROVE  total_bad_sectors \in Nat /\ total_bad_sectors' \in Nat
           /\ total_bad_sectors' >= total_bad_sectors
<1>1. total_bad_sectors \in Nat
  BY DEF TypeInv, TypeOK, CountsOK
<1>2. CASE Judging
  <2>1. PICK S \in SUBSET Sectors : total_bad_sectors' = total_bad_sectors + Cardinality(S \ Bad)
    BY <1>2, JudgingFound DEF Found
  <2> QED BY <1>1, <2>1, SectorsFinite
<1>3. CASE ~Judging
  BY <1>1, <1>3, OthersKeep DEF Kept
<1> QED BY <1>2, <1>3

LEMMA EndRoundDates ==
    ASSUME TypeInv, DatesInv, EndRound
    PROVE  DatesInv'
<1> DEFINE n == rounds_completed
<1>1. /\ n \in Nat /\ rounds_completed' = n + 1
      /\ total_bad_sectors \in Nat /\ total_bad_sectors' = total_bad_sectors
      /\ rounds_to \in [DOMAIN Divisor -> Nat \cup {Never}]
  BY DEF EndRound, TypeInv, TypeOK, CountsOK
<1>2. \A t \in DOMAIN Divisor :
        rounds_to'[t] = IF rounds_to[t] = Never /\ total_bad_sectors >= sectors_to(t)
                        THEN n ELSE rounds_to[t]
  <2>1. CASE num_new_bad_sectors_this_round = 0 /\ total_bad_sectors = 0
    <3>1. rounds_to' = rounds_to
      BY <2>1 DEF EndRound
    <3> QED BY <2>1, <3>1, SomeSectors
  <2>2. CASE ~(num_new_bad_sectors_this_round = 0 /\ total_bad_sectors = 0)
    BY <2>2 DEF EndRound, Crossed
  <2> QED BY <2>1, <2>2
<1>3. \A t \in DOMAIN Divisor : sectors_to(t) \in Nat
  BY SomeSectors
<1>4. \A t \in DOMAIN Divisor :
        rounds_to'[t] # Never => /\ rounds_to'[t] \in 0 .. n
                                 /\ total_bad_sectors >= sectors_to(t)
  BY <1>1, <1>2 DEF DatesInv, Never
<1>5. ASSUME NEW t \in DOMAIN Divisor, NEW u \in DOMAIN Divisor,
             sectors_to(t) <= sectors_to(u), rounds_to'[u] # Never
      PROVE  rounds_to'[t] # Never /\ rounds_to'[t] <= rounds_to'[u]
  <2>1. total_bad_sectors >= sectors_to(t)
    BY <1>1, <1>3, <1>4, <1>5
  <2>2. n # Never
    BY <1>1 DEF Never
  <2>3. rounds_to'[t] # Never
    BY <1>2, <2>1, <2>2
  <2>4. CASE rounds_to[u] = Never
    <3>1. rounds_to'[u] = n
      BY <1>2, <1>5, <2>4
    <3> QED BY <1>1, <1>4, <2>3, <3>1
  <2>5. CASE rounds_to[u] # Never
    <3>1. rounds_to[t] # Never /\ rounds_to[t] <= rounds_to[u]
      BY <1>5, <2>5 DEF DatesInv
    <3> QED BY <1>2, <2>5, <3>1
  <2> QED BY <2>4, <2>5
<1>6. \A t \in DOMAIN Divisor : total_bad_sectors >= sectors_to(t) => rounds_to'[t] # Never
  BY <1>1, <1>2 DEF Never
<1>7. n + 1 - 1 = n
  BY <1>1
<1> QED BY <1>1, <1>4, <1>5, <1>6, <1>7 DEF DatesInv, sectors_to

LEMMA OtherDates ==
    ASSUME TypeInv, [Next]_vars, ~EndRound
    PROVE  /\ UNCHANGED <<rounds_to, rounds_completed>>
           /\ pc' = "round" => pc = "round" /\ total_bad_sectors' = total_bad_sectors
<1> USE DEF verdict, counters
<1>1. CASE StartRound \/ FiftyPercent \/ Disconnect \/ Decay \/ UNCHANGED vars
  BY <1>1 DEF StartRound, FiftyPercent, End, Disconnect, Decay, vars
<1>2. CASE WriteStep
  BY <1>2 DEF WriteStep, WriteSliceSeek, WriteSliceSeekFails, WriteChunk, WriteChunkFails,
     WriteChunkLosesDevice, WriteNothing, WriteSkip, WriteSkipFails, BlockWritten,
     Advance, End, WriteSliceDone
<1>3. CASE ReadStep
  BY <1>3 DEF ReadStep, ReadSliceSeek, ReadSliceSeekFails, ReadChunk, ReadChunkFails,
     ReadChunkLosesDevice, ReadNothing, ReadSkip, ReadSkipFails, RereadMangled,
     RereadMangledFails, CompareBlock, Advance, End, ReadSliceDone
<1> QED BY <1>1, <1>2, <1>3 DEF Next, MainThread

LEMMA DatesNext == TypeInv /\ DatesInv /\ [Next]_vars => DatesInv'
<1> SUFFICES ASSUME TypeInv, DatesInv, [Next]_vars PROVE DatesInv'
  OBVIOUS
<1>1. CASE EndRound
  BY <1>1, EndRoundDates
<1>2. CASE ~EndRound
  <2>1. \A t \in DOMAIN Divisor : sectors_to(t) \in Nat
    BY SomeSectors
  <2>2. \A t \in DOMAIN Divisor :
          total_bad_sectors >= sectors_to(t) => total_bad_sectors' >= sectors_to(t)
    BY <2>1, CountGrows
  <2> QED BY <1>2, <2>2, OtherDates DEF DatesInv, sectors_to
<1> QED BY <1>1, <1>2

(* Between rounds exactly the thresholds that have been crossed are dated, *)
(* and a lower one never after a higher one.                               *)
THEOREM ThresholdsDated == Spec => []ThresholdsRecorded
<1>1. DatesInv => ThresholdsRecorded
  BY DEF DatesInv, ThresholdsRecorded
<1> QED BY <1>1, InitTypeInv, NextTypeInv, DatesInit, DatesNext, PTL DEF Spec

----------------------------------------------------------------------------
(* The session a slice is written in.                                      *)

\* The healthy sectors of the slice that this pass has gone by.
Behind == {s \in SliceSectors(slice) : s < cur /\ ~is_sector_bad(s)}

\* Nothing has happened to this pass that the slice loop will act on, or should.
Clean == ~device_was_disconnected /\ block_ret = "ok" /\ ~aborted

\* In a clean pass what is behind has been written, and while the handle is
\* good, in this session and up to the file position.
SessionInv ==
    /\ here \cap before = {}
    /\ pc \notin {"write_skip", "block_written"} =>
         ~device_was_disconnected /\ block_ret = "ok"
    /\ pc = "write_skip" => block_ret = "ok"
    /\ pc \in {"write_slice_seek", "write_chunk", "write_skip", "block_written"} /\ fd # "open" =>
         here = {}
    /\ pc \in {"read_slice_seek", "read_chunk", "read_skip", "block_read"} => here = {}
    /\ pc \in {"write_chunk", "write_skip", "block_written"} /\ Clean =>
         /\ Behind \subseteq here \cup before
         /\ fd = "open" => /\ Behind \subseteq here
                           /\ pc # "write_skip" => pos = cur
         /\ pc = "block_written" => cur = BlockEnd

LEMMA SessionInit == Init => SessionInv
  BY DEF Init, SessionInv

\* What is behind, when the pass moves on over sectors that are written, bad
\* or not to be used.
LEMMA BehindMoves ==
    ASSUME BadInv, pc \in Working, slice' = slice, Bad \subseteq Bad',
           cur' \in cur .. NumSectors,
           NEW W, \A s \in cur .. cur' - 1 : s \in W \/ s \in Bad'
    PROVE  Behind' \subseteq Behind \cup W
<1>1. /\ Behind' = {s \in SliceSectors(slice) : s < cur' /\ s \notin Bad'}
      /\ Behind = {s \in SliceSectors(slice) : s < cur /\ s \notin Bad}
  <2>1. SliceSectors(slice) \subseteq Sectors
    BY InBlock, SliceGeometry, EnduranceAssumption DEF SliceSectors, BadInv, Sectors
  <2> QED BY <2>1 DEF Behind, Bad, Flagged, is_sector_bad, SliceSectors, get_slice_start,
                        last_sector
<1>2. cur \in Nat /\ NumSectors \in Nat /\ SliceSectors(slice) \subseteq Nat
  BY InBlock, SliceGeometry DEF SliceSectors, BadInv
<1>3. ASSUME NEW x \in SliceSectors(slice), x < cur', x \notin Bad', ~(x < cur)
      PROVE  x \in W
  <2>1. x \in cur .. cur' - 1
    BY <1>2, <1>3
  <2> QED BY <1>3, <2>1
<1> QED BY <1>1, <1>3

LEMMA BadGrows ==
    ASSUME TypeInv, [Next]_vars
    PROVE  Bad \subseteq Bad'
  BY OthersKeep, JudgingFound DEF Kept, Found

\* The sectors skipped behind c are bad.
LEMMA SkippedBad ==
    ASSUME BadInv, pc \in Working, NEW c \in block .. BlockEnd,
           NEW part, NEW skip, NEW done, Advance(c, part, skip, done)
    PROVE  /\ cur' \in c .. BlockEnd
           /\ \A s \in c .. cur' - 1 : s \in Bad
           /\ pc' # skip => cur' = c
           /\ pc' \in {part, skip, done}
           /\ pc' = done /\ done \notin {part, skip} => c = BlockEnd
<1>1. PICK u \in 0 .. BlockEnd - c :
        /\ UnwritableRun(c, u)
        /\ cur' = c + u
        /\ pc' = IF u > 0 THEN skip ELSE IF c = BlockEnd THEN done ELSE part
  BY DEF Advance
<1>2. block \in Nat /\ BlockEnd \in Nat /\ block .. BlockEnd - 1 \subseteq Sectors
  BY InBlock DEF BadInv
<1>3. \A s \in c .. c + u - 1 : s \in Sectors /\ "DO_NOT_USE" \in sector_map[s]
  BY <1>1, <1>2 DEF UnwritableRun
<1>4. \A s \in c .. c + u - 1 : s \in Bad
  BY <1>3 DEF BadInv, Unusable, Flagged
<1> QED BY <1>1, <1>2, <1>4

LEMMA IntervalSplit ==
    ASSUME NEW a \in Nat, NEW k \in Nat, NEW b \in Nat
    PROVE  \A s \in a .. b - 1 : s \in a .. a + k - 1 \/ s \in a + k .. b - 1
  OBVIOUS

LEMMA WriteChunkSession ==
    ASSUME BadInv, SessionInv, WriteChunk
    PROVE  SessionInv'
<1> USE DEF SessionInv
<1>1. pc = "write_chunk" /\ pc \in Working /\ cur \in block .. BlockEnd /\ block \in Nat
      /\ BlockEnd \in Nat /\ BlockEnd <= NumSectors /\ NumSectors \in Nat
  BY InBlock DEF WriteChunk, Working, BadInv
<1>2. PICK k \in 1 .. BlockEnd - cur, disc \in BOOLEAN :
        /\ WriteOk(k, disc)
        /\ device_was_disconnected' = disc
        /\ IF disc
           THEN pc' = "block_written" /\ cur' = cur + k
           ELSE Advance(cur + k, "write_chunk", "write_skip", "block_written")
  BY <1>1 DEF WriteChunk
<1>3. UNCHANGED <<slice, block, block_ret, aborted, sector_map>>
  BY <1>2 DEF WriteChunk, verdict, place, WriteOk
<1>4. fd' = "open" /\ here' \cap before' = {}
  BY <1>2 DEF WriteOk
<1>5. CASE disc
  BY <1>1, <1>2, <1>3, <1>4, <1>5 DEF Clean
<1>6. CASE ~disc
  <2>1. cur + k \in block .. BlockEnd
    BY <1>1
  <2>2. /\ cur' \in cur + k .. BlockEnd
        /\ \A s \in cur + k .. cur' - 1 : s \in Bad
        /\ pc' # "write_skip" => cur' = cur + k
        /\ pc' \in {"write_chunk", "write_skip", "block_written"}
        /\ pc' = "block_written" => cur + k = BlockEnd
    BY <1>1, <1>2, <1>6, <2>1, SkippedBad
  <2>3. CASE ~Clean'
    BY <1>1, <1>2, <1>3, <1>4, <1>6, <2>2, <2>3
  <2>4. CASE Clean'
    <3>1. Clean
      BY <1>1, <1>3, <2>4 DEF Clean
    <3>2. /\ fd = "open" /\ pos = cur /\ pos' = cur + k
          /\ here' = here \cup (cur .. cur + k - 1)
          /\ Behind \subseteq here
      BY <1>1, <1>2, <1>6, <3>1 DEF WriteOk
    <3>3. Bad' = Bad
      BY <1>3 DEF Bad, Flagged
    <3>4. cur' \in cur .. NumSectors
      BY <1>1, <2>2
    <3>5. \A s \in cur .. cur' - 1 : s \in cur .. cur + k - 1 \/ s \in cur + k .. cur' - 1
      <4>1. cur \in Nat /\ k \in Nat /\ cur' \in Nat
        BY <1>1, <2>2
      <4> QED BY <4>1, IntervalSplit
    <3>6. \A s \in cur .. cur' - 1 : s \in here' \/ s \in Bad'
      BY <2>2, <3>2, <3>3, <3>5
    <3>7. Behind' \subseteq Behind \cup here'
      BY <1>1, <1>3, <3>3, <3>4, <3>6, BehindMoves
    <3>8. Behind' \subseteq here'
      BY <3>2, <3>7
    <3>9. BlockEnd' = BlockEnd
      BY <1>3 DEF BlockEnd
    <3> QED BY <1>1, <1>2, <1>3, <1>4, <1>6, <2>2, <3>2, <3>8, <3>9
  <2> QED BY <2>3, <2>4
<1> QED BY <1>5, <1>6

LEMMA WriteChunkFailsSession ==
    ASSUME BadInv, SessionInv, WriteChunkFails
    PROVE  SessionInv'
<1> USE DEF SessionInv
<1>1. pc = "write_chunk" /\ pc \in Working /\ cur \in block .. BlockEnd /\ cur < BlockEnd
      /\ block \in Nat /\ BlockEnd \in Nat /\ BlockEnd <= NumSectors /\ NumSectors \in Nat
  BY InBlock DEF WriteChunkFails, Working, BadInv, TypeInv, Places
<1>2. PICK disc \in BOOLEAN : WriteFails(disc) /\ device_was_disconnected' = disc
  BY DEF WriteChunkFails
<1>3. /\ UNCHANGED <<slice, block_ret, aborted>> /\ pc' = "write_skip" /\ cur' = cur + 1
      /\ block_ret = "ok" /\ ~device_was_disconnected
  BY <1>1, <1>2 DEF WriteChunkFails, place, WriteFails, Break, session
<1>4. CASE disc
  <2>1. here' = {} /\ ~Clean'
    BY <1>2, <1>4 DEF WriteFails, Break, Clean
  <2> QED BY <1>3, <2>1
<1>5. CASE ~disc
  <2>1. UNCHANGED <<here, before, fd>>
    BY <1>2, <1>5 DEF WriteFails, session
  <2>2. cur \in Bad' /\ Bad \subseteq Bad'
    BY <1>1, CondemnedFound, InBlock DEF WriteChunkFails, Found, BadInv, TypeInv, TypeOK
  <2>3. cur' \in cur .. NumSectors /\ \A s \in cur .. cur' - 1 : s \in {} \/ s \in Bad'
    BY <1>1, <1>3, <2>2
  <2>4. Behind' \subseteq Behind \cup {}
    BY <1>1, <1>3, <2>2, <2>3, BehindMoves
  <2>5. Clean' => Clean
    BY <1>3 DEF Clean
  <2> QED BY <1>1, <1>3, <2>1, <2>4, <2>5
<1> QED BY <1>4, <1>5

LEMMA WriteNothingSession ==
    ASSUME BadInv, SessionInv, WriteNothing
    PROVE  SessionInv'
<1> USE DEF SessionInv
<1>1. pc = "write_chunk" /\ pc \in Working /\ cur \in block .. BlockEnd
      /\ block \in Nat /\ BlockEnd \in Nat /\ BlockEnd <= NumSectors /\ NumSectors \in Nat
  BY InBlock DEF WriteNothing, Working, BadInv
<1>2. UNCHANGED <<slice, block, device_was_disconnected, block_ret, sector_map, fd, pos,
                  here, before, aborted>>
  BY DEF WriteNothing, verdict, place, session
<1>3. /\ cur' \in cur .. BlockEnd
      /\ \A s \in cur .. cur' - 1 : s \in Bad
      /\ pc' # "write_skip" => cur' = cur
      /\ pc' \in {"write_chunk", "write_skip", "block_written"}
      /\ pc' = "block_written" => cur = BlockEnd
  BY <1>1, SkippedBad DEF WriteNothing
<1>4. Bad' = Bad /\ BlockEnd' = BlockEnd /\ Clean' = Clean
  BY <1>2 DEF Bad, Flagged, BlockEnd, Clean
<1>5. cur' \in cur .. NumSectors
  BY <1>1, <1>3
<1>6. \A s \in cur .. cur' - 1 : s \in {} \/ s \in Bad'
  BY <1>3, <1>4
<1>7. Behind' \subseteq Behind \cup {}
  BY <1>1, <1>2, <1>4, <1>5, <1>6, BehindMoves
<1> QED BY <1>1, <1>2, <1>3, <1>4, <1>7

\* What is behind does not change with the place and the bad sectors.
LEMMA BehindStays ==
    ASSUME DataOK, UNCHANGED <<slice, cur>>, Bad' = Bad, SliceSectors(slice) \subseteq Sectors
    PROVE  Behind' = Behind
<1>1. \A s \in Sectors : is_sector_bad(s)' <=> is_sector_bad(s)
  BY DEF Bad, Flagged, is_sector_bad
<1> QED BY <1>1 DEF Behind, SliceSectors, get_slice_start, last_sector

LEMMA InDevice ==
    ASSUME TypeInv
    PROVE  SliceSectors(slice) \subseteq Sectors
  BY SliceGeometry, EnduranceAssumption DEF TypeInv, TypeOK, ControlOK, SliceSectors, Sectors

LEMMA WriteSkipSession ==
    ASSUME BadInv, SessionInv, WriteSkip
    PROVE  SessionInv'
<1> USE DEF SessionInv
<1>1. PICK disc \in BOOLEAN :
        LseekOk(cur, disc) /\ device_was_disconnected' = (device_was_disconnected \/ disc)
  BY DEF WriteSkip
<1>2. /\ UNCHANGED <<slice, block, cur, block_ret, sector_map, here, before, aborted>>
      /\ pc = "write_skip" /\ block_ret = "ok" /\ pos' = cur
      /\ pc' = IF device_was_disconnected' \/ cur = BlockEnd
               THEN "block_written" ELSE "write_chunk"
  BY <1>1 DEF WriteSkip, verdict, place, session, LseekOk
<1>3. Bad' = Bad /\ BlockEnd' = BlockEnd
  BY <1>2 DEF Bad, Flagged, BlockEnd
<1>4. Behind' = Behind
  BY <1>2, <1>3, BehindStays, InDevice DEF BadInv, TypeInv, TypeOK
<1>5. fd' # "open" => fd # "open"
  BY <1>1 DEF LseekOk
<1>6. device_was_disconnected' \in BOOLEAN /\ (Clean' => Clean /\ ~disc)
  BY <1>1, <1>2 DEF Clean, BadInv, TypeInv, TypeOK, SwitchesOK
<1>7. Clean' => fd' = fd
  BY <1>1, <1>6 DEF LseekOk
<1>8. Clean' /\ pc' = "block_written" => cur = BlockEnd
  BY <1>2 DEF Clean
<1>9. pc' = "write_chunk" => ~device_was_disconnected'
  BY <1>2
<1> QED BY <1>2, <1>3, <1>4, <1>5, <1>6, <1>7, <1>8, <1>9

LEMMA BlockWrittenSession ==
    ASSUME BadInv, SessionInv, BlockWritten
    PROVE  SessionInv'
<1> USE DEF SessionInv
<1>1. pc = "block_written" /\ block_ret' = "ok" /\ device_was_disconnected' = FALSE
      /\ UNCHANGED <<fd, pos>>
  BY DEF BlockWritten
<1>2. CASE device_was_disconnected
  BY <1>1, <1>2 DEF BlockWritten
<1>3. CASE ~device_was_disconnected /\ ~(BlockEnd < last_sector(slice))
  <2>1. here' = {} /\ pc' \in {"write_slice_seek", "read_slice_seek"}
    BY <1>3 DEF BlockWritten, WriteSliceDone, ForgetSession
  <2> QED BY <1>1, <2>1
<1>4. CASE ~device_was_disconnected /\ BlockEnd < last_sector(slice)
  <2>1. /\ sector_map' = Mark(block .. BlockEnd - 1, {"WRITTEN_THIS_ROUND"})
        /\ cur' = BlockEnd /\ pc' = "write_chunk"
        /\ aborted' = (aborted \/ block_ret # "ok")
        /\ UNCHANGED <<slice, here, before, total_bad_sectors>>
    BY <1>4 DEF BlockWritten
  <2>2. CASE ~Clean'
    BY <1>1, <2>1, <2>2
  <2>3. CASE Clean'
    <3>1. Clean /\ cur = BlockEnd
      BY <1>1, <1>4, <2>1, <2>3 DEF Clean, BadInv, TypeInv, TypeOK, SwitchesOK
    <3>2. Bad' = Bad
      BY <2>1, MarkWrittenKeeps DEF Kept, BadInv, TypeInv, TypeOK
    <3>3. Behind' = Behind
      BY <2>1, <3>1, <3>2, BehindStays, InDevice DEF BadInv, TypeInv, TypeOK
    <3> QED BY <1>1, <2>1, <3>1, <3>3
  <2> QED BY <2>2, <2>3
<1> QED BY <1>2, <1>3, <1>4

LEMMA WriteSliceSeekSession ==
    ASSUME BadInv, SessionInv, WriteSliceSeek
    PROVE  SessionInv'
<1> USE DEF SessionInv
<1>1. PICK disc \in BOOLEAN :
        LseekOk(get_slice_start(slice), disc) /\ pc' = IF disc THEN pc ELSE "write_chunk"
  BY DEF WriteSliceSeek
<1>2. /\ UNCHANGED <<slice, cur, device_was_disconnected, block_ret, here, before>>
      /\ pc = "write_slice_seek" /\ cur = get_slice_start(slice) /\ pos' = cur
      /\ fd' # "open" => fd # "open"
  BY <1>1 DEF WriteSliceSeek, place, session, BadInv, TypeInv, Places, LseekOk
<1>3. Behind' = {}
  <2>1. cur \in Nat /\ cur' = cur /\ SliceSectors(slice)' = SliceSectors(slice)
    BY <1>2, InBlock DEF BadInv, Working, SliceSectors, get_slice_start, last_sector
  <2>2. \A s \in SliceSectors(slice) : ~(s < cur)
    BY <1>2, <2>1 DEF SliceSectors
  <2> QED BY <2>1, <2>2 DEF Behind
<1>4. pc' \in {"write_slice_seek", "write_chunk"}
  BY <1>1, <1>2
<1> QED BY <1>2, <1>3, <1>4

LEMMA DisconnectSession ==
    ASSUME BadInv, SessionInv, Disconnect
    PROVE  SessionInv'
<1> USE DEF SessionInv
<1>1. /\ UNCHANGED <<pc, slice, block, cur, device_was_disconnected, block_ret, sector_map,
                     aborted>>
      /\ fd' = "stale" /\ here' = {} /\ before' = before \cup here
  BY DEF Disconnect, Break, verdict, place
<1>2. Bad' = Bad /\ BlockEnd' = BlockEnd /\ Clean' = Clean
  BY <1>1 DEF Bad, Flagged, BlockEnd, Clean
<1>3. Behind' = Behind
  BY <1>1, <1>2, BehindStays, InDevice DEF BadInv, TypeInv, TypeOK
<1> QED BY <1>1, <1>2, <1>3

LEMMA SessionNext == BadInv /\ SessionInv /\ [Next]_vars => SessionInv'
<1> SUFFICES ASSUME BadInv, SessionInv, [Next]_vars PROVE SessionInv'
  OBVIOUS
<1>1. CASE StartRound
  BY <1>1 DEF SessionInv, StartRound, ForgetSession
<1>2. CASE FiftyPercent \/ WriteSliceSeekFails \/ EndRound
  BY <1>2 DEF SessionInv, FiftyPercent, WriteSliceSeekFails, EndRound, End, session
<1>3. CASE WriteChunkLosesDevice
  BY <1>3 DEF SessionInv, Clean, WriteChunkLosesDevice, WriteLosesDevice, Break
<1>4. CASE WriteSkipFails
  BY <1>4 DEF SessionInv, Clean, WriteSkipFails, LseekFails, session
<1>5. CASE ReadStep
  <2>1. /\ UNCHANGED <<here, before, device_was_disconnected, block_ret>>
        /\ pc \in {"read_slice_seek", "read_chunk", "read_skip", "block_read"}
        /\ pc' \in {"read_slice_seek", "read_chunk", "read_skip", "block_read", "summary",
                    "ended"}
    BY <1>5 DEF ReadStep, ReadSliceSeek, ReadSliceSeekFails, ReadChunk, ReadChunkFails,
       ReadChunkLosesDevice, ReadNothing, ReadSkip, ReadSkipFails, RereadMangled,
       RereadMangledFails, CompareBlock, Advance, End, ReadSliceDone, session
  <2> QED BY <2>1 DEF SessionInv
<1>6. CASE Decay \/ UNCHANGED vars
  <2>1. UNCHANGED <<pc, slice, block, cur, device_was_disconnected, block_ret, sector_map,
                    fd, pos, here, before, aborted>>
    BY <1>6 DEF Decay, vars, verdict, place, session
  <2>2. Bad' = Bad /\ BlockEnd' = BlockEnd /\ Clean' = Clean
    BY <2>1 DEF Bad, Flagged, BlockEnd, Clean
  <2>3. Behind' = Behind
    BY <2>1, <2>2, BehindStays, InDevice DEF BadInv, TypeInv, TypeOK
  <2> QED BY <2>1, <2>2, <2>3 DEF SessionInv
<1> QED
  BY <1>1, <1>2, <1>3, <1>4, <1>5, <1>6, WriteSliceSeekSession, WriteChunkSession,
     WriteChunkFailsSession, WriteNothingSession, WriteSkipSession, BlockWrittenSession,
     DisconnectSession
  DEF Next, MainThread, WriteStep

(* A slice that passes as written has all of its healthy sectors written,  *)
(* and in one session with the device, whatever disconnects, resets and    *)
(* failures there were on the way.                                         *)
THEOREM WrittenInOneSession == Spec => []OneSessionPerSlice
<1>1. BadInv /\ SessionInv => OneSessionPerSlice
  <2> SUFFICES ASSUME BadInv, SessionInv, pc = "block_written",
                      BlockEnd = last_sector(slice), Clean
               PROVE  LET healthy == {s \in SliceSectors(slice) : ~is_sector_bad(s)}
                      IN  /\ healthy \subseteq here \cup before
                          /\ here \cap healthy = {} \/ before \cap healthy = {}
    BY DEF OneSessionPerSlice, Clean
  <2> DEFINE healthy == {s \in SliceSectors(slice) : ~is_sector_bad(s)}
  <2>1. cur = last_sector(slice) /\ last_sector(slice) \in Nat
    BY InBlock DEF SessionInv, BadInv, Working
  <2>2. healthy = Behind
    BY <2>1, InDevice DEF Behind, SliceSectors, BadInv, Sectors
  <2>3. Behind \subseteq here \cup before /\ here \cap before = {}
        /\ (Behind \subseteq here \/ here = {})
    BY DEF SessionInv
  <2> QED BY <2>2, <2>3
<1> QED BY <1>1, InitBadInv, NextBadInv, SessionInit, SessionNext, PTL DEF Spec

----------------------------------------------------------------------------
(* The slices are a partition of the device.                               *)

LEMMA SlicesCover ==
    ASSUME NEW s \in Sectors
    PROVE  \E i \in Slices : s \in SliceSectors(i)
<1> DEFINE q == NumSectors \div NUM_SLICES
<1>1. /\ q \in Nat \ {0} /\ NUM_SLICES \in Nat \ {0}
      /\ s \in Nat /\ s < NumSectors /\ NumSectors \in Nat
  BY EnduranceAssumption DEF Sectors
<1> DEFINE d == s \div q
<1>2. d \in Nat /\ q * d <= s /\ s < q * (d + 1)
  BY <1>1
<1> HIDE DEF d, q
<1>3. CASE d < NUM_SLICES
  <2>1. d \in Slices
    BY <1>1, <1>2, <1>3 DEF Slices
  <2>2. get_slice_start(d) = q * d /\ last_sector(d) \in {q * (d + 1), NumSectors}
    BY DEF get_slice_start, last_sector, q
  <2>3. s \in get_slice_start(d) .. last_sector(d) - 1
    BY <1>1, <1>2, <2>1, <2>2, SliceGeometry
  <2> QED BY <2>1, <2>3 DEF SliceSectors
<1>4. CASE d >= NUM_SLICES
  <2> DEFINE i == NUM_SLICES - 1
  <2>1. i \in Slices /\ i \in Nat /\ i <= d
    BY <1>1, <1>2, <1>4 DEF Slices
  <2>2. q * i <= s /\ q * i \in Nat
    BY <1>1, <1>2, <2>1, ProductBelow
  <2>3. get_slice_start(i) = q * i /\ last_sector(i) = NumSectors
    BY DEF get_slice_start, last_sector, q
  <2>4. s \in get_slice_start(i) .. last_sector(i) - 1
    BY <1>1, <2>2, <2>3
  <2> QED BY <2>1, <2>4 DEF SliceSectors
<1> QED BY <1>1, <1>2, <1>3, <1>4

LEMMA SlicesInOrder ==
    ASSUME NEW i \in Slices, NEW j \in Slices, i < j
    PROVE  last_sector(i) <= get_slice_start(j)
<1> DEFINE q == NumSectors \div NUM_SLICES
<1>1. q \in Nat /\ i \in Nat /\ j \in Nat /\ i + 1 <= j /\ i # NUM_SLICES - 1
  BY EnduranceAssumption DEF Slices
<1>2. q * j \in Nat
  BY <1>1
<1>3. q * (i + 1) <= q * j
  BY <1>1, <1>2, ProductBelow
<1> QED BY <1>1, <1>3 DEF last_sector, get_slice_start

LEMMA SlicesApart ==
    ASSUME NEW i \in Slices, NEW j \in Slices, i # j
    PROVE  SliceSectors(i) \cap SliceSectors(j) = {}
<1>1. i < j \/ j < i
  BY EnduranceAssumption DEF Slices
<1> QED BY <1>1, SlicesInOrder, SliceGeometry DEF SliceSectors

----------------------------------------------------------------------------
(* What is ahead of a phase.                                               *)

Writing == {"write_slice_seek", "write_chunk", "write_skip", "block_written"}
Reading == {"read_slice_seek", "read_chunk", "read_skip", "block_read"}

\* The sectors of the slices S.
SectorsOf(S) == {s \in Sectors : \E i \in S : s \in SliceSectors(i)}

\* The sectors that the phase has not gone by: the slices still to do, and the
\* rest of this one.
Ahead == SectorsOf(todo) \cup {s \in SliceSectors(slice) : s >= block}

\* Those that the round has not compared.
Left == IF pc \in Reading THEN Ahead ELSE {}

LEMMA TakenAhead ==
    ASSUME NEW S \in SUBSET Slices, TakeSlice(S)
    PROVE  Ahead' = SectorsOf(S) /\ slice' \notin todo'
<1>1. slice' \in S /\ todo' = S \ {slice'} /\ block' = get_slice_start(slice')
  BY DEF TakeSlice
<1>2. \A i \in Slices : SliceSectors(i) \subseteq Sectors
                        /\ \A s \in SliceSectors(i) : s >= get_slice_start(i)
  BY SliceGeometry, EnduranceAssumption DEF SliceSectors, Sectors
<1>3. Ahead' = {s \in Sectors : \E i \in S \ {slice'} : s \in SliceSectors(i)}
                 \cup {s \in SliceSectors(slice') : s >= get_slice_start(slice')}
  BY <1>1 DEF Ahead, SectorsOf, SliceSectors, get_slice_start, last_sector
<1> QED BY <1>1, <1>2, <1>3 DEF SectorsOf

LEMMA AllAhead == SectorsOf(Slices) = Sectors
  BY SlicesCover DEF SectorsOf

LEMMA AheadInDevice ==
    ASSUME TypeInv
    PROVE  Ahead \subseteq Sectors
  BY SliceGeometry, EnduranceAssumption
     DEF TypeInv, TypeOK, ControlOK, Ahead, SectorsOf, SliceSectors, Sectors

\* The block and what is behind it make up the rest of the slice.
LEMMA BlockAhead ==
    ASSUME TypeInv, pc \in Working, slice \notin todo
    PROVE  /\ block .. BlockEnd - 1 \subseteq Ahead
           /\ Ahead \ (block .. BlockEnd - 1)
                = SectorsOf(todo) \cup {s \in SliceSectors(slice) : s >= BlockEnd}
           /\ BlockEnd >= last_sector(slice) => Ahead \ (block .. BlockEnd - 1) = SectorsOf(todo)
<1> DEFINE B == block .. BlockEnd - 1
<1>1. /\ slice \in Slices /\ todo \subseteq Slices /\ block \in Nat /\ BlockEnd \in Nat
      /\ get_slice_start(slice) \in Nat /\ last_sector(slice) \in Nat
      /\ get_slice_start(slice) <= block /\ block < BlockEnd /\ BlockEnd <= last_sector(slice)
  BY InBlock, BlockGeometry, SliceGeometry DEF TypeInv, TypeOK, ControlOK, BlockEnd
<1>2. SliceSectors(slice) = get_slice_start(slice) .. last_sector(slice) - 1
  BY DEF SliceSectors
<1>3. \A s \in B : s \in SliceSectors(slice) /\ s >= block
  BY <1>1, <1>2
<1>4. \A s \in SliceSectors(slice) : s >= block => (s \in B <=> ~(s >= BlockEnd))
  BY <1>1, <1>2
<1>5. \A s \in SliceSectors(slice) : s >= BlockEnd => s >= block
  BY <1>1, <1>2
<1>6. \A s \in SectorsOf(todo) : s \notin SliceSectors(slice)
  BY <1>1, SlicesApart DEF SectorsOf
<1>7. BlockEnd >= last_sector(slice) => \A s \in SliceSectors(slice) : ~(s >= BlockEnd)
  BY <1>1, <1>2
<1> HIDE DEF B
<1>8. B \subseteq Ahead
  BY <1>3 DEF Ahead
<1>9. Ahead \ B = SectorsOf(todo) \cup {s \in SliceSectors(slice) : s >= BlockEnd}
  BY <1>3, <1>4, <1>5, <1>6 DEF Ahead
<1> QED BY <1>7, <1>8, <1>9 DEF B

\* The place stays as it is but for what the step says.
LEMMA AheadStays ==
    ASSUME UNCHANGED <<todo, slice, block>>
    PROVE  Ahead' = Ahead
  BY DEF Ahead, SectorsOf, SliceSectors, get_slice_start, last_sector

----------------------------------------------------------------------------
(* Every sector is judged.                                                 *)

Written(s)  == "WRITTEN_THIS_ROUND" \in sector_map[s]
Failed(s)   == "FAILED_THIS_ROUND" \in sector_map[s]
UseLess(s)  == "DO_NOT_USE" \in sector_map[s]
Verdict(s)  == /\ Written(s) /\ "READ_THIS_ROUND" \in sector_map[s]
               /\ Failed(s) <=> compare_buf[s] # rounds_completed

\* What a phase has gone by is marked, and what has failed without having been
\* compared is not used, so that it will compare unequal.
JudgedInv ==
    /\ pc \in Writing \cup Reading => slice \notin todo
    /\ pc \in Writing => \A s \in Sectors : /\ s \notin Ahead => Written(s)
                                            /\ Failed(s) => UseLess(s)
    /\ pc \in Reading \cup {"summary"} => \A s \in Sectors \ Left : Verdict(s)
    /\ pc \in Reading =>
         /\ \A s \in Ahead : Written(s) /\ (Failed(s) => UseLess(s))
         /\ \A s \in Sectors : block <= s /\ s < cur /\ UseLess(s) => compare_buf[s] = Zeroes

LEMMA JudgedInit == Init => JudgedInv
  BY DEF Init, JudgedInv, Writing, Reading

LEMMA PhasesWork ==
    /\ Writing \cup Reading \subseteq Working
    /\ Writing \cap Reading = {} /\ "summary" \notin Writing \cup Reading
    /\ "round" \notin Writing \cup Reading /\ "ended" \notin Writing \cup Reading
  BY DEF Writing, Reading, Working

LEMMA StartRoundJudged ==
    ASSUME TypeInv, JudgedInv, StartRound
    PROVE  JudgedInv'
<1>1. Ahead' = Sectors /\ slice' \notin todo'
  BY TakenAhead, AllAhead DEF StartRound
<1>2. pc' \in Writing /\ pc' \notin Reading
  BY DEF StartRound, Writing, Reading
<1>3. \A s \in Sectors : ~Failed(s)'
  BY DEF StartRound, Reset, Failed, TypeInv, TypeOK, DataOK
<1>4. pc' # "summary"
  BY DEF StartRound
<1> QED BY <1>1, <1>2, <1>3, <1>4 DEF JudgedInv

\* Steps of the write phase that mark nothing.
LEMMA WritingJudged ==
    ASSUME TypeInv, JudgedInv, pc \in Writing, pc' \in Writing \cup {"ended"},
           UNCHANGED <<todo, slice, block>>,
           \A s \in Sectors : (Written(s) => Written(s)') /\ (Failed(s)' => UseLess(s)')
    PROVE  JudgedInv'
<1>1. Ahead' = Ahead
  BY AheadStays
<1>2. pc' \notin Reading \cup {"summary"}
  BY PhasesWork DEF Writing, Reading
<1>3. CASE pc' = "ended"
  BY <1>2, <1>3, PhasesWork DEF JudgedInv
<1>4. CASE pc' \in Writing
  BY <1>1, <1>2, <1>4 DEF JudgedInv
<1> QED BY <1>3, <1>4

LEMMA WriteChunkFailsJudged ==
    ASSUME TypeInv, JudgedInv, WriteChunkFails
    PROVE  JudgedInv'
<1>1. pc \in Writing /\ pc' \in Writing /\ UNCHANGED <<todo, slice, block>>
  BY DEF WriteChunkFails, Writing, place
<1>2. sector_map' = Mark({cur}, {"FAILED", "FAILED_THIS_ROUND"} \cup {"DO_NOT_USE"})
  BY DEF WriteChunkFails, MarkBad
<1>3. \A s \in Sectors : (Written(s) => Written(s)') /\ (Failed(s)' => UseLess(s)')
  BY <1>1, <1>2 DEF JudgedInv, Mark, Written, Failed, UseLess
<1> QED BY <1>1, <1>3, WritingJudged

LEMMA BlockWrittenJudged ==
    ASSUME TypeInv, JudgedInv, BlockWritten
    PROVE  JudgedInv'
<1> DEFINE B == block .. BlockEnd - 1
<1>1. pc \in Writing /\ pc \in Working /\ slice \notin todo /\ Ahead \subseteq Sectors
      /\ sector_map \in [Sectors -> SUBSET Flags] /\ todo \in SUBSET Slices
      /\ B \subseteq Sectors
  BY AheadInDevice, PhasesWork, InBlock
     DEF BlockWritten, Writing, JudgedInv, TypeInv, TypeOK, DataOK, ControlOK
<1>2. CASE device_was_disconnected
  <2>1. /\ sector_map' = Reset(SliceSectors(slice)) /\ UNCHANGED <<todo, slice>>
        /\ block' = get_slice_start(slice) /\ pc' = "write_slice_seek"
    BY <1>2 DEF BlockWritten
  <2>2. \A s \in SliceSectors(slice) : s >= get_slice_start(slice)
    BY SliceGeometry DEF SliceSectors, TypeInv, TypeOK, ControlOK
  <2>3. Ahead' = SectorsOf(todo) \cup SliceSectors(slice)
    BY <2>1, <2>2 DEF Ahead, SectorsOf, SliceSectors, get_slice_start, last_sector
  <2>4. ASSUME NEW s \in Sectors, s \notin Ahead' PROVE Written(s)'
    <3>1. s \notin SliceSectors(slice) /\ s \notin Ahead
      BY <2>3, <2>4 DEF Ahead
    <3> QED BY <1>1, <2>1, <3>1 DEF JudgedInv, Reset, Written
  <2>5. \A s \in Sectors : Failed(s)' => UseLess(s)'
    BY <1>1, <2>1 DEF JudgedInv, Reset, Failed, UseLess
  <2> QED BY <1>1, <2>1, <2>4, <2>5 DEF JudgedInv, Writing, Reading
<1>3. CASE ~device_was_disconnected
  <2>1. sector_map' = Mark(B, {"WRITTEN_THIS_ROUND"})
    BY <1>3 DEF BlockWritten
  <2> HIDE DEF B
  <2>2. \A s \in Sectors : s \notin Ahead \/ s \in B => Written(s)'
    BY <1>1, <2>1 DEF JudgedInv, Mark, Written
  <2>3. \A s \in Sectors : Failed(s)' => UseLess(s)'
    BY <1>1, <2>1 DEF JudgedInv, Mark, Failed, UseLess
  <2>4. \A s \in Sectors : s \notin Ahead \ B => Written(s)'
    BY <2>2
  <2>5. CASE BlockEnd < last_sector(slice)
    <3>1. UNCHANGED <<todo, slice>> /\ block' = BlockEnd /\ pc' = "write_chunk"
      BY <1>3, <2>5 DEF BlockWritten
    <3>2. Ahead' = SectorsOf(todo) \cup {s \in SliceSectors(slice) : s >= BlockEnd}
      BY <3>1 DEF Ahead, SectorsOf, SliceSectors, get_slice_start, last_sector
    <3>3. Ahead' = Ahead \ B
      BY <1>1, <3>2, BlockAhead DEF B
    <3> QED BY <1>1, <2>3, <2>4, <3>1, <3>3 DEF JudgedInv, Writing, Reading
  <2>6. CASE ~(BlockEnd < last_sector(slice))
    <3>1. WriteSliceDone
      BY <1>3, <2>6 DEF BlockWritten
    <3>2. BlockEnd >= last_sector(slice)
      BY <1>1, <2>6, InBlock, SliceGeometry
    <3>3. Ahead \ B = SectorsOf(todo)
      BY <1>1, <3>2, BlockAhead DEF B
    <3>4. CASE todo # {}
      <4>1. TakeSlice(todo) /\ pc' = "write_slice_seek"
        BY <3>1, <3>4 DEF WriteSliceDone
      <4>2. Ahead' = Ahead \ B /\ slice' \notin todo'
        BY <1>1, <3>3, <4>1, TakenAhead
      <4> QED BY <2>3, <2>4, <4>1, <4>2 DEF JudgedInv, Writing, Reading
    <3>5. CASE todo = {}
      <4>1. TakeSlice(Slices) /\ pc' = "read_slice_seek" /\ block' = cur'
        BY <3>1, <3>5 DEF WriteSliceDone, TakeSlice
      <4>2. Ahead' = Sectors /\ slice' \notin todo'
        BY <4>1, TakenAhead, AllAhead
      <4>3. Ahead \ B = {}
        BY <3>3, <3>5 DEF SectorsOf
      <4>4. \A s \in Sectors : Written(s)'
        BY <2>4, <4>3
      <4>5. \A s \in Sectors : ~(block' <= s /\ s < cur')
        BY <4>1, TakeSliceFacts, EnduranceAssumption DEF Sectors
      <4>6. Left' = Sectors
        BY <4>1, <4>2 DEF Left, Reading
      <4> QED BY <2>3, <4>1, <4>2, <4>4, <4>5, <4>6 DEF JudgedInv, Writing, Reading
    <3> QED BY <3>4, <3>5
  <2> QED BY <2>5, <2>6
<1> QED BY <1>2, <1>3

\* Steps of the read phase before the block is compared.
LEMMA ReadingJudged ==
    ASSUME TypeInv, JudgedInv, pc \in Reading, pc' \in Reading \cup {"ended"},
           UNCHANGED <<todo, slice, block, rounds_completed>>,
           \A s \in Sectors \ Ahead : sector_map'[s] = sector_map[s]
                                    /\ compare_buf'[s] = compare_buf[s],
           \A s \in Ahead : (Written(s) => Written(s)')
                          /\ ((Failed(s) => UseLess(s)) => (Failed(s)' => UseLess(s)')),
           pc' # "ended" => \A s \in Sectors :
               block <= s /\ s < cur' /\ UseLess(s)' => compare_buf'[s] = Zeroes
    PROVE  JudgedInv'
<1>1. Ahead' = Ahead /\ block' = block
  BY AheadStays
<1>2. pc' \notin Writing \cup {"summary"} /\ Left = Ahead
  BY PhasesWork DEF Writing, Reading, Left
<1>3. CASE pc' = "ended"
  BY <1>2, <1>3, PhasesWork DEF JudgedInv
<1>4. CASE pc' \in Reading
  <2>1. Left' = Ahead
    BY <1>1, <1>4 DEF Left
  <2>2. \A s \in Sectors \ Ahead : Verdict(s)'
    BY <1>2 DEF JudgedInv, Verdict, Written, Failed
  <2>3. pc' # "ended"
    BY <1>4, PhasesWork
  <2> QED BY <1>1, <1>2, <1>4, <2>1, <2>2, <2>3 DEF JudgedInv
<1> QED BY <1>3, <1>4

\* (The arithmetic of a primed variable is taken through a constant.)
LEMMA InInterval ==
    ASSUME NEW a \in Nat, NEW b \in Nat
    PROVE  \A s \in Nat : s \in a .. b - 1 <=> a <= s /\ s < b
  OBVIOUS

LEMMA ReadChunkJudged ==
    ASSUME TypeInv, JudgedInv, ReadChunk
    PROVE  JudgedInv'
<1>1. /\ pc \in Reading /\ pc \in Working /\ slice \notin todo
      /\ UNCHANGED <<todo, slice, block, rounds_completed, sector_map>>
      /\ cur \in block .. BlockEnd /\ block \in Nat /\ BlockEnd \in Nat
      /\ block .. BlockEnd - 1 \subseteq Ahead /\ Ahead \subseteq Sectors
  BY PhasesWork, InBlock, BlockAhead, AheadInDevice
     DEF ReadChunk, Reading, Working, JudgedInv, verdict, place
<1>2. PICK n \in 1 .. BlockEnd - cur :
        /\ WritableRun(cur, n)
        /\ \E k \in 1 .. n, mangled \in BOOLEAN :
             /\ Advance(cur + k, "read_chunk", "read_skip", "block_read")
             /\ compare_buf' = [s \in Sectors |->
                  IF s \notin cur .. cur' - 1 THEN compare_buf[s]
                  ELSE IF s >= cur + k THEN Zeroes
                  ELSE IF mangled THEN Foreign
                  ELSE IF pos = cur THEN content[s] ELSE Garbage]
  BY DEF ReadChunk
<1>3. PICK k \in 1 .. n, mangled \in BOOLEAN :
        /\ Advance(cur + k, "read_chunk", "read_skip", "block_read")
        /\ compare_buf' = [s \in Sectors |->
             IF s \notin cur .. cur' - 1 THEN compare_buf[s]
             ELSE IF s >= cur + k THEN Zeroes
             ELSE IF mangled THEN Foreign
             ELSE IF pos = cur THEN content[s] ELSE Garbage]
  BY <1>2
<1>4. cur + k \in block .. BlockEnd /\ cur \in Nat /\ cur + k <= cur + n
  BY <1>1
<1>5. cur' \in cur + k .. BlockEnd /\ pc' \in Reading
  BY <1>1, <1>3, <1>4, AdvanceFacts, InBlock DEF Reading
<1>6. /\ block \in Nat /\ cur \in Nat /\ k \in Nat /\ cur' \in Nat /\ BlockEnd \in Nat
      /\ block <= cur /\ cur + k <= cur' /\ cur' <= BlockEnd
  BY <1>1, <1>4, <1>5
<1>7. \A s \in Sectors : s \in Nat /\ (s \in cur .. cur' - 1 <=> cur <= s /\ s < cur')
                         /\ (s \in block .. BlockEnd - 1 <=> block <= s /\ s < BlockEnd)
  <2>1. Sectors \subseteq Nat
    BY EnduranceAssumption DEF Sectors
  <2>2. \A s \in Nat : s \in cur .. cur' - 1 <=> cur <= s /\ s < cur'
    BY <1>6, InInterval
  <2>3. \A s \in Nat : s \in block .. BlockEnd - 1 <=> block <= s /\ s < BlockEnd
    BY <1>6, InInterval
  <2> QED BY <2>1, <2>2, <2>3
<1>8. ASSUME NEW s \in Sectors \ Ahead PROVE compare_buf'[s] = compare_buf[s]
  <2>1. ~(cur <= s /\ s < cur')
    BY <1>1, <1>6, <1>7
  <2> QED BY <1>3, <1>7, <2>1
<1>9. ASSUME NEW s \in Sectors, block <= s, s < cur', UseLess(s)
      PROVE  compare_buf'[s] = Zeroes
  <2>1. CASE s < cur
    <3>1. s \notin cur .. cur' - 1
      BY <1>6, <1>7, <2>1
    <3> QED BY <1>1, <1>3, <1>9, <2>1, <3>1 DEF JudgedInv
  <2>2. CASE s >= cur /\ s < cur + k
    BY <1>1, <1>2, <1>4, <1>6, <1>7, <1>9, <2>2 DEF WritableRun, UseLess
  <2>3. CASE s >= cur + k
    <3>1. s \in cur .. cur' - 1
      BY <1>6, <1>7, <1>9, <2>3
    <3> QED BY <1>3, <2>3, <3>1
  <2> QED BY <1>6, <1>7, <2>1, <2>2, <2>3
<1>10. \A s \in Sectors : (Written(s)' <=> Written(s)) /\ (Failed(s)' <=> Failed(s))
                         /\ (UseLess(s)' <=> UseLess(s))
  BY <1>1 DEF Written, Failed, UseLess
<1>11. \A s \in Sectors : block <= s /\ s < cur' /\ UseLess(s)' => compare_buf'[s] = Zeroes
  BY <1>9, <1>10
<1> QED BY <1>1, <1>5, <1>8, <1>10, <1>11, ReadingJudged

LEMMA ReadNothingJudged ==
    ASSUME TypeInv, JudgedInv, ReadNothing
    PROVE  JudgedInv'
<1>1. /\ pc \in Reading /\ pc \in Working /\ slice \notin todo
      /\ UNCHANGED <<todo, slice, block, rounds_completed, sector_map>>
      /\ cur \in block .. BlockEnd /\ block \in Nat /\ BlockEnd \in Nat
      /\ block .. BlockEnd - 1 \subseteq Ahead /\ Ahead \subseteq Sectors
  BY PhasesWork, InBlock, BlockAhead, AheadInDevice
     DEF ReadNothing, Reading, Working, JudgedInv, verdict, place
<1>2. /\ Advance(cur, "read_chunk", "read_skip", "block_read")
      /\ compare_buf' = [s \in Sectors |->
                           IF s \in cur .. cur' - 1 THEN Zeroes ELSE compare_buf[s]]
  BY DEF ReadNothing
<1>3. cur' \in cur .. BlockEnd /\ pc' \in Reading
  BY <1>1, <1>2, AdvanceFacts, InBlock DEF Reading
<1>4. /\ cur \in Nat /\ cur' \in Nat
      /\ block <= cur /\ cur <= cur' /\ cur' <= BlockEnd
  BY <1>1, <1>3
<1>5. \A s \in Sectors : s \in Nat /\ (s \in cur .. cur' - 1 <=> cur <= s /\ s < cur')
                         /\ (s \in block .. BlockEnd - 1 <=> block <= s /\ s < BlockEnd)
  <2>1. Sectors \subseteq Nat
    BY EnduranceAssumption DEF Sectors
  <2>2. \A s \in Nat : s \in cur .. cur' - 1 <=> cur <= s /\ s < cur'
    BY <1>4, InInterval
  <2>3. \A s \in Nat : s \in block .. BlockEnd - 1 <=> block <= s /\ s < BlockEnd
    BY <1>1, InInterval
  <2> QED BY <2>1, <2>2, <2>3
<1>6. ASSUME NEW s \in Sectors \ Ahead PROVE compare_buf'[s] = compare_buf[s]
  <2>1. ~(cur <= s /\ s < cur')
    BY <1>1, <1>4, <1>5
  <2> QED BY <1>2, <1>5, <2>1
<1>7. ASSUME NEW s \in Sectors, block <= s, s < cur', UseLess(s)
      PROVE  compare_buf'[s] = Zeroes
  <2>1. s < cur => compare_buf[s] = Zeroes
    BY <1>1, <1>7 DEF JudgedInv
  <2> QED BY <1>2, <1>4, <1>5, <1>7, <2>1
<1>8. \A s \in Sectors : (Written(s)' <=> Written(s)) /\ (Failed(s)' <=> Failed(s))
                         /\ (UseLess(s)' <=> UseLess(s))
  BY <1>1 DEF Written, Failed, UseLess
<1>9. \A s \in Sectors : block <= s /\ s < cur' /\ UseLess(s)' => compare_buf'[s] = Zeroes
  BY <1>7, <1>8
<1> QED BY <1>1, <1>3, <1>6, <1>8, <1>9, ReadingJudged

LEMMA ReadChunkFailsJudged ==
    ASSUME TypeInv, JudgedInv, ReadChunkFails
    PROVE  JudgedInv'
<1>1. /\ pc \in Reading /\ pc' \in Reading /\ pc \in Working /\ slice \notin todo
      /\ UNCHANGED <<todo, slice, block, rounds_completed>>
      /\ sector_map \in [Sectors -> SUBSET Flags] /\ compare_buf \in [Sectors -> Content]
      /\ cur < BlockEnd
  BY PhasesWork
     DEF ReadChunkFails, Reading, Working, JudgedInv, place, TypeInv, TypeOK, DataOK, Places
<1>2. /\ sector_map' = Mark({cur}, {"FAILED", "FAILED_THIS_ROUND"} \cup {"DO_NOT_USE"})
      /\ compare_buf' = [compare_buf EXCEPT ![cur] = Zeroes]
      /\ cur' = cur + 1
  BY DEF ReadChunkFails, MarkBad
<1>3. cur \in block .. BlockEnd - 1 /\ block \in Nat /\ cur \in Nat /\ BlockEnd \in Nat
  BY <1>1, InBlock
<1>4. cur \in Ahead /\ cur \in Sectors
  BY <1>1, <1>3, BlockAhead, AheadInDevice
<1>5. \A s \in Sectors \ Ahead : sector_map'[s] = sector_map[s]
                                 /\ compare_buf'[s] = compare_buf[s]
  BY <1>1, <1>2, <1>4 DEF Mark
<1>6. \A s \in Sectors : (Written(s) => Written(s)')
                         /\ ((Failed(s) => UseLess(s)) => (Failed(s)' => UseLess(s)'))
                         /\ (s # cur => (UseLess(s)' <=> UseLess(s)))
  BY <1>1, <1>2 DEF Mark, Written, Failed, UseLess
<1>7. ASSUME NEW s \in Sectors, block <= s, s < cur', UseLess(s)'
      PROVE  compare_buf'[s] = Zeroes
  <2>1. CASE s = cur
    BY <1>1, <1>2, <1>4, <2>1
  <2>2. CASE s # cur
    <3>1. s < cur
      BY <1>2, <1>3, <1>7, <2>2, EnduranceAssumption DEF Sectors
    <3>2. compare_buf[s] = Zeroes
      BY <1>1, <1>6, <1>7, <2>2, <3>1 DEF JudgedInv
    <3> QED BY <1>1, <1>2, <2>2, <3>2
  <2> QED BY <2>1, <2>2
<1>8. Ahead \subseteq Sectors
  BY AheadInDevice
<1> QED BY <1>1, <1>5, <1>6, <1>7, <1>8, ReadingJudged

\* Seeks, and the steps that end the test.
LEMMA SeekingJudged ==
    ASSUME TypeInv, JudgedInv, pc \in Reading, pc' \in Reading \cup {"ended"},
           UNCHANGED <<todo, slice, block, rounds_completed, sector_map, compare_buf>>,
           cur' \in {block, cur}
    PROVE  JudgedInv'
<1>1. Ahead \subseteq Sectors /\ block \in Nat
  BY AheadInDevice, InBlock, PhasesWork
<1>2. \A s \in Sectors : (Written(s)' <=> Written(s)) /\ (Failed(s)' <=> Failed(s))
                         /\ (UseLess(s)' <=> UseLess(s))
  BY DEF Written, Failed, UseLess
<1>3. \A s \in Sectors : block <= s /\ s < cur' /\ UseLess(s)' => compare_buf'[s] = Zeroes
  <2>1. CASE cur' = cur
    BY <1>2, <2>1 DEF JudgedInv
  <2>2. CASE cur' = block
    BY <1>1, <2>2, EnduranceAssumption DEF Sectors
  <2> QED BY <2>1, <2>2
<1> QED BY <1>1, <1>2, <1>3, ReadingJudged

\* The comparison of a block takes it from what is left.
LEMMA CompareMovesOn ==
    ASSUME TypeInv, JudgedInv, CompareBlock
    PROVE  /\ Left = Ahead /\ Left \subseteq Sectors
           /\ block .. BlockEnd - 1 \subseteq Left
           /\ Left' = Left \ (block .. BlockEnd - 1)
           /\ \/ pc' = "summary"
              \/ pc' \in Reading /\ cur' = block' /\ slice' \notin todo' /\ Left' = Ahead'
<1> DEFINE B == block .. BlockEnd - 1
<1>1. /\ pc \in Reading /\ pc \in Working /\ slice \notin todo /\ todo \in SUBSET Slices
      /\ Left = Ahead /\ Ahead \subseteq Sectors
  BY AheadInDevice
     DEF CompareBlock, Reading, Working, JudgedInv, Left, TypeInv, TypeOK, ControlOK
<1>2. CASE BlockEnd < last_sector(slice)
  <2>1. /\ UNCHANGED <<todo, slice>> /\ block' = BlockEnd /\ cur' = BlockEnd
        /\ pc' = "read_chunk"
    BY <1>2 DEF CompareBlock
  <2>2. Ahead' = SectorsOf(todo) \cup {s \in SliceSectors(slice) : s >= BlockEnd}
    BY <2>1 DEF Ahead, SectorsOf, SliceSectors, get_slice_start, last_sector
  <2>3. Ahead' = Ahead \ B /\ B \subseteq Ahead
    BY <1>1, <2>2, BlockAhead
  <2> QED BY <1>1, <2>1, <2>3 DEF Left, Reading
<1>3. CASE ~(BlockEnd < last_sector(slice))
  <2>1. ReadSliceDone
    BY <1>3 DEF CompareBlock
  <2>2. BlockEnd >= last_sector(slice)
    BY <1>1, <1>3, InBlock, SliceGeometry
  <2>3. Ahead \ B = SectorsOf(todo) /\ B \subseteq Ahead
    BY <1>1, <2>2, BlockAhead
  <2>4. CASE todo # {}
    <3>1. TakeSlice(todo) /\ pc' = "read_slice_seek" /\ block' = cur'
      BY <2>1, <2>4 DEF ReadSliceDone, TakeSlice
    <3>2. Ahead' = Ahead \ B /\ slice' \notin todo'
      BY <1>1, <2>3, <3>1, TakenAhead
    <3> QED BY <1>1, <2>3, <3>1, <3>2 DEF Left, Reading
  <2>5. CASE todo = {}
    <3>1. pc' = "summary"
      BY <2>1, <2>5 DEF ReadSliceDone
    <3>2. Ahead \ B = {}
      BY <2>3, <2>5 DEF SectorsOf
    <3> QED BY <1>1, <2>3, <3>1, <3>2 DEF Left, Reading
  <2> QED BY <2>4, <2>5
<1> QED BY <1>2, <1>3

\* What the comparison says of each sector.
LEMMA CompareJudges ==
    ASSUME TypeInv, JudgedInv, CompareBlock, NEW s \in Sectors
    PROVE  /\ s \notin block .. BlockEnd - 1 => sector_map'[s] = sector_map[s]
           /\ s \in block .. BlockEnd - 1 => Verdict(s)'
           /\ rounds_completed' = rounds_completed /\ compare_buf' = compare_buf
<1> DEFINE B     == block .. BlockEnd - 1
           wrong == {x \in B : compare_buf[x] # rounds_completed}
<1>1. /\ sector_map' = [x \in Sectors |->
           sector_map[x] \cup (IF x \in B THEN {"READ_THIS_ROUND"} ELSE {})
                         \cup (IF x \in wrong THEN {"FAILED", "FAILED_THIS_ROUND"}
                                              ELSE {})]
      /\ rounds_completed' = rounds_completed /\ compare_buf' = compare_buf
  BY DEF CompareBlock
<1>2. s \in B => Written(s) /\ (Failed(s) => UseLess(s))
  BY CompareMovesOn DEF JudgedInv, CompareBlock, Reading
<1>3. s \in B /\ UseLess(s) => compare_buf[s] = Zeroes
  <2>1. pc \in Working /\ cur = BlockEnd /\ pc \in Reading
    BY DEF CompareBlock, Working, Reading, TypeInv, Places
  <2>2. s \in B => block <= s /\ s < cur
    BY <2>1, InBlock
  <2> QED BY <2>1, <2>2 DEF JudgedInv
<1>4. Zeroes # rounds_completed
  BY DEF Zeroes, TypeInv, TypeOK, CountsOK
<1> HIDE DEF B
<1>5. s \notin B => sector_map'[s] = sector_map[s]
  BY <1>1
<1>6. s \in wrong => Failed(s)'
  BY <1>1 DEF Failed
<1>7. s \notin wrong => (Failed(s)' <=> Failed(s))
  BY <1>1 DEF Failed
<1>8. s \in B => Written(s)' /\ "READ_THIS_ROUND" \in sector_map'[s]
  BY <1>1, <1>2 DEF Written
<1> QED BY <1>1, <1>2, <1>3, <1>4, <1>5, <1>6, <1>7, <1>8 DEF Verdict, B

LEMMA CompareBlockJudged ==
    ASSUME TypeInv, JudgedInv, CompareBlock
    PROVE  JudgedInv'
<1> DEFINE B == block .. BlockEnd - 1
<1>1. pc \in Reading
  BY DEF CompareBlock, Reading
<1>2. \A s \in Sectors \ Left' : Verdict(s)'
  <2> SUFFICES ASSUME NEW s \in Sectors \ Left' PROVE Verdict(s)'
    OBVIOUS
  <2>1. CASE s \in B
    BY <2>1, CompareJudges
  <2>2. CASE s \notin B
    <3>1. s \in Sectors \ Left
      BY <2>2, CompareMovesOn
    <3>2. Verdict(s)
      BY <1>1, <3>1 DEF JudgedInv
    <3> QED BY <2>2, <3>2, CompareJudges DEF Verdict, Written, Failed
  <2> QED BY <2>1, <2>2
<1>3. CASE pc' = "summary"
  BY <1>2, <1>3, PhasesWork DEF JudgedInv
<1>4. CASE pc' \in Reading /\ cur' = block' /\ slice' \notin todo' /\ Left' = Ahead'
  <2>1. \A s \in Ahead' : Written(s)' /\ (Failed(s)' => UseLess(s)')
    <3> SUFFICES ASSUME NEW s \in Ahead' PROVE Written(s)' /\ (Failed(s)' => UseLess(s)')
      OBVIOUS
    <3>1. s \in Ahead \ B /\ s \in Sectors
      BY <1>4, CompareMovesOn
    <3> QED BY <1>1, <3>1, CompareJudges DEF JudgedInv, Written, Failed, UseLess
  <2>2. \A s \in Sectors : ~(block' <= s /\ s < cur')
    <3>1. cur' \in Nat
      BY CompareBlockType DEF TypeInv, TypeOK, ControlOK
    <3> QED BY <1>4, <3>1, EnduranceAssumption DEF Sectors
  <2>3. pc' \notin Writing
    BY <1>4, PhasesWork
  <2> QED BY <1>2, <1>4, <2>1, <2>2, <2>3 DEF JudgedInv
<1> QED BY <1>3, <1>4, CompareMovesOn

LEMMA JudgedNext == TypeInv /\ JudgedInv /\ [Next]_vars => JudgedInv'
<1> SUFFICES ASSUME TypeInv, JudgedInv, [Next]_vars PROVE JudgedInv'
  OBVIOUS
<1> USE DEF verdict, counters, place, session
<1>1. CASE StartRound
  BY <1>1, StartRoundJudged
<1>2. CASE FiftyPercent \/ EndRound
  BY <1>2, PhasesWork DEF FiftyPercent, EndRound, End, JudgedInv, Writing, Reading
<1>3. CASE WriteSliceSeek \/ WriteSliceSeekFails \/ WriteChunk \/ WriteChunkLosesDevice
           \/ WriteNothing \/ WriteSkip \/ WriteSkipFails
  <2>1. pc \in Writing /\ UNCHANGED <<todo, slice, block, sector_map>>
    BY <1>3 DEF WriteSliceSeek, WriteSliceSeekFails, WriteChunk, WriteChunkLosesDevice,
       WriteNothing, WriteSkip, WriteSkipFails, Writing
  <2>2. pc' \in Writing \cup {"ended"}
    BY <1>3 DEF WriteSliceSeek, WriteSliceSeekFails, WriteChunk, WriteChunkLosesDevice,
       WriteNothing, WriteSkip, WriteSkipFails, Writing, End, Advance
  <2>3. \A s \in Sectors : (Written(s) => Written(s)') /\ (Failed(s)' => UseLess(s)')
    BY <2>1 DEF JudgedInv, Written, Failed, UseLess
  <2> QED BY <2>1, <2>2, <2>3, WritingJudged
<1>4. CASE WriteChunkFails
  BY <1>4, WriteChunkFailsJudged
<1>5. CASE BlockWritten
  BY <1>5, BlockWrittenJudged
<1>6. CASE ReadChunk
  BY <1>6, ReadChunkJudged
<1>7. CASE ReadNothing
  BY <1>7, ReadNothingJudged
<1>8. CASE ReadChunkFails
  BY <1>8, ReadChunkFailsJudged
<1>9. CASE CompareBlock
  BY <1>9, CompareBlockJudged
<1>10. CASE ReadSliceSeek \/ ReadSliceSeekFails \/ ReadChunkLosesDevice \/ ReadSkip
            \/ ReadSkipFails \/ RereadMangled \/ RereadMangledFails
  <2>1. /\ pc \in Reading /\ pc' \in Reading \cup {"ended"}
        /\ UNCHANGED <<todo, slice, block, rounds_completed, sector_map, compare_buf>>
        /\ cur' \in {block, cur}
    BY <1>10 DEF ReadSliceSeek, ReadSliceSeekFails, ReadChunkLosesDevice, ReadSkip,
       ReadSkipFails, RereadMangled, RereadMangledFails, Reading, End
  <2> QED BY <2>1, SeekingJudged
<1>11. CASE Disconnect \/ Decay \/ UNCHANGED vars
  <2>1. UNCHANGED <<pc, todo, slice, block, cur, rounds_completed, sector_map, compare_buf>>
    BY <1>11 DEF Disconnect, Decay, vars
  <2>2. Ahead' = Ahead
    BY <2>1, AheadStays
  <2>3. Left' = Left
    BY <2>1, <2>2 DEF Left
  <2> QED BY <2>1, <2>2, <2>3 DEF JudgedInv, Verdict, Written, Failed, UseLess
<1> QED BY <1>1, <1>2, <1>3, <1>4, <1>5, <1>6, <1>7, <1>8, <1>9, <1>10, <1>11
        DEF Next, MainThread, WriteStep, ReadStep

LEMMA JudgedAlways == Spec => []JudgedInv
  BY JudgedInit, JudgedNext, TypeInvAlways, PTL DEF Spec

(* At the end of a round every sector has been gone over in both phases,   *)
(* and is flagged as failed in this round exactly if the data compared was *)
(* not this round's, whatever was skipped, re-read or restarted.           *)
THEOREM AllJudged == Spec => []EverySectorJudged
<1>1. JudgedInv => EverySectorJudged
  <2>1. pc = "summary" => Left = {}
    BY DEF Left, Reading
  <2> QED BY <2>1 DEF JudgedInv, EverySectorJudged, Verdict, Written, Failed
<1> QED BY <1>1, JudgedAlways, PTL

----------------------------------------------------------------------------
(* The report adds up.                                                     *)

FailedNow == Flagged("FAILED_THIS_ROUND")

\* Of the sectors compared: those that were bad and are good again, and those
\* that have failed in this round.
Recovered == {s \in Sectors \ Left : s \in Bad /\ s \notin FailedNow}
Condemned == {s \in Sectors \ Left : s \in FailedNow}

\* The counts follow the comparison, and only bad sectors fail.
TallyInv ==
    /\ FailedNow \subseteq Bad
    /\ pc \in Writing => num_good_sectors_this_round = 0
    /\ pc \in Reading \cup {"summary"} =>
         /\ num_good_sectors_this_round = Cardinality(Recovered)
         /\ num_bad_sectors_this_round >= Cardinality(Condemned)

LEMMA CountApart ==
    ASSUME NEW S \in SUBSET Sectors, NEW T \in SUBSET Sectors, S \cap T = {}
    PROVE  /\ Cardinality(S \cup T) = Cardinality(S) + Cardinality(T)
           /\ Cardinality(S) \in Nat /\ Cardinality(T) \in Nat
<1>1. IsFiniteSet(S) /\ IsFiniteSet(T) /\ Cardinality(S) \in Nat /\ Cardinality(T) \in Nat
  BY SectorsFinite
<1>2. Cardinality(S \cup T) = Cardinality(S) + Cardinality(T) - Cardinality(S \cap T)
  BY <1>1, FS_Union
<1>3. Cardinality(S \cap T) = 0
  BY FS_EmptySet
<1> QED BY <1>1, <1>2, <1>3

LEMMA TallyInit == Init => TallyInv
  BY DEF Init, TallyInv, FailedNow, Bad, Flagged, Writing, Reading

\* Only bad sectors fail, since both flags are set together.
LEMMA FailedNowBad ==
    ASSUME TypeInv, FailedNow \subseteq Bad, [Next]_vars
    PROVE  FailedNow' \subseteq Bad'
<1> USE DEF FailedNow, Bad, Flagged, TypeInv, TypeOK, DataOK
<1>1. CASE StartRound \/ BlockWritten
  BY <1>1 DEF StartRound, BlockWritten, Reset, Mark
<1>2. CASE WriteChunkFails \/ ReadChunkFails
  BY <1>2 DEF WriteChunkFails, ReadChunkFails, MarkBad, Mark
<1>3. CASE CompareBlock
  <2> DEFINE B     == block .. BlockEnd - 1
             wrong == {s \in B : compare_buf[s] # rounds_completed}
  <2>1. sector_map' = [s \in Sectors |->
             sector_map[s] \cup (IF s \in B THEN {"READ_THIS_ROUND"} ELSE {})
                           \cup (IF s \in wrong THEN {"FAILED", "FAILED_THIS_ROUND"}
                                                ELSE {})]
    BY <1>3 DEF CompareBlock
  <2> HIDE DEF B, wrong
  <2> QED BY <2>1
<1>4. CASE sector_map' = sector_map
  BY <1>4
<1>5. CASE WriteSliceSeek \/ WriteSliceSeekFails \/ WriteChunk \/ WriteChunkLosesDevice
           \/ WriteNothing \/ WriteSkip \/ WriteSkipFails
  BY <1>4, <1>5
     DEF WriteSliceSeek, WriteSliceSeekFails, WriteChunk, WriteChunkLosesDevice,
         WriteNothing, WriteSkip, WriteSkipFails, verdict
<1>6. CASE ReadSliceSeek \/ ReadSliceSeekFails \/ ReadChunk \/ ReadChunkLosesDevice
           \/ ReadNothing \/ ReadSkip \/ ReadSkipFails \/ RereadMangled \/ RereadMangledFails
  BY <1>4, <1>6
     DEF ReadSliceSeek, ReadSliceSeekFails, ReadChunk, ReadChunkLosesDevice,
         ReadNothing, ReadSkip, ReadSkipFails, RereadMangled, RereadMangledFails, verdict
<1>7. CASE FiftyPercent \/ EndRound \/ Disconnect \/ Decay \/ UNCHANGED vars
  BY <1>4, <1>7 DEF FiftyPercent, EndRound, Disconnect, Decay, vars, verdict
<1> QED BY <1>1, <1>2, <1>3, <1>5, <1>6, <1>7 DEF Next, MainThread, WriteStep, ReadStep

\* Steps that compare nothing; what they find bad has yet to be compared.
LEMMA NothingCompared ==
    ASSUME TallyInv, FailedNow' \subseteq Bad', pc \in Reading, pc' \in Reading \cup {"ended"},
           UNCHANGED <<todo, slice, block, num_good_sectors_this_round,
                       num_bad_sectors_this_round>>,
           \A s \in Sectors \ Ahead : sector_map'[s] = sector_map[s]
    PROVE  TallyInv'
<1>1. CASE pc' = "ended"
  BY <1>1, PhasesWork DEF TallyInv
<1>2. CASE pc' \in Reading
  <2>1. Left = Ahead /\ Left' = Ahead
    BY <1>2, AheadStays DEF Left
  <2>2. Recovered' = Recovered /\ Condemned' = Condemned
    BY <2>1 DEF Recovered, Condemned, FailedNow, Bad, Flagged
  <2> QED BY <1>2, <2>2, PhasesWork DEF TallyInv
<1> QED BY <1>1, <1>2

LEMMA CompareBlockTally ==
    ASSUME TypeInv, JudgedInv, TallyInv, FailedNow' \subseteq Bad', CompareBlock
    PROVE  TallyInv'
<1> DEFINE B     == block .. BlockEnd - 1
           wrong == {s \in B : compare_buf[s] # rounds_completed}
           good  == {s \in B \ wrong : is_sector_bad(s)}
<1>1. /\ num_bad_sectors_this_round' = num_bad_sectors_this_round + Cardinality(wrong)
      /\ num_good_sectors_this_round' = num_good_sectors_this_round + Cardinality(good)
  BY DEF CompareBlock
<1>2. /\ Left \subseteq Sectors /\ B \subseteq Left /\ Left' = Left \ B
      /\ pc' \in Reading \cup {"summary"} /\ pc \in Reading
  BY CompareMovesOn DEF CompareBlock, Reading
<1>3. /\ \A s \in B : s \in FailedNow' <=> s \in wrong
      /\ \A s \in Sectors \ B : s \in FailedNow' <=> s \in FailedNow
  BY <1>2, CompareJudges DEF FailedNow, Flagged, Verdict, Failed
<1>4. /\ \A s \in Sectors \ B : s \in Bad' <=> s \in Bad
      /\ \A s \in B \ wrong : s \in Bad' <=> is_sector_bad(s)
  <2>1. sector_map' = [s \in Sectors |->
             sector_map[s] \cup (IF s \in B THEN {"READ_THIS_ROUND"} ELSE {})
                           \cup (IF s \in wrong THEN {"FAILED", "FAILED_THIS_ROUND"}
                                                ELSE {})]
    BY DEF CompareBlock
  <2>2. wrong \subseteq B /\ B \subseteq Sectors
    BY <1>2
  <2> HIDE DEF B, wrong
  <2>3. \A s \in Sectors \ wrong : "FAILED" \in sector_map'[s] <=> "FAILED" \in sector_map[s]
    BY <2>1
  <2> QED BY <2>2, <2>3 DEF Bad, Flagged, is_sector_bad
<1> HIDE DEF B
<1>5. wrong \subseteq B
  OBVIOUS
<1> HIDE DEF wrong
<1>6. Condemned' = Condemned \cup wrong /\ Condemned \cap wrong = {}
  BY <1>2, <1>3, <1>5 DEF Condemned
<1>7. Recovered' = Recovered \cup good /\ Recovered \cap good = {}
  BY <1>2, <1>3, <1>4, <1>5 DEF Recovered
<1>8. wrong \subseteq Sectors /\ good \subseteq Sectors
  BY <1>2, <1>5
<1>9. Condemned \subseteq Sectors /\ Recovered \subseteq Sectors
  BY DEF Condemned, Recovered
<1> HIDE DEF good
<1>10. /\ Cardinality(Condemned') = Cardinality(Condemned) + Cardinality(wrong)
       /\ Cardinality(Condemned) \in Nat /\ Cardinality(wrong) \in Nat
  BY <1>6, <1>8, <1>9, CountApart
<1>11. /\ Cardinality(Recovered') = Cardinality(Recovered) + Cardinality(good)
       /\ Cardinality(Recovered) \in Nat /\ Cardinality(good) \in Nat
  BY <1>7, <1>8, <1>9, CountApart
<1>12. /\ num_good_sectors_this_round = Cardinality(Recovered)
       /\ num_bad_sectors_this_round >= Cardinality(Condemned)
       /\ num_bad_sectors_this_round \in Nat
  BY <1>2 DEF TallyInv, TypeInv, TypeOK, CountsOK
<1>13. /\ num_good_sectors_this_round' = Cardinality(Recovered')
       /\ num_bad_sectors_this_round' >= Cardinality(Condemned')
  BY <1>1, <1>10, <1>11, <1>12
<1> QED BY <1>2, <1>13, PhasesWork DEF TallyInv

LEMMA BlockWrittenTally ==
    ASSUME TypeInv, TallyInv, FailedNow' \subseteq Bad', BlockWritten
    PROVE  TallyInv'
<1>1. /\ num_good_sectors_this_round = 0 /\ num_good_sectors_this_round' = 0
      /\ num_bad_sectors_this_round' \in Nat
  BY DEF BlockWritten, counters, TallyInv, Writing, TypeInv, TypeOK, CountsOK
<1>2. CASE pc' \in Writing
  BY <1>1, <1>2, PhasesWork DEF TallyInv
<1>3. CASE pc' \notin Writing
  <2>1. TakeSlice(Slices) /\ pc' = "read_slice_seek"
    BY <1>3 DEF BlockWritten, WriteSliceDone, Writing
  <2>2. Left' = Sectors
    BY <2>1, TakenAhead, AllAhead DEF Left, Reading
  <2>3. Recovered' = {} /\ Condemned' = {}
    BY <2>2 DEF Recovered, Condemned
  <2> QED BY <1>1, <1>3, <2>3, FS_EmptySet DEF TallyInv
<1> QED BY <1>2, <1>3

LEMMA TallyNext == TypeInv /\ JudgedInv /\ TallyInv /\ [Next]_vars => TallyInv'
<1> SUFFICES ASSUME TypeInv, JudgedInv, TallyInv, [Next]_vars PROVE TallyInv'
  OBVIOUS
<1>1. FailedNow' \subseteq Bad'
  BY FailedNowBad DEF TallyInv
<1>2. CASE StartRound
  BY <1>1, <1>2 DEF StartRound, TallyInv, Writing, Reading
<1>3. CASE FiftyPercent \/ EndRound
  BY <1>1, <1>3 DEF FiftyPercent, EndRound, End, TallyInv, Writing, Reading
<1>4. CASE WriteStep /\ ~BlockWritten
  <2>1. pc \in Writing /\ num_good_sectors_this_round' = num_good_sectors_this_round
    BY <1>4 DEF WriteStep, WriteSliceSeek, WriteSliceSeekFails, WriteChunk,
       WriteChunkFails, WriteChunkLosesDevice, WriteNothing, WriteSkip,
       WriteSkipFails, Writing, verdict, counters
  <2>2. pc' \in Writing \cup {"ended"}
    BY <1>4 DEF WriteStep, WriteSliceSeek, WriteSliceSeekFails, WriteChunk,
       WriteChunkFails, WriteChunkLosesDevice, WriteNothing, WriteSkip,
       WriteSkipFails, Writing, End, Advance
  <2> QED BY <1>1, <2>1, <2>2, PhasesWork DEF TallyInv
<1>5. CASE BlockWritten
  BY <1>1, <1>5, BlockWrittenTally
<1>6. CASE ReadStep /\ ~CompareBlock /\ ~ReadChunkFails
  <2>1. /\ pc \in Reading
        /\ UNCHANGED <<todo, slice, block, num_good_sectors_this_round,
                       num_bad_sectors_this_round, sector_map>>
    BY <1>6 DEF ReadStep, ReadSliceSeek, ReadSliceSeekFails, ReadChunk,
       ReadChunkLosesDevice, ReadNothing, ReadSkip, ReadSkipFails, RereadMangled,
       RereadMangledFails, Reading, verdict, counters, place
  <2>2. pc' \in Reading \cup {"ended"}
    BY <1>6 DEF ReadStep, ReadSliceSeek, ReadSliceSeekFails, ReadChunk,
       ReadChunkLosesDevice, ReadNothing, ReadSkip, ReadSkipFails, RereadMangled,
       RereadMangledFails, Reading, End, Advance
  <2> QED BY <1>1, <2>1, <2>2, NothingCompared
<1>7. CASE ReadChunkFails
  <2>1. /\ pc \in Reading /\ pc' \in Reading /\ pc \in Working /\ cur < BlockEnd
        /\ slice \notin todo
        /\ UNCHANGED <<todo, slice, block, num_good_sectors_this_round,
                       num_bad_sectors_this_round>>
        /\ sector_map' = Mark({cur}, {"FAILED", "FAILED_THIS_ROUND"} \cup {"DO_NOT_USE"})
    BY <1>7 DEF ReadChunkFails, MarkBad, Reading, Working, counters, place, TypeInv,
       Places, JudgedInv
  <2>2. cur \in block .. BlockEnd - 1
    BY <2>1, InBlock
  <2>3. cur \in Ahead
    BY <2>1, <2>2, BlockAhead
  <2>4. \A s \in Sectors \ Ahead : sector_map'[s] = sector_map[s]
    BY <2>1, <2>3 DEF Mark
  <2> QED BY <1>1, <2>1, <2>4, NothingCompared
<1>8. CASE CompareBlock
  BY <1>1, <1>8, CompareBlockTally
<1>9. CASE Disconnect \/ Decay \/ UNCHANGED vars
  <2>1. UNCHANGED <<pc, todo, slice, block, sector_map, counters>>
    BY <1>9 DEF Disconnect, Decay, vars, verdict, place, counters
  <2>2. Left' = Left
    BY <2>1, AheadStays DEF Left
  <2>3. Recovered' = Recovered /\ Condemned' = Condemned
    BY <2>1, <2>2 DEF Recovered, Condemned, FailedNow, Bad, Flagged
  <2> QED BY <1>1, <2>1, <2>3 DEF TallyInv, counters
<1> QED BY <1>2, <1>3, <1>4, <1>5, <1>6, <1>7, <1>8, <1>9 DEF Next, MainThread

(* The end-of-round report adds up: the bad sectors that tested good and   *)
(* those that failed in this round are all the bad ones, and none that     *)
(* failed is missing from the count of the round.                          *)
THEOREM ReportAddsUp == Spec => []RoundTally
<1>1. TypeInv /\ BadInv /\ TallyInv => RoundTally
  <2> SUFFICES ASSUME TypeInv, BadInv, TallyInv, pc = "summary" PROVE RoundTally
    BY DEF RoundTally
  <2>1. Left = {}
    BY DEF Left, Reading
  <2>2. Condemned = FailedNow /\ Recovered \cup FailedNow = Bad /\ Recovered \cap FailedNow = {}
    BY <2>1 DEF Condemned, Recovered, FailedNow, Bad, Flagged, TallyInv
  <2>3. Recovered \in SUBSET Sectors /\ FailedNow \in SUBSET Sectors
    BY DEF Recovered, FailedNow, Flagged
  <2>4. Cardinality(Bad) = Cardinality(Recovered) + Cardinality(FailedNow)
    BY <2>2, <2>3, CountApart
  <2> QED BY <2>2, <2>4 DEF TallyInv, RoundTally, BadInv, BadCountMatchesMap, FailedNow, Bad
<1>2. Spec => []TallyInv
  BY TallyInit, TallyNext, TypeInvAlways, JudgedAlways, PTL DEF Spec
<1> QED BY <1>1, <1>2, TypeInvAlways, BadInvAlways, PTL

----------------------------------------------------------------------------
(* The test runs out of steps.                                             *)

\* In falling importance: the sectors that may still be used ...
UsableLeft == Cardinality(Sectors \ Unusable)

\* ... the faults to come, with what the last ones still have to cause: a
\* handle that is gone is replaced, given up, or ends the test, and a slice
\* that was interrupted is restarted ...
HandleTrouble ==
    IF fd = "open" \/ pc = "ended" THEN 0
    ELSE IF fd = "stale" THEN 5
    ELSE IF pc = "write_slice_seek" \/ (pc = "block_written" /\ device_was_disconnected)
    THEN 1 ELSE 3

TroubleLeft ==
    6 * (MaxFaults - faults) + HandleTrouble + (IF device_was_disconnected THEN 1 ELSE 0)

\* ... the phases of the rounds to come ...
PhasesLeft ==
    IF pc = "ended" THEN 0
    ELSE 4 * (MaxRounds - rounds_completed)
         + (IF pc = "round" THEN 4 ELSE IF pc \in Writing THEN 3
            ELSE IF pc \in Reading THEN 2 ELSE 1)

\* ... the slices of the phase, the sectors of the slice, the re-reads of the
\* block, and the sectors and seeks of this pass over it.
SlicesLeft == Cardinality(todo)

SliceLeft ==
    IF pc \in {"write_slice_seek", "read_slice_seek"} THEN NumSectors + 1
    ELSE IF pc \in Working THEN last_sector(slice) - block ELSE 0

RereadsLeft == MaxMismatches - num_uuid_mismatches

PassLeft ==
    3 * (NumSectors - cur)
      + (IF pc \in {"write_skip", "read_skip"} THEN 2
         ELSE IF pc \in {"write_chunk", "read_chunk"} THEN 1 ELSE 0)

Rank == <<UsableLeft, TroubleLeft, PhasesLeft, SlicesLeft, SliceLeft, RereadsLeft, PassLeft>>

\* The lexicographic order of seven natural numbers.
Less      == {p \in Nat \X Nat : p[1] < p[2]}
RankOrder == LexProductOrdering(Less, Nat, 7)

RankGoesDown == <<Rank', Rank>> \in RankOrder

\* A restart is due only while a block that was being written is left.
RestartDue == device_was_disconnected => pc \in {"write_skip", "block_written"}

LEMMA RestartDueAlways == Spec => []RestartDue
<1>1. Init => RestartDue
  BY DEF Init, RestartDue
<1>2. RestartDue /\ [Next]_vars => RestartDue'
  <2> SUFFICES ASSUME RestartDue, [Next]_vars PROVE RestartDue'
    OBVIOUS
  <2>1. CASE WriteStep
    BY <2>1 DEF RestartDue, WriteStep, WriteSliceSeek, WriteSliceSeekFails, WriteChunk,
       WriteChunkFails, WriteChunkLosesDevice, WriteNothing, WriteSkip, WriteSkipFails,
       BlockWritten, End, Advance
  <2>2. CASE ReadStep \/ StartRound \/ FiftyPercent \/ EndRound
    BY <2>2 DEF RestartDue, ReadStep, ReadSliceSeek, ReadSliceSeekFails, ReadChunk,
       ReadChunkFails, ReadChunkLosesDevice, ReadNothing, ReadSkip, ReadSkipFails,
       RereadMangled, RereadMangledFails, CompareBlock, StartRound, FiftyPercent,
       EndRound, End
  <2>3. CASE Disconnect \/ Decay \/ UNCHANGED vars
    BY <2>3 DEF RestartDue, Disconnect, Decay, vars
  <2> QED BY <2>1, <2>2, <2>3 DEF Next, MainThread
<1> QED BY <1>1, <1>2, PTL DEF Spec

\* The rank is seven natural numbers.
RankOK ==
    /\ UsableLeft \in Nat /\ TroubleLeft \in Nat /\ PhasesLeft \in Nat
    /\ SlicesLeft \in Nat /\ SliceLeft \in Nat /\ RereadsLeft \in Nat
    /\ PassLeft \in Nat

LEMMA RankTypes == TypeInv => RankOK
<1> SUFFICES ASSUME TypeInv PROVE RankOK
  OBVIOUS
<1>1. UsableLeft \in Nat
  BY SectorsFinite DEF UsableLeft
<1>2. TroubleLeft \in Nat
  BY EnduranceAssumption DEF TroubleLeft, HandleTrouble, TypeInv, TypeOK, DeviceOK
<1>3. PhasesLeft \in Nat
  BY EnduranceAssumption DEF PhasesLeft, TypeInv, TypeOK, CountsOK
<1>4. SlicesLeft \in Nat
  <2>1. IsFiniteSet(Slices)
    BY FS_Interval, EnduranceAssumption DEF Slices
  <2>2. todo \subseteq Slices
    BY DEF TypeInv, TypeOK, ControlOK
  <2> QED BY <2>1, <2>2, FS_Subset, FS_CardinalityType DEF SlicesLeft
<1>5. SliceLeft \in Nat
  <2>1. ASSUME pc \in Working PROVE last_sector(slice) - block \in Nat
    <3>1. slice \in Slices /\ block \in get_slice_start(slice) .. last_sector(slice) - 1
      BY <2>1, InBlock DEF SliceSectors
    <3> QED BY <3>1, SliceGeometry
  <2> QED BY <2>1, EnduranceAssumption DEF SliceLeft
<1>6. RereadsLeft \in Nat /\ PassLeft \in Nat
  BY EnduranceAssumption DEF RereadsLeft, PassLeft, TypeInv, TypeOK, ControlOK
<1> QED BY <1>1, <1>2, <1>3, <1>4, <1>5, <1>6 DEF RankOK

\* A part falls, with every part before it held.
PassFalls  == RereadsLeft' = RereadsLeft /\ PassLeft' < PassLeft
SliceFalls == SliceLeft' < SliceLeft
              \/ (SliceLeft' = SliceLeft /\ (RereadsLeft' < RereadsLeft \/ PassFalls))
PhaseFalls == SlicesLeft' < SlicesLeft \/ (SlicesLeft' = SlicesLeft /\ SliceFalls)
RoundFalls == PhasesLeft' < PhasesLeft \/ (PhasesLeft' = PhasesLeft /\ PhaseFalls)
TestFalls  == TroubleLeft' < TroubleLeft \/ (TroubleLeft' = TroubleLeft /\ RoundFalls)
RankFalls  == UsableLeft' < UsableLeft \/ (UsableLeft' = UsableLeft /\ TestFalls)

LEMMA RankOrderWellFounded == IsWellFoundedOn(RankOrder, [1 .. 7 -> Nat])
<1>1. IsWellFoundedOn(Less, Nat)
  BY NatLessThanWellFounded DEF OpToRel, Less
<1> QED BY <1>1, WFLexProductOrdering DEF RankOrder

LEMMA TupleOrder ==
    ASSUME NEW r \in [1 .. 7 -> Nat], NEW s \in [1 .. 7 -> Nat], NEW j \in 1 .. 7,
           s[j] < r[j], \A i \in 1 .. (j - 1) : s[i] = r[i]
    PROVE  <<s, r>> \in RankOrder
<1>1. <<s[j], r[j]>> \in Less
  BY DEF Less
<1> QED BY <1>1 DEF RankOrder, LexProductOrdering

LEMMA FallsInOrder ==
    ASSUME RankOK, RankOK', RankFalls
    PROVE  RankGoesDown
<1>1. ASSUME NEW a \in Nat, NEW b \in Nat, NEW c \in Nat, NEW d \in Nat, NEW e \in Nat,
             NEW f \in Nat, NEW g \in Nat
      PROVE  <<a, b, c, d, e, f, g>> \in [1 .. 7 -> Nat]
  OBVIOUS
<1>2. Rank \in [1 .. 7 -> Nat] /\ Rank' \in [1 .. 7 -> Nat]
  BY <1>1 DEF Rank, RankOK
<1>3. /\ Rank[1] = UsableLeft /\ Rank[2] = TroubleLeft /\ Rank[3] = PhasesLeft
      /\ Rank[4] = SlicesLeft /\ Rank[5] = SliceLeft /\ Rank[6] = RereadsLeft
      /\ Rank[7] = PassLeft
  BY DEF Rank
<1>4. /\ Rank'[1] = UsableLeft' /\ Rank'[2] = TroubleLeft' /\ Rank'[3] = PhasesLeft'
      /\ Rank'[4] = SlicesLeft' /\ Rank'[5] = SliceLeft' /\ Rank'[6] = RereadsLeft'
      /\ Rank'[7] = PassLeft'
  BY DEF Rank
<1>5. PICK j \in 1 .. 7 : Rank'[j] < Rank[j] /\ \A i \in 1 .. (j - 1) : Rank'[i] = Rank[i]
  <2> DEFINE First(j) == Rank'[j] < Rank[j] /\ \A i \in 1 .. (j - 1) : Rank'[i] = Rank[i]
  <2>1. First(1) \/ First(2) \/ First(3) \/ First(4) \/ First(5) \/ First(6) \/ First(7)
    BY <1>3, <1>4 DEF RankFalls, TestFalls, RoundFalls, PhaseFalls, SliceFalls, PassFalls
  <2> QED BY <2>1
<1> QED BY <1>2, <1>5, TupleOrder DEF RankGoesDown

\* A sector that cannot be written or read is not used again; no other step
\* brings one back.
LEMMA FailureCostsSector ==
    ASSUME TypeInv, WriteChunkFails \/ ReadChunkFails
    PROVE  UsableLeft' < UsableLeft
<1>1. cur \in Sectors /\ cur \notin Unusable
  <2>1. cur \in block .. BlockEnd - 1 /\ cur \in Sectors
    BY InBlock DEF TypeInv, Places, Working, WriteChunkFails, ReadChunkFails
  <2>2. "DO_NOT_USE" \notin sector_map[cur]
    BY <2>1, InBlock DEF WriteChunkFails, ReadChunkFails, WritableRun, Working
  <2> QED BY <2>1, <2>2 DEF Unusable, Flagged
<1>2. Unusable' = Unusable \cup {cur}
  BY <1>1, CondemnedFound DEF TypeInv, TypeOK, WriteChunkFails, ReadChunkFails, Found
<1> DEFINE left == Sectors \ Unusable
<1>3. IsFiniteSet(left) /\ Cardinality(left) \in Nat /\ cur \in left
  BY <1>1, SectorsFinite
<1>4. Sectors \ Unusable' = left \ {cur}
  BY <1>2
<1> HIDE DEF left
<1>5. Cardinality(left \ {cur}) = Cardinality(left) - 1
  BY <1>3, FS_RemoveElement
<1>6. UsableLeft' = Cardinality(left \ {cur})
  BY <1>4 DEF UsableLeft, Sectors
<1>7. UsableLeft = Cardinality(left)
  BY DEF UsableLeft, left
<1> QED BY <1>3, <1>5, <1>6, <1>7

LEMMA OthersCostNone ==
    ASSUME TypeInv, [Next]_vars, ~(WriteChunkFails \/ ReadChunkFails)
    PROVE  UsableLeft' = UsableLeft
<1>1. Unusable' = Unusable
  <2>1. CASE CompareBlock
    BY <2>1, CompareFound DEF Found
  <2>2. CASE ~CompareBlock
    BY <2>2, OthersKeep DEF Judging, Kept
  <2> QED BY <2>1, <2>2
<1> QED BY <1>1 DEF UsableLeft, Sectors

\* The steps within a block.
LEMMA InBlockFalls ==
    ASSUME TypeInv, RestartDue,
           \/ WriteChunk \/ WriteChunkLosesDevice \/ WriteNothing \/ WriteSkip
           \/ WriteSkipFails \/ ReadChunk \/ ReadNothing \/ ReadSkip
    PROVE  TestFalls
<1>1. /\ pc \in {"write_chunk", "write_skip", "read_chunk", "read_skip"}
      /\ pc' \in {"write_chunk", "write_skip", "block_written",
                  "read_chunk", "read_skip", "block_read"}
      /\ pc \in Writing <=> pc' \in Writing
      /\ UNCHANGED <<slice, block, todo, rounds_completed, num_uuid_mismatches>>
  BY DEF WriteChunk, WriteChunkLosesDevice, WriteNothing, WriteSkip, WriteSkipFails,
     ReadChunk, ReadNothing, ReadSkip, Advance, verdict, place, Writing
<1>2. UNCHANGED <<PhasesLeft, SlicesLeft, SliceLeft, RereadsLeft>>
  BY <1>1 DEF PhasesLeft, SlicesLeft, SliceLeft, RereadsLeft, Writing, Reading, Working,
     last_sector, get_slice_start
<1>3. /\ faults \in 0 .. MaxFaults /\ MaxFaults \in Nat /\ fd \in {"open", "stale", "closed"}
      /\ cur \in Nat /\ NumSectors \in Nat /\ cur <= NumSectors
      /\ device_was_disconnected \in BOOLEAN
  BY <1>1, InBlock, EnduranceAssumption DEF TypeInv, TypeOK, DeviceOK, SwitchesOK, Working
<1>4. CASE WriteChunk
  <2>1. PICK k \in 1 .. BlockEnd - cur, disc \in BOOLEAN :
          /\ WriteOk(k, disc) /\ device_was_disconnected' = disc
          /\ IF disc THEN pc' = "block_written" /\ cur' = cur + k
             ELSE Advance(cur + k, "write_chunk", "write_skip", "block_written")
    <3>1. PICK n \in 1 .. BlockEnd - cur :
            \E k \in 1 .. n, disc \in BOOLEAN :
              /\ WriteOk(k, disc) /\ device_was_disconnected' = disc
              /\ IF disc THEN pc' = "block_written" /\ cur' = cur + k
                 ELSE Advance(cur + k, "write_chunk", "write_skip", "block_written")
      BY <1>4 DEF WriteChunk
    <3>2. BlockEnd - cur \in Int /\ \A k \in 1 .. n : k \in 1 .. BlockEnd - cur
      BY <1>1, <1>3, InBlock DEF Working
    <3> QED BY <3>1, <3>2
  <2>2. pc = "write_chunk" /\ ~device_was_disconnected
    BY <1>4 DEF WriteChunk, RestartDue
  <2>3. CASE disc
    BY <1>3, <2>1, <2>2, <2>3 DEF WriteOk, FailsBecause, Fault, TestFalls, TroubleLeft, HandleTrouble
  <2>4. CASE ~disc
    <3>1. TroubleLeft' = TroubleLeft
      BY <1>3, <2>1, <2>2, <2>4 DEF WriteOk, TroubleLeft, HandleTrouble
    <3>2. PassLeft' < PassLeft
      BY <1>3, <2>1, <2>2, <2>4, InBlock DEF Advance, PassLeft, Working
    <3> QED BY <1>2, <3>1, <3>2 DEF TestFalls, RoundFalls, PhaseFalls, SliceFalls, PassFalls
  <2> QED BY <2>3, <2>4
<1>5. CASE WriteChunkLosesDevice
  <2>1. PICK disc \in BOOLEAN : WriteLosesDevice(disc) /\ device_was_disconnected' = disc
    BY <1>5 DEF WriteChunkLosesDevice
  <2>2. pc = "write_chunk" /\ pc' = "block_written" /\ ~device_was_disconnected
    BY <1>5 DEF WriteChunkLosesDevice, RestartDue
  <2> QED BY <1>3, <2>1, <2>2 DEF WriteLosesDevice, FailsBecause, Fault, TestFalls,
       TroubleLeft, HandleTrouble
<1>6. CASE WriteNothing
  <2>1. TroubleLeft' = TroubleLeft
    BY <1>6 DEF WriteNothing, Advance, RestartDue, TroubleLeft, HandleTrouble
  <2>2. PICK u \in 0 .. BlockEnd - cur :
          /\ UnwritableRun(cur, u) /\ cur' = cur + u
          /\ pc' = IF u > 0 THEN "write_skip" ELSE IF cur = BlockEnd THEN "block_written"
                   ELSE "write_chunk"
    BY <1>6 DEF WriteNothing, Advance
  <2>3. u > 0
    BY <1>6, <2>2, InBlock DEF WriteNothing, UnwritableRun, TypeInv, Places, Working
  <2>4. PassLeft' < PassLeft
    BY <1>3, <1>6, <2>2, <2>3, InBlock DEF WriteNothing, PassLeft, Working
  <2> QED BY <1>2, <2>1, <2>4 DEF TestFalls, RoundFalls, PhaseFalls, SliceFalls, PassFalls
<1>7. CASE WriteSkip
  <2>1. PICK disc \in BOOLEAN :
          /\ LseekOk(cur, disc)
          /\ device_was_disconnected' = (device_was_disconnected \/ disc)
    BY <1>7 DEF WriteSkip
  <2>2. /\ pc = "write_skip" /\ cur' = cur
        /\ pc' \in {"block_written", "write_chunk"}
        /\ device_was_disconnected' => pc' = "block_written"
    BY <1>7 DEF WriteSkip
  <2>3. TroubleLeft' <= TroubleLeft /\ TroubleLeft \in Int /\ TroubleLeft' \in Int
    BY <1>3, <2>1, <2>2 DEF LseekOk, TroubleLeft, HandleTrouble
  <2>4. PassLeft' < PassLeft
    BY <1>3, <2>2 DEF PassLeft
  <2> QED BY <1>2, <2>3, <2>4 DEF TestFalls, RoundFalls, PhaseFalls, SliceFalls, PassFalls
<1>8. CASE WriteSkipFails
  <2>1. PICK disc \in BOOLEAN :
          /\ LseekFails(disc)
          /\ device_was_disconnected' = (device_was_disconnected \/ disc)
    BY <1>8 DEF WriteSkipFails
  <2>2. pc = "write_skip" /\ cur' = cur /\ pc' = "block_written"
    BY <1>8 DEF WriteSkipFails
  <2>3. TroubleLeft' <= TroubleLeft /\ TroubleLeft \in Int /\ TroubleLeft' \in Int
    BY <1>3, <2>1, <2>2 DEF LseekFails, TroubleLeft, HandleTrouble
  <2>4. PassLeft' < PassLeft
    BY <1>3, <2>2 DEF PassLeft
  <2> QED BY <1>2, <2>3, <2>4 DEF TestFalls, RoundFalls, PhaseFalls, SliceFalls, PassFalls
<1>9. CASE ReadChunk
  <2>1. PICK k \in 1 .. BlockEnd - cur, mangled \in BOOLEAN :
          /\ IF mangled THEN Fault ELSE UNCHANGED faults
          /\ Advance(cur + k, "read_chunk", "read_skip", "block_read")
    <3>1. PICK n \in 1 .. BlockEnd - cur :
            \E k \in 1 .. n, mangled \in BOOLEAN :
              /\ IF mangled THEN Fault ELSE UNCHANGED faults
              /\ Advance(cur + k, "read_chunk", "read_skip", "block_read")
      BY <1>9 DEF ReadChunk
    <3>2. BlockEnd - cur \in Int /\ \A k \in 1 .. n : k \in 1 .. BlockEnd - cur
      BY <1>1, <1>3, InBlock DEF Working
    <3> QED BY <3>1, <3>2
  <2>2. pc = "read_chunk" /\ fd # "closed" /\ fd' = "open"
        /\ device_was_disconnected = FALSE /\ device_was_disconnected' = FALSE
    BY <1>3, <1>9 DEF ReadChunk, RestartDue
  <2>3. TroubleLeft' <= TroubleLeft /\ TroubleLeft \in Int /\ TroubleLeft' \in Int
    <3>1. faults' = faults \/ faults' = faults + 1
      BY <2>1 DEF Fault
    <3> QED BY <1>3, <2>2, <3>1 DEF TroubleLeft, HandleTrouble
  <2>4. PassLeft' < PassLeft
    BY <1>3, <2>1, <2>2, InBlock DEF Advance, PassLeft, Working
  <2> QED BY <1>2, <2>3, <2>4 DEF TestFalls, RoundFalls, PhaseFalls, SliceFalls, PassFalls
<1>10. CASE ReadNothing
  <2>1. TroubleLeft' = TroubleLeft
    BY <1>10 DEF ReadNothing, Advance, RestartDue, TroubleLeft, HandleTrouble
  <2>2. PICK u \in 0 .. BlockEnd - cur :
          /\ UnwritableRun(cur, u) /\ cur' = cur + u
          /\ pc' = IF u > 0 THEN "read_skip" ELSE IF cur = BlockEnd THEN "block_read"
                   ELSE "read_chunk"
    BY <1>10 DEF ReadNothing, Advance
  <2>3. u > 0
    BY <1>10, <2>2, InBlock DEF ReadNothing, UnwritableRun, TypeInv, Places, Working
  <2>4. PassLeft' < PassLeft
    BY <1>3, <1>10, <2>2, <2>3, InBlock DEF ReadNothing, PassLeft, Working
  <2> QED BY <1>2, <2>1, <2>4 DEF TestFalls, RoundFalls, PhaseFalls, SliceFalls, PassFalls
<1>11. CASE ReadSkip
  <2>1. PICK disc \in BOOLEAN : LseekOk(cur, disc)
    BY <1>11 DEF ReadSkip
  <2>2. /\ pc = "read_skip" /\ cur' = cur /\ pc' \in {"block_read", "read_chunk"}
        /\ device_was_disconnected = FALSE /\ device_was_disconnected' = FALSE
    BY <1>3, <1>11 DEF ReadSkip, RestartDue
  <2>3. TroubleLeft' <= TroubleLeft /\ TroubleLeft \in Int /\ TroubleLeft' \in Int
    BY <1>3, <2>1, <2>2 DEF LseekOk, TroubleLeft, HandleTrouble
  <2>4. PassLeft' < PassLeft
    BY <1>3, <2>2 DEF PassLeft
  <2> QED BY <1>2, <2>3, <2>4 DEF TestFalls, RoundFalls, PhaseFalls, SliceFalls, PassFalls
<1> QED BY <1>4, <1>5, <1>6, <1>7, <1>8, <1>9, <1>10, <1>11

LEMMA DeviceRange ==
    ASSUME TypeInv
    PROVE  /\ faults \in 0 .. MaxFaults /\ MaxFaults \in Nat /\ fd \in {"open", "stale", "closed"}
           /\ device_was_disconnected \in BOOLEAN
           /\ rounds_completed \in 0 .. MaxRounds /\ MaxRounds \in Nat
  BY EnduranceAssumption DEF TypeInv, TypeOK, DeviceOK, SwitchesOK, CountsOK

\* The seek at the start of a slice, in either phase.
LEMMA SliceSeekFalls ==
    ASSUME TypeInv, RankOK, RankOK', RestartDue, WriteSliceSeek \/ ReadSliceSeek
    PROVE  TestFalls
<1>1. /\ pc \in {"write_slice_seek", "read_slice_seek"}
      /\ pc' \in {"write_slice_seek", "write_chunk", "read_chunk"}
      /\ pc \in Writing <=> pc' \in Writing
      /\ UNCHANGED <<slice, block, cur, todo, rounds_completed, device_was_disconnected>>
  BY DEF WriteSliceSeek, ReadSliceSeek, verdict, place, Writing
<1>2. UNCHANGED <<PhasesLeft, SlicesLeft>>
  BY <1>1 DEF PhasesLeft, SlicesLeft, Writing, Reading
<1>3. PICK disc \in BOOLEAN :
        /\ LseekOk(get_slice_start(slice), disc)
        /\ disc => pc = "read_slice_seek" \/ pc' = pc
        /\ pc = "read_slice_seek" \/ ~disc => pc' \in {"write_chunk", "read_chunk"}
  BY DEF WriteSliceSeek, ReadSliceSeek
<1>4. ~device_was_disconnected /\ ~device_was_disconnected'
  BY <1>1 DEF RestartDue
<1>5. CASE disc
  BY <1>1, <1>3, <1>4, <1>5, DeviceRange DEF LseekOk, TestFalls, TroubleLeft, HandleTrouble
<1>6. CASE ~disc
  <2>1. TroubleLeft' = TroubleLeft
    BY <1>1, <1>3, <1>4, <1>6, DeviceRange DEF LseekOk, TroubleLeft, HandleTrouble
  <2>2. SliceLeft' < SliceLeft
    <3>1. /\ slice \in Slices /\ block \in Nat /\ last_sector(slice) \in Nat
          /\ last_sector(slice) <= NumSectors /\ NumSectors \in Nat
      BY <1>1, InBlock, SliceGeometry DEF Working
    <3>2. last_sector(slice)' = last_sector(slice)
      BY <1>1 DEF last_sector, get_slice_start
    <3>3. SliceLeft' = last_sector(slice) - block
      BY <1>1, <1>3, <1>6, <3>2 DEF SliceLeft, Working
    <3>4. SliceLeft = NumSectors + 1
      BY <1>1 DEF SliceLeft
    <3> QED BY <3>1, <3>3, <3>4
  <2> QED BY <1>2, <2>1, <2>2 DEF TestFalls, RoundFalls, PhaseFalls, SliceFalls
<1> QED BY <1>5, <1>6

\* The end of the test.
GivingUp == \/ FiftyPercent \/ WriteSliceSeekFails \/ ReadSliceSeekFails
          \/ ReadChunkLosesDevice \/ ReadSkipFails \/ RereadMangledFails

LEMMA GivingUpFalls ==
    ASSUME TypeInv, RankOK, RankOK', RestartDue, GivingUp
    PROVE  TestFalls
<1>1. /\ pc \in {"round", "write_slice_seek", "read_slice_seek", "read_chunk", "read_skip",
                 "block_read"}
      /\ pc' = "ended"
      /\ UNCHANGED <<rounds_completed, device_was_disconnected>>
  BY DEF GivingUp, FiftyPercent, WriteSliceSeekFails, ReadSliceSeekFails, ReadChunkLosesDevice,
     ReadSkipFails, RereadMangledFails, End, verdict
<1>2. ~device_was_disconnected /\ ~device_was_disconnected'
  BY <1>1 DEF RestartDue
<1>3. faults' = faults \/ faults' = faults + 1
  BY DEF GivingUp, FiftyPercent, WriteSliceSeekFails, ReadSliceSeekFails, ReadChunkLosesDevice,
     ReadSkipFails, RereadMangledFails, LseekFails, ReadFails, FailsBecause, Fault
<1>4. TroubleLeft' <= TroubleLeft
  BY <1>1, <1>2, <1>3, DeviceRange DEF TroubleLeft, HandleTrouble
<1>5. PhasesLeft' < PhasesLeft
  BY <1>1, DeviceRange DEF PhasesLeft, Writing, Reading
<1> QED BY <1>4, <1>5 DEF TestFalls, RoundFalls, RankOK

\* The ends of the round loop.
LEMMA RoundLoopFalls ==
    ASSUME TypeInv, RankOK, RankOK', RestartDue, StartRound \/ EndRound
    PROVE  TestFalls
<1>1. /\ ~device_was_disconnected /\ ~device_was_disconnected'
      /\ UNCHANGED <<faults, fd>>
      /\ pc \in {"round", "summary"}
  BY DEF StartRound, EndRound, RestartDue
<1>2. TroubleLeft' <= TroubleLeft
  BY <1>1, DeviceRange DEF StartRound, EndRound, TroubleLeft, HandleTrouble
<1>3. CASE StartRound
  <2>1. PhasesLeft' < PhasesLeft
    BY <1>3, DeviceRange DEF StartRound, PhasesLeft, Writing, Reading
  <2> QED BY <1>2, <2>1 DEF TestFalls, RoundFalls, RankOK
<1>4. CASE EndRound
  <2>1. PhasesLeft' < PhasesLeft
    BY <1>4, DeviceRange DEF EndRound, PhasesLeft, Writing, Reading
  <2> QED BY <1>2, <2>1 DEF TestFalls, RoundFalls, RankOK
<1> QED BY <1>3, <1>4

LEMMA RereadFalls ==
    ASSUME TypeInv, RankOK, RankOK', RestartDue, RereadMangled
    PROVE  TestFalls
<1>1. /\ pc = "block_read" /\ pc' = "read_chunk"
      /\ num_uuid_mismatches' = num_uuid_mismatches + 1
      /\ UNCHANGED <<slice, block, todo, rounds_completed, device_was_disconnected>>
  BY DEF RereadMangled, verdict, place
<1>2. PICK disc \in BOOLEAN : LseekOk(block, disc)
  BY DEF RereadMangled
<1>3. ~device_was_disconnected /\ ~device_was_disconnected'
  BY <1>1 DEF RestartDue
<1>4. UNCHANGED <<PhasesLeft, SlicesLeft, SliceLeft>>
  BY <1>1 DEF PhasesLeft, SlicesLeft, SliceLeft, Writing, Reading, Working, last_sector,
     get_slice_start
<1>5. TroubleLeft' <= TroubleLeft
  BY <1>1, <1>2, <1>3, DeviceRange DEF LseekOk, TroubleLeft, HandleTrouble
<1>6. RereadsLeft' < RereadsLeft
  <2>1. num_uuid_mismatches \in Int /\ MaxMismatches \in Int
    BY EnduranceAssumption DEF TypeInv, TypeOK, ControlOK
  <2> QED BY <1>1, <2>1 DEF RereadsLeft
<1> QED BY <1>4, <1>5, <1>6 DEF TestFalls, RoundFalls, PhaseFalls, SliceFalls, RankOK

LEMMA FaultFalls ==
    ASSUME TypeInv, Disconnect \/ Decay
    PROVE  TestFalls
<1>1. faults' = faults + 1 /\ pc' = pc /\ device_was_disconnected' = device_was_disconnected
  BY DEF Disconnect, Decay, Fault
<1>2. fd' = fd \/ (fd = "open" /\ fd' = "stale")
  BY DEF Disconnect, Decay
<1> QED BY <1>1, <1>2, DeviceRange DEF TestFalls, TroubleLeft, HandleTrouble

\* A slice that is taken is crossed off.
LEMMA TakenFewer ==
    ASSUME TypeInv, TakeSlice(todo)
    PROVE  SlicesLeft' < SlicesLeft
<1>1. PICK i \in todo : todo' = todo \ {i}
  BY DEF TakeSlice
<1>2. IsFiniteSet(todo)
  <2>1. IsFiniteSet(Slices)
    BY FS_Interval, EnduranceAssumption DEF Slices
  <2>2. todo \subseteq Slices
    BY DEF TypeInv, TypeOK, ControlOK
  <2> QED BY <2>1, <2>2, FS_Subset
<1>3. Cardinality(todo) \in Nat /\ Cardinality(todo \ {i}) = Cardinality(todo) - 1
  BY <1>1, <1>2, FS_CardinalityType, FS_RemoveElement
<1> QED BY <1>1, <1>3 DEF SlicesLeft

\* The next block of the slice is nearer to its end.
LEMMA NextBlockNearer ==
    ASSUME TypeInv, pc \in {"block_written", "block_read"},
           pc' \in {"write_chunk", "read_chunk"}, block' = BlockEnd, slice' = slice
    PROVE  SliceLeft' < SliceLeft
<1>1. /\ slice \in Slices /\ block \in Nat /\ BlockEnd \in Nat /\ block < BlockEnd
      /\ last_sector(slice) \in Nat
  BY InBlock, SliceGeometry DEF Working
<1>2. last_sector(slice)' = last_sector(slice)
  BY DEF last_sector, get_slice_start
<1>3. SliceLeft = last_sector(slice) - block /\ SliceLeft' = last_sector(slice) - BlockEnd
  BY <1>2 DEF SliceLeft, Working
<1> QED BY <1>1, <1>3

LEMMA BlockWrittenFalls ==
    ASSUME TypeInv, RankOK, RankOK', BlockWritten
    PROVE  TestFalls
<1>1. /\ pc = "block_written" /\ ~device_was_disconnected'
      /\ UNCHANGED <<fd, faults, rounds_completed, num_uuid_mismatches>>
      /\ pc' \in {"write_slice_seek", "write_chunk", "read_slice_seek"}
  BY DEF BlockWritten, WriteSliceDone
<1>2. CASE device_was_disconnected
  <2>1. pc' = "write_slice_seek"
    BY <1>2 DEF BlockWritten
  <2> QED BY <1>1, <1>2, <2>1, DeviceRange DEF TestFalls, TroubleLeft, HandleTrouble
<1>3. CASE ~device_was_disconnected
  <2>1. TroubleLeft' <= TroubleLeft
    BY <1>1, <1>3, DeviceRange DEF TroubleLeft, HandleTrouble
  <2>2. CASE pc' = "write_chunk"
    <3>1. block' = BlockEnd /\ UNCHANGED <<todo, slice>>
      BY <1>3, <2>2 DEF BlockWritten, WriteSliceDone
    <3>2. PhasesLeft' = PhasesLeft /\ SlicesLeft' = SlicesLeft
      BY <1>1, <2>2, <3>1 DEF PhasesLeft, Writing, SlicesLeft
    <3>3. SliceLeft' < SliceLeft
      BY <1>1, <2>2, <3>1, NextBlockNearer
    <3> QED BY <2>1, <3>2, <3>3 DEF TestFalls, RoundFalls, PhaseFalls, SliceFalls, RankOK
  <2>3. CASE pc' = "write_slice_seek"
    <3>1. TakeSlice(todo)
      BY <1>3, <2>3 DEF BlockWritten, WriteSliceDone
    <3>2. PhasesLeft' = PhasesLeft
      BY <1>1, <2>3 DEF PhasesLeft, Writing
    <3> QED BY <2>1, <3>1, <3>2, TakenFewer DEF TestFalls, RoundFalls, PhaseFalls, RankOK
  <2>4. CASE pc' = "read_slice_seek"
    <3>1. PhasesLeft' < PhasesLeft
      BY <1>1, <2>4, DeviceRange DEF PhasesLeft, Writing, Reading
    <3> QED BY <2>1, <3>1 DEF TestFalls, RoundFalls, RankOK
  <2> QED BY <1>1, <2>2, <2>3, <2>4
<1> QED BY <1>2, <1>3

LEMMA CompareBlockFalls ==
    ASSUME TypeInv, RankOK, RankOK', RestartDue, CompareBlock
    PROVE  TestFalls
<1>1. /\ pc = "block_read" /\ ~device_was_disconnected /\ ~device_was_disconnected'
      /\ UNCHANGED <<fd, faults, rounds_completed>>
      /\ pc' \in {"read_slice_seek", "read_chunk", "summary"}
  BY DEF CompareBlock, ReadSliceDone, RestartDue
<1>2. TroubleLeft' <= TroubleLeft
  BY <1>1, DeviceRange DEF TroubleLeft, HandleTrouble
<1>3. CASE pc' = "read_chunk"
  <2>1. block' = BlockEnd /\ UNCHANGED <<todo, slice>>
    BY <1>3 DEF CompareBlock, ReadSliceDone
  <2>2. PhasesLeft' = PhasesLeft /\ SlicesLeft' = SlicesLeft
    BY <1>1, <1>3, <2>1 DEF PhasesLeft, Writing, Reading, SlicesLeft
  <2>3. SliceLeft' < SliceLeft
    BY <1>1, <1>3, <2>1, NextBlockNearer
  <2> QED BY <1>2, <2>2, <2>3 DEF TestFalls, RoundFalls, PhaseFalls, SliceFalls, RankOK
<1>4. CASE pc' = "read_slice_seek"
  <2>1. TakeSlice(todo)
    BY <1>4 DEF CompareBlock, ReadSliceDone
  <2>2. PhasesLeft' = PhasesLeft
    BY <1>1, <1>4 DEF PhasesLeft, Writing, Reading
  <2> QED BY <1>2, <2>1, <2>2, TakenFewer DEF TestFalls, RoundFalls, PhaseFalls, RankOK
<1>5. CASE pc' = "summary"
  <2>1. PhasesLeft' < PhasesLeft
    BY <1>1, <1>5, DeviceRange DEF PhasesLeft, Writing, Reading
  <2> QED BY <1>2, <2>1 DEF TestFalls, RoundFalls, RankOK
<1> QED BY <1>1, <1>3, <1>4, <1>5

LEMMA StepFalls ==
    ASSUME TypeInv, RankOK, RankOK', RestartDue, Next
    PROVE  RankFalls
<1>1. CASE WriteChunkFails \/ ReadChunkFails
  BY <1>1, FailureCostsSector DEF RankFalls
<1>2. CASE ~(WriteChunkFails \/ ReadChunkFails)
  <2>1. UsableLeft' = UsableLeft
    BY <1>2, OthersCostNone
  <2>2. TestFalls
    BY <1>2, InBlockFalls, SliceSeekFalls, GivingUpFalls, RoundLoopFalls, RereadFalls,
       FaultFalls, BlockWrittenFalls, CompareBlockFalls
    DEF Next, MainThread, WriteStep, ReadStep, GivingUp
  <2> QED BY <2>1, <2>2 DEF RankFalls
<1> QED BY <1>1, <1>2

(* The test runs out of steps: each one, of the test or of the             *)
(* environment, takes the rank down in a well-founded order, so that, with *)
(* finitely many rounds and faults, no restart of a slice, no re-read of a *)
(* block, no skip and no reconnect is repeated for ever.                   *)
THEOREM TestRunsOut ==
    /\ IsWellFoundedOn(RankOrder, [1 .. 7 -> Nat])
    /\ Spec => [][RankGoesDown]_vars
<1>1. TypeInv /\ RankOK /\ RankOK' /\ RestartDue /\ [Next]_vars
        => [RankGoesDown]_vars
  BY StepFalls, FallsInOrder
<1>2. Spec => []RankOK
  BY RankTypes, TypeInvAlways, PTL
<1>3. Spec => [][RankGoesDown]_vars
  BY <1>1, <1>2, TypeInvAlways, RestartDueAlways, PTL DEF Spec
<1> QED BY <1>3, RankOrderWellFounded

=============================================================================
