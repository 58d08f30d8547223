---------------------------- MODULE EnduranceTest ----------------------------
(***************************************************************************)
(* The endurance test of mfst: main()'s round loop, which overwrites the   *)
(* device slice by slice, reads it back, compares, and keeps the sector    *)
(* map and the counters the summary prints.                                *)
(*                                                                         *)
(* One action is one call of the retry layer (lseek_or_retry,              *)
(* read_or_reset_device, write_or_reset_device) with the code around it,   *)
(* up to the next call.  What such a call may answer, given the state of   *)
(* the device handle, is RetryAnswers, which RetryLayer implements; the    *)
(* retries and resets inside the call are its own business.  An answer     *)
(* that leaves a new handle stale is one here that is followed by a        *)
(* Disconnect.                                                             *)
(***************************************************************************)
EXTENDS Integers, FiniteSets

CONSTANTS
    NumSectors,      \* num_physical_sectors
    NUM_SLICES,      \* slices per phase (16 in the program)
    SectorsPerBlock, \* optimal_block_size / sector_size
    MaxMismatches,   \* re-reads on device mangling (5 in the program)
    MaxRounds,       \* bound: rounds of a behaviour
    MaxFaults        \* bound: faults the environment injects in a behaviour

ASSUME EnduranceAssumption ==
    /\ NumSectors \in Nat
    /\ NUM_SLICES \in Nat \ {0}
    /\ NumSectors >= NUM_SLICES      \* no slice is empty
    /\ SectorsPerBlock \in Nat \ {0}
    /\ MaxMismatches \in Nat \ {0}
    /\ MaxRounds \in Nat
    /\ MaxFaults \in Nat

VARIABLES
    pc,                         \* where main() is
    rounds_completed,
    sector_map,                 \* the set of flags of each sector
    total_bad_sectors,
    num_bad_sectors_this_round,
    num_new_bad_sectors_this_round,
    num_good_sectors_this_round,
    rounds_to,                  \* rounds_to_first_error, rounds_to_*_threshold
    abort_reason,               \* what print_device_summary is called with
    todo,                       \* slices of this phase still in read_order
    slice,                      \* read_order[cur_slice]
    block,                      \* cur_sector: first sector of the current block
    cur,                        \* the sector of the block the next I/O is for
    device_was_disconnected,
    block_ret,                  \* what endurance_test_write_block returned
    num_uuid_mismatches,
    compare_buf,                \* what the round read back, sector by sector
    fd,                         \* the device handle: open, stale or closed
    pos,                        \* the handle's file position, in sectors
    content,                    \* what the medium holds, sector by sector
    faults,                     \* faults injected so far
    here, before,               \* history: sectors of the slice written in the
                                \* current session with the device, or in an
                                \* earlier one
    aborted                     \* history: a block of this pass over the slice
                                \* was given up, and counted as written

counters == <<num_bad_sectors_this_round, num_new_bad_sectors_this_round,
              num_good_sectors_this_round>>
verdict  == <<rounds_completed, sector_map, total_bad_sectors, counters, rounds_to>>
place    == <<todo, slice, block>>
session  == <<here, before, aborted>>
vars     == <<pc, verdict, abort_reason, place, cur, device_was_disconnected,
              block_ret, num_uuid_mismatches, compare_buf, fd, pos, content,
              faults, session>>

----------------------------------------------------------------------------
(* Geometry and data.                                                      *)

Sectors == 0 .. NumSectors - 1
Slices  == 0 .. NUM_SLICES - 1

get_slice_start(i) == (NumSectors \div NUM_SLICES) * i

\* Mutant: the last slice is as long as the others.
last_sector_short(i) == (NumSectors \div NUM_SLICES) * (i + 1)

\* One past the last sector of a slice; the last slice takes the remainder.
last_sector(i) == IF i = NUM_SLICES - 1 THEN NumSectors ELSE get_slice_start(i + 1)

SliceSectors(i) == get_slice_start(i) .. last_sector(i) - 1

\* One past the last sector of the block of slice i that starts at b.
block_end(i, b) == IF b + SectorsPerBlock > last_sector(i)
                   THEN last_sector(i) ELSE b + SectorsPerBlock

BlockEnd == block_end(slice, block)

\* The content of a sector is the round whose data for that sector it holds,
\* or one of these.
Garbage == -1        \* anything else
Zeroes  == -2        \* the buffer was zero-filled instead of read
Foreign == -3        \* a well-formed sector that carries another device's UUID
Content == -3 .. MaxRounds

Flags == {"DO_NOT_USE", "FAILED_THIS_ROUND", "READ_THIS_ROUND",
          "WRITTEN_THIS_ROUND", "FAILED"}

Flagged(f) == {s \in Sectors : f \in sector_map[s]}
is_sector_bad(s) == "FAILED" \in sector_map[s]

Mark(S, fs) == [s \in Sectors |-> IF s \in S THEN sector_map[s] \cup fs ELSE sector_map[s]]

\* Mutant: a reset clears every flag.
ResetAll(S) == [s \in Sectors |-> IF s \in S THEN {} ELSE sector_map[s]]

\* Mutant: a reset leaves the verdict of the last pass.
ResetKeepingVerdict(S) ==
    [s \in Sectors |-> IF s \in S THEN sector_map[s] \ {"READ_THIS_ROUND", "WRITTEN_THIS_ROUND"}
                                  ELSE sector_map[s]]

\* reset_sector_map and reset_sector_map_partial keep only the lasting flags.
Reset(S) == [s \in Sectors |->
               IF s \in S THEN sector_map[s] \cap {"DO_NOT_USE", "FAILED"} ELSE sector_map[s]]

\* Mutant: only the first sector of the run is looked at.
WritableRunFromFirst(s, n) == "DO_NOT_USE" \notin sector_map[s] /\ s + n = BlockEnd

\* The longest run of n sectors from s, below the end of the block, that are
\* all writable (get_max_writable_sectors) or all not.
WritableRun(s, n) ==
    /\ \A i \in s .. s + n - 1 : "DO_NOT_USE" \notin sector_map[i]
    /\ s + n < BlockEnd => "DO_NOT_USE" \in sector_map[s + n]

UnwritableRun(s, n) ==
    /\ \A i \in s .. s + n - 1 : "DO_NOT_USE" \in sector_map[i]
    /\ s + n < BlockEnd => "DO_NOT_USE" \notin sector_map[s + n]

Divisor == [first |-> NumSectors, t0_1 |-> 1000, t1 |-> 100, t10 |-> 10, t25 |-> 4]
Never   == -1        \* -1ULL

\* The number of bad sectors at which a threshold is crossed: the fraction of
\* the device rounded up.  The first error is the threshold of one sector.
sectors_to(t) == NumSectors \div Divisor[t] + (IF NumSectors % Divisor[t] = 0 THEN 0 ELSE 1)

----------------------------------------------------------------------------
(* The device and the answers of the retry layer.                          *)

Fault == faults < MaxFaults /\ faults' = faults + 1

\* The session with the device ended (it disconnected or was reset).
Break == before' = before \cup here /\ here' = {} /\ UNCHANGED aborted

\* A new slice: nothing of it is written yet.
ForgetSession == here' = {} /\ before' = {} /\ aborted' = FALSE

\* Mutant: no second seek after a reconnect.
LseekOkOnce(target, disc) ==
    /\ \/ fd # "closed" /\ ~disc /\ fd' = fd /\ pos' = target
       \/ fd # "open" /\ disc /\ fd' = "open" /\ pos' = 0
    /\ UNCHANGED faults

\* lseek_or_retry succeeded.  The handle of a device that is gone may still
\* seek; otherwise the disconnect is noticed and a new handle obtained.
LseekOk(target, disc) ==
    /\ \/ fd # "closed" /\ ~disc /\ fd' = fd
       \/ fd # "open" /\ disc /\ fd' = "open"
    /\ pos' = target
    /\ UNCHANGED faults

\* lseek_or_retry returned -1: the disconnect goes unnoticed because a device
\* has the number again (or the handle is closed), or no device came back.
LseekFails(disc) ==
    /\ fd # "open"
    /\ \/ ~disc /\ UNCHANGED <<fd, pos>>
       \/ disc /\ fd' \in {"open", "closed"} /\ pos' = 0
    /\ UNCHANGED faults

\* What makes a request fail: a fault, or the disconnect there has been.
FailsBecause == IF fd = "open" THEN Fault ELSE UNCHANGED faults

\* write_or_reset_device wrote k sectors.  disc: after a reconnect or a reset,
\* which it only attempts once a round is complete.
WriteOk(k, disc) ==
    LET at     == IF disc THEN cur ELSE pos
        stored == at .. at + k - 1
    IN  /\ stored \subseteq Sectors
        /\ fd' = "open"
        /\ \/ ~disc /\ fd = "open" /\ UNCHANGED faults
           \/ disc /\ rounds_completed > 0 /\ FailsBecause
        /\ pos' = at + k
        /\ content' = [s \in Sectors |->
                         IF s \notin stored THEN content[s]
                         ELSE IF at = cur THEN rounds_completed ELSE Garbage]
        /\ here' = (IF disc THEN {} ELSE here) \cup stored
        /\ before' = (IF disc THEN before \cup here ELSE before) \ stored
        /\ UNCHANGED aborted

\* write_or_reset_device returned -1 and left a handle.  In the first round a
\* disconnect is not recovered from, and the dead handle stays; it also stays
\* where the disconnect goes unnoticed and the device cannot be reset.
WriteFails(disc) ==
    /\ FailsBecause
    /\ \/ ~disc /\ fd # "closed" /\ fd' = fd
       \/ disc /\ rounds_completed > 0 /\ fd' = "open"
       \/ disc /\ rounds_completed = 0 /\ fd = "stale" /\ fd' = fd
    /\ pos' = IF disc THEN cur ELSE pos
    /\ IF disc THEN Break ELSE UNCHANGED session

\* write_or_reset_device returned -1 and no device came back, or (~disc) the
\* device was not found after a reset.
WriteLosesDevice(disc) ==
    /\ rounds_completed > 0
    /\ disc \/ fd # "closed"
    /\ FailsBecause
    /\ fd' = "closed"
    /\ Break

\* read_or_reset_device returned -1, leaving the handle as given: open or stale
\* when retries and resets are exhausted, closed when no device came back.
ReadFails(left) ==
    /\ FailsBecause
    /\ left = "stale" => fd = "stale"
    /\ fd' = left

----------------------------------------------------------------------------
(* Control.                                                                *)

\* Mutant: a slice that has been taken is not crossed off.
TakeSliceAgain(S) ==
    \E i \in S :
        /\ slice' = i
        /\ todo' = S
        /\ block' = get_slice_start(i)
        /\ cur' = get_slice_start(i)

\* The next slice of the (random) read_order.
TakeSlice(S) ==
    \E i \in S :
        /\ slice' = i
        /\ todo' = S \ {i}
        /\ block' = get_slice_start(i)
        /\ cur' = get_slice_start(i)

End(reason) ==
    /\ pc' = "ended"
    /\ abort_reason' = reason

\* A phase moves on from the slice it has finished.
WriteSliceDone ==
    \/ todo # {} /\ TakeSlice(todo) /\ pc' = "write_slice_seek"
    \/ todo = {} /\ TakeSlice(Slices) /\ pc' = "read_slice_seek"

ReadSliceDone ==
    \/ todo # {} /\ TakeSlice(todo) /\ pc' = "read_slice_seek"
    \/ todo = {} /\ pc' = "summary" /\ UNCHANGED <<place, cur>>

\* I/O has reached sector c: skip the unwritable run there (with a seek, at
\* the state named skip), or do the next part, or leave the block.
Advance(c, part, skip, done) ==
    \E u \in 0 .. BlockEnd - c :
        /\ UnwritableRun(c, u)
        /\ cur' = c + u
        /\ pc' = IF u > 0 THEN skip ELSE IF c = BlockEnd THEN done ELSE part

\* Mutant: a sector is counted each time it fails.
MarkBadRecounting(S, fs) ==
    /\ sector_map' = Mark(S, {"FAILED", "FAILED_THIS_ROUND"} \cup fs)
    /\ total_bad_sectors' = total_bad_sectors + Cardinality(S)

\* endurance_test_info.sector_map and total_bad_sectors after mark_sector_bad
\* on each sector of S, which get the flags fs as well.
MarkBad(S, fs) ==
    /\ sector_map' = Mark(S, {"FAILED", "FAILED_THIS_ROUND"} \cup fs)
    /\ total_bad_sectors' =
         total_bad_sectors + Cardinality({s \in S : ~is_sector_bad(s)})

\* Mutant: more than half of the sectors must be bad.
MoreThanHalfBad == total_bad_sectors > NumSectors \div 2

HalfBad == total_bad_sectors >= NumSectors \div 2

Init ==
    /\ pc = "round"
    /\ rounds_completed = 0
    /\ sector_map = [s \in Sectors |-> {}]
    /\ total_bad_sectors = 0
    /\ num_bad_sectors_this_round = 0
    /\ num_new_bad_sectors_this_round = 0
    /\ num_good_sectors_this_round = 0
    /\ rounds_to = [t \in DOMAIN Divisor |-> Never]
    /\ abort_reason = "none"
    /\ todo = {}
    /\ slice = 0
    /\ block = 0
    /\ cur = 0
    /\ device_was_disconnected = FALSE
    /\ block_ret = "ok"
    /\ num_uuid_mismatches = 0
    /\ compare_buf = [s \in Sectors |-> Garbage]
    /\ fd = "open"
    /\ pos = 0
    /\ content = [s \in Sectors |-> Garbage]
    /\ faults = 0
    /\ here = {}
    /\ before = {}
    /\ aborted = FALSE

(* The top of the round loop. *)
StartRound ==
    /\ pc = "round"
    /\ ~HalfBad
    /\ rounds_completed < MaxRounds
    /\ num_bad_sectors_this_round' = 0
    /\ num_new_bad_sectors_this_round' = 0
    /\ num_good_sectors_this_round' = 0
    /\ sector_map' = Reset(Sectors)
    /\ TakeSlice(Slices)
    /\ pc' = "write_slice_seek"
    /\ compare_buf' = [s \in Sectors |-> Garbage]
    /\ ForgetSession
    /\ UNCHANGED <<rounds_completed, total_bad_sectors, rounds_to, abort_reason,
                   device_was_disconnected, block_ret, num_uuid_mismatches, fd,
                   pos, content, faults>>

(* Half of the sectors are bad: the loop ends. *)
FiftyPercent ==
    /\ pc = "round"
    /\ HalfBad
    /\ End("fifty_percent")
    /\ UNCHANGED <<verdict, place, cur, device_was_disconnected, block_ret,
                   num_uuid_mismatches, compare_buf, fd, pos, content, faults,
                   session>>

----------------------------------------------------------------------------
(* endurance_test_write_slice and endurance_test_write_block.              *)

(* The seek to the start of the slice, repeated if the device disconnected. *)
WriteSliceSeek ==
    /\ pc = "write_slice_seek"
    /\ \E disc \in BOOLEAN :
         /\ LseekOk(get_slice_start(slice), disc)
         /\ pc' = IF disc THEN pc ELSE "write_chunk"
    /\ UNCHANGED <<verdict, abort_reason, place, cur, device_was_disconnected,
                   block_ret, num_uuid_mismatches, compare_buf, content, session>>

WriteSliceSeekFails ==
    /\ pc = "write_slice_seek"
    /\ \E disc \in BOOLEAN : LseekFails(disc)
    /\ End("seek")
    /\ UNCHANGED <<verdict, place, cur, device_was_disconnected, block_ret,
                   num_uuid_mismatches, compare_buf, content, session>>

(* One write of the next writable run of the block; it may be short. *)
WriteChunk ==
    /\ pc = "write_chunk"
    /\ \E n \in 1 .. BlockEnd - cur :
         /\ WritableRun(cur, n)
         /\ \E k \in 1 .. n, disc \in BOOLEAN :
              /\ WriteOk(k, disc)
              /\ device_was_disconnected' = disc
              /\ IF disc
                 THEN pc' = "block_written" /\ cur' = cur + k
                 ELSE Advance(cur + k, "write_chunk", "write_skip", "block_written")
    /\ UNCHANGED <<verdict, abort_reason, place, block_ret, num_uuid_mismatches,
                   compare_buf>>

(* The write fails: its first sector is condemned and skipped. *)
WriteChunkFails ==
    /\ pc = "write_chunk"
    /\ \E n \in 1 .. BlockEnd - cur : WritableRun(cur, n)
    /\ \E disc \in BOOLEAN : WriteFails(disc) /\ device_was_disconnected' = disc
    /\ MarkBad({cur}, {"DO_NOT_USE"})
    /\ num_new_bad_sectors_this_round' =
         num_new_bad_sectors_this_round + (IF is_sector_bad(cur) THEN 0 ELSE 1)
    /\ num_bad_sectors_this_round' = num_bad_sectors_this_round + 1
    /\ cur' = cur + 1
    /\ pc' = "write_skip"
    /\ UNCHANGED <<rounds_completed, num_good_sectors_this_round, rounds_to,
                   abort_reason, place, block_ret, num_uuid_mismatches,
                   compare_buf, content>>

(* The write fails and the device is gone: ABORT_REASON_WRITE_ERROR. *)
WriteChunkLosesDevice ==
    /\ pc = "write_chunk"
    /\ \E n \in 1 .. BlockEnd - cur : WritableRun(cur, n)
    /\ \E disc \in BOOLEAN : WriteLosesDevice(disc) /\ device_was_disconnected' = disc
    /\ block_ret' = "write"
    /\ pc' = "block_written"
    /\ UNCHANGED <<verdict, abort_reason, place, cur, num_uuid_mismatches,
                   compare_buf, pos, content>>

(* The block continues with sectors that are not to be used. *)
WriteNothing ==
    /\ pc = "write_chunk"
    /\ "DO_NOT_USE" \in sector_map[cur]
    /\ Advance(cur, "write_chunk", "write_skip", "block_written")
    /\ UNCHANGED <<verdict, abort_reason, place, device_was_disconnected,
                   block_ret, num_uuid_mismatches, compare_buf, fd, pos, content,
                   faults, session>>

\* Mutant: the seek does not report that the device came back, as in ReadSkip.
WriteSkipUnreported ==
    /\ pc = "write_skip"
    /\ \E disc \in BOOLEAN : LseekOk(cur, disc)
    /\ pc' = IF device_was_disconnected \/ cur = BlockEnd
             THEN "block_written" ELSE "write_chunk"
    /\ UNCHANGED <<verdict, abort_reason, place, cur, device_was_disconnected,
                   block_ret, num_uuid_mismatches, compare_buf, content, session>>

(* The seek past a failed sector, or past unwritable ones. *)
WriteSkip ==
    /\ pc = "write_skip"
    /\ \E disc \in BOOLEAN :
         /\ LseekOk(cur, disc)
         /\ device_was_disconnected' = (device_was_disconnected \/ disc)
    /\ pc' = IF device_was_disconnected' \/ cur = BlockEnd
             THEN "block_written" ELSE "write_chunk"
    /\ UNCHANGED <<verdict, abort_reason, place, cur, block_ret,
                   num_uuid_mismatches, compare_buf, content, session>>

(* ... fails: ABORT_REASON_SEEK_ERROR. *)
WriteSkipFails ==
    /\ pc = "write_skip"
    /\ \E disc \in BOOLEAN :
         /\ LseekFails(disc)
         /\ device_was_disconnected' = (device_was_disconnected \/ disc)
    /\ block_ret' = "seek"
    /\ pc' = "block_written"
    /\ UNCHANGED <<verdict, abort_reason, place, cur, num_uuid_mismatches,
                   compare_buf, content, session>>

(* Back in the slice loop, which only ends for a result of -1: after a     *)
(* disconnect the slice is unmarked and restarted, otherwise the block     *)
(* counts as written.                                                      *)
BlockWritten ==
    /\ pc = "block_written"
    /\ block_ret' = "ok"
    /\ device_was_disconnected' = FALSE
    /\ IF device_was_disconnected
       THEN /\ sector_map' = Reset(SliceSectors(slice))
            /\ block' = get_slice_start(slice)
            /\ cur' = get_slice_start(slice)
            /\ pc' = "write_slice_seek"
            /\ aborted' = FALSE
            /\ UNCHANGED <<todo, slice, here, before>>
       ELSE /\ sector_map' = Mark(block .. BlockEnd - 1, {"WRITTEN_THIS_ROUND"})
            /\ IF BlockEnd < last_sector(slice)
               THEN /\ block' = BlockEnd
                    /\ cur' = BlockEnd
                    /\ pc' = "write_chunk"
                    /\ aborted' = (aborted \/ block_ret # "ok")
                    /\ UNCHANGED <<todo, slice, here, before>>
               ELSE WriteSliceDone /\ ForgetSession
    /\ UNCHANGED <<rounds_completed, total_bad_sectors, counters, rounds_to,
                   abort_reason, num_uuid_mismatches, compare_buf, fd, pos,
                   content, faults>>

----------------------------------------------------------------------------
(* The read phase of main() and endurance_test_read_block.                 *)

ReadSliceSeek ==
    /\ pc = "read_slice_seek"
    /\ \E disc \in BOOLEAN : LseekOk(get_slice_start(slice), disc)
    /\ pc' = "read_chunk"
    /\ num_uuid_mismatches' = 0
    /\ UNCHANGED <<verdict, abort_reason, place, cur, device_was_disconnected,
                   block_ret, compare_buf, content, session>>

ReadSliceSeekFails ==
    /\ pc = "read_slice_seek"
    /\ \E disc \in BOOLEAN : LseekFails(disc)
    /\ End("seek")
    /\ UNCHANGED <<verdict, place, cur, device_was_disconnected, block_ret,
                   num_uuid_mismatches, compare_buf, content, session>>

(* One read of the next writable run; the reader or the bus may deliver    *)
(* another device's data (mangling).                                       *)
ReadChunk ==
    /\ pc = "read_chunk"
    /\ fd # "closed" /\ fd' = "open"
    /\ \E n \in 1 .. BlockEnd - cur :
         /\ WritableRun(cur, n)
         /\ \E k \in 1 .. n, mangled \in BOOLEAN :
              /\ IF mangled THEN Fault ELSE UNCHANGED faults
              /\ pos' = pos + k
              /\ Advance(cur + k, "read_chunk", "read_skip", "block_read")
              /\ compare_buf' = [s \in Sectors |->
                   IF s \notin cur .. cur' - 1 THEN compare_buf[s]
                   ELSE IF s >= cur + k THEN Zeroes
                   ELSE IF mangled THEN Foreign
                   ELSE IF pos = cur THEN content[s] ELSE Garbage]
    /\ UNCHANGED <<verdict, abort_reason, place, device_was_disconnected,
                   block_ret, num_uuid_mismatches, content, session>>

(* The read fails: its first sector is condemned, zero-filled and skipped. *)
ReadChunkFails ==
    /\ pc = "read_chunk"
    /\ \E n \in 1 .. BlockEnd - cur : WritableRun(cur, n)
    /\ \E left \in {"open", "stale"} : ReadFails(left)
    /\ MarkBad({cur}, {"DO_NOT_USE"})
    /\ compare_buf' = [compare_buf EXCEPT ![cur] = Zeroes]
    /\ cur' = cur + 1
    /\ pc' = "read_skip"
    /\ UNCHANGED <<rounds_completed, counters, rounds_to, abort_reason, place,
                   device_was_disconnected, block_ret, num_uuid_mismatches, pos,
                   content, session>>

(* The read fails and the device is gone. *)
ReadChunkLosesDevice ==
    /\ pc = "read_chunk"
    /\ \E n \in 1 .. BlockEnd - cur : WritableRun(cur, n)
    /\ ReadFails("closed")
    /\ End("read")
    /\ UNCHANGED <<verdict, place, cur, device_was_disconnected, block_ret,
                   num_uuid_mismatches, compare_buf, pos, content, session>>

(* The block continues with sectors that are not to be used. *)
ReadNothing ==
    /\ pc = "read_chunk"
    /\ "DO_NOT_USE" \in sector_map[cur]
    /\ Advance(cur, "read_chunk", "read_skip", "block_read")
    /\ compare_buf' = [s \in Sectors |->
                         IF s \in cur .. cur' - 1 THEN Zeroes ELSE compare_buf[s]]
    /\ UNCHANGED <<verdict, abort_reason, place, device_was_disconnected,
                   block_ret, num_uuid_mismatches, fd, pos, content, faults,
                   session>>

ReadSkip ==
    /\ pc = "read_skip"
    /\ \E disc \in BOOLEAN : LseekOk(cur, disc)
    /\ pc' = IF cur = BlockEnd THEN "block_read" ELSE "read_chunk"
    /\ UNCHANGED <<verdict, abort_reason, place, cur, device_was_disconnected,
                   block_ret, num_uuid_mismatches, compare_buf, content, session>>

ReadSkipFails ==
    /\ pc = "read_skip"
    /\ \E disc \in BOOLEAN : LseekFails(disc)
    /\ End("read")
    /\ UNCHANGED <<verdict, place, cur, device_was_disconnected, block_ret,
                   num_uuid_mismatches, compare_buf, content, session>>

\* A sector of the block that is not known to be bad carries another device's
\* UUID.
Mangled == \E s \in block .. BlockEnd - 1 : ~is_sector_bad(s) /\ compare_buf[s] = Foreign

\* Mutant: one re-read too many.
MangledAndRetriesLeftOver == Mangled /\ num_uuid_mismatches < MaxMismatches

MangledAndRetriesLeft == Mangled /\ num_uuid_mismatches + 1 < MaxMismatches

(* The first pass over the block: read it again if it looks mangled ...    *)
RereadMangled ==
    /\ pc = "block_read"
    /\ MangledAndRetriesLeft
    /\ num_uuid_mismatches' = num_uuid_mismatches + 1
    /\ \E disc \in BOOLEAN : LseekOk(block, disc)
    /\ cur' = block
    /\ pc' = "read_chunk"
    /\ UNCHANGED <<verdict, abort_reason, place, device_was_disconnected,
                   block_ret, compare_buf, content, session>>

(* ... (the seek back fails, which is reported as a write error) ...       *)
RereadMangledFails ==
    /\ pc = "block_read"
    /\ MangledAndRetriesLeft
    /\ \E disc \in BOOLEAN : LseekFails(disc)
    /\ End("write")
    /\ UNCHANGED <<verdict, place, cur, device_was_disconnected, block_ret,
                   num_uuid_mismatches, compare_buf, content, session>>

(* ... or go on to compare it with what was written.                       *)
CompareBlock ==
    /\ pc = "block_read"
    /\ ~MangledAndRetriesLeft
    /\ LET B     == block .. BlockEnd - 1
           wrong == {s \in B : compare_buf[s] # rounds_completed}
           new   == {s \in wrong : ~is_sector_bad(s)}
           good  == {s \in B \ wrong : is_sector_bad(s)}
       IN  /\ sector_map' = [s \in Sectors |->
                sector_map[s] \cup (IF s \in B THEN {"READ_THIS_ROUND"} ELSE {})
                              \cup (IF s \in wrong THEN {"FAILED", "FAILED_THIS_ROUND"}
                                                   ELSE {})]
           /\ total_bad_sectors' = total_bad_sectors + Cardinality(new)
           /\ num_new_bad_sectors_this_round' =
                num_new_bad_sectors_this_round + Cardinality(new)
           /\ num_bad_sectors_this_round' =
                num_bad_sectors_this_round + Cardinality(wrong)
           /\ num_good_sectors_this_round' =
                num_good_sectors_this_round + Cardinality(good)
    /\ num_uuid_mismatches' = 0
    /\ IF BlockEnd < last_sector(slice)
       THEN /\ block' = BlockEnd
            /\ cur' = BlockEnd
            /\ pc' = "read_chunk"
            /\ UNCHANGED <<todo, slice>>
       ELSE ReadSliceDone
    /\ UNCHANGED <<rounds_completed, rounds_to, abort_reason,
                   device_was_disconnected, block_ret, compare_buf, fd, pos,
                   content, faults, session>>

\* Mutant: a threshold is crossed one sector late.
CrossedLate(t) == total_bad_sectors > sectors_to(t)

Crossed(t) == total_bad_sectors >= sectors_to(t)

(* perform_end_of_round_summary and the end of the loop body.              *)
EndRound ==
    /\ pc = "summary"
    /\ rounds_to' =
         IF num_new_bad_sectors_this_round = 0 /\ total_bad_sectors = 0
         THEN rounds_to
         ELSE [t \in DOMAIN Divisor |->
                 IF rounds_to[t] = Never /\ Crossed(t)
                 THEN rounds_completed ELSE rounds_to[t]]
    /\ rounds_completed' = rounds_completed + 1
    /\ pc' = "round"
    /\ UNCHANGED <<sector_map, total_bad_sectors, counters, abort_reason, place,
                   cur, device_was_disconnected, block_ret, num_uuid_mismatches,
                   compare_buf, fd, pos, content, faults, session>>

----------------------------------------------------------------------------
(* The environment: the device goes away, or a sector loses its data.      *)

Disconnect ==
    /\ pc # "ended"
    /\ fd = "open"
    /\ Fault
    /\ fd' = "stale"
    /\ Break
    /\ UNCHANGED <<pc, verdict, abort_reason, place, cur,
                   device_was_disconnected, block_ret, num_uuid_mismatches,
                   compare_buf, pos, content>>

Decay ==
    /\ pc # "ended"
    /\ Fault
    /\ \E s \in Sectors :
         content[s] # Garbage /\ content' = [content EXCEPT ![s] = Garbage]
    /\ UNCHANGED <<pc, verdict, abort_reason, place, cur,
                   device_was_disconnected, block_ret, num_uuid_mismatches,
                   compare_buf, fd, pos, session>>

----------------------------------------------------------------------------

WriteStep ==
    \/ WriteSliceSeek \/ WriteSliceSeekFails
    \/ WriteChunk \/ WriteChunkFails \/ WriteChunkLosesDevice \/ WriteNothing
    \/ WriteSkip \/ WriteSkipFails
    \/ BlockWritten

ReadStep ==
    \/ ReadSliceSeek \/ ReadSliceSeekFails
    \/ ReadChunk \/ ReadChunkFails \/ ReadChunkLosesDevice \/ ReadNothing
    \/ ReadSkip \/ ReadSkipFails
    \/ RereadMangled \/ RereadMangledFails
    \/ CompareBlock

MainThread == StartRound \/ FiftyPercent \/ WriteStep \/ ReadStep \/ EndRound

Next == MainThread \/ Disconnect \/ Decay

Spec == Init /\ [][Next]_vars

(* The main thread never stops of its own accord; the environment owes     *)
(* nothing.                                                                *)
FairSpec == Spec /\ WF_vars(MainThread)

----------------------------------------------------------------------------
(* Properties.                                                             *)

ControlOK ==
    /\ pc \in {"round", "write_slice_seek", "write_chunk", "write_skip",
               "block_written", "read_slice_seek", "read_chunk", "read_skip",
               "block_read", "summary", "ended"}
    /\ abort_reason \in {"none", "read", "write", "seek", "fifty_percent"}
    /\ todo \subseteq Slices
    /\ slice \in Slices
    /\ block \in 0 .. NumSectors
    /\ cur \in 0 .. NumSectors
    /\ block_ret \in {"ok", "write", "seek"}
    /\ num_uuid_mismatches \in 0 .. MaxMismatches - 1

CountsOK ==
    /\ rounds_completed \in 0 .. MaxRounds
    /\ total_bad_sectors \in Nat
    /\ num_bad_sectors_this_round \in Nat
    /\ num_new_bad_sectors_this_round \in Nat
    /\ num_good_sectors_this_round \in Nat
    /\ rounds_to \in [DOMAIN Divisor -> Nat \cup {Never}]

DeviceOK ==
    /\ fd \in {"open", "stale", "closed"}
    /\ pos \in 0 .. NumSectors
    /\ faults \in 0 .. MaxFaults

DataOK ==
    /\ sector_map \in [Sectors -> SUBSET Flags]
    /\ compare_buf \in [Sectors -> Content]
    /\ content \in [Sectors -> Content]
    /\ here \subseteq Sectors
    /\ before \subseteq Sectors

SwitchesOK == device_was_disconnected \in BOOLEAN /\ aborted \in BOOLEAN

(* The types of the variables.                                             *)
TypeOK == ControlOK /\ CountsOK /\ DeviceOK /\ DataOK /\ SwitchesOK

(* The running total that decides when the test ends (50%) and that the    *)
(* screen, the log and the database show is the number of sectors flagged  *)
(* as failed, whatever retries, slice restarts and map resets happened.    *)
BadCountMatchesMap == total_bad_sectors = Cardinality(Flagged("FAILED"))

(* A sector once flagged as failed, or as not to be used, stays so: no     *)
(* reset of the map, at a round or at a slice restart, forgets it.         *)
BadSectorsStayBad ==
    [][\A s \in Sectors : \A f \in {"FAILED", "DO_NOT_USE"} :
          f \in sector_map[s] => f \in sector_map'[s]]_vars

(* Nothing is ever written to a sector flagged as not to be used, unless   *)
(* the handle is not where the block loop takes it to be.                  *)
UnusableNeverWritten ==
    [][\A s \in Sectors :
          content'[s] # content[s] /\ content'[s] # Garbage
             => "DO_NOT_USE" \notin sector_map[s]]_vars

(* At the end of a round the map has a verdict on every sector: it was     *)
(* gone over in both phases, and it is flagged as failed in this round     *)
(* exactly if the device did not give back this round's data.              *)
EverySectorJudged ==
    pc = "summary" =>
      \A s \in Sectors :
        /\ {"WRITTEN_THIS_ROUND", "READ_THIS_ROUND"} \subseteq sector_map[s]
        /\ "FAILED_THIS_ROUND" \in sector_map[s] <=> compare_buf[s] # rounds_completed

(* The end-of-round report adds up: the sectors that were bad before and   *)
(* tested good, with those that failed in this round, are all the bad      *)
(* ones, and no sector that failed is missing from the round's count.      *)
RoundTally ==
    pc = "summary" =>
      /\ num_good_sectors_this_round + Cardinality(Flagged("FAILED_THIS_ROUND"))
           = total_bad_sectors
      /\ num_bad_sectors_this_round >= Cardinality(Flagged("FAILED_THIS_ROUND"))

(* A slice that passes as written without an abort has had every sector    *)
(* that is not known to be bad written, and in one session: what went to a *)
(* device that then disconnected or was reset has been written again.      *)
OneSessionPerSlice ==
    (/\ pc = "block_written" /\ BlockEnd = last_sector(slice)
     /\ ~device_was_disconnected /\ block_ret = "ok" /\ ~aborted)
      => LET healthy == {s \in SliceSectors(slice) : ~is_sector_bad(s)}
         IN  /\ healthy \subseteq here \cup before
             /\ here \cap healthy = {} \/ before \cap healthy = {}

(* In the read phase the file position is always that of the sector the    *)
(* data will be compared with, across short reads, skipped sectors,        *)
(* re-reads and reconnects: main() seeks only once per slice.              *)
ReadsInPlace == pc = "read_chunk" => pos = cur

(* Between rounds, each threshold has been given a round exactly if enough *)
(* sectors are bad to cross it, and a higher one not before a lower one.   *)
ThresholdsRecorded ==
    /\ pc = "round" => \A t \in DOMAIN Divisor :
                          rounds_to[t] # Never <=> total_bad_sectors >= sectors_to(t)
    /\ \A t, u \in DOMAIN Divisor :
          rounds_to[t] # Never /\ rounds_to[u] # Never /\ sectors_to(t) <= sectors_to(u)
             => rounds_to[t] <= rounds_to[u]

(* The endurance test as EnduranceRounds sees it: its rounds, the sectors  *)
(* flagged as failed and as not to be used, and how it ended.              *)
Status == IF pc = "round" THEN "between"
          ELSE IF pc # "ended" THEN "testing"
          ELSE IF abort_reason = "fifty_percent" THEN "worn_out" ELSE "gave_up"

Rounds == INSTANCE EnduranceRounds WITH
            status      <- Status,
            round       <- rounds_completed,
            bad         <- Flagged("FAILED"),
            unusable    <- Flagged("DO_NOT_USE"),
            first_error <- rounds_to.first

(* The test keeps the promise of EnduranceRounds; in particular it ends as *)
(* worn out exactly when half of the sectors really are flagged as failed. *)
KeepsPromise == Rounds!Spec

(* A round that begins is finished, or the test ends: with finitely many   *)
(* faults the slice restarts, re-reads and skips do not go on for ever.    *)
RoundFinishes == (pc = "write_slice_seek") ~> (pc \in {"summary", "ended"})

----------------------------------------------------------------------------
(* What the documentation says of the test, and the code does not do.      *)

(* endurance_test_write_block returns 0 "if the device disconnected during *)
(* the operation.  If an error occurred, one of the ABORT_REASON_* codes   *)
(* is returned instead"; endurance_test_write_slice is to return it too,   *)
(* and main() then ends.  The slice loop, however, only looks for -1: with *)
(* no disconnect told, the block counts as written and the slice goes on.  *)
WriteAbortEndsTest ==
    [][pc = "block_written" /\ block_ret # "ok" /\ ~device_was_disconnected
         => pc' \in {pc, "ended"}]_vars

=============================================================================
