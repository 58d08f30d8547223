---------------------------- MODULE DeviceIdentity ----------------------------
(***************************************************************************)
(* How mfst keeps to the device it is testing.  It remembers what it wrote *)
(* to the beginning and to the middle of the device (the BOD and MOD       *)
(* buffers), keeps that in the state file, and after a disconnect, a reset *)
(* or a restart takes the device that still holds it, or that holds        *)
(* sectors with the UUID of the test.                                      *)
(*                                                                         *)
(* Two devices of the right size may be attached: the one under test and a *)
(* blank one.  The write phase is modelled with every write of a block,    *)
(* the read phase as one step; the retries inside a request, and a device  *)
(* that comes back unseen, are RetryLayer's, the verdicts EnduranceTest's. *)
(***************************************************************************)
EXTENDS Integers, FiniteSets

CONSTANTS
    NumSectors,      \* num_physical_sectors
    NUM_SLICES,      \* slices per phase (16 in the program)
    SectorsPerBlock, \* optimal_block_size / sector_size
    AreaSectors,     \* bod_mod_buffer_size / sector_size
    SampleSize,      \* num_sectors_to_check (4096 in the program)
    MaxRounds,       \* bound: rounds of a test
    MaxFaults        \* bound: faults the environment injects in a behaviour

\* The middle falls between two sectors.
ASSUME IdentityAssumption ==
    /\ NumSectors \in Nat /\ NumSectors % 2 = 0
    /\ NUM_SLICES \in Nat \ {0} /\ NumSectors >= NUM_SLICES
    /\ SectorsPerBlock \in Nat \ {0}
    /\ AreaSectors \in Nat \ {0} /\ 2 * AreaSectors <= NumSectors
    /\ SampleSize \in Nat \ {0, 1}
    /\ MaxRounds \in Nat /\ MaxFaults \in Nat

VARIABLES
    pc,                  \* where main() is
    request,             \* the request that waits for the device, or "none"
    rounds_completed,
    generation,          \* history: which round of which process this is
    middle_of_device,    \* 0 when the capacity test could not tell the size
    bod_buffer, mod_buffer,
    unusable, bad,       \* SECTOR_MAP_FLAG_DO_NOT_USE, SECTOR_MAP_FLAG_FAILED
    state_file,          \* the state file's contents
    saving,              \* whether program_options.state_file is still set
    present,             \* the devices attached
    fd,                  \* the device opened, or dead after a disconnect
    content,             \* what the device under test holds
    todo, slice, block,  \* read_order, the slice of it, and cur_sector
    cur,                 \* current_sector
    written,             \* num_bytes_written by this turn of the loop
    faults,              \* faults injected so far
    stored,              \* history: the sectors whose last write succeeded
    intact,              \* history: those of them that have not decayed since
    open,                \* history: the slices begun and not completed since
    spoilt               \* history: places in the buffers filled with what is
                         \* behind the block in memory

buffers  == <<bod_buffer, mod_buffer, spoilt>>
map      == <<unusable, bad>>
place    == <<todo, slice, block, cur, written>>
medium   == <<content, stored, intact>>
progress == <<rounds_completed, generation, middle_of_device>>
vars     == <<pc, request, progress, buffers, map, state_file, saving,
              present, fd, medium, place, faults, open>>

----------------------------------------------------------------------------
(* Geometry and data.                                                      *)

Sectors == 0 .. NumSectors - 1
Slices  == 0 .. NUM_SLICES - 1
Offsets == 0 .. AreaSectors - 1

get_slice_start(i) == (NumSectors \div NUM_SLICES) * i
last_sector(i)     == IF i = NUM_SLICES - 1 THEN NumSectors ELSE get_slice_start(i + 1)
SliceSectors(i)    == get_slice_start(i) .. last_sector(i) - 1

\* Mutant: the last block of a slice is as long as the others.
BlockEndUncut == block + SectorsPerBlock

BlockEnd == IF block + SectorsPerBlock > last_sector(slice)
            THEN last_sector(slice) ELSE block + SectorsPerBlock

\* What a sector or a place in a buffer holds: what this round, in this process,
\* writes to some sector, which carries the UUID of the test, or one of these.
Zero  == 0
Other == -1
Datum(s)   == generation * NumSectors + s
Carries(v) == v > 0

\* Every process, of which there is one more than there are crashes, may do all rounds.
MaxGeneration == MaxRounds * (MaxFaults + 1)
Data == -1 .. (MaxGeneration + 1) * NumSectors - 1

Devices == {"own", "blank"}
Holds(d) == IF d = "own" THEN content ELSE [s \in Sectors |-> Zero]

Areas == [bod |-> Offsets, mod |-> {middle_of_device + i : i \in Offsets}]

Fault == faults < MaxFaults /\ faults' = faults + 1

----------------------------------------------------------------------------
(* Telling devices apart.                                                  *)

\* What compare_bod_mod_data has in its buffer for a sector: it zeroes those it
\* could not read and those that are not to be used.
ReadBuffer(d, s) == IF s \in unusable THEN Zero ELSE Holds(d)[s]

MatchingBod(d) == {i \in Offsets : ReadBuffer(d, i) = bod_buffer[i]}
MatchingMod(d) == {i \in Offsets : ReadBuffer(d, middle_of_device + i) = mod_buffer[i]}
ExactMatch(d)  == MatchingBod(d) = Offsets \/ MatchingMod(d) = Offsets

\* Mutant: half of one area is taken for a partial match.
QuarterThreshold == (AreaSectors + 1) \div 2

\* Half of the two areas.
partial_match_threshold == AreaSectors

\* compare_bod_mod_data returns 0, or returns 1.  The sectors of the middle are
\* counted after the buffer they were read into has been freed, so any of them
\* may be counted as different.
BodModMatch(d) ==
    \/ ExactMatch(d)
    \/ Cardinality(MatchingBod(d)) + Cardinality(MatchingMod(d)) >= partial_match_threshold
BodModMismatch(d) == ~ExactMatch(d)

Min(a, b) == IF a < b THEN a ELSE b

\* compare_device_uuids gives up if there are not enough good sectors; main()
\* counts the bad ones of a loaded map only when the device has been found.
total_bad_sectors == IF pc = "search" \/ request = "round" THEN 0 ELSE Cardinality(bad)
EnoughGood        == NumSectors >= total_bad_sectors + SampleSize

\* It draws SampleSize sectors at random from those not bad, which never ends
\* if there are fewer, and wants half of them to carry the UUID.
Drawable     == Sectors \ bad
DrawEnds     == Cardinality(Drawable) >= SampleSize
Agreeing(d)  == {s \in Drawable : Carries(Holds(d)[s])}
UuidMatch(d) ==
    EnoughGood /\ DrawEnds /\ Min(Cardinality(Agreeing(d)), SampleSize) >= SampleSize \div 2
UuidMismatch(d) ==
    EnoughGood =>
      /\ DrawEnds
      /\ SampleSize - Min(Cardinality(Drawable \ Agreeing(d)), SampleSize) < SampleSize \div 2

\* What find_device and wait_for_device_reconnect may make of a device.
Accepts(d) == BodModMatch(d) \/ UuidMatch(d)
Rejects(d) == BodModMismatch(d) /\ UuidMismatch(d)

\* The devices of D that a search may come up with.
Matches(D) == {M \in SUBSET D : (\A d \in M : Accepts(d)) /\ (\A d \in D \ M : Rejects(d))}

S_ISBLK(d) == d \in present     \* all of these are block devices
S_ISCHR(d) == FALSE
are_devices_identical(a, b) ==
    S_ISBLK(a) /\ S_ISBLK(b) /\ S_ISCHR(a) /\ S_ISCHR(b) /\ a = b

\* find_device among several matches: those the preferred name stands for.
Preferred(M, name) == {d \in M : are_devices_identical(name, d)}

\* find_device comes up with device d, or with an error.
Found(M, name, d)  == d \in (IF Cardinality(M) > 1 THEN Preferred(M, name) ELSE M)
ENODEV(M)          == M = {}
ENOTUNIQ(M, name)  == Cardinality(M) > 1 /\ Preferred(M, name) = {}

\* The device is opened for reading and writing and the test goes on with it.
Take(d, to) ==
    /\ fd' = d
    /\ pc' = IF d = "own" THEN to ELSE "lost"

----------------------------------------------------------------------------
(* The state file.                                                         *)

NoFile == [rounds |-> -1]

\* save_state, or a save_state that fails and is not tried again.
Save(r, bod, mod, gone, ruined) ==
    \/ /\ saving
       /\ state_file' = [rounds |-> r, middle |-> middle_of_device, bod |-> bod,
                         mod |-> mod, bad |-> gone, spoilt |-> ruined]
       /\ UNCHANGED <<saving, faults>>
    \/ /\ saving
       /\ Fault
       /\ saving' = FALSE
       /\ UNCHANGED state_file
    \/ /\ ~saving
       /\ UNCHANGED <<state_file, saving, faults>>

\* A file is of use after a round, and if it knows the size (SaveState).
Loadable(f) == f.rounds > 0 /\ f.middle > 0

----------------------------------------------------------------------------
(* The buffers.                                                            *)

\* The places update_bod_buffer fills after n sectors from sector from on.
BodPlaces(from, n) == IF from < AreaSectors THEN from .. Min(from + n, AreaSectors) - 1 ELSE {}

InMod(s) == s \in Areas.mod

\* Mutant: only the start of what was written is looked at.
StartsInMod(from, n) == InMod(from)

\* It looks at the two ends.
was_mod_area_affected(from, n) == InMod(from) \/ InMod(from + n - 1)

\* The places update_mod_buffer fills: from the first, if the write began before
\* the middle, or from where it began.
ModPlaces(from, n) ==
    IF ~was_mod_area_affected(from, n) THEN {}
    ELSE IF from < middle_of_device
         THEN 0 .. Min(n - (middle_of_device - from), AreaSectors) - 1
    ELSE from - middle_of_device .. Min(from - middle_of_device + n, AreaSectors) - 1

\* The sector whose data place i gets.
ModSource(from, i) ==
    IF from < middle_of_device THEN from + (middle_of_device - from) + i
    ELSE from + (i - (from - middle_of_device))

\* Sector s as it is in the block's buffer; behind that is other memory.
InBlock(s, behind) == IF s < BlockEnd THEN Datum(s) ELSE behind

\* update_bod_mod_buffers: n sectors from sector from on, the data being taken
\* from the block's buffer.
update_bod_mod_buffers(from, n) ==
    LET bods == BodPlaces(from, n)
        mods == ModPlaces(from, n)
    IN  /\ \E behind \in {Zero, Other} :
             /\ bod_buffer' = [i \in Offsets |-> IF i \in bods THEN InBlock(i, behind)
                                                 ELSE bod_buffer[i]]
             /\ mod_buffer' = [i \in Offsets |->
                                 IF i \in mods THEN InBlock(ModSource(from, i), behind)
                                 ELSE mod_buffer[i]]
        /\ spoilt' = [bod |-> (spoilt.bod \ bods) \cup {i \in bods : i >= BlockEnd},
                      mod |-> (spoilt.mod \ mods)
                                \cup {i \in mods : ModSource(from, i) >= BlockEnd}]
        /\ IF bods \cup mods = {} THEN UNCHANGED <<state_file, saving, faults>>
           ELSE Save(rounds_completed, bod_buffer', mod_buffer', bad, spoilt')

----------------------------------------------------------------------------
(* Control.                                                                *)

\* The first slice, or the next one, of the random read_order.
TakeSlice(S) ==
    \E i \in S :
        /\ slice' = i
        /\ todo' = S \ {i}
        /\ block' = get_slice_start(i)
        /\ cur' = get_slice_start(i)
        /\ written' = 0

\* handle_device_disconnect: the request waits for the device.
Wait(for) == pc' = "wait" /\ request' = for

End == pc' = "ended" /\ UNCHANGED request

\* The slice is written again from its start.
RestartSlice ==
    /\ block' = get_slice_start(slice)
    /\ cur' = get_slice_start(slice)
    /\ written' = 0
    /\ UNCHANGED <<todo, slice>>

HalfBad == Cardinality(bad) >= NumSectors \div 2

(* A new test: main() up to the round loop, on the device it was given.     *)
(* The buffers are allocated, and hold whatever the memory held.            *)
Init ==
    /\ pc = "round"
    /\ request = "none"
    /\ rounds_completed = 0
    /\ generation = 0
    /\ middle_of_device \in {NumSectors \div 2, 0}
    /\ bod_buffer \in {[i \in Offsets |-> v] : v \in {Zero, Other}}
    /\ mod_buffer = bod_buffer
    /\ unusable = {}
    /\ bad = {}
    /\ state_file = NoFile
    /\ saving = TRUE
    /\ present = {"own"}
    /\ fd = "own"
    /\ content = [s \in Sectors |-> Other]
    /\ todo = {}
    /\ slice = 0
    /\ block = 0
    /\ cur = 0
    /\ written = 0
    /\ faults = 0
    /\ stored = {}
    /\ intact = {}
    /\ open = {}
    /\ spoilt = [bod |-> {}, mod |-> {}]

(* The top of the round loop, which ends when half of the sectors are bad.  *)
StartRound ==
    /\ pc = "round"
    /\ ~HalfBad
    /\ rounds_completed < MaxRounds
    /\ IF rounds_completed > 0
       THEN Save(rounds_completed, bod_buffer, mod_buffer, bad, spoilt)
       ELSE UNCHANGED <<state_file, saving, faults>>
    /\ generation' = generation + 1
    /\ TakeSlice(Slices)
    /\ pc' = "seek"
    /\ UNCHANGED <<request, rounds_completed, middle_of_device, buffers, map,
                   present, fd, medium, open>>

\* The device is gone and the seek fails: the program waits for it, in the
\* first round as well.  The handle of a device that is gone may still seek.
SliceSeek ==
    /\ pc = "seek"
    /\ \/ pc' = "write" /\ open' = open \cup {slice} /\ UNCHANGED request
       \/ fd = "dead" /\ Wait("seek") /\ UNCHANGED open
    /\ UNCHANGED <<progress, buffers, map, state_file, saving,
                   present, fd, medium, place, faults>>

----------------------------------------------------------------------------
(* endurance_test_write_block.  A turn of its loop writes the run of usable  *)
(* sectors at cur, if there is one, then skips the run of unusable sectors.  *)

\* The usable sectors from s on, and the unusable ones.
WritableRun(s)   == {i \in s .. BlockEnd - 1 : unusable \cap (s .. i) = {}}
UnwritableRun(s) == {i \in s .. BlockEnd - 1 : (s .. i) \subseteq unusable}

\* Sectors S of the device under test are overwritten.
Store(S) ==
    /\ content' = [s \in Sectors |-> IF s \in S THEN Datum(s) ELSE content[s]]
    /\ intact' = intact \cup S
    /\ stored' = stored \cup S

(* write_or_reset_device wrote the run, or, which is a fault, a part of it.  *)
WriteRun ==
    /\ pc = "write"
    /\ fd = "own"
    /\ cur \notin unusable
    /\ LET n == Cardinality(WritableRun(cur))
       IN \E k \in 1 .. n :
            /\ IF k = n THEN UNCHANGED faults ELSE Fault
            /\ Store(cur .. cur + k - 1)
            /\ written' = k
    /\ pc' = "update"
    /\ UNCHANGED <<request, progress, buffers, map, state_file, saving,
                   present, fd, todo, slice, block, cur, open>>

NoWrite ==
    /\ pc = "write"
    /\ cur \in unusable
    /\ pc' = "update"
    /\ UNCHANGED <<request, progress, buffers, map, state_file, saving,
                   present, fd, medium, place, faults, open>>

\* The block's loop, or the slice's, goes on at sector s.
GoOn(s) ==
    IF s < BlockEnd
    THEN pc' = "write" /\ cur' = s /\ written' = 0 /\ UNCHANGED <<todo, slice, block, open>>
    ELSE IF BlockEnd < last_sector(slice)
    THEN /\ pc' = "write" /\ block' = BlockEnd /\ cur' = BlockEnd /\ written' = 0
         /\ UNCHANGED <<todo, slice, open>>
    ELSE /\ open' = open \ {slice}
         /\ IF todo # {} THEN TakeSlice(todo) /\ pc' = "seek"
            ELSE pc' = "read" /\ UNCHANGED place

\* num_sectors_affected_this_round counts from the start of the block; a turn
\* that has written nothing adds to what an earlier one, or call, has left, or to
\* what was never set: nothing and a whole block stand for these values.
Affected(skipped) ==
    IF written > 0 THEN {cur + written - block + skipped}
    ELSE {skipped, SectorsPerBlock + skipped}

(* The end of a turn: the skip, and the buffers brought up to date.         *)
EndTurn ==
    /\ pc = "update"
    /\ LET skipped == Cardinality(UnwritableRun(cur + written))
       IN /\ \E n \in Affected(skipped) : update_bod_mod_buffers(cur, n)
          /\ GoOn(cur + written + skipped)
    /\ UNCHANGED <<request, progress, map, present, fd, medium>>

(* The skip's seek finds that the device is gone.  Once it is back the       *)
(* buffers are brought up to date all the same, and the slice written again. *)
SkipSeekWaits ==
    /\ pc = "update"
    /\ fd = "dead"
    /\ UnwritableRun(cur + written) # {}
    /\ Wait("late_update")
    /\ UNCHANGED <<progress, buffers, map, state_file, saving, present, fd,
                   medium, place, faults, open>>

LateUpdate ==
    /\ pc = "late_update"
    /\ \E n \in Affected(Cardinality(UnwritableRun(cur + written))) :
         update_bod_mod_buffers(cur, n)
    /\ pc' = "seek"
    /\ RestartSlice
    /\ UNCHANGED <<request, progress, map, present, fd, medium, open>>

\* Sector cur is not written to again; what is left on it is not this round's.
Condemn ==
    /\ unusable' = unusable \cup {cur}
    /\ bad' = bad \cup {cur}
    /\ content' = [content EXCEPT ![cur] = Other]
    /\ stored' = stored \ {cur}
    /\ intact' = intact \ {cur}

(* The write fails, in spite of retries and, after the first round, a reset. *)
WriteFails ==
    /\ pc = "write"
    /\ fd = "own"
    /\ cur \notin unusable
    /\ Fault
    /\ Condemn
    /\ GoOn(cur + 1)
    /\ UNCHANGED <<request, progress, buffers, state_file, saving, present, fd>>

(* The device is gone.  In the first round that is taken for a bad sector,   *)
(* and the slice is written again, after a wait if the seek to the next      *)
(* sector fails.  Later on the program waits.                                *)
WriteOnDeadHandle ==
    /\ pc = "write"
    /\ fd = "dead"
    /\ cur \notin unusable
    /\ IF rounds_completed = 0
       THEN /\ Fault
            /\ Condemn
            /\ RestartSlice
            /\ Wait("seek") \/ (pc' = "seek" /\ UNCHANGED request)
       ELSE Wait("write") /\ UNCHANGED <<map, medium, place, faults>>
    /\ UNCHANGED <<progress, buffers, state_file, saving, present,
                   fd, open>>

(* A write fails after the first round and the device is reset.  It comes    *)
(* back as another node.                                                     *)
Reset ==
    /\ pc = "write"
    /\ fd = "own"
    /\ cur \notin unusable
    /\ rounds_completed > 0
    /\ Fault
    /\ fd' = "dead"
    /\ pc' = "reset_search"
    /\ UNCHANGED <<request, progress, buffers, map, state_file, saving,
                   present, medium, place, open>>

\* The request that failed is made again, on the device found.
WriteAgain ==
    /\ \/ Store(WritableRun(cur))
       \/ UNCHANGED medium
    /\ RestartSlice

(* reset_device looks for it.  Where it finds several it fails, and the slice *)
(* starts over without a handle; where it finds none, or cannot open the one  *)
(* it found, it succeeds without a handle.  The next request then waits, or   *)
(* ends the test if the old number is taken.                                  *)
ResetSearch ==
    /\ pc = "reset_search"
    /\ \E M \in Matches(present) :
         \/ \E d \in present :
              /\ Found(M, "own", d)
              /\ Take(d, "seek")
              /\ IF d = "own" THEN WriteAgain ELSE UNCHANGED <<medium, place>>
              /\ UNCHANGED <<request, faults>>
         \/ /\ \E d \in present : Found(M, "own", d)
            /\ Fault
            /\ Wait("write") \/ End
            /\ UNCHANGED <<fd, medium, place>>
         \/ /\ ENODEV(M)
            /\ Wait("write") \/ End
            /\ UNCHANGED <<fd, medium, place, faults>>
         \/ /\ ENOTUNIQ(M, "own")
            /\ Wait("seek") \/ End
            /\ RestartSlice
            /\ UNCHANGED <<fd, medium, faults>>
    /\ UNCHANGED <<progress, buffers, map, state_file, saving, present, open>>

(* wait_for_device_reconnect looks at a device that udev announces, takes it *)
(* if it can open it, and the request that waits is made again.              *)
Announced(d) ==
    /\ pc = "wait"
    /\ d \notin present
    /\ present' = present \cup {d}
    /\ \/ /\ Accepts(d)
          /\ Take(d, IF request = "write" THEN "seek" ELSE request)
          /\ IF d = "own" /\ request = "write" THEN WriteAgain
             ELSE UNCHANGED <<medium, place>>
          /\ request' = "none"
          /\ UNCHANGED faults
       \/ /\ (Accepts(d) /\ Fault) \/ (Rejects(d) /\ UNCHANGED faults)
          /\ UNCHANGED <<pc, request, fd, medium, place>>
    /\ UNCHANGED <<progress, buffers, map, state_file, saving, open>>

(* The read phase and the comparison: what differs is bad.                   *)
ReadPhase ==
    /\ pc = "read"
    /\ fd = "own"
    /\ bad' = bad \cup {s \in Sectors : content[s] # Datum(s)}
    /\ rounds_completed' = rounds_completed + 1
    /\ pc' = "round"
    /\ UNCHANGED <<request, generation, middle_of_device, buffers, unusable, state_file,
                   saving, present, fd, medium, place, faults, open>>

\* A request of the read phase finds the device gone.
ReadWaits ==
    /\ pc = "read"
    /\ fd = "dead"
    /\ Wait("read")
    /\ UNCHANGED <<progress, buffers, map, state_file, saving,
                   present, fd, medium, place, faults, open>>

----------------------------------------------------------------------------
(* Starting again.                                                         *)

\* The program is killed, or killed by its use of freed memory.
Crash ==
    /\ pc \notin {"off", "ended", "lost"}
    /\ Loadable(state_file)
    /\ Fault
    /\ pc' = "off"
    /\ request' = "none"
    /\ fd' = "dead"
    \* what the buffers were last saved for is no longer known
    /\ open' = IF saving THEN open ELSE Slices
    /\ UNCHANGED <<progress, buffers, map, state_file, saving,
                   present, medium, place>>

(* load_state: the buffers and the bad sectors are as they were saved, and   *)
(* no sector is kept from use any more.                                      *)
Load ==
    /\ pc = "off"
    /\ rounds_completed' = state_file.rounds
    /\ bod_buffer' = state_file.bod
    /\ mod_buffer' = state_file.mod
    /\ bad' = state_file.bad
    /\ spoilt' = state_file.spoilt
    /\ unusable' = {}
    /\ saving' = TRUE
    /\ pc' = "search"
    /\ UNCHANGED <<request, generation, middle_of_device, state_file, present, fd,
                   medium, place, faults, open>>

(* find_device, with or without a name given on the command line.           *)
StartupSearch ==
    /\ pc = "search"
    /\ \E M \in Matches(present), named \in Devices \cup {"none"} :
         \/ \E d \in present : Found(M, named, d) /\ Take(d, "round") /\ UNCHANGED <<request, faults>>
         \/ (\E d \in present : Found(M, named, d)) /\ Fault /\ End /\ UNCHANGED fd
         \/ /\ ENODEV(M)
            /\ IF named = "none" THEN Wait("round") ELSE End
            /\ UNCHANGED <<fd, faults>>
         \/ ENOTUNIQ(M, named) /\ End /\ UNCHANGED <<fd, faults>>
    /\ UNCHANGED <<progress, buffers, map, state_file, saving, present, medium,
                   place, open>>

----------------------------------------------------------------------------
(* The environment.  A device is only announced to a program that waits or   *)
(* that looks for devices afterwards; RetryLayer has the others.             *)

Attach(d) ==
    /\ pc \in {"off", "reset_search"}
    /\ d \notin present
    /\ present' = present \cup {d}
    /\ UNCHANGED <<pc, request, progress, buffers, map, state_file, saving,
                   fd, medium, place, faults, open>>

Detach(d) ==
    /\ pc \in {"off", "seek", "write", "update", "read", "wait"}
    /\ d \in present
    /\ Fault
    /\ present' = present \ {d}
    /\ fd' = IF d = fd THEN "dead" ELSE fd
    /\ UNCHANGED <<pc, request, progress, buffers, map, state_file, saving,
                   medium, place, open>>

\* A sector of an area can no longer be read, or reads back otherwise.
Decay ==
    /\ pc \in {"off", "wait"}
    /\ Fault
    /\ \E s \in intact \cap (Areas.bod \cup Areas.mod) :
         /\ \E v \in {Zero, Other} : content' = [content EXCEPT ![s] = v]
         /\ intact' = intact \ {s}
    /\ UNCHANGED <<pc, request, progress, buffers, map, state_file, saving,
                   present, fd, stored, place, open>>

Next ==
    \/ StartRound
    \/ SliceSeek \/ WriteRun \/ NoWrite \/ EndTurn \/ SkipSeekWaits \/ LateUpdate
    \/ WriteFails \/ WriteOnDeadHandle
    \/ Reset \/ ResetSearch
    \/ ReadPhase \/ ReadWaits
    \/ Crash \/ Load \/ StartupSearch
    \/ Decay
    \/ \E d \in Devices : Announced(d) \/ Attach(d) \/ Detach(d)

Spec == Init /\ [][Next]_vars

----------------------------------------------------------------------------
(* Properties.                                                             *)

\* The types of the variables.  The place of a write stays in its slice and
\* block, through skips, failures and restarts of the slice, and what is not
\* to be used is known to be bad.
TypeOK ==
    /\ pc \in {"round", "seek", "write", "update", "late_update", "read", "wait",
               "reset_search", "off", "search", "ended", "lost"}
    /\ request \in {"none", "round", "seek", "write", "late_update", "read"}
    /\ pc = "wait" <=> request # "none"
    /\ rounds_completed \in 0 .. MaxRounds
    /\ generation \in 0 .. MaxGeneration
    /\ middle_of_device \in {NumSectors \div 2, 0}
    /\ bod_buffer \in [Offsets -> Data]
    /\ mod_buffer \in [Offsets -> Data]
    /\ unusable \subseteq bad \cap Sectors
    /\ bad \subseteq Sectors
    /\ saving \in BOOLEAN
    /\ present \subseteq Devices
    /\ fd \in Devices \cup {"dead"}
    /\ content \in [Sectors -> Data]
    /\ todo \subseteq Slices
    /\ slice \in Slices
    /\ block \in SliceSectors(slice)
    /\ cur \in block .. BlockEnd - 1
    /\ written \in 0 .. BlockEnd - cur
    /\ faults \in 0 .. MaxFaults
    /\ intact \subseteq stored
    /\ stored \subseteq Sectors
    /\ open \subseteq Slices
    /\ spoilt \in [bod : SUBSET Offsets, mod : SUBSET Offsets]

\* A block that begins before the middle and ends behind it is at most a sector
\* longer than an area, so that one of its ends is in the middle area.  It is what
\* was_mod_area_affected needs; a longer block may be written unseen.
BlockStarts(i) ==
    SliceSectors(i) \cap {get_slice_start(i) + SectorsPerBlock * k : k \in 0 .. NumSectors}

MiddleSeen ==
    \A i \in Slices : \A b \in BlockStarts(i) :
      LET end == Min(b + SectorsPerBlock, last_sector(i))
      IN  b < NumSectors \div 2 /\ end > NumSectors \div 2 => end - b <= AreaSectors + 1

\* An area that tells the device under test: all of it is as it was last
\* written, no slice that has a part of it is being written, and the update
\* did not take it from behind a block.
Telling(a) ==
    /\ Areas[a] \subseteq intact
    /\ \A i \in open : SliceSectors(i) \cap Areas[a] = {}
    /\ spoilt[a] = {}

\* compare_bod_mod_data recognises the device under test by either area alone.
\* So the buffers, and what is loaded of them, keep up with the writes of every
\* slice, whatever blocks, skips, failures, reconnects and restarts it took.
OwnDeviceFound == (\E a \in {"bod", "mod"} : Telling(a)) => ~BodModMismatch("own")

\* The sectors of an area that the last write did not reach, or whose slice is
\* not complete, and the places that were filled from behind a block.
Unsure(a) ==
    Cardinality({s \in Areas[a] : s \notin stored \/ \E i \in open : s \in SliceSectors(i)})
      + Cardinality(spoilt[a])

\* No other device is taken for the one under test and overwritten, unless the
\* program cannot be sure of half of the two areas: of what it has not written yet
\* in the first round, or of what failed, is being written, or was overrun.
StrangersSpared == pc = "lost" => Unsure("bod") + Unsure("mod") >= AreaSectors

\* What the comment in write_or_retry asks for: no other device is taken while
\* the buffers are not complete, that is in the first round.
NoneTakenInFirstRound == pc = "lost" => rounds_completed > 0
=============================================================================
