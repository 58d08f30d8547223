---------------------------- MODULE CapacityTest ----------------------------
(***************************************************************************)
(* The capacity test, probe_device_size, which looks for the end of the    *)
(* storage of a device that may claim more than it has (fake flash), and   *)
(* what main() makes of its answer.  Slices all over the device are        *)
(* written and read back; then the gap between the last good and the first *)
(* bad slice is bisected.                                                  *)
(*                                                                         *)
(* The device stores what goes to its first real sectors and loses the     *)
(* rest, but answers from its write cache what was written last.  Numbers  *)
(* are unsigned and wrap around at Word.                                   *)
(***************************************************************************)
EXTENDS Integers

CONSTANTS
    num_logical_sectors,    \* what the device claims to have
    num_slices,             \* 9 in the program
    slice_sectors,          \* slice_size / sector_size
    sector_size,
    Word,                   \* 2^64
    Draws,                  \* bound: the random numbers that are drawn
    MaxFaults               \* bound: calls that fail

Region == num_logical_sectors \div (num_slices - 1)
Verified == num_slices \div 2      \* slices of an area that are read back

ASSUME CapacityAssumption ==
    /\ {num_logical_sectors, slice_sectors, sector_size, Word} \subseteq Nat \ {0}
    /\ num_slices \in Nat /\ num_slices > 2
    /\ Region >= 2 * slice_sectors          \* no device of less than 64 MB
    /\ Word % sector_size = 0
    /\ num_logical_sectors * sector_size < Word \div 2
    /\ Draws \subseteq Nat
    /\ MaxFaults \in Nat

VARIABLES
    pc,                     \* the next thing to do: a slice to place, to write or
                            \* to read, an area to write, a slice of it to verify,
                            \* or done
    initial_sectors,        \* where the slices are, once they are placed
    i,
    low, high,              \* the first bad sector is between them
    cur,                    \* the area
    keep_searching,
    capacity_test_info,
    device_info,
    real,                   \* the sectors the device has
    cache,                  \* the slices its write cache holds
    faults,
    in_place,               \* the file position is that of the slice to read
    blind                   \* history: a slice that could not be read was taken
                            \* as verified

result == <<capacity_test_info, device_info>>
medium == <<real, cache>>
vars   == <<pc, initial_sectors, i, low, high, cur, keep_searching, result,
            medium, faults, in_place, blind>>

----------------------------------------------------------------------------
(* Where the initial slices go: one at the beginning, one near the end, and*)
(* one at a random place of every other eighth, behind the one before.     *)

Larger(a, b) == IF a > b THEN a ELSE b

\* Mutant: the slice before is not taken into account.
draw_from_any(k, before) == IF k = 1 THEN slice_sectors ELSE Region * (k - 1)

draw_from(k, before) ==
    IF k = 1 THEN slice_sectors
             ELSE Larger(Region * (k - 1), before + slice_sectors)

\* Mutant: the last slice starts with the last sector.
last_slice_outside == num_logical_sectors - 1

last_slice == num_logical_sectors - (1 + slice_sectors)

\* Nothing reads the entries of slices that are not placed yet.
Init ==
    /\ pc = "place"
    /\ initial_sectors = [k \in 0 .. num_slices - 1 |->
                             IF k = num_slices - 1 THEN last_slice ELSE 0]
    /\ i = 1
    /\ low = 0
    /\ high = num_logical_sectors
    /\ cur = 0
    /\ keep_searching = TRUE
    /\ capacity_test_info = [test_performed |-> FALSE, num_sectors |-> 0]
    /\ device_info = [num_physical_sectors |-> 0, physical_size |-> 0,
                      is_fake_flash |-> "UNKNOWN"]
    /\ real \in 0 .. num_logical_sectors
    /\ cache \in 0 .. num_slices \div 2      \* "no device ... more than 16MB"
    /\ faults = 0
    /\ in_place = TRUE
    /\ blind = FALSE

PlaceSlice ==
    /\ pc = "place"
    /\ \E draw \in Draws :
          LET from == draw_from(i, initial_sectors[i - 1])
          IN  initial_sectors' =
                 [initial_sectors EXCEPT ![i] = from + (draw % (Region * i - from))]
    /\ IF i = num_slices - 2 THEN pc' = "write" /\ i' = num_slices
                             ELSE i' = i + 1 /\ UNCHANGED pc
    /\ UNCHANGED <<low, high, cur, keep_searching, result, medium, faults,
                   in_place, blind>>

----------------------------------------------------------------------------
(* Answers.                                                                *)

Found(num) == capacity_test_info' = [test_performed |-> TRUE, num_sectors |-> num]

\* probe_device_size returned 0, and main() takes the device for num sectors.
Succeed(num) ==
    /\ pc' = "done"
    /\ Found(num)
    /\ device_info' = [num_physical_sectors |-> num,
                       physical_size        |-> num * sector_size,
                       is_fake_flash        |-> IF num = num_logical_sectors
                                                THEN "NO" ELSE "YES"]

\* It returned -1: main() takes the device for what it says it is.
Fail ==
    /\ pc' = "done"
    /\ device_info' = [device_info EXCEPT !.num_physical_sectors = num_logical_sectors]

Search == pc' = "search" /\ UNCHANGED result

\* One of the calls that may fail does.
Fault == faults < MaxFaults /\ faults' = faults + 1

\* An offset in bytes, as lseek gets it: negative from half of Word on.
Offset(s) == (s * sector_size) % Word
CanSeek(s) ==
    /\ Offset(s) < Word \div 2
    /\ Offset(s) <= num_logical_sectors * sector_size

\* The sectors of a slice that come before the first that is not good.
FirstWrong(good) ==
    CHOOSE m \in 0 .. slice_sectors :
        /\ \A j \in 0 .. m - 1 : good[j]
        /\ m = slice_sectors \/ ~good[m]

(* A slice of which m sectors are good is read, and n are found equal.     *)
(* Where the read fails, the file position stays, and the expected data is *)
(* zeroed instead of the data read, and that of the first slice; what the  *)
(* buffer held from before differs, unless that is the slice at hand, and  *)
(* the buffer holds zeroes.                                                *)
Compared(m, n) ==
    \/ n = m /\ UNCHANGED <<faults, in_place, blind>>
    \/ /\ Fault
       /\ in_place' = FALSE
       /\ \E k \in 0 .. slice_sectors - 1 :
             \/ n = (IF m < k THEN m ELSE k) /\ UNCHANGED blind
             \/ /\ i = 0 /\ m >= k
                /\ n = slice_sectors
                /\ blind' = TRUE

----------------------------------------------------------------------------
(* The initial slices, written from the last to the first.                 *)

WriteSlice ==
    /\ pc = "write"
    /\ i' = IF i = 1 THEN 0 ELSE i - 1
    /\ pc' = IF i = 1 THEN "read" ELSE "write"
    /\ UNCHANGED <<initial_sectors, low, high, cur, keep_searching, result,
                   medium, faults, in_place, blind>>

\* A slice overwrites those that were written before it; the cache has the
\* slices that were written last.
Kept(k, s) ==
    /\ s < real \/ k < cache
    /\ \A l \in 0 .. k - 1 :
          s \notin initial_sectors[l] .. initial_sectors[l] + slice_sectors - 1

\* Slice i has m good sectors, and then a bad one or the end.
JudgeInitial(m) ==
    \/ /\ m = slice_sectors                   \* all good: on to the next, and
       /\ low' = initial_sectors[i] + slice_sectors   \* at last, the device is
       /\ i' = i + 1                          \* taken to be genuine
       /\ IF i' = num_slices THEN Succeed(num_logical_sectors)
                             ELSE UNCHANGED <<pc, result>>
       /\ UNCHANGED high
    \/ /\ m = 0 /\ i = 0
       /\ Fail
       /\ UNCHANGED <<i, low, high, capacity_test_info>>
    \/ /\ 0 < m /\ m < slice_sectors
       /\ IF i = 0 THEN Found(m) /\ Fail ELSE Succeed(initial_sectors[i] + m)
       /\ low' = initial_sectors[i] + m
       /\ UNCHANGED <<i, high>>
    \/ /\ m = 0 /\ i > 0
       /\ high' = initial_sectors[i]
       /\ i' = num_slices
       /\ Search
       /\ UNCHANGED low

\* A seek goes before each of these reads.
ReadSlice ==
    /\ pc = "read"
    /\ LET good == [j \in 0 .. slice_sectors - 1 |-> Kept(i, initial_sectors[i] + j)]
       IN  \E n \in 0 .. slice_sectors : Compared(FirstWrong(good), n) /\ JudgeInitial(n)
    /\ UNCHANGED <<initial_sectors, cur, keep_searching, medium>>

----------------------------------------------------------------------------
(* Bisecting.                                                              *)

\* Mutant: sectors are compared with bytes.
narrow_in_bytes(size) == size <= num_slices * slice_sectors * sector_size

\* The gap is no larger than the area: this is the last pass.
narrow(size) == size <= num_slices * slice_sectors

\* The area for a gap; not centered, it begins in the middle.
area(size) == IF narrow(size) THEN low ELSE ((size \div 2) + low) % Word

ChooseArea ==
    LET size == (high - low) % Word
    IN  cur' = area(size) /\ keep_searching' = ~narrow(size)

\* An area at s can be reached and is all on the device.
Writable(s) ==
    /\ CanSeek(s)
    /\ Offset(s) \div sector_size + num_slices * slice_sectors <= num_logical_sectors

WriteArea ==
    /\ pc = "search"
    /\ ChooseArea
    /\ Writable(cur')
    /\ i' = 0
    /\ in_place' = TRUE
    /\ pc' = "verify"
    /\ UNCHANGED <<initial_sectors, low, high, result, medium, faults, blind>>

WriteAreaFails ==
    /\ pc = "search"
    /\ ChooseArea
    /\ IF Writable(cur') THEN Fault ELSE UNCHANGED faults
    /\ Fail
    /\ UNCHANGED <<initial_sectors, i, low, high, capacity_test_info, medium,
                   in_place, blind>>

\* The end of a pass, at which low is l.
NextArea(l) == IF keep_searching THEN Search ELSE Succeed(l)

\* Mutant: all of the area is read back, the cached part too.
read_back_all == num_slices

read_back == Verified

\* Mutant: a bad slice does not lower the upper limit.
high_kept == high

high_lowered == (cur + i * slice_sectors) % Word

JudgeArea(m) ==
    \/ /\ m = slice_sectors
       /\ low' = (cur + read_back * slice_sectors) % Word
       /\ i' = i + 1
       /\ IF i' = read_back THEN NextArea(low') ELSE UNCHANGED <<pc, result>>
       /\ UNCHANGED high
    \/ /\ 0 < m /\ m < slice_sectors
       /\ Succeed((((cur + i * slice_sectors + m) * sector_size) % Word) \div sector_size)
       /\ UNCHANGED <<i, low, high>>
    \/ /\ m = 0
       /\ high' = high_lowered
       /\ i' = read_back
       /\ NextArea(low)
       /\ UNCHANGED low

\* Slice i of the area, read behind the one before without a seek; the cache
\* has the slices at its end.
VerifySlice ==
    /\ pc = "verify"
    /\ LET at   == Offset(cur) \div sector_size + i * slice_sectors
           good == [j \in 0 .. slice_sectors - 1 |->
                       in_place /\ (at + j < real \/ i >= num_slices - cache)]
       IN  \E n \in 0 .. slice_sectors : Compared(FirstWrong(good), n) /\ JudgeArea(n)
    /\ UNCHANGED <<initial_sectors, cur, keep_searching, medium>>

----------------------------------------------------------------------------

\* A seek or a write of the initial slices fails, or a seek to one.
CallFails ==
    /\ pc \in {"write", "read"}
    /\ Fault
    /\ Fail
    /\ UNCHANGED <<initial_sectors, i, low, high, cur, keep_searching,
                   capacity_test_info, medium, in_place, blind>>

Next == PlaceSlice \/ WriteSlice \/ ReadSlice \/ CallFails
        \/ WriteArea \/ WriteAreaFails \/ VerifySlice

Spec == Init /\ [][Next]_vars

(* Nothing else runs in the program meanwhile; every call returns. *)
FairSpec == Spec /\ WF_vars(Next)

----------------------------------------------------------------------------

(* The types of the variables; no slice reaches beyond the device. *)
TypeOK ==
    /\ pc \in {"place", "write", "read", "search", "verify", "done"}
    /\ initial_sectors \in [0 .. num_slices - 1 ->
                            0 .. num_logical_sectors - slice_sectors]
    /\ i \in 0 .. num_slices
    /\ {low, high, cur} \subseteq 0 .. Word - 1
    /\ keep_searching \in BOOLEAN
    /\ capacity_test_info \in [test_performed : BOOLEAN, num_sectors : Nat]
    /\ device_info \in [num_physical_sectors : Nat, physical_size : Nat,
                        is_fake_flash : {"UNKNOWN", "YES", "NO"}]
    /\ real \in 0 .. num_logical_sectors
    /\ cache \in 0 .. num_slices
    /\ faults \in 0 .. MaxFaults
    /\ {in_place, blind} \subseteq BOOLEAN

\* The slices still in the cache when they are read back tell nothing; that
\* there is no storage under one of them goes unnoticed.
Misled == cache > 0 /\ real < initial_sectors[cache - 1] + slice_sectors

(* A device that is what it says is found to be so, wherever the random    *)
(* slices are and whatever it caches: no slice destroys another.           *)
GenuineFound ==
    pc = "done" /\ real = num_logical_sectors /\ faults = 0
        => /\ device_info.num_physical_sectors = real
           /\ device_info.is_fake_flash = "NO"

(* The size that is answered does not exceed what the device has by more   *)
(* than the slices of the last area that are read back behind the first:   *)
(* the endurance test is not run on much that does not exist.  Excepted are*)
(* the last sector, which no slice covers, slices that were read from the  *)
(* cache, and slices that could not be read.                               *)
NotTooLarge ==
    pc = "done" /\ device_info.is_fake_flash # "UNKNOWN" /\ ~blind /\ ~Misled
        => \/ device_info.num_physical_sectors <= real + (Verified - 1) * slice_sectors
           \/ real = num_logical_sectors - 1

(* Nor is it much less: the end of what is read back of the last area may  *)
(* be taken for that of the device's storage.                              *)
NotMuchTooSmall ==
    pc = "done" /\ device_info.is_fake_flash # "UNKNOWN" /\ faults = 0
        => real <= device_info.num_physical_sectors
                     + (num_slices - Verified) * slice_sectors

(* The test ends, also when high has got below low and their difference    *)
(* wraps around.                                                           *)
ProbeEnds == <>(pc = "done")
=============================================================================
