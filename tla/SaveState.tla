------------------------------- MODULE SaveState -------------------------------
(***************************************************************************)
(* The state file of mfst: what save_state keeps of an endurance test, in  *)
(* which steps, and what load_state and main() make of it when the program *)
(* is started again.  The program may be killed between any two steps.     *)
(*                                                                         *)
(* The endurance test is seen from here as rounds in which sectors are     *)
(* found to be bad; EnduranceTest says how.  The flags of a sector are     *)
(* those that outlive a round.                                             *)
(***************************************************************************)
EXTENDS Integers, FiniteSets

CONSTANTS
    Sectors,         \* the sectors of the device (num_physical_sectors of them)
    Thresholds,      \* what rounds_to_* is kept for
    sectors_to,      \* the bad sectors at which each threshold is crossed
    MaxRounds,       \* bound: rounds of a test
    MaxBad           \* bound: sectors found to be bad

NumSectors == Cardinality(Sectors)

ASSUME SaveStateAssumption ==
    /\ IsFiniteSet(Sectors)
    /\ sectors_to \in [Thresholds -> 1 .. NumSectors]
    /\ MaxRounds \in Nat
    /\ MaxBad \in Nat

VARIABLES
    pc,                 \* where main() is, or that the program does not run
    saving,             \* how far save_state has got
    rounds_completed,
    sector_map,         \* the flags of each sector
    total_bad_sectors,
    rounds_to,          \* rounds_to_first_error, rounds_to_*_threshold
    measured,           \* whether the device's size and speeds are known, not 0
    state_file,         \* whether program_options.state_file is (still) set
    disk,               \* the state file
    temp,               \* the temporary file beside it
    begun,              \* history: how the last round began whose start was saved
    tally               \* history: the bad sectors there were at the end of
                        \* each round of the test

test == <<rounds_completed, sector_map, total_bad_sectors, rounds_to, measured>>
vars == <<pc, saving, test, state_file, disk, temp, begun, tally>>

Never  == -1            \* -1ULL
NoFile == [file |-> "none"]
Torn   == [file |-> "torn"]     \* part of a file
NoRun  == [rounds |-> Never]

Flags == {"DO_NOT_USE", "FAILED"}
Flagged(f) == {s \in Sectors : f \in sector_map[s]}

----------------------------------------------------------------------------
(* The file.                                                               *)

\* Mutant: the rounds are counted from one, as on the screen.
ImageOnScreen ==
    [file     |-> "whole",
     rounds   |-> rounds_completed + 1,
     bad      |-> Flagged("FAILED"),
     unusable |-> Flagged("DO_NOT_USE"),
     dated    |-> rounds_to,
     measured |-> measured]

\* What save_state writes.
Image ==
    [file     |-> "whole",
     rounds   |-> rounds_completed,
     bad      |-> Flagged("FAILED"),
     unusable |-> Flagged("DO_NOT_USE"),
     dated    |-> rounds_to,
     measured |-> measured]

\* load_state takes a file in which no number is zero; the rounds of the
\* thresholds that have not been crossed are left out of it.
Loadable(f) ==
    /\ f.file = "whole"
    /\ f.rounds # 0
    /\ f.measured
    /\ \A t \in Thresholds : f.dated[t] # 0

\* The sector map unpacked.  The second bit of a sector, which save_state takes
\* from DO_NOT_USE, becomes FAILED_THIS_ROUND, which reset_sector_map clears
\* before anything looks at it.
Unpacked(f) == [s \in Sectors |-> IF s \in f.bad THEN {"FAILED"} ELSE {}]

\* Mutant: total_bad_sectors is what the new context starts with.
bad_sectors_uncounted(f) == 0

\* total_bad_sectors is not in the file; main() counts it.
bad_sectors_counted(f) == Cardinality(f.bad)

\* Mutant: main() sets the dates anew whether or not it resumes.
dates_lost(f) == [t \in Thresholds |-> Never]

\* Only a new test starts without dates.
dates_kept(f) == f.dated

----------------------------------------------------------------------------
(* Starting the program.                                                   *)

\* new_device_testing_context, and the options parsed again.
NewContext ==
    /\ rounds_completed' = 0
    /\ sector_map' = [s \in Sectors |-> {}]
    /\ total_bad_sectors' = 0
    /\ rounds_to' = [t \in Thresholds |-> Never]
    /\ state_file' = TRUE

(* The state file is loaded and its device found.  Where the device is not *)
(* found, or another one is named, the program ends without having changed *)
(* anything; where none is named it waits for it.                          *)
Resume ==
    /\ pc = "down"
    /\ Loadable(disk)
    /\ rounds_completed' = disk.rounds
    /\ sector_map' = Unpacked(disk)
    /\ total_bad_sectors' = bad_sectors_counted(disk)
    /\ rounds_to' = dates_kept(disk)
    /\ measured' = disk.measured
    /\ state_file' = TRUE
    /\ pc' = "loop"
    /\ UNCHANGED <<saving, disk, temp, begun, tally>>

(* There is no state file, or it cannot be loaded and the user lets the    *)
(* warning pass.  The device must be named on the command line.  Its size  *)
(* or its speeds stay 0 where the test for them fails or is skipped.       *)
StartAnew ==
    /\ pc = "down"
    /\ ~Loadable(disk)
    /\ NewContext
    /\ measured' \in BOOLEAN
    /\ pc' = "loop"
    /\ UNCHANGED <<saving, disk, temp, begun, tally>>

----------------------------------------------------------------------------
(* save_state.                                                             *)

\* The file is put together (realpath of the other files may fail) and the
\* temporary file opened; json_object_to_file writes it piece by piece.
SaveStarts ==
    /\ saving = "called"
    /\ temp' = Torn
    /\ saving' = "writing"
    /\ UNCHANGED <<pc, test, state_file, disk, begun, tally>>

\* Mutant: the state file itself is written.
SavedInPlace ==
    /\ saving = "writing"
    /\ \/ disk' = Torn /\ temp' = Image /\ saving' = "written"
       \/ disk' = Torn /\ temp' = Torn /\ saving' = "failed"
    /\ UNCHANGED <<pc, test, state_file, begun, tally>>

\* The temporary file is complete, or could not be completed.
SaveWritten ==
    /\ saving = "writing"
    /\ \/ temp' = Image /\ saving' = "written"
       \/ temp' = Torn /\ saving' = "failed"
    /\ UNCHANGED <<pc, test, state_file, disk, begun, tally>>

\* It is moved over the state file.
SaveRenamed ==
    /\ saving = "written"
    /\ disk' = temp
    /\ temp' = NoFile
    /\ saving' = "no"
    /\ begun' = IF pc # "begin" THEN begun
                ELSE [rounds |-> rounds_completed, dated |-> rounds_to,
                      bad |-> Flagged("FAILED")]
    /\ UNCHANGED <<pc, test, state_file, tally>>

\* It cannot be, and is deleted; or nothing was written at all.
SaveNotDone ==
    /\ \/ saving = "written" /\ temp' = NoFile
       \/ saving = "called" /\ temp' = temp
    /\ saving' = "failed"
    /\ UNCHANGED <<pc, test, state_file, disk, begun, tally>>

\* Whoever called save_state turns saving off for the rest of the run.
SaveFailed ==
    /\ saving = "failed"
    /\ state_file' = FALSE
    /\ saving' = "no"
    /\ UNCHANGED <<pc, test, disk, temp, begun, tally>>

CallSave == saving' = IF state_file THEN "called" ELSE "no"

----------------------------------------------------------------------------
(* The endurance test.                                                     *)

HalfBad == total_bad_sectors >= NumSectors \div 2

\* What the program had in memory is lost.  The history is that of the rounds
\* that a restart will not repeat.
Stop ==
    /\ pc' = "down"
    /\ saving' = "no"
    /\ NewContext
    /\ measured' = FALSE
    /\ begun' = IF Loadable(disk) THEN begun ELSE NoRun
    /\ tally' = [r \in 0 .. MaxRounds - 1 |->
                   IF Loadable(disk) /\ r < disk.rounds THEN tally[r] ELSE Never]
    /\ UNCHANGED <<disk, temp>>

\* Half of the sectors are bad: the test is over.  The state file stays.
Finish ==
    /\ pc = "loop" /\ HalfBad
    /\ Stop

\* The head of the round loop: the state is saved after the first round.
StartRound ==
    /\ pc = "loop" /\ ~HalfBad
    /\ rounds_completed < MaxRounds
    /\ IF rounds_completed > 0 THEN CallSave ELSE saving' = "no"
    /\ pc' = "begin"
    /\ UNCHANGED <<test, state_file, disk, temp, begun, tally>>

\* reset_sector_map, which leaves these flags alone; the round's writing begins.
StartWriting ==
    /\ pc = "begin" /\ saving = "no"
    /\ sector_map' = [s \in Sectors |-> sector_map[s] \cap {"DO_NOT_USE", "FAILED"}]
    /\ pc' = "write"
    /\ UNCHANGED <<saving, rounds_completed, total_bad_sectors, rounds_to, measured,
                   state_file, disk, temp, begun, tally>>

MarkBad(s, fs) ==
    /\ Cardinality(Flagged("FAILED") \cup {s}) <= MaxBad
    /\ sector_map' = [sector_map EXCEPT ![s] = @ \cup {"FAILED"} \cup fs]
    /\ total_bad_sectors' = total_bad_sectors
                              + (IF "FAILED" \in sector_map[s] THEN 0 ELSE 1)

\* A sector cannot be written or read.
FindUnusable(s) ==
    /\ pc \in {"write", "read"} /\ saving = "no"
    /\ "DO_NOT_USE" \notin sector_map[s]
    /\ MarkBad(s, {"DO_NOT_USE"})
    /\ UNCHANGED <<pc, saving, rounds_completed, rounds_to, measured, state_file, disk,
                   temp, begun, tally>>

\* A sector is not read back as it was written.
FindBad(s) ==
    /\ pc = "read" /\ saving = "no"
    /\ MarkBad(s, {})
    /\ UNCHANGED <<pc, saving, rounds_completed, rounds_to, measured, state_file, disk,
                   temp, begun, tally>>

\* A block at the beginning or in the middle of the device has been written:
\* update_bod_buffer or update_mod_buffer saves the state there and then.
BlockSaves ==
    /\ pc = "write" /\ saving = "no" /\ state_file
    /\ CallSave
    /\ UNCHANGED <<pc, test, state_file, disk, temp, begun, tally>>

StartReading ==
    /\ pc = "write" /\ saving = "no"
    /\ pc' = "read"
    /\ UNCHANGED <<saving, test, state_file, disk, temp, begun, tally>>

\* perform_end_of_round_summary, and on to the next round.
EndRound ==
    /\ pc = "read"
    /\ rounds_to' = [t \in Thresholds |->
                       IF rounds_to[t] = Never /\ total_bad_sectors >= sectors_to[t]
                       THEN rounds_completed ELSE rounds_to[t]]
    /\ tally' = [tally EXCEPT ![rounds_completed] = total_bad_sectors]
    /\ rounds_completed' = rounds_completed + 1
    /\ pc' = "loop"
    /\ UNCHANGED <<saving, sector_map, total_bad_sectors, measured, state_file, disk,
                   temp, begun>>

----------------------------------------------------------------------------

\* The process is killed.  (It ends in the same way, and saves nothing, where it
\* gives the device up.)
Crash ==
    /\ pc # "down"
    /\ Stop

Init ==
    /\ pc = "down"
    /\ saving = "no"
    /\ rounds_completed = 0
    /\ sector_map = [s \in Sectors |-> {}]
    /\ total_bad_sectors = 0
    /\ rounds_to = [t \in Thresholds |-> Never]
    /\ measured = FALSE
    /\ state_file = TRUE
    /\ disk = NoFile
    /\ temp = NoFile
    /\ begun = NoRun
    /\ tally = [r \in 0 .. MaxRounds - 1 |-> Never]

Next ==
    \/ Resume \/ StartAnew
    \/ SaveStarts \/ SaveWritten \/ SaveRenamed \/ SaveNotDone \/ SaveFailed
    \/ Finish \/ StartRound \/ StartWriting \/ BlockSaves \/ StartReading \/ EndRound
    \/ \E s \in Sectors : FindUnusable(s) \/ FindBad(s)
    \/ Crash

Spec == Init /\ [][Next]_vars

----------------------------------------------------------------------------

Files ==
    {NoFile, Torn} \cup
    [file : {"whole"}, rounds : 0 .. MaxRounds, bad : SUBSET Sectors,
     unusable : SUBSET Sectors, dated : [Thresholds -> Never .. MaxRounds],
     measured : BOOLEAN]

(* The types of the variables.  The state file is at no point part of one, *)
(* wherever save_state fails or is interrupted.                            *)
TypeOK ==
    /\ pc \in {"down", "loop", "begin", "write", "read"}
    /\ saving \in {"no", "called", "writing", "written", "failed"}
    /\ rounds_completed \in 0 .. MaxRounds
    /\ sector_map \in [Sectors -> SUBSET Flags]
    /\ total_bad_sectors \in 0 .. NumSectors
    /\ rounds_to \in [Thresholds -> Never .. MaxRounds]
    /\ measured \in BOOLEAN
    /\ state_file \in BOOLEAN
    /\ disk \in Files \ {Torn}
    /\ temp \in Files

(* The count of the bad sectors, which is not saved, and the map, which    *)
(* is, agree whatever restarts there have been.                            *)
BadCountMatchesMap == total_bad_sectors = Cardinality(Flagged("FAILED"))

(* Each threshold is dated with the first round at the end of which enough *)
(* sectors were bad, over all the runs of the program the test took.       *)
DatesOutliveRestarts ==
    pc = "loop" => \A t \in Thresholds :
        LET crossed == {r \in 0 .. MaxRounds - 1 : tally[r] >= sectors_to[t]}
        IN  rounds_to[t] = IF crossed = {} THEN Never
                           ELSE CHOOSE r \in crossed : \A q \in crossed : r <= q

(* A restart that takes the state file up loses what was found in the      *)
(* round it interrupted, and no more: it begins with that round again, and *)
(* knows the sectors that were bad and the dates of the thresholds when    *)
(* that round began.  (A round whose start could not be saved is lost too, *)
(* with those that followed.)                                              *)
RestartLosesOnlyTheRound ==
    [][pc = "down" /\ pc' = "loop" /\ Loadable(disk) =>
         /\ rounds_completed' = begun.rounds
         /\ rounds_to' = begun.dated
         /\ begun.bad \subseteq Flagged("FAILED")']_vars

----------------------------------------------------------------------------
(* What the program's documentation says, and the code does not do.        *)

(* README.md: "If the program is terminated for some reason, you can       *)
(* resume it from the start of the most recent round of testing", once     *)
(* "at least one round" is completed: what was saved then can be loaded,   *)
(* at least where the tests before the endurance test gave their results.  *)
SavedRoundLoads == begun # NoRun /\ disk.measured => Loadable(disk)

(* save_state, on the sector map: "all we're concerned about is the bad    *)
(* sector flag and the unwritable flag": sectors not to be used are still  *)
(* not to be used after a restart.                                         *)
UnusableOutlivesRestart ==
    [][pc = "down" /\ pc' = "loop" /\ Loadable(disk) =>
         disk.unusable \subseteq Flagged("DO_NOT_USE")']_vars

================================================================================
