---------------------------- MODULE SaveStateProofs ----------------------------
(***************************************************************************)
(* Proofs about SaveState, for any device, thresholds, number of rounds    *)
(* and of bad sectors, and any number of crashes and restarts.             *)
(***************************************************************************)
EXTENDS SaveState, FiniteSetTheorems, TLAPS

----------------------------------------------------------------------------
(* Bad sectors.                                                            *)

LEMMA SectorSets ==
    /\ NumSectors \in Nat
    /\ \A S \in SUBSET Sectors : /\ IsFiniteSet(S)
                                 /\ Cardinality(S) \in 0 .. NumSectors
<1>1. IsFiniteSet(Sectors) /\ NumSectors \in Nat
  BY SaveStateAssumption, FS_CardinalityType DEF NumSectors
<1>2. ASSUME NEW S \in SUBSET Sectors
      PROVE  IsFiniteSet(S) /\ Cardinality(S) \in 0 .. NumSectors
  BY <1>1, FS_Subset, FS_CardinalityType DEF NumSectors
<1> QED BY <1>1, <1>2

\* mark_sector_bad keeps the count beside the flag.
LEMMA MarkedCounted ==
    ASSUME sector_map \in [Sectors -> SUBSET Flags], BadCountMatchesMap,
           NEW s \in Sectors, NEW fs \in SUBSET Flags, MarkBad(s, fs)
    PROVE  /\ sector_map' \in [Sectors -> SUBSET Flags]
           /\ BadCountMatchesMap'
           /\ Flagged("FAILED") \subseteq Flagged("FAILED")'
<1>1. sector_map' = [sector_map EXCEPT ![s] = @ \cup {"FAILED"} \cup fs]
  BY DEF MarkBad
<1>2. Flagged("FAILED")' = Flagged("FAILED") \cup {s}
  BY <1>1 DEF Flagged
<1>3. IsFiniteSet(Flagged("FAILED")) /\ Cardinality(Flagged("FAILED")) \in Nat
  BY SectorSets DEF Flagged
<1>4. Cardinality(Flagged("FAILED")') =
        Cardinality(Flagged("FAILED")) + (IF s \in Flagged("FAILED") THEN 0 ELSE 1)
  BY <1>2, <1>3, FS_AddElement
<1>5. s \in Flagged("FAILED") <=> "FAILED" \in sector_map[s]
  BY DEF Flagged
<1>6. BadCountMatchesMap'
  BY <1>4, <1>5 DEF BadCountMatchesMap, MarkBad
<1> QED BY <1>1, <1>2, <1>6 DEF Flags

----------------------------------------------------------------------------
(* Types.                                                                  *)

\* save_state runs only where it is called, and while it does the test stands
\* still, so that the file is what the test was when it was called.
Saves ==
    /\ saving # "no" => pc \in {"begin", "write"} /\ state_file
    /\ saving = "written" => temp = Image
    /\ pc \in {"begin", "write", "read"} => rounds_completed < MaxRounds

TypeInv == TypeOK /\ BadCountMatchesMap /\ Saves

LEMMA NoneFlagged ==
    ASSUME NEW map, map = [s \in Sectors |-> {}]
    PROVE  /\ map \in [Sectors -> SUBSET Flags]
           /\ Cardinality({s \in Sectors : "FAILED" \in map[s]}) = 0
<1>1. {s \in Sectors : "FAILED" \in map[s]} = {}
  OBVIOUS
<1> QED BY <1>1, FS_EmptySet

LEMMA ImageType == TypeOK => Image \in Files \ {Torn}
  BY DEF TypeOK, Image, Files, Flagged, Torn

LEMMA TypeInit == Init => TypeInv
<1> SUFFICES ASSUME Init PROVE TypeInv
  OBVIOUS
<1>1. BadCountMatchesMap
  BY NoneFlagged DEF Init, BadCountMatchesMap, Flagged
<1>2. Saves
  BY DEF Init, Saves
<1>3. NoFile \in Files \ {Torn}
  <2>1. NoFile.file # Torn.file
    BY DEF NoFile, Torn
  <2> QED BY <2>1 DEF Files
<1>4. rounds_to \in [Thresholds -> Never .. MaxRounds]
  BY SaveStateAssumption DEF Init, Never
<1>5. sector_map \in [Sectors -> SUBSET Flags] /\ total_bad_sectors \in 0 .. NumSectors
  BY NoneFlagged, SectorSets DEF Init
<1>6. rounds_completed \in 0 .. MaxRounds
  BY SaveStateAssumption DEF Init
<1>7. disk \in Files \ {Torn} /\ temp \in Files
  BY <1>3 DEF Init
<1>8. TypeOK
  BY <1>4, <1>5, <1>6, <1>7 DEF Init, TypeOK
<1> QED BY <1>1, <1>2, <1>8 DEF TypeInv

\* new_device_testing_context.
LEMMA NewContextType ==
    ASSUME NewContext
    PROVE  /\ rounds_completed' \in 0 .. MaxRounds
           /\ sector_map' \in [Sectors -> SUBSET Flags]
           /\ total_bad_sectors' \in 0 .. NumSectors
           /\ rounds_to' \in [Thresholds -> Never .. MaxRounds]
           /\ state_file' \in BOOLEAN
           /\ BadCountMatchesMap'
  BY NoneFlagged, SectorSets, SaveStateAssumption
     DEF NewContext, BadCountMatchesMap, Flagged, Never

\* Steps that leave the test as it is.
LEMMA TestUnchanged ==
    ASSUME TypeInv, UNCHANGED test
    PROVE  /\ BadCountMatchesMap'
           /\ Image' = Image
           /\ rounds_completed' \in 0 .. MaxRounds
           /\ sector_map' \in [Sectors -> SUBSET Flags]
           /\ total_bad_sectors' \in 0 .. NumSectors
           /\ rounds_to' \in [Thresholds -> Never .. MaxRounds]
           /\ measured' \in BOOLEAN
  BY DEF TypeInv, TypeOK, BadCountMatchesMap, Flagged, Image, test

LEMMA StopType ==
    ASSUME TypeInv, Stop PROVE TypeInv'
  BY NewContextType DEF Stop, TypeInv, TypeOK, Saves

LEMMA TypeNext == TypeInv /\ [Next]_vars => TypeInv'
<1> SUFFICES ASSUME TypeInv, [Next]_vars PROVE TypeInv'
  OBVIOUS
<1> USE DEF TypeInv
<1>1. CASE Resume
  <2>1. disk \in [file : {"whole"}, rounds : 0 .. MaxRounds, bad : SUBSET Sectors,
                  unusable : SUBSET Sectors, dated : [Thresholds -> Never .. MaxRounds],
                  measured : BOOLEAN]
    BY <1>1 DEF Resume, Loadable, TypeOK, Files, NoFile, Torn
  <2>2. Flagged("FAILED")' = disk.bad
    BY <1>1, <2>1 DEF Resume, Unpacked, Flagged
  <2>3. BadCountMatchesMap'
    BY <1>1, <2>2 DEF Resume, bad_sectors_counted, BadCountMatchesMap
  <2>4. total_bad_sectors' \in 0 .. NumSectors
    BY <1>1, <2>1, SectorSets DEF Resume, bad_sectors_counted
  <2>5. sector_map' \in [Sectors -> SUBSET Flags]
    BY <1>1 DEF Resume, Unpacked, Flags
  <2>6. TypeOK'
    BY <1>1, <2>1, <2>4, <2>5 DEF Resume, dates_kept, TypeOK
  <2>7. Saves'
    BY <1>1 DEF Resume, Saves
  <2> QED BY <2>3, <2>6, <2>7
<1>2. CASE StartAnew
  BY <1>2, NewContextType DEF StartAnew, TypeOK, Saves
<1>3. CASE SaveStarts \/ SaveNotDone
  <2>1. UNCHANGED test
    BY <1>3 DEF SaveStarts, SaveNotDone
  <2>2. TypeOK'
    BY <1>3, <2>1, TestUnchanged DEF SaveStarts, SaveNotDone, TypeOK, Files
  <2>3. Saves'
    BY <1>3 DEF SaveStarts, SaveNotDone, test, Saves
  <2> QED BY <2>1, <2>2, <2>3, TestUnchanged
<1>4. CASE SaveWritten
  <2>1. UNCHANGED test
    BY <1>4 DEF SaveWritten
  <2>2. TypeOK'
    BY <1>4, <2>1, TestUnchanged, ImageType DEF SaveWritten, TypeOK, Files
  <2>3. Saves'
    BY <1>4, <2>1, TestUnchanged DEF SaveWritten, test, Saves
  <2> QED BY <2>1, <2>2, <2>3, TestUnchanged
<1>5. CASE SaveRenamed
  <2>1. UNCHANGED test /\ disk' = Image
    BY <1>5 DEF SaveRenamed, Saves
  <2>2. TypeOK'
    BY <1>5, <2>1, TestUnchanged, ImageType DEF SaveRenamed, TypeOK, Files
  <2>3. Saves'
    BY <1>5 DEF SaveRenamed, test, Saves
  <2> QED BY <2>1, <2>2, <2>3, TestUnchanged
<1>6. CASE SaveFailed
  <2>1. UNCHANGED test
    BY <1>6 DEF SaveFailed
  <2> QED BY <1>6, <2>1, TestUnchanged DEF SaveFailed, TypeOK, Saves, test
<1>7. CASE Finish \/ Crash
  BY <1>7, StopType DEF Finish, Crash
<1>8. CASE StartRound
  <2>1. UNCHANGED test
    BY <1>8 DEF StartRound
  <2> QED
    BY <1>8, <2>1, TestUnchanged, SaveStateAssumption
    DEF StartRound, CallSave, TypeOK, Saves, test
<1>9. CASE StartWriting
  <2>1. \A s \in Sectors : sector_map'[s] = sector_map[s]
    BY <1>9 DEF StartWriting, TypeOK, Flags
  <2>2. Flagged("FAILED")' = Flagged("FAILED")
    BY <2>1 DEF Flagged
  <2> QED
    BY <1>9, <2>2 DEF StartWriting, TypeOK, Flags, Saves, BadCountMatchesMap
<1>10. CASE \E s \in Sectors : FindUnusable(s) \/ FindBad(s)
  <2> PICK s \in Sectors : FindUnusable(s) \/ FindBad(s)
    BY <1>10
  <2>1. PICK fs \in SUBSET Flags : MarkBad(s, fs)
    BY DEF FindUnusable, FindBad, Flags
  <2>2. sector_map' \in [Sectors -> SUBSET Flags] /\ BadCountMatchesMap'
    BY <2>1, MarkedCounted DEF TypeOK
  <2>3. total_bad_sectors' \in 0 .. NumSectors
    <3>1. Flagged("FAILED")' \in SUBSET Sectors
      BY DEF Flagged
    <3> QED BY <2>2, <3>1, SectorSets DEF BadCountMatchesMap
  <2>4. TypeOK'
    BY <2>2, <2>3 DEF FindUnusable, FindBad, TypeOK
  <2>5. Saves'
    BY DEF FindUnusable, FindBad, Saves
  <2> QED BY <2>2, <2>4, <2>5
<1>11. CASE BlockSaves
  <2>1. UNCHANGED test
    BY <1>11 DEF BlockSaves
  <2> QED
    BY <1>11, <2>1, TestUnchanged DEF BlockSaves, CallSave, TypeOK, Saves, test
<1>12. CASE StartReading
  <2>1. UNCHANGED test
    BY <1>12 DEF StartReading
  <2> QED BY <1>12, <2>1, TestUnchanged DEF StartReading, TypeOK, Saves, test
<1>13. CASE EndRound
  <2>1. rounds_completed' \in 0 .. MaxRounds
    BY <1>13, SaveStateAssumption DEF EndRound, TypeOK, Saves
  <2>2. rounds_to' \in [Thresholds -> Never .. MaxRounds]
    BY <1>13, SaveStateAssumption DEF EndRound, TypeOK, Never
  <2>3. BadCountMatchesMap'
    BY <1>13 DEF EndRound, BadCountMatchesMap, Flagged
  <2>4. TypeOK'
    BY <1>13, <2>1, <2>2 DEF EndRound, TypeOK
  <2> QED BY <1>13, <2>3, <2>4 DEF EndRound, Saves
<1>14. CASE UNCHANGED vars
  BY <1>14, TestUnchanged DEF vars, test, TypeOK, Saves
<1> QED
  BY <1>1, <1>2, <1>3, <1>4, <1>5, <1>6, <1>7, <1>8, <1>9, <1>10, <1>11, <1>12,
     <1>13, <1>14
  DEF Next

(* Every variable keeps its type; above all, the state file is never part  *)
(* of a file, wherever save_state fails or is killed.                      *)
THEOREM SaveStateTypeCorrect == Spec => []TypeOK
<1>1. TypeInv => TypeOK
  BY DEF TypeInv
<1> QED BY <1>1, TypeInit, TypeNext, PTL DEF Spec

(* The count of the bad sectors and the map agree, although one is saved   *)
(* and the other counted again.                                            *)
THEOREM SavedCountExact == Spec => []BadCountMatchesMap
<1>1. TypeInv => BadCountMatchesMap
  BY DEF TypeInv
<1> QED BY <1>1, TypeInit, TypeNext, PTL DEF Spec

----------------------------------------------------------------------------
(* What a restart finds.                                                   *)

\* A file that can be loaded was saved in the round whose start was saved last;
\* as long as saving goes on, that is the round the test is in.
BegunInv ==
    /\ Loadable(disk) =>
         /\ disk.rounds = begun.rounds
         /\ disk.dated = begun.dated
         /\ begun.bad \subseteq disk.bad
    /\ /\ pc = "write" \/ (pc = "begin" /\ saving = "no")
       /\ state_file /\ rounds_completed > 0
       => /\ begun.rounds = rounds_completed
          /\ begun.dated = rounds_to
          /\ begun.bad \subseteq Flagged("FAILED")

LEMMA BegunInit == Init => BegunInv
  BY DEF Init, BegunInv, Loadable, NoFile

\* Steps that touch neither the file nor the history, and lose no bad sector.
LEMMA BegunKept ==
    ASSUME BegunInv, UNCHANGED <<disk, begun, rounds_to, rounds_completed>>,
           Flagged("FAILED") \subseteq Flagged("FAILED")',
           \/ ~state_file' \/ pc' \notin {"begin", "write"}
           \/ state_file /\ (pc = "write" \/ (pc = "begin" /\ saving = "no"))
           \/ pc' = "begin" /\ (saving' # "no" \/ rounds_completed = 0)
    PROVE  BegunInv'
  BY DEF BegunInv, Loadable

LEMMA BegunNext == TypeInv /\ BegunInv /\ [Next]_vars => BegunInv'
<1> SUFFICES ASSUME TypeInv, BegunInv, [Next]_vars PROVE BegunInv'
  OBVIOUS
<1>1. CASE Resume \/ StartAnew
  BY <1>1 DEF Resume, StartAnew, BegunInv, Loadable
<1>2. CASE SaveRenamed
  <2>1. disk' = Image
    BY <1>2 DEF SaveRenamed, TypeInv, Saves
  <2>2. pc \in {"begin", "write"} /\ rounds_completed \in Nat /\ state_file
    BY <1>2 DEF SaveRenamed, TypeInv, Saves, TypeOK
  <2>3. Flagged("FAILED")' = Flagged("FAILED")
    BY <1>2 DEF SaveRenamed, test, Flagged
  <2>4. CASE pc = "begin"
    BY <1>2, <2>1, <2>3, <2>4 DEF SaveRenamed, Image, BegunInv, test
  <2>5. CASE pc = "write"
    <3>1. begun' = begun
      BY <1>2, <2>5 DEF SaveRenamed
    <3>2. Loadable(disk)' => rounds_completed > 0
      BY <2>1, <2>2 DEF Loadable, Image
    <3>3. disk'.rounds = rounds_completed /\ disk'.dated = rounds_to
          /\ disk'.bad = Flagged("FAILED")
      BY <2>1 DEF Image
    <3> QED
      BY <1>2, <2>2, <2>3, <2>5, <3>1, <3>2, <3>3 DEF SaveRenamed, BegunInv, test
  <2> QED BY <2>2, <2>4, <2>5
<1>3. CASE SaveStarts \/ SaveWritten \/ SaveNotDone \/ SaveFailed \/ BlockSaves
           \/ StartRound \/ StartReading \/ UNCHANGED vars
  <2>1. Flagged("FAILED")' = Flagged("FAILED")
    BY <1>3
    DEF SaveStarts, SaveWritten, SaveNotDone, SaveFailed, BlockSaves, StartRound,
        StartReading, vars, test, Flagged
  <2>2. saving # "no" => pc \in {"begin", "write"} /\ state_file
    BY DEF TypeInv, Saves
  <2>3. rounds_completed \in Nat /\ state_file \in BOOLEAN
    BY DEF TypeInv, TypeOK
  <2>4. CASE SaveStarts \/ SaveWritten \/ SaveNotDone
    <3>1. saving' # "no" /\ UNCHANGED <<pc, state_file, disk, begun, test>> /\ saving # "no"
      BY <2>4 DEF SaveStarts, SaveWritten, SaveNotDone
    <3> QED BY <2>1, <2>2, <3>1, BegunKept DEF test
  <2>5. CASE SaveFailed
    BY <2>1, <2>5, BegunKept DEF SaveFailed, test
  <2>6. CASE BlockSaves
    BY <2>1, <2>6, BegunKept DEF BlockSaves, test
  <2>7. CASE StartRound
    BY <2>1, <2>3, <2>7, BegunKept DEF StartRound, CallSave, test
  <2>8. CASE StartReading
    BY <2>1, <2>8, BegunKept DEF StartReading, test
  <2>9. CASE UNCHANGED vars
    BY <2>1, <2>9 DEF vars, test, BegunInv
  <2> QED BY <1>3, <2>4, <2>5, <2>6, <2>7, <2>8, <2>9
<1>4. CASE Finish \/ Crash
  BY <1>4 DEF Finish, Crash, Stop, BegunInv
<1>5. CASE StartWriting
  <2>1. Flagged("FAILED") \subseteq Flagged("FAILED")'
    BY <1>5 DEF StartWriting, Flagged
  <2> QED BY <1>5, <2>1, BegunKept DEF StartWriting, TypeInv, TypeOK
<1>6. CASE \E s \in Sectors : FindUnusable(s) \/ FindBad(s)
  <2> PICK s \in Sectors : FindUnusable(s) \/ FindBad(s)
    BY <1>6
  <2>1. PICK fs \in SUBSET Flags : MarkBad(s, fs)
    BY DEF FindUnusable, FindBad, Flags
  <2>2. Flagged("FAILED") \subseteq Flagged("FAILED")'
    BY <2>1, MarkedCounted DEF TypeInv, TypeOK
  <2> QED BY <2>2, BegunKept DEF FindUnusable, FindBad, TypeInv, TypeOK
<1>7. CASE EndRound
  BY <1>7 DEF EndRound, BegunInv
<1> QED
  BY <1>1, <1>2, <1>3, <1>4, <1>5, <1>6, <1>7 DEF Next

(* A restart from a file begins again with the round whose start was saved *)
(* last, and knows the bad sectors and the dates there were then, whatever *)
(* was interrupted and however often.                                      *)
THEOREM OnlyTheRoundLost == Spec => RestartLosesOnlyTheRound
<1>1. TypeInv /\ BegunInv /\ [Next]_vars =>
        [pc = "down" /\ pc' = "loop" /\ Loadable(disk) =>
           /\ rounds_completed' = begun.rounds
           /\ rounds_to' = begun.dated
           /\ begun.bad \subseteq Flagged("FAILED")']_vars
  <2> SUFFICES ASSUME TypeInv, BegunInv, Next,
                      pc = "down", pc' = "loop", Loadable(disk)
               PROVE  /\ rounds_completed' = begun.rounds
                      /\ rounds_to' = begun.dated
                      /\ begun.bad \subseteq Flagged("FAILED")'
    OBVIOUS
  <2>1. Resume
    BY DEF Next, StartAnew, SaveStarts, SaveWritten, SaveRenamed, SaveNotDone, SaveFailed,
           Finish, StartRound, StartWriting, BlockSaves, StartReading, EndRound,
           FindUnusable, FindBad, Crash
  <2>2. disk.bad \subseteq Sectors
    BY DEF Loadable, TypeInv, TypeOK, Files, NoFile, Torn
  <2>3. Flagged("FAILED")' = disk.bad
    BY <2>1, <2>2 DEF Resume, Unpacked, Flagged
  <2> QED BY <2>1, <2>3 DEF Resume, dates_kept, BegunInv
<1> QED
  BY <1>1, TypeInit, TypeNext, BegunInit, BegunNext, PTL DEF Spec, RestartLosesOnlyTheRound

----------------------------------------------------------------------------
(* The dates of the thresholds.                                            *)

\* The dates are right for the first n rounds of the test.
Dated(dates, n) ==
    \A t \in Thresholds :
        \/ /\ dates[t] = Never
           /\ \A r \in 0 .. n - 1 : tally[r] < sectors_to[t]
        \/ /\ dates[t] \in 0 .. n - 1
           /\ tally[dates[t]] >= sectors_to[t]
           /\ \A r \in 0 .. dates[t] - 1 : tally[r] < sectors_to[t]

DatesInv ==
    /\ tally \in [0 .. MaxRounds - 1 -> Never .. NumSectors]
    /\ pc # "down" =>
         /\ Dated(rounds_to, rounds_completed)
         /\ \A r \in rounds_completed .. MaxRounds - 1 : tally[r] = Never
    /\ Loadable(disk) =>
         /\ Dated(disk.dated, disk.rounds)
         /\ pc # "down" => disk.rounds <= rounds_completed
    /\ pc = "down" =>
         \A r \in 0 .. MaxRounds - 1 :
             (Loadable(disk) => r >= disk.rounds) => tally[r] = Never

LEMMA DiskRounds ==
    ASSUME TypeOK, Loadable(disk)
    PROVE  disk.rounds \in 0 .. MaxRounds /\ disk.dated \in [Thresholds -> Never .. MaxRounds]
  BY DEF Loadable, TypeOK, Files, NoFile, Torn

LEMMA DatesInit == Init => DatesInv
  BY SectorSets, SaveStateAssumption DEF Init, DatesInv, Loadable, NoFile, Never

LEMMA DatesKept ==
    ASSUME DatesInv, UNCHANGED <<disk, tally, rounds_to, rounds_completed>>,
           pc # "down", pc' # "down"
    PROVE  DatesInv'
<1>1. Dated(rounds_to, rounds_completed)' /\ (Loadable(disk) => Dated(disk.dated, disk.rounds)')
  BY DEF DatesInv, Dated
<1> QED BY <1>1 DEF DatesInv, Loadable

\* The dates of the file stay right while the rounds it knows of do not change.
LEMMA DiskDatesKept ==
    ASSUME DatesInv, Loadable(disk), disk' = disk, disk.rounds \in Nat,
           \A r \in 0 .. disk.rounds - 1 : tally'[r] = tally[r]
    PROVE  Dated(disk.dated, disk.rounds)'
<1> DEFINE n == disk.rounds
<1> SUFFICES ASSUME NEW t \in Thresholds
             PROVE  \/ /\ disk.dated[t] = Never
                       /\ \A r \in 0 .. n - 1 : tally'[r] < sectors_to[t]
                    \/ /\ disk.dated[t] \in 0 .. n - 1
                       /\ tally'[disk.dated[t]] >= sectors_to[t]
                       /\ \A r \in 0 .. disk.dated[t] - 1 : tally'[r] < sectors_to[t]
  BY DEF Dated
<1>1. \/ /\ disk.dated[t] = Never
         /\ \A r \in 0 .. n - 1 : tally[r] < sectors_to[t]
      \/ /\ disk.dated[t] \in 0 .. n - 1
         /\ tally[disk.dated[t]] >= sectors_to[t]
         /\ \A r \in 0 .. disk.dated[t] - 1 : tally[r] < sectors_to[t]
  BY DEF DatesInv, Dated
<1>2. CASE disk.dated[t] = Never /\ \A r \in 0 .. n - 1 : tally[r] < sectors_to[t]
  BY <1>2
<1>3. CASE /\ disk.dated[t] \in 0 .. n - 1
           /\ tally[disk.dated[t]] >= sectors_to[t]
           /\ \A r \in 0 .. disk.dated[t] - 1 : tally[r] < sectors_to[t]
  <2>1. \A r \in 0 .. disk.dated[t] - 1 : r \in 0 .. n - 1
    BY <1>3
  <2> QED BY <1>3, <2>1
<1> QED BY <1>1, <1>2, <1>3

LEMMA DatesNext == TypeInv /\ DatesInv /\ [Next]_vars => DatesInv'
<1> SUFFICES ASSUME TypeInv, DatesInv, [Next]_vars PROVE DatesInv'
  OBVIOUS
<1> MaxRounds \in Nat /\ sectors_to \in [Thresholds -> 1 .. NumSectors] /\ NumSectors \in Nat
  BY SaveStateAssumption, SectorSets
<1> TypeOK
  BY DEF TypeInv
<1>1. CASE Resume
  <2>1. Loadable(disk) /\ Loadable(disk)' /\ UNCHANGED <<disk, tally>>
        /\ rounds_completed' = disk.rounds /\ rounds_to' = disk.dated /\ pc = "down" /\ pc' # "down"
    BY <1>1 DEF Resume, dates_kept, Loadable
  <2>2. Dated(disk.dated, disk.rounds)' /\ Dated(rounds_to, rounds_completed)'
    BY <2>1 DEF DatesInv, Dated
  <2>3. \A r \in rounds_completed' .. MaxRounds - 1 : tally'[r] = Never
    BY <2>1, DiskRounds DEF DatesInv
  <2> QED BY <2>1, <2>2, <2>3, DiskRounds DEF DatesInv
<1>2. CASE StartAnew
  <2>1. ~Loadable(disk)' /\ UNCHANGED tally /\ rounds_completed' = 0 /\ pc' # "down"
        /\ rounds_to' = [t \in Thresholds |-> Never]
    BY <1>2 DEF StartAnew, NewContext, Loadable
  <2>2. \A r \in 0 .. MaxRounds - 1 : tally'[r] = Never
    BY <1>2 DEF StartAnew, DatesInv
  <2>3. Dated(rounds_to, rounds_completed)'
    BY <2>1 DEF Dated
  <2> QED BY <2>1, <2>2, <2>3 DEF DatesInv
<1>3. CASE SaveRenamed
  <2>1. disk' = Image /\ pc # "down" /\ UNCHANGED <<tally, rounds_to, rounds_completed, pc>>
    BY <1>3 DEF SaveRenamed, TypeInv, Saves, test
  <2>2. disk'.rounds = rounds_completed /\ disk'.dated = rounds_to
    BY <2>1 DEF Image
  <2>3. Dated(rounds_to, rounds_completed)' /\ Dated(disk.dated, disk.rounds)'
    BY <2>1, <2>2 DEF DatesInv, Dated
  <2> QED BY <2>1, <2>2, <2>3 DEF DatesInv, TypeOK
<1>4. CASE Finish \/ Crash
  <2>1. Stop
    BY <1>4 DEF Finish, Crash
  <2>2. /\ tally' = [r \in 0 .. MaxRounds - 1 |->
                       IF Loadable(disk) /\ r < disk.rounds THEN tally[r] ELSE Never]
        /\ pc' = "down" /\ disk' = disk /\ (Loadable(disk)' <=> Loadable(disk))
    BY <2>1 DEF Stop, Loadable
  <2>3. Loadable(disk) => Dated(disk.dated, disk.rounds)'
    <3> SUFFICES ASSUME Loadable(disk) PROVE Dated(disk.dated, disk.rounds)'
      OBVIOUS
    <3>1. disk.rounds \in 0 .. MaxRounds
      BY DiskRounds
    <3>2. \A r \in 0 .. disk.rounds - 1 : tally'[r] = tally[r]
      BY <2>2, <3>1
    <3> QED BY <2>2, <3>1, <3>2, DiskDatesKept
  <2>4. \A r \in 0 .. MaxRounds - 1 : (Loadable(disk) => r >= disk.rounds) => tally'[r] = Never
    BY <2>2, DiskRounds
  <2>5. tally' \in [0 .. MaxRounds - 1 -> Never .. NumSectors]
    BY <2>2 DEF DatesInv, Never
  <2> QED BY <2>2, <2>3, <2>4, <2>5 DEF DatesInv
<1>5. CASE EndRound
  <2> DEFINE n == rounds_completed
  <2>1. n \in 0 .. MaxRounds - 1 /\ pc = "read" /\ total_bad_sectors \in 0 .. NumSectors
    BY <1>5 DEF EndRound, TypeInv, Saves, TypeOK
  <2>2. /\ tally' = [tally EXCEPT ![n] = total_bad_sectors]
        /\ rounds_completed' = n + 1 /\ pc' = "loop" /\ disk' = disk
        /\ rounds_to' = [t \in Thresholds |->
                           IF rounds_to[t] = Never /\ total_bad_sectors >= sectors_to[t]
                           THEN n ELSE rounds_to[t]]
    BY <1>5 DEF EndRound
  <2>3. tally' \in [0 .. MaxRounds - 1 -> Never .. NumSectors]
    BY <2>1, <2>2 DEF DatesInv, Never
  <2>4. /\ tally'[n] = total_bad_sectors
        /\ \A r \in 0 .. MaxRounds - 1 : r # n => tally'[r] = tally[r]
    BY <2>1, <2>2 DEF DatesInv
  <2>5. Dated(rounds_to, rounds_completed)'
    <3> SUFFICES ASSUME NEW t \in Thresholds
                 PROVE  \/ /\ rounds_to'[t] = Never
                           /\ \A r \in 0 .. n : tally'[r] < sectors_to[t]
                        \/ /\ rounds_to'[t] \in 0 .. n
                           /\ tally'[rounds_to'[t]] >= sectors_to[t]
                           /\ \A r \in 0 .. rounds_to'[t] - 1 : tally'[r] < sectors_to[t]
      BY <2>1, <2>2 DEF Dated
    <3>1. \/ /\ rounds_to[t] = Never
             /\ \A r \in 0 .. n - 1 : tally[r] < sectors_to[t]
          \/ /\ rounds_to[t] \in 0 .. n - 1
             /\ tally[rounds_to[t]] >= sectors_to[t]
             /\ \A r \in 0 .. rounds_to[t] - 1 : tally[r] < sectors_to[t]
      BY <2>1 DEF DatesInv, Dated
    <3>2. rounds_to'[t] = IF rounds_to[t] = Never /\ total_bad_sectors >= sectors_to[t]
                          THEN n ELSE rounds_to[t]
      BY <2>2
    <3>3. CASE rounds_to[t] = Never
      <4>1. \A r \in 0 .. n - 1 : tally'[r] < sectors_to[t]
        BY <2>1, <2>4, <3>1, <3>3 DEF Never
      <4>2. sectors_to[t] \in Nat
        OBVIOUS
      <4> QED BY <2>1, <2>4, <3>2, <3>3, <4>1, <4>2
    <3>4. CASE rounds_to[t] # Never
      BY <2>1, <2>4, <3>1, <3>2, <3>4
    <3> QED BY <3>3, <3>4
  <2>6. \A r \in n + 1 .. MaxRounds - 1 : tally'[r] = Never
    BY <2>1, <2>4 DEF DatesInv
  <2>7. Loadable(disk) => Dated(disk.dated, disk.rounds)' /\ disk.rounds <= n
    <3> SUFFICES ASSUME Loadable(disk) PROVE Dated(disk.dated, disk.rounds)' /\ disk.rounds <= n
      OBVIOUS
    <3>1. disk.rounds \in 0 .. n
      BY <2>1, DiskRounds DEF DatesInv
    <3>2. \A r \in 0 .. disk.rounds - 1 : tally'[r] = tally[r]
      BY <2>1, <2>4, <3>1
    <3> QED BY <2>2, <3>1, <3>2, DiskDatesKept
  <2>8. Loadable(disk)' <=> Loadable(disk)
    BY <2>2 DEF Loadable
  <2> QED BY <2>1, <2>2, <2>3, <2>5, <2>6, <2>7, <2>8, DiskRounds DEF DatesInv
<1>6. CASE SaveStarts \/ SaveWritten \/ SaveNotDone \/ SaveFailed
  <2>1. saving # "no" /\ UNCHANGED <<pc, disk, tally, test>>
    BY <1>6 DEF SaveStarts, SaveWritten, SaveNotDone, SaveFailed
  <2> QED BY <2>1, DatesKept DEF test, TypeInv, Saves
<1>7. CASE StartRound \/ BlockSaves \/ StartReading
  BY <1>7, DatesKept DEF StartRound, BlockSaves, StartReading, test
<1>8. CASE StartWriting \/ \E s \in Sectors : FindUnusable(s) \/ FindBad(s)
  BY <1>8, DatesKept DEF StartWriting, FindUnusable, FindBad
<1>9. CASE UNCHANGED vars
  BY <1>9 DEF vars, test, DatesInv, Dated, Loadable
<1> QED
  BY <1>1, <1>2, <1>3, <1>4, <1>5, <1>6, <1>7, <1>8, <1>9 DEF Next

(* Over all the runs of the program that a test takes, each threshold is   *)
(* dated with the first round at whose end it was reached.                 *)
THEOREM DatesKeptOverRestarts == Spec => []DatesOutliveRestarts
<1>1. TypeInv /\ DatesInv => DatesOutliveRestarts
  <2> SUFFICES ASSUME TypeInv, DatesInv, pc = "loop", NEW t \in Thresholds
               PROVE  LET crossed == {r \in 0 .. MaxRounds - 1 : tally[r] >= sectors_to[t]}
                      IN  rounds_to[t] = IF crossed = {} THEN Never
                            ELSE CHOOSE r \in crossed : \A q \in crossed : r <= q
    BY DEF DatesOutliveRestarts
  <2> DEFINE crossed == {r \in 0 .. MaxRounds - 1 : tally[r] >= sectors_to[t]}
  <2>1. MaxRounds \in Nat /\ sectors_to[t] \in Nat \ {0} /\ rounds_completed \in 0 .. MaxRounds
    BY SaveStateAssumption, SectorSets DEF TypeInv, TypeOK
  <2>2. \A r \in 0 .. MaxRounds - 1 : tally[r] \in Int
    BY SectorSets DEF DatesInv, Never
  <2>3. \A r \in crossed : r \in 0 .. rounds_completed - 1
    <3> SUFFICES ASSUME NEW r \in crossed, r >= rounds_completed PROVE FALSE
      BY <2>1
    <3> QED BY <2>1 DEF DatesInv, Never
  <2>4. CASE rounds_to[t] = Never
    <3>1. \A r \in 0 .. rounds_completed - 1 : tally[r] < sectors_to[t]
      BY <2>1, <2>4 DEF DatesInv, Dated, Never
    <3>2. crossed = {}
      BY <2>1, <2>2, <2>3, <3>1
    <3> QED BY <2>4, <3>2
  <2>5. CASE rounds_to[t] # Never
    <3> DEFINE first == rounds_to[t]
    <3>1. /\ first \in 0 .. rounds_completed - 1
          /\ tally[first] >= sectors_to[t]
          /\ \A r \in 0 .. first - 1 : tally[r] < sectors_to[t]
      BY <2>5 DEF DatesInv, Dated
    <3>2. first \in crossed
      BY <2>1, <3>1
    <3>3. \A q \in crossed : first <= q
      BY <2>1, <2>2, <3>1
    <3>4. \A r \in crossed : (\A q \in crossed : r <= q) => r = first
      BY <3>1, <3>2, <3>3
    <3> HIDE DEF crossed, first
    <3>5. first = CHOOSE r \in crossed : \A q \in crossed : r <= q
      BY <3>2, <3>3, <3>4
    <3>6. crossed # {}
      BY <3>2
    <3> QED BY <3>5, <3>6 DEF first, crossed
  <2> QED BY <2>4, <2>5
<1> QED
  BY <1>1, TypeInit, TypeNext, DatesInit, DatesNext, PTL DEF Spec

===============================================================================
