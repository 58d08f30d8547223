---------------------------- MODULE SqlThreadProofs ----------------------------
(***************************************************************************)
(* Proofs about SqlThread, for devices, maps and tests of any size: what   *)
(* an unguarded reader of the endurance test writes into the database.     *)
(***************************************************************************)
EXTENDS SqlThread, FiniteSetTheorems, TLAPS

----------------------------------------------------------------------------
(* The blocks of the map.                                                  *)

block_of(s) == s \div sectors_per_block
Mapped      == 0 .. MappedSectors - 1

LEMMA MapFits ==
    /\ sectors_per_block \in Nat /\ MappedSectors \in Nat
    /\ MappedSectors <= num_physical_sectors
    /\ Mapped \subseteq Sectors
<1>1. num_physical_sectors \in Nat /\ Blocks \in Nat \ {0}
  BY SqlThreadAssumption
<1>2. sectors_per_block \in Nat /\ Blocks * sectors_per_block <= num_physical_sectors
  BY <1>1 DEF sectors_per_block
<1>3. Blocks * sectors_per_block \in Nat
  BY <1>1, <1>2
<1> QED BY <1>1, <1>2, <1>3 DEF MappedSectors, Mapped, Sectors

LEMMA BlockOf ==
    ASSUME NEW s \in Mapped
    PROVE  block_of(s) \in 0 .. Blocks - 1
<1> DEFINE d == s \div sectors_per_block
<1>1. /\ Blocks \in Nat \ {0} /\ sectors_per_block \in Nat
      /\ s \in Nat /\ s < Blocks * sectors_per_block
  BY MapFits, SqlThreadAssumption DEF Mapped, MappedSectors
<1>2. sectors_per_block # 0
  BY <1>1
<1>3. d \in Nat /\ sectors_per_block * d <= s
  BY <1>1, <1>2
<1> HIDE DEF d
<1>4. ASSUME d >= Blocks PROVE FALSE
  <2>1. d - Blocks \in Nat /\ sectors_per_block * (d - Blocks) \in Nat
    BY <1>1, <1>3, <1>4
  <2>2. sectors_per_block * d = sectors_per_block * Blocks + sectors_per_block * (d - Blocks)
    BY <1>1, <1>3
  <2> QED BY <1>1, <1>3, <2>1, <2>2
<1> QED BY <1>1, <1>3, <1>4 DEF block_of, d

----------------------------------------------------------------------------
(* Types.                                                                  *)

\* The two halves of TypeOK: what the main thread has, and what the other has.
MainOK ==
    /\ phase \in {"reset", "write", "read", "ending", "over"}
    /\ at \in Sectors
    /\ half_bad \in {"no", "counted", "flagged"}
    /\ sector_map \in [Sectors -> SUBSET Flags]
    /\ rounds_completed \in 0 .. MaxRounds

CountOK ==
    total_bad_sectors + (IF half_bad = "flagged" THEN 1 ELSE 0)
      = Cardinality(Bad(sector_map)) + (IF half_bad = "counted" THEN 1 ELSE 0)

SqlOK ==
    /\ program_options \in [card_name : BOOLEAN, card_id : {0, 1}]
    /\ pc \in {"connect", "find", "insert", "update_card", "update", "build",
               "sleep", "stopped"}
    /\ sql_thread_status \in {"NOT_CONNECTED", "CONNECTED", "DISCONNECTED", "ERROR"}
    /\ card_id \in {0, 1}
    /\ card_registered \in BOOLEAN
    /\ current_round \in 0 .. MaxRounds + 1
    /\ consolidated_sector_map \in BlockMap
    /\ j \in 0 .. MappedSectors
    /\ card \in {"none", "as_was", "as_is"}
    /\ stored \in [round : 0 .. MaxRounds + 1, num_bad : 0 .. MaxBad, map : BlockMap]
    /\ losses \in 0 .. MaxFaults
    /\ errors \in 0 .. MaxFaults
    /\ cut \in 0 .. MaxFaults

LEMMA TypesOK == TypeOK <=> MainOK /\ CountOK /\ SqlOK
  BY DEF TypeOK, MainOK, CountOK, SqlOK

\* What the bounds rest on: a round is only read while there is one to come,
\* and while one store is missing the judgement is not over.
Bounds ==
    /\ total_bad_sectors \in 0 .. MaxBad
    /\ phase = "read" => rounds_completed < MaxRounds
    /\ half_bad = "flagged" => total_bad_sectors < MaxBad
    /\ half_bad = "counted" => "FAILED" \notin sector_map[at]
    /\ half_bad # "no" => phase \in {"write", "read"}

MainInv == MainOK /\ CountOK /\ Bounds
TypeInv == MainInv /\ SqlOK

LEMMA BadFinite ==
    ASSUME sector_map \in [Sectors -> SUBSET Flags]
    PROVE  IsFiniteSet(Bad(sector_map)) /\ Cardinality(Bad(sector_map)) \in Nat
<1>1. IsFiniteSet(Sectors)
  BY FS_Interval, SqlThreadAssumption DEF Sectors
<1>2. Bad(sector_map) \in SUBSET Sectors
  BY DEF Bad
<1> QED BY <1>1, <1>2, FS_Subset, FS_CardinalityType

LEMMA InitTypeInv == Init => TypeInv
<1> SUFFICES ASSUME Init PROVE TypeInv
  OBVIOUS
<1>1. Bad(sector_map) = {}
  BY DEF Init, Bad
<1>2. CountOK
  BY <1>1, FS_EmptySet DEF Init, CountOK
<1>3. MainOK /\ Bounds
  BY SqlThreadAssumption DEF Init, MainOK, Bounds, Sectors
<1>4. Fresh \in BlockMap /\ NoRow.map \in BlockMap /\ NoRow.round = 0 /\ NoRow.num_bad = 0
  BY DEF Fresh, NoRow, BlockMap, Flags
<1>5. NoRow \in [round : 0 .. MaxRounds + 1, num_bad : 0 .. MaxBad, map : BlockMap]
  BY <1>4, SqlThreadAssumption DEF NoRow
<1>6. program_options \in [card_name : BOOLEAN, card_id : {0, 1}] /\ card_id \in {0, 1}
  <2> DEFINE given(name, id) == [card_name |-> name, card_id |-> id]
  <2>1. /\ program_options \in {given(TRUE, 0), given(FALSE, 0), given(FALSE, 1)}
        /\ card_id = program_options.card_id
    BY DEF Init
  <2>2. CASE program_options = given(TRUE, 0)
    BY <2>1, <2>2
  <2>3. CASE program_options = given(FALSE, 0)
    BY <2>1, <2>3
  <2>4. CASE program_options = given(FALSE, 1)
    BY <2>1, <2>4
  <2> QED BY <2>1, <2>2, <2>3, <2>4
<1>7. /\ pc = "connect" /\ sql_thread_status = "NOT_CONNECTED" /\ card_registered = FALSE
      /\ consolidated_sector_map = Fresh /\ card \in {"none", "as_was"} /\ stored = NoRow
  BY DEF Init
<1>8. /\ current_round \in 0 .. MaxRounds + 1 /\ j \in 0 .. MappedSectors
      /\ losses \in 0 .. MaxFaults /\ errors \in 0 .. MaxFaults /\ cut \in 0 .. MaxFaults
  BY MapFits, SqlThreadAssumption DEF Init
<1>9. SqlOK
  BY <1>4, <1>5, <1>6, <1>7, <1>8 DEF SqlOK
<1> QED BY <1>2, <1>3, <1>9 DEF TypeInv, MainInv

\* Sectors that are bad stay so, unless the program ends.
LEMMA BadStays ==
    ASSUME MainInv, MainThread
    PROVE  /\ \A s \in Sectors : "FAILED" \in sector_map[s] => "FAILED" \in sector_map'[s]
           /\ total_bad_sectors <= total_bad_sectors' /\ rounds_completed <= rounds_completed'
           /\ phase \notin {"over", "ending"} /\ phase' # "over"
  BY DEF MainInv, MainOK, Bounds, MainThread, ResetSector, WriteSector, ReadSector,
     MarkSectorBad, Judged, Forward, keep_failed, CountBad, FlagBad, counted, InJudgement

LEMMA FlagBadCounts ==
    ASSUME MainInv, FlagBad, "FAILED" \notin sector_map[at]
    PROVE  /\ sector_map' \in [Sectors -> SUBSET Flags]
           /\ Cardinality(Bad(sector_map)') = Cardinality(Bad(sector_map)) + 1
<1>1. sector_map \in [Sectors -> SUBSET Flags] /\ at \in Sectors
  BY DEF MainInv, MainOK
<1>2. sector_map' = [sector_map EXCEPT ![at] = @ \cup {"FAILED"}]
  BY DEF FlagBad
<1>3. Bad(sector_map') = Bad(sector_map) \cup {at} /\ at \notin Bad(sector_map)
  BY <1>1, <1>2 DEF Bad
<1>4. Cardinality(Bad(sector_map) \cup {at}) = Cardinality(Bad(sector_map)) + 1
  BY <1>1, <1>3, BadFinite, FS_AddElement
<1> QED BY <1>1, <1>2, <1>3, <1>4 DEF Flags

LEMMA MarkSectorBadMain ==
    ASSUME MainInv, MarkSectorBad
    PROVE  MainInv'
<1> USE DEF MainInv
<1>1. /\ UNCHANGED <<phase, at, rounds_completed>> /\ phase \in {"write", "read"}
      /\ total_bad_sectors \in 0 .. MaxBad /\ MaxBad \in Nat
      /\ Cardinality(Bad(sector_map)) \in Nat
  BY BadFinite, SqlThreadAssumption DEF MarkSectorBad, InJudgement, MainOK, Bounds
<1>2. CASE half_bad = "no"
  <2>1. "FAILED" \notin sector_map[at] /\ total_bad_sectors < MaxBad
    BY <1>2 DEF MarkSectorBad
  <2>2. CASE CountBad /\ half_bad' = "counted"
    <3>1. CountOK'
      BY <1>1, <1>2, <2>2 DEF CountOK, CountBad, counted
    <3> QED BY <1>1, <2>1, <2>2, <3>1 DEF CountBad, counted, MainOK, Bounds
  <2>3. CASE FlagBad /\ half_bad' = "flagged"
    <3>1. CountOK' /\ sector_map' \in [Sectors -> SUBSET Flags]
      BY <1>1, <1>2, <2>1, <2>3, FlagBadCounts DEF CountOK, FlagBad
    <3> QED BY <1>1, <2>1, <2>3, <3>1 DEF FlagBad, MainOK, Bounds
  <2> QED BY <1>2, <2>2, <2>3 DEF MarkSectorBad
<1>3. CASE half_bad = "counted"
  <2>1. FlagBad /\ half_bad' = "no" /\ "FAILED" \notin sector_map[at]
    BY <1>3 DEF MarkSectorBad, Bounds
  <2>2. CountOK' /\ sector_map' \in [Sectors -> SUBSET Flags]
    BY <1>1, <1>3, <2>1, FlagBadCounts DEF CountOK, FlagBad
  <2> QED BY <1>1, <2>1, <2>2 DEF FlagBad, MainOK, Bounds
<1>4. CASE half_bad = "flagged"
  <2>1. CountBad /\ half_bad' = "no" /\ total_bad_sectors < MaxBad
    BY <1>4 DEF MarkSectorBad, Bounds
  <2>2. CountOK'
    BY <1>1, <1>4, <2>1 DEF CountOK, CountBad, counted
  <2> QED BY <1>1, <2>1, <2>2 DEF CountBad, counted, MainOK, Bounds
<1> QED BY <1>2, <1>3, <1>4 DEF MarkSectorBad

LEMMA SameBad ==
    ASSUME MainInv, half_bad' = half_bad, total_bad_sectors' = total_bad_sectors,
           sector_map' \in [Sectors -> SUBSET Flags],
           \A s \in Sectors : "FAILED" \in sector_map'[s] <=> "FAILED" \in sector_map[s]
    PROVE  CountOK'
<1>1. Bad(sector_map') = Bad(sector_map)
  BY DEF Bad, MainInv, MainOK
<1> QED BY <1>1 DEF MainInv, CountOK

LEMMA ForwardFacts ==
    ASSUME at \in Sectors, NEW q, Forward(q)
    PROVE  /\ at' \in Sectors
           /\ \/ at' = at + 1 /\ phase' = phase
              \/ at' = 0 /\ phase' = q /\ at + 1 = num_physical_sectors
  BY SqlThreadAssumption DEF Forward, Sectors

LEMMA MainThreadMain ==
    ASSUME MainInv, MainThread
    PROVE  MainInv'
<1> USE DEF MainInv
<1>1. CASE MarkSectorBad
  BY <1>1, MarkSectorBadMain
<1>2. CASE ResetSector \/ WriteSector \/ ReadSector
  <2>1. /\ UNCHANGED <<half_bad, total_bad_sectors, rounds_completed>>
        /\ sector_map' \in [Sectors -> SUBSET Flags]
        /\ \A s \in Sectors : "FAILED" \in sector_map'[s] <=> "FAILED" \in sector_map[s]
    BY <1>2 DEF ResetSector, WriteSector, ReadSector, keep_failed, Flags, MainOK
  <2>2. CountOK'
    BY <2>1, SameBad
  <2>3. at' \in Sectors /\ phase' \in {"reset", "write", "read"}
    BY <1>2, ForwardFacts DEF ResetSector, WriteSector, ReadSector, MainOK
  <2>4. MainOK'
    BY <2>1, <2>3 DEF MainOK
  <2>5. CASE half_bad = "no"
    <3>1. phase' = "read" => rounds_completed < MaxRounds
      BY <1>2, ForwardFacts DEF ResetSector, WriteSector, ReadSector, Bounds, MainOK
    <3> QED BY <2>1, <2>2, <2>4, <2>5, <3>1 DEF Bounds
  <2>6. CASE half_bad # "no"
    <3>1. UNCHANGED <<phase, at>>
      BY <1>2, <2>6 DEF ResetSector, WriteSector, ReadSector, Bounds
    <3> QED BY <2>1, <2>2, <2>4, <3>1 DEF Bounds, MainOK
  <2> QED BY <2>5, <2>6
<1>3. CASE Judged
  <2>1. /\ UNCHANGED <<half_bad, sector_map, total_bad_sectors>> /\ half_bad = "no"
        /\ phase = "read" /\ rounds_completed < MaxRounds
        /\ rounds_completed' = IF at' = 0 THEN rounds_completed + 1 ELSE rounds_completed
        /\ Forward(IF total_bad_sectors < num_physical_sectors \div 2
                   THEN "reset" ELSE "ending")
    BY <1>3 DEF Judged, Bounds
  <2>2. CountOK'
    BY <2>1 DEF CountOK
  <2>3. /\ at' \in Sectors
        /\ \/ at' = at + 1 /\ phase' = "read"
           \/ at' = 0 /\ phase' \in {"reset", "ending"}
    BY <2>1, ForwardFacts DEF MainOK
  <2>4. at' = at + 1 => at' # 0
    BY DEF MainOK, Sectors
  <2>5. MainOK' /\ Bounds'
    BY <2>1, <2>3, <2>4, SqlThreadAssumption DEF MainOK, Bounds
  <2> QED BY <2>2, <2>5
<1> QED BY <1>1, <1>2, <1>3 DEF MainThread

LEMMA EndMain ==
    ASSUME MainInv, End
    PROVE  MainInv'
<1>1. Bad(sector_map') = {}
  BY DEF End, Bad
<1>2. CountOK'
  BY <1>1, FS_EmptySet DEF End, CountOK
<1> QED BY <1>2, SqlThreadAssumption DEF End, MainInv, MainOK, Bounds, Sectors

LEMMA MergedFlags ==
    ASSUME NEW a \in SUBSET Flags, NEW b \in SUBSET Flags
    PROVE  merged(a, b) \in SUBSET Flags
  BY DEF merged, Flags

FaultsOK == losses \in 0 .. MaxFaults /\ errors \in 0 .. MaxFaults /\ cut \in 0 .. MaxFaults

\* The calls about the card keep what has been built and stored.
LEMMA CallType ==
    ASSUME SqlOK,
           UNCHANGED <<program_options, current_round, consolidated_sector_map, j, stored>>,
           pc' \in {"connect", "find", "insert", "update_card", "update", "stopped"},
           sql_thread_status' \in {"CONNECTED", "DISCONNECTED", "ERROR"},
           card_id' \in {0, 1}, card_registered' \in BOOLEAN,
           card' \in {"none", "as_was", "as_is"},
           FaultsOK'
    PROVE  SqlOK'
  BY DEF SqlOK, FaultsOK

LEMMA FaultsType ==
    ASSUME SqlOK,
           \/ UNCHANGED faults
           \/ Fault /\ losses' = losses + 1 /\ UNCHANGED <<errors, cut>>
           \/ Fault /\ errors' = errors + 1 /\ UNCHANGED <<losses, cut>>
           \/ Fault /\ cut' = cut + 1 /\ UNCHANGED <<losses, errors>>
    PROVE  FaultsOK'
  BY SqlThreadAssumption DEF SqlOK, FaultsOK, Fault, faults

LEMMA SqlThreadSql ==
    ASSUME TypeInv, SqlThread
    PROVE  SqlOK' /\ UNCHANGED main_thread
<1> USE DEF TypeInv
<1> DEFINE Unbuilt ==
      UNCHANGED <<program_options, current_round, consolidated_sector_map, j, stored>>
<1>1. CASE Connect \/ ConnectFails
  <2>1. Unbuilt /\ UNCHANGED <<main_thread, card, card_id>>
    BY <1>1 DEF Connect, ConnectFails, update
  <2>2. FaultsOK'
    BY <1>1, FaultsType DEF Connect, ConnectFails, Answered, Failed, faults
  <2>3. /\ pc' \in {"connect", "find", "update", "stopped"}
        /\ sql_thread_status' \in {"CONNECTED", "ERROR"}
    BY <1>1 DEF Connect, ConnectFails, Answered, Failed, GivesUp, Running, look_up
  <2>4. card_registered' \in BOOLEAN
    BY <1>1 DEF Connect, ConnectFails, SqlOK
  <2> QED BY <2>1, <2>2, <2>3, <2>4, CallType DEF SqlOK
<1>2. CASE FindCard
  <2>1. Unbuilt /\ UNCHANGED <<main_thread, card, card_registered>>
    BY <1>2 DEF FindCard, update
  <2>2. FaultsOK'
    BY <1>2, FaultsType DEF FindCard, FetchFails, Answered, Lost, Failed
  <2>3. /\ pc' \in {"connect", "insert", "update_card", "stopped"}
        /\ sql_thread_status' \in {"CONNECTED", "DISCONNECTED", "ERROR"}
        /\ card_id' \in {0, 1}
    BY <1>2 DEF FindCard, Fetched, FetchFails, Answered, Lost, Failed, GivesUp, SqlOK
  <2> QED BY <2>1, <2>2, <2>3, CallType DEF SqlOK
<1>3. CASE NoCardName \/ InsertCard
  <2>1. Unbuilt /\ UNCHANGED main_thread
    BY <1>3 DEF NoCardName, InsertCard, update
  <2>2. FaultsOK'
    BY <1>3, FaultsType DEF NoCardName, InsertCard, Answered, Lost, Failed
  <2>3. /\ pc' \in {"connect", "update", "stopped"}
        /\ sql_thread_status' \in {"CONNECTED", "DISCONNECTED", "ERROR"}
    BY <1>3 DEF NoCardName, InsertCard, Answered, Lost, Failed, GivesUp
  <2>4. /\ card' \in {card, "as_is"}
        /\ card_id' \in {card_id, 1}
        /\ card_registered' \in {card_registered, TRUE}
    <3>1. CASE NoCardName
      BY <3>1 DEF NoCardName
    <3>2. CASE InsertCard
      BY <3>2 DEF InsertCard
    <3> QED BY <1>3, <3>1, <3>2
  <2> QED BY <2>1, <2>2, <2>3, <2>4, CallType DEF SqlOK
<1>4. CASE UpdateCard
  <2>1. Unbuilt /\ UNCHANGED <<main_thread, card_id>>
    BY <1>4 DEF UpdateCard, update
  <2>2. FaultsOK'
    BY <1>4, FaultsType DEF UpdateCard, Answered, Lost, Failed
  <2>3. /\ pc' \in {"connect", "update", "stopped"}
        /\ sql_thread_status' \in {"CONNECTED", "DISCONNECTED", "ERROR"}
        /\ card' \in {card, "as_is"} /\ card_registered' \in {card_registered, TRUE}
    BY <1>4 DEF UpdateCard, Answered, Lost, Failed, GivesUp
  <2> QED BY <2>1, <2>2, <2>3, CallType DEF SqlOK
<1>5. CASE StartUpdate
  <2>1. Fresh \in BlockMap
    BY DEF Fresh, BlockMap, Flags
  <2>2. current_round' \in 0 .. MaxRounds + 1 /\ j' \in 0 .. MappedSectors
    BY <1>5, MapFits, SqlThreadAssumption DEF StartUpdate, MainInv, MainOK
  <2> QED BY <1>5, <2>1, <2>2 DEF StartUpdate, faults, SqlOK
<1>6. CASE BuildMap
  <2>1. /\ j \in Mapped /\ j \in Sectors /\ j' \in 0 .. MappedSectors
    <3>1. j \in 0 .. MappedSectors /\ j < MappedSectors /\ j' = j + 1
      BY <1>6 DEF BuildMap, SqlOK
    <3> QED BY <3>1, MapFits DEF Mapped
  <2>2. consolidated_sector_map' = [consolidated_sector_map EXCEPT ![block_of(j)] =
            merged(@, sector_map[j])]
    BY <1>6 DEF BuildMap, block_of
  <2>3. consolidated_sector_map' \in BlockMap
    <3>1. sector_map[j] \in SUBSET Flags /\ block_of(j) \in 0 .. Blocks - 1
      BY <2>1, BlockOf DEF MainInv, MainOK
    <3> QED BY <2>2, <3>1, MergedFlags DEF BlockMap, SqlOK
  <2> QED BY <1>6, <2>1, <2>3 DEF BuildMap, faults, SqlOK
<1>7. CASE Execute
  <2>1. total_bad_sectors \in 0 .. MaxBad
    BY DEF MainInv, Bounds
  <2>2. Store => stored' \in [round : 0 .. MaxRounds + 1, num_bad : 0 .. MaxBad, map : BlockMap]
    BY <2>1 DEF Store, SqlOK
  <2>3. FaultsOK'
    BY <1>7, FaultsType DEF Execute
  <2>4. /\ Store \/ UNCHANGED stored
        /\ pc' = "sleep" /\ sql_thread_status' \in {"CONNECTED", "DISCONNECTED", "ERROR"}
        /\ UNCHANGED <<main_thread, program_options, card_id, card_registered, update, card>>
    BY <1>7 DEF Execute, executed_status
  <2> QED BY <2>2, <2>3, <2>4 DEF SqlOK, FaultsOK, update
<1>8. CASE PrepareFails
  <2>1. Unbuilt /\ UNCHANGED <<main_thread, card, card_id, card_registered>>
    BY <1>8 DEF PrepareFails, update
  <2>2. FaultsOK'
    BY <1>8, FaultsType DEF PrepareFails, Lost, Failed
  <2>3. pc' \in {"connect", "stopped"} /\ sql_thread_status' \in {"DISCONNECTED", "ERROR"}
    BY <1>8 DEF PrepareFails, Lost, Failed, GivesUp
  <2> QED BY <2>1, <2>2, <2>3, CallType DEF SqlOK
<1> QED BY <1>1, <1>2, <1>3, <1>4, <1>5, <1>6, <1>7, <1>8 DEF SqlThread

LEMMA NextTypeInv == TypeInv /\ [Next]_vars => TypeInv'
<1> SUFFICES ASSUME TypeInv, [Next]_vars PROVE TypeInv'
  OBVIOUS
<1>1. CASE MainThread
  BY <1>1, MainThreadMain DEF MainThread, TypeInv, SqlOK, update, faults
<1>2. CASE SqlThread
  <2>1. SqlOK' /\ UNCHANGED main_thread
    BY <1>2, SqlThreadSql
  <2> QED BY <2>1 DEF main_thread, TypeInv, MainInv, MainOK, CountOK, Bounds
<1>3. CASE End
  <2>1. Fresh \in BlockMap
    BY DEF Fresh, BlockMap, Flags
  <2>2. SqlOK'
    <3>1. /\ program_options.card_id \in {0, 1}
          /\ 0 \in 0 .. MaxRounds + 1 /\ 0 \in 0 .. MappedSectors
      BY MapFits, SqlThreadAssumption DEF TypeInv, SqlOK
    <3>2. /\ UNCHANGED <<program_options, card, stored, losses, errors, cut>>
          /\ pc' = "stopped" /\ sql_thread_status' = "NOT_CONNECTED"
          /\ card_id' = program_options.card_id /\ card_registered' = FALSE
          /\ current_round' = 0 /\ consolidated_sector_map' = Fresh /\ j' = 0
      BY <1>3 DEF End, faults
    <3> QED BY <2>1, <3>1, <3>2 DEF TypeInv, SqlOK
  <2> QED BY <1>3, <2>2, EndMain DEF TypeInv
<1>4. CASE UNCHANGED vars
  BY <1>4 DEF vars, main_thread, update, faults, TypeInv, MainInv, MainOK, CountOK,
     Bounds, SqlOK
<1> QED BY <1>1, <1>2, <1>3, <1>4 DEF Next

LEMMA TypeInvAlways == Spec => []TypeInv
  BY InitTypeInv, NextTypeInv, PTL DEF Spec

(* Every variable keeps its type, and but for the one store in between the *)
(* counter of bad sectors is the number of those flagged.                  *)
THEOREM SqlThreadTypeCorrect == Spec => []TypeOK
<1>1. TypeInv => TypeOK
  BY TypesOK DEF TypeInv, MainInv
<1> QED BY <1>1, TypeInvAlways, PTL

----------------------------------------------------------------------------
(* The row.                                                                *)

\* Sector s is in block b and bad.
BadIn(b, s) == s \in Mapped /\ block_of(s) = b /\ "FAILED" \in sector_map[s]

ReadIsWritten(map) == \A x \in DOMAIN map : "READ" \in map[x] => "WRITTEN" \in map[x]

\* A sector is read when all have been written.
PassInv ==
    /\ ReadIsWritten(sector_map)
    /\ phase = "write" => \A s \in Sectors : s < at => "WRITTEN" \in sector_map[s]
    /\ phase = "read" => \A s \in Sectors : "WRITTEN" \in sector_map[s]

\* What has been put together stems from the sectors gone over, and what was
\* stored before is found again when its sectors are.
BuildInv ==
    /\ phase # "over" /\ stored.round <= current_round /\ current_round <= rounds_completed + 1
    /\ \A b \in Bad(consolidated_sector_map) : \E s \in Mapped : BadIn(b, s)
    /\ \A b \in Bad(stored.map) : \E s \in Mapped :
          BadIn(b, s) /\ (s < j => b \in Bad(consolidated_sector_map))

RowInv ==
    /\ PassInv
    /\ ReadIsWritten(consolidated_sector_map) /\ ReadIsWritten(stored.map)
    /\ Cardinality(Bad(stored.map)) <= stored.num_bad + 1
    /\ phase # "over" =>
         /\ stored.num_bad <= total_bad_sectors /\ stored.round <= rounds_completed + 1
         /\ \A b \in Bad(stored.map) : \E s \in Mapped : BadIn(b, s)
    /\ pc = "build" => BuildInv
    /\ phase = "over" => pc = "stopped"

LEMMA InitRowInv == Init => RowInv
<1> SUFFICES ASSUME Init PROVE RowInv
  OBVIOUS
<1>1. /\ stored.map = [b \in 0 .. Blocks - 1 |-> {}] /\ stored.round = 0 /\ stored.num_bad = 0
      /\ consolidated_sector_map = [b \in 0 .. Blocks - 1 |-> {"WRITTEN", "READ"}]
      /\ sector_map = [s \in Sectors |-> {}]
      /\ phase = "reset" /\ pc = "connect" /\ total_bad_sectors = 0 /\ rounds_completed = 0
  BY DEF Init, NoRow, Fresh
<1>2. Bad(stored.map) = {}
  BY <1>1 DEF Bad
<1>3. Cardinality(Bad(stored.map)) = 0
  BY <1>2, FS_EmptySet
<1>4. ReadIsWritten(sector_map) /\ ReadIsWritten(consolidated_sector_map)
      /\ ReadIsWritten(stored.map)
  BY <1>1 DEF ReadIsWritten
<1>5. PassInv
  BY <1>1, <1>4 DEF PassInv
<1>6. Cardinality(Bad(stored.map)) <= stored.num_bad + 1
      /\ stored.num_bad <= total_bad_sectors /\ stored.round <= rounds_completed + 1
  BY <1>1, <1>3
<1>7. \A b \in Bad(stored.map) : \E s \in Mapped : BadIn(b, s)
  BY <1>2
<1>8. pc # "build" /\ phase # "over"
  BY <1>1
<1> QED BY <1>4, <1>5, <1>6, <1>7, <1>8 DEF RowInv

\* No more blocks are bad than sectors, of which at most one is not counted.
LEMMA BlocksCounted ==
    ASSUME TypeInv, NEW B, \A b \in B : \E s \in Mapped : BadIn(b, s)
    PROVE  /\ Cardinality(B) \in Nat
           /\ Cardinality(B) <= total_bad_sectors + 1
<1> DEFINE S == {s \in Mapped : "FAILED" \in sector_map[s] /\ block_of(s) \in B}
           f == [s \in S |-> block_of(s)]
<1>1. S \in SUBSET Bad(sector_map)
  BY MapFits DEF Bad, TypeInv, MainInv, MainOK
<1>2. IsFiniteSet(Bad(sector_map)) /\ Cardinality(Bad(sector_map)) \in Nat
  BY BadFinite DEF TypeInv, MainInv, MainOK
<1>3. IsFiniteSet(S) /\ Cardinality(S) <= Cardinality(Bad(sector_map))
  BY <1>1, <1>2, FS_Subset
<1>4. f \in Surjection(S, B)
  BY DEF BadIn, Surjection
<1> HIDE DEF S, f
<1>5. IsFiniteSet(B) /\ Cardinality(B) <= Cardinality(S)
  BY <1>3, <1>4, FS_Surjection
<1>6. Cardinality(B) \in Nat /\ Cardinality(S) \in Nat
  BY <1>3, <1>5, FS_CardinalityType
<1>7. Cardinality(Bad(sector_map)) <= total_bad_sectors + 1 /\ total_bad_sectors \in Nat
  BY <1>2, SqlThreadAssumption DEF TypeInv, MainInv, CountOK, Bounds, MainOK
<1> QED BY <1>2, <1>3, <1>5, <1>6, <1>7

LEMMA MainThreadPass ==
    ASSUME MainInv, PassInv, MainThread
    PROVE  PassInv'
<1> USE DEF PassInv, ReadIsWritten, MainInv, MainOK
<1>1. CASE ResetSector
  <2>1. phase' \in {"reset", "write"} /\ (phase' = "write" => at' = 0)
    BY <1>1, ForwardFacts DEF ResetSector
  <2>2. sector_map' = [sector_map EXCEPT ![at] = @ \cap {"FAILED"}]
    BY <1>1 DEF ResetSector, keep_failed
  <2> QED BY <2>1, <2>2 DEF Sectors
<1>2. CASE WriteSector
  <2>1. sector_map' = [sector_map EXCEPT ![at] = @ \cup {"WRITTEN"}]
    BY <1>2 DEF WriteSector
  <2>2. /\ \A s \in Sectors : "WRITTEN" \in sector_map[s] => "WRITTEN" \in sector_map'[s]
        /\ "WRITTEN" \in sector_map'[at] /\ ReadIsWritten(sector_map)'
    BY <2>1
  <2>3. phase = "write" /\ (\/ at' = at + 1 /\ phase' = "write"
                            \/ phase' = "read" /\ at + 1 = num_physical_sectors)
    BY <1>2, ForwardFacts DEF WriteSector
  <2>4. \A s \in Sectors : s <= at => "WRITTEN" \in sector_map'[s]
    BY <2>2, <2>3 DEF Sectors
  <2>5. phase' = "write" => \A s \in Sectors : s < at' => "WRITTEN" \in sector_map'[s]
    BY <2>3, <2>4 DEF Sectors
  <2>6. phase' = "read" => \A s \in Sectors : "WRITTEN" \in sector_map'[s]
    BY <2>3, <2>4, SqlThreadAssumption DEF Sectors
  <2> QED BY <2>2, <2>5, <2>6
<1>3. CASE ReadSector
  BY <1>3 DEF ReadSector
<1>4. CASE MarkSectorBad
  BY <1>4 DEF MarkSectorBad, CountBad, FlagBad
<1>5. CASE Judged
  <2>1. /\ sector_map' = sector_map /\ phase = "read"
        /\ phase' \in {"read", "reset", "ending"}
    BY <1>5, ForwardFacts DEF Judged
  <2> QED BY <2>1
<1> QED BY <1>1, <1>2, <1>3, <1>4, <1>5 DEF MainThread

\* (The arithmetic of a primed variable is taken through a constant.)
LEMMA NextRound ==
    ASSUME NEW a \in Nat, NEW b \in Nat, a <= b
    PROVE  \A n \in Nat : n <= a + 1 => n <= b + 1
  OBVIOUS

LEMMA MainThreadRow ==
    ASSUME TypeInv, RowInv, MainThread
    PROVE  RowInv'
<1>1. PassInv'
  BY MainThreadPass DEF RowInv, TypeInv
<1>2. /\ UNCHANGED <<pc, current_round, consolidated_sector_map, j, stored>>
      /\ phase # "over" /\ phase' # "over"
      /\ total_bad_sectors <= total_bad_sectors' /\ rounds_completed <= rounds_completed'
  BY BadStays DEF MainThread, update, TypeInv
<1>3. \A b, s : BadIn(b, s) => BadIn(b, s)'
  BY BadStays, MapFits DEF BadIn, TypeInv, block_of, sectors_per_block, Mapped, MappedSectors
<1>4. /\ stored.num_bad \in Nat /\ stored.round \in Nat /\ current_round \in Nat
      /\ total_bad_sectors \in Nat /\ total_bad_sectors' \in Nat
      /\ rounds_completed \in Nat /\ rounds_completed' \in Nat
  BY MainThreadMain, SqlThreadAssumption DEF TypeInv, SqlOK, MainInv, MainOK, Bounds
<1>5. /\ stored.num_bad <= total_bad_sectors' /\ stored.round <= rounds_completed' + 1
      /\ pc = "build" => current_round <= rounds_completed' + 1
  <2>1. /\ stored.num_bad <= total_bad_sectors /\ stored.round <= rounds_completed + 1
        /\ pc = "build" => current_round <= rounds_completed + 1
    BY <1>2 DEF RowInv, BuildInv
  <2>2. stored.num_bad <= total_bad_sectors'
    BY <1>2, <1>4, <2>1
  <2>3. \A n \in Nat : n <= rounds_completed + 1 => n <= rounds_completed' + 1
    BY <1>2, <1>4, NextRound
  <2> QED BY <1>4, <2>1, <2>2, <2>3
<1>6. \A b \in Bad(stored.map) : \E s \in Mapped : BadIn(b, s)'
  BY <1>2, <1>3 DEF RowInv
<1>7. pc = "build" => BuildInv'
  <2> SUFFICES ASSUME pc = "build" PROVE BuildInv'
    OBVIOUS
  <2>1. \A b \in Bad(consolidated_sector_map) : \E s \in Mapped : BadIn(b, s)'
    BY <1>3 DEF RowInv, BuildInv
  <2>2. \A b \in Bad(stored.map) : \E s \in Mapped :
          BadIn(b, s)' /\ (s < j => b \in Bad(consolidated_sector_map))
    BY <1>3 DEF RowInv, BuildInv
  <2>3. stored.round <= current_round
    BY DEF RowInv, BuildInv
  <2> QED BY <1>2, <1>5, <2>1, <2>2, <2>3 DEF BuildInv, Bad, Mapped, MappedSectors, sectors_per_block
<1> QED BY <1>1, <1>2, <1>5, <1>6, <1>7
        DEF RowInv, ReadIsWritten, Bad, Mapped, MappedSectors, sectors_per_block

\* Steps of the SQL thread other than building and storing the map.
LEMMA OtherStepsRow ==
    ASSUME TypeInv, RowInv, SqlThread, ~BuildMap, ~Execute
    PROVE  RowInv'
<1>1. UNCHANGED <<main_thread, stored>> /\ phase # "over"
  BY DEF SqlThread, Connect, ConnectFails, FindCard, NoCardName, InsertCard,
     UpdateCard, StartUpdate, PrepareFails, Running
<1>2. PassInv' /\ \A b, s : BadIn(b, s) <=> BadIn(b, s)'
  BY <1>1 DEF main_thread, RowInv, PassInv, ReadIsWritten, BadIn, Mapped, MappedSectors,
     sectors_per_block, block_of
<1>3. CASE StartUpdate
  <2>1. /\ current_round' = rounds_completed + 1 /\ consolidated_sector_map' = Fresh /\ j' = 0
        /\ UNCHANGED <<main_thread, stored>>
    BY <1>1, <1>3 DEF StartUpdate
  <2>2. ReadIsWritten(Fresh) /\ Bad(Fresh) = {}
    BY DEF ReadIsWritten, Fresh, Bad
  <2>3. \A s \in Mapped : ~(s < 0)
    BY DEF Mapped
  <2>4. \A b \in Bad(stored.map) : \E s \in Mapped : BadIn(b, s)'
    BY <1>1, <1>2 DEF RowInv
  <2>5. stored.round <= rounds_completed + 1
    BY <1>1 DEF RowInv
  <2>6. BuildInv'
    <3>1. phase' # "over" /\ stored'.round <= current_round'
          /\ current_round' <= rounds_completed' + 1
      BY <1>1, <2>1, <2>5, SqlThreadAssumption DEF main_thread, TypeInv, MainInv, MainOK
    <3>2. \A b \in Bad(consolidated_sector_map') : \E s \in Mapped : BadIn(b, s)'
      BY <2>1, <2>2
    <3>3. \A b \in Bad(stored.map) : \E s \in Mapped :
            BadIn(b, s)' /\ (s < j' => b \in Bad(consolidated_sector_map'))
      BY <2>1, <2>3, <2>4
    <3> QED BY <1>1, <3>1, <3>2, <3>3 DEF BuildInv, Bad, Mapped, MappedSectors, sectors_per_block
  <2> QED BY <1>1, <1>2, <2>1, <2>2, <2>4, <2>5, <2>6
          DEF main_thread, RowInv, ReadIsWritten, Bad, Mapped, MappedSectors, sectors_per_block
<1>4. CASE ~StartUpdate
  <2>1. UNCHANGED consolidated_sector_map /\ pc' # "build"
    BY <1>4 DEF SqlThread, Connect, ConnectFails, FindCard, Fetched, NoCardName, InsertCard,
       UpdateCard, PrepareFails, GivesUp, Running, look_up, update
  <2>2. \A b \in Bad(stored.map) : \E s \in Mapped : BadIn(b, s)'
    BY <1>1, <1>2 DEF RowInv
  <2> QED BY <1>1, <1>2, <2>1, <2>2
          DEF main_thread, RowInv, ReadIsWritten, Bad, Mapped, MappedSectors, sectors_per_block
<1> QED BY <1>3, <1>4

LEMMA BuildMapRow ==
    ASSUME TypeInv, RowInv, BuildMap
    PROVE  RowInv'
<1> DEFINE c == block_of(j)
<1>1. /\ pc = "build" /\ phase # "over" /\ j \in Mapped /\ j \in Nat
      /\ UNCHANGED <<main_thread, pc, stored, current_round>>
  BY MapFits DEF BuildMap, Running, TypeInv, SqlOK, Mapped
<1>2. /\ consolidated_sector_map' = [consolidated_sector_map EXCEPT ![c] = merged(@, sector_map[j])]
      /\ j' = j + 1
  BY DEF BuildMap, block_of
<1>3. /\ c \in 0 .. Blocks - 1 /\ consolidated_sector_map \in BlockMap
      /\ consolidated_sector_map' \in BlockMap /\ j \in Sectors
      /\ DOMAIN consolidated_sector_map = 0 .. Blocks - 1
      /\ DOMAIN consolidated_sector_map' = 0 .. Blocks - 1
  BY <1>1, BlockOf, MapFits, SqlThreadSql DEF TypeInv, SqlOK, SqlThread, BlockMap
<1> HIDE DEF c
<1>4. PassInv' /\ \A b, s : BadIn(b, s) <=> BadIn(b, s)'
  BY <1>1 DEF main_thread, RowInv, PassInv, ReadIsWritten, BadIn, Mapped, MappedSectors,
     sectors_per_block, block_of
<1>5. ReadIsWritten(consolidated_sector_map')
  <2>1. \A b \in 0 .. Blocks - 1 : b # c => consolidated_sector_map'[b] = consolidated_sector_map[b]
    BY <1>2, <1>3 DEF BlockMap
  <2>2. consolidated_sector_map'[c] = merged(consolidated_sector_map[c], sector_map[j])
    BY <1>2, <1>3 DEF BlockMap
  <2>3. "READ" \in sector_map[j] => "WRITTEN" \in sector_map[j]
    BY <1>3 DEF RowInv, PassInv, ReadIsWritten, TypeInv, MainInv, MainOK
  <2>4. \A b \in 0 .. Blocks - 1 : "READ" \in consolidated_sector_map[b]
            => "WRITTEN" \in consolidated_sector_map[b]
    BY <1>3 DEF RowInv, ReadIsWritten
  <2>5. "READ" \in consolidated_sector_map'[c] => "WRITTEN" \in consolidated_sector_map'[c]
    BY <1>3, <2>2, <2>3, <2>4 DEF merged
  <2> QED BY <1>3, <2>1, <2>4, <2>5 DEF ReadIsWritten
<1>6. /\ Bad(consolidated_sector_map) \subseteq Bad(consolidated_sector_map')
      /\ \A b \in Bad(consolidated_sector_map') :
            b \in Bad(consolidated_sector_map) \/ BadIn(b, j)
      /\ "FAILED" \in sector_map[j] => c \in Bad(consolidated_sector_map')
  BY <1>1, <1>2, <1>3 DEF Bad, BadIn, merged, BlockMap, c
<1>7. BuildInv'
  <2>1. \A b \in Bad(consolidated_sector_map') : \E s \in Mapped : BadIn(b, s)'
    BY <1>1, <1>4, <1>6 DEF RowInv, BuildInv
  <2>2. ASSUME NEW b \in Bad(stored.map)
        PROVE  \E s \in Mapped : BadIn(b, s)' /\ (s < j' => b \in Bad(consolidated_sector_map'))
    <3>1. PICK s \in Mapped : BadIn(b, s) /\ (s < j => b \in Bad(consolidated_sector_map))
      BY <1>1 DEF RowInv, BuildInv
    <3>2. s < j' => s < j \/ s = j
      BY <1>1, <1>2 DEF Mapped
    <3>3. s = j => b \in Bad(consolidated_sector_map')
      BY <1>6, <3>1 DEF BadIn, c
    <3> QED BY <1>4, <1>6, <3>1, <3>2, <3>3
  <2>3. phase # "over" /\ stored.round <= current_round /\ current_round <= rounds_completed + 1
    BY <1>1 DEF RowInv, BuildInv
  <2> QED BY <1>1, <2>1, <2>2, <2>3
          DEF BuildInv, main_thread, Bad, Mapped, MappedSectors, sectors_per_block
<1>8. \A b \in Bad(stored.map) : \E s \in Mapped : BadIn(b, s)'
  BY <1>1, <1>4 DEF RowInv
<1> QED BY <1>1, <1>4, <1>5, <1>7, <1>8
        DEF main_thread, RowInv, ReadIsWritten, Bad, Mapped, MappedSectors, sectors_per_block

\* What is stored, if anything, follows what was stored before.
LEMMA ExecuteForward ==
    ASSUME TypeInv, RowInv, Execute, Store
    PROVE  /\ stored.round <= stored'.round /\ stored.num_bad <= stored'.num_bad
           /\ Bad(stored.map) \subseteq Bad(stored'.map)
<1>1. /\ stored'.round = current_round /\ stored'.num_bad = total_bad_sectors
      /\ stored'.map = consolidated_sector_map
  BY DEF Store
<1>2. /\ pc = "build" /\ phase # "over" /\ j = MappedSectors
  BY DEF Execute, Running
<1>3. \A s \in Mapped : s < j
  BY <1>2, MapFits DEF Mapped
<1> QED BY <1>1, <1>2, <1>3 DEF RowInv, BuildInv

LEMMA ExecuteRow ==
    ASSUME TypeInv, RowInv, Execute
    PROVE  RowInv'
<1>1. /\ pc = "build" /\ phase # "over" /\ pc' = "sleep"
      /\ UNCHANGED <<main_thread, update>>
  BY DEF Execute, Running
<1>2. PassInv' /\ \A b, s : BadIn(b, s) <=> BadIn(b, s)'
  BY <1>1 DEF main_thread, RowInv, PassInv, ReadIsWritten, BadIn, Mapped, MappedSectors,
     sectors_per_block, block_of
<1>3. /\ stored'.num_bad <= total_bad_sectors /\ stored'.round <= rounds_completed + 1
      /\ ReadIsWritten(stored'.map)
      /\ Cardinality(Bad(stored'.map)) <= stored'.num_bad + 1
      /\ \A b \in Bad(stored'.map) : \E s \in Mapped : BadIn(b, s)
  <2>1. CASE UNCHANGED stored
    BY <1>1, <2>1 DEF RowInv
  <2>2. CASE Store
    <3>1. /\ stored'.round = current_round /\ stored'.num_bad = total_bad_sectors
          /\ stored'.map = consolidated_sector_map
      BY <2>2 DEF Store
    <3>2. \A b \in Bad(consolidated_sector_map) : \E s \in Mapped : BadIn(b, s)
      BY <1>1 DEF RowInv, BuildInv
    <3>3. Cardinality(Bad(consolidated_sector_map)) <= total_bad_sectors + 1
      BY <3>2, BlocksCounted
    <3>4. total_bad_sectors <= total_bad_sectors
      BY DEF TypeInv, MainInv, Bounds
    <3> QED BY <1>1, <3>1, <3>2, <3>3, <3>4 DEF RowInv, BuildInv
  <2> QED BY <2>1, <2>2 DEF Execute
<1>4. \A b \in Bad(stored'.map) : \E s \in Mapped : BadIn(b, s)'
  BY <1>2, <1>3
<1> QED BY <1>1, <1>2, <1>3, <1>4
        DEF main_thread, update, RowInv, ReadIsWritten, Bad, Mapped, MappedSectors, sectors_per_block

LEMMA EndRow ==
    ASSUME TypeInv, RowInv, End
    PROVE  RowInv'
<1>1. /\ phase' = "over" /\ pc' = "stopped" /\ UNCHANGED stored
      /\ sector_map' = [s \in Sectors |-> {}]
      /\ consolidated_sector_map' = [b \in 0 .. Blocks - 1 |-> {"WRITTEN", "READ"}]
  BY DEF End, Fresh
<1>2. ReadIsWritten(sector_map') /\ ReadIsWritten(consolidated_sector_map')
  BY <1>1 DEF ReadIsWritten
<1> QED BY <1>1, <1>2 DEF RowInv, PassInv, ReadIsWritten, Bad

LEMMA NextRowInv == TypeInv /\ RowInv /\ [Next]_vars => RowInv'
<1> SUFFICES ASSUME TypeInv, RowInv, [Next]_vars PROVE RowInv'
  OBVIOUS
<1>1. CASE UNCHANGED vars
  BY <1>1 DEF vars, main_thread, update, RowInv, PassInv, BuildInv, ReadIsWritten, BadIn, Bad,
     Mapped, MappedSectors, sectors_per_block, block_of
<1> QED BY <1>1, MainThreadRow, OtherStepsRow, BuildMapRow, ExecuteRow, EndRow DEF Next

LEMMA RowInvAlways == Spec => []RowInv
  BY InitRowInv, NextRowInv, TypeInvAlways, PTL DEF Spec

(* What the row says fits together, though its parts were read at          *)
(* different moments of a test that went on.                               *)
THEOREM RowConsistent == Spec => []RowFitsTogether
<1>1. RowInv => RowFitsTogether
  BY DEF RowInv, RowFitsTogether, ReadIsWritten
<1> QED BY <1>1, RowInvAlways, PTL

(* The row never goes back, whatever is lost, repeated or changed while it *)
(* is put together.                                                        *)
THEOREM RowMonotone == Spec => RowGoesForward
<1>1. TypeInv /\ RowInv /\ [Next]_vars =>
        [/\ stored.round <= stored'.round
         /\ stored.num_bad <= stored'.num_bad
         /\ Bad(stored.map) \subseteq Bad(stored'.map)]_vars
  <2> SUFFICES ASSUME TypeInv, RowInv, [Next]_vars
               PROVE  /\ stored.round <= stored'.round
                      /\ stored.num_bad <= stored'.num_bad
                      /\ Bad(stored.map) \subseteq Bad(stored'.map)
    OBVIOUS
  <2>1. CASE UNCHANGED stored
    <3>1. stored.round \in Nat /\ stored.num_bad \in Nat
      BY SqlThreadAssumption DEF TypeInv, SqlOK
    <3> QED BY <2>1, <3>1
  <2>2. CASE Execute /\ Store
    BY <2>2, ExecuteForward
  <2>3. UNCHANGED stored \/ (Execute /\ Store)
    BY DEF Next, MainThread, SqlThread, End, Connect, ConnectFails, FindCard, NoCardName,
       InsertCard, UpdateCard, StartUpdate, BuildMap, Execute, PrepareFails, vars
  <2> QED BY <2>1, <2>2, <2>3
<1> QED BY <1>1, TypeInvAlways, RowInvAlways, PTL DEF Spec, RowGoesForward

----------------------------------------------------------------------------
(* What the thread gives up for: it only inserts a card that is not there,  *)
(* unless the server has failed it or cut off what it looked up.            *)

StopInv ==
    phase # "over" =>
      /\ pc = "stopped" => errors > 0 \/ RefusedAfterCut \/ ~program_options.card_name
      /\ pc = "insert" => errors > 0 \/ (card_id = 0 /\ (card = "none" \/ cut > 0))

LEMMA SqlThreadStop ==
    ASSUME TypeInv, StopInv, SqlThread PROVE StopInv'
<1>1. /\ phase # "over" /\ phase' = phase /\ program_options' = program_options
  BY DEF SqlThread, main_thread, Running, Connect, ConnectFails, FindCard, NoCardName, InsertCard,
     UpdateCard, StartUpdate, BuildMap, Execute, PrepareFails
<1>2. errors \in Nat /\ cut \in Nat
  BY SqlThreadAssumption DEF TypeInv, SqlOK
<1>3. errors' \in {errors, errors + 1} /\ cut' \in {cut, cut + 1} /\ (Failed => errors' > 0)
  <2>1. errors' \in {errors, errors + 1} /\ cut' \in {cut, cut + 1}
    BY DEF SqlThread, faults, Answered, Lost, Failed, FetchFails, Connect, ConnectFails, FindCard,
       NoCardName, InsertCard, UpdateCard, StartUpdate, BuildMap, Execute, PrepareFails
  <2>2. Failed => errors' = errors + 1
    BY DEF Failed
  <2>3. errors + 1 > 0
    BY <1>2
  <2> QED BY <2>1, <2>2, <2>3
<1>4. (errors > 0 => errors' > 0) /\ (cut > 0 => cut' > 0)
  BY <1>2, <1>3
<1>5. CASE FindCard
  <2>1. pc' = "insert" =>
          \/ errors' = errors + 1
          \/ card_id' = 0 /\ (card = "none" \/ cut' = cut + 1)
    BY <1>5 DEF FindCard, Fetched, FetchFails, GivesUp
  <2>2. pc' = "stopped" => Failed
    BY <1>5 DEF FindCard, Fetched
  <2>3. errors + 1 > 0 /\ cut + 1 > 0 /\ card' = card
    BY <1>2, <1>5 DEF FindCard
  <2> QED BY <1>3, <2>1, <2>2, <2>3 DEF StopInv
<1>6. CASE InsertCard
  <2>1. pc' # "insert"
    BY <1>6 DEF InsertCard, GivesUp
  <2>2. pc' = "stopped" => Failed \/ (card # "none" /\ UNCHANGED <<card, card_id>>)
    BY <1>6 DEF InsertCard
  <2>3. pc = "insert"
    BY <1>6 DEF InsertCard, Running
  <2> QED BY <1>1, <1>3, <1>4, <2>1, <2>2, <2>3 DEF StopInv, RefusedAfterCut
<1>7. CASE NoCardName
  BY <1>1, <1>7 DEF NoCardName, GivesUp, StopInv
<1>8. CASE ConnectFails \/ UpdateCard \/ PrepareFails
  <2>1. pc' = "stopped" => Failed
    BY <1>8 DEF ConnectFails, UpdateCard, PrepareFails, Running
  <2>2. pc' # "insert"
    BY <1>8 DEF ConnectFails, UpdateCard, PrepareFails, Running, GivesUp
  <2> QED BY <1>3, <2>1, <2>2 DEF StopInv
<1>9. CASE Connect \/ StartUpdate \/ BuildMap \/ Execute
  <2>1. pc' \notin {"stopped", "insert"}
    BY <1>9 DEF Connect, StartUpdate, BuildMap, Execute, Running, look_up
  <2> QED BY <2>1 DEF StopInv
<1> QED BY <1>5, <1>6, <1>7, <1>8, <1>9 DEF SqlThread

(* A call that loses the connection is nothing the thread gives up for,     *)
(* however often it happens and whatever the server did before, but for a   *)
(* loss in the midst of the result of the look-up (mysql_stmt_fetch): that  *)
(* ends the thread, and only where the card has a row already.              *)
THEOREM LossesSurvived == Spec => []SurvivesLosses
<1>1. Init => StopInv
  BY DEF Init, StopInv
<1>2. ASSUME TypeInv, StopInv, [Next]_vars PROVE StopInv'
  <2>1. CASE MainThread
    BY <1>2, <2>1, BadStays DEF TypeInv, MainThread, faults, StopInv, RefusedAfterCut
  <2>2. CASE End
    BY <2>2 DEF End, StopInv
  <2>3. CASE UNCHANGED vars
    BY <1>2, <2>3 DEF vars, main_thread, update, faults, StopInv, RefusedAfterCut
  <2> QED BY <1>2, <2>1, <2>2, <2>3, SqlThreadStop DEF Next
<1>3. StopInv => SurvivesLosses
  BY DEF StopInv, SurvivesLosses
<1> QED BY <1>1, <1>2, <1>3, TypeInvAlways, PTL DEF Spec

=================================================================================
