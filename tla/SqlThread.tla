------------------------------- MODULE SqlThread -------------------------------
(***************************************************************************)
(* The SQL thread: it registers the card with a database, and then copies  *)
(* the state of the endurance test there every 30 seconds, while the main  *)
(* thread changes it.  Nothing guards what the two share: the round is     *)
(* read first, then the map, sector by sector, and the number of bad       *)
(* sectors when the statement is executed.                                 *)
(*                                                                         *)
(* The database is an external service.  Any call can lose the connection, *)
(* before or after the server did what it was asked, or fail otherwise;    *)
(* the client library connects again by itself (MYSQL_OPT_RECONNECT).  The *)
(* server does not carry out a statement after its connection was lost.    *)
(* The endurance test (EnduranceTest) is reduced to what it stores in the  *)
(* map and the counters.  Left out of it: that the slices are gone over in *)
(* random order, and that WRITTEN is cleared again where a slice restarts  *)
(* (mfst.c:2837).                                                          *)
(***************************************************************************)
EXTENDS Naturals, FiniteSets

CONSTANTS
    num_physical_sectors,
    Blocks,             \* CONSOLIDATED_SECTOR_MAP_SIZE (10000 in the code)
    MaxRounds,          \* bound: rounds of the test; another one begins
    MaxBad,             \* bound: sectors that go bad
    MaxFaults           \* bound: calls that lose the connection or fail

ASSUME SqlThreadAssumption ==
    /\ {num_physical_sectors, Blocks, MaxRounds} \subseteq Nat \ {0}
    /\ {MaxBad, MaxFaults} \subseteq Nat

VARIABLES
    phase,              \* the main thread: "reset", "write", "read" the
                        \* sectors, "ending" (a summary is shown), "over"
    at,                 \* the sector it is at
    half_bad,           \* which store of mark_sector_bad has been done
    sector_map,
    total_bad_sectors,
    rounds_completed,
    program_options,    \* whether a card's name is given, and its id or 0
    pc,                 \* the SQL thread
    sql_thread_status,
    card_id,            \* params->card_id; 0 if it is not known
    card_registered,
    current_round,
    consolidated_sector_map,
    j,                  \* the next sector to read
    card,               \* the card's row of "cards": "none", "as_was", "as_is"
    stored,             \* its row of "consolidated_sector_maps"
    losses,             \* calls that lost the connection
    errors,             \* calls that failed otherwise
    cut                 \* results the connection was lost in the midst of

main_thread == <<phase, at, half_bad, sector_map, total_bad_sectors, rounds_completed>>
update      == <<current_round, consolidated_sector_map, j>>
faults      == <<losses, errors, cut>>
vars        == <<main_thread, program_options, pc, sql_thread_status, card_id, card_registered,
                 update, card, stored, faults>>

Sectors  == 0 .. num_physical_sectors - 1
Flags    == {"FAILED", "WRITTEN", "READ"}
BlockMap == [0 .. Blocks - 1 -> SUBSET Flags]

\* A block no sector of which has been looked at: 0x6.
Fresh == [b \in 0 .. Blocks - 1 |-> {"WRITTEN", "READ"}]

\* No row: as if there were one that says nothing.
NoRow == [round |-> 0, num_bad |-> 0, map |-> [b \in 0 .. Blocks - 1 |-> {}]]

sectors_per_block == num_physical_sectors \div Blocks

\* The sectors the map has room for; the rest of the division is left out.
MappedSectors == Blocks * sectors_per_block

----------------------------------------------------------------------------
(* The card may be in the database already, and its name or, if it is, its *)
(* id may be given on the command line; a name beside an id is not used.   *)

Init ==
    /\ phase = "reset" /\ at = 0 /\ half_bad = "no"
    /\ sector_map = [s \in Sectors |-> {}]
    /\ total_bad_sectors = 0
    /\ rounds_completed = 0
    /\ program_options \in {[card_name |-> TRUE,  card_id |-> 0],
                            [card_name |-> FALSE, card_id |-> 0],
                            [card_name |-> FALSE, card_id |-> 1]}
    /\ pc = "connect"
    /\ sql_thread_status = "NOT_CONNECTED"
    /\ card_id = program_options.card_id
    /\ card_registered = FALSE
    /\ current_round = 0
    /\ consolidated_sector_map = Fresh
    /\ j = 0
    /\ card \in IF card_id = 0 THEN {"none", "as_was"} ELSE {"as_was"}
    /\ stored = NoRow
    /\ losses = 0
    /\ errors = 0
    /\ cut = 0

----------------------------------------------------------------------------
(* The main thread.                                                        *)

\* What reset_sector_map leaves; mutant: nothing.
keep_nothing(flags) == {}

keep_failed(flags) == flags \cap {"FAILED"}

\* On to the next sector, or else from phase p to phase q.
Forward(q) ==
    IF at + 1 < num_physical_sectors THEN at' = at + 1 /\ UNCHANGED phase
                                     ELSE at' = 0 /\ phase' = q

ResetSector ==
    /\ phase = "reset"
    /\ sector_map' = [sector_map EXCEPT ![at] = keep_failed(@)]
    /\ Forward("write")
    /\ UNCHANGED <<half_bad, total_bad_sectors, rounds_completed>>

WriteSector ==
    /\ phase = "write" /\ half_bad = "no"
    /\ rounds_completed < MaxRounds
    /\ sector_map' = [sector_map EXCEPT ![at] = @ \cup {"WRITTEN"}]
    /\ Forward("read")
    /\ UNCHANGED <<half_bad, total_bad_sectors, rounds_completed>>

\* A sector is marked as read before what was read is compared.
ReadSector ==
    /\ phase = "read" /\ "READ" \notin sector_map[at]
    /\ sector_map' = [sector_map EXCEPT ![at] = @ \cup {"READ"}]
    /\ UNCHANGED <<phase, at, half_bad, total_bad_sectors, rounds_completed>>

\* A sector that cannot be written, or compares unequal, goes bad.  The two
\* stores, of the counter and of the flag, are seen in either order.
InJudgement == phase = "write" \/ (phase = "read" /\ "READ" \in sector_map[at])

\* Mutant: the flag is set before it is tested, and the sector never counted.
flag_then_test(s) == total_bad_sectors

counted(s) == total_bad_sectors + 1

CountBad ==
    /\ total_bad_sectors' = counted(at)
    /\ UNCHANGED sector_map

FlagBad ==
    /\ sector_map' = [sector_map EXCEPT ![at] = @ \cup {"FAILED"}]
    /\ UNCHANGED total_bad_sectors

MarkSectorBad ==
    /\ InJudgement
    /\ \/ /\ half_bad = "no" /\ "FAILED" \notin sector_map[at]
          /\ total_bad_sectors < MaxBad
          /\ \/ CountBad /\ half_bad' = "counted"
             \/ FlagBad /\ half_bad' = "flagged"
       \/ half_bad = "counted" /\ FlagBad /\ half_bad' = "no"
       \/ half_bad = "flagged" /\ CountBad /\ half_bad' = "no"
    /\ UNCHANGED <<phase, at, rounds_completed>>

\* The last sector of a round: the test goes on until half of them are bad.
Judged ==
    /\ phase = "read" /\ InJudgement /\ half_bad = "no"
    /\ Forward(IF total_bad_sectors < num_physical_sectors \div 2
               THEN "reset" ELSE "ending")
    /\ rounds_completed' = IF at' = 0 THEN rounds_completed + 1 ELSE rounds_completed
    /\ UNCHANGED <<half_bad, sector_map, total_bad_sectors>>

MainThread ==
    /\ ResetSector \/ WriteSector \/ ReadSector \/ MarkSectorBad \/ Judged
    /\ UNCHANGED <<program_options, pc, sql_thread_status, card_id,
                   card_registered, update, card, stored, faults>>

\* The program ends, after the test or for an error in the midst of it: only
\* the database is left.  Nobody waits for the SQL thread; cleanup() frees what
\* it reads, and what it does between that and the end is undefined.
End ==
    /\ phase # "over" /\ half_bad = "no"
    /\ phase' = "over"
    /\ at' = 0
    /\ sector_map' = [s \in Sectors |-> {}]
    /\ total_bad_sectors' = 0
    /\ rounds_completed' = 0
    /\ pc' = "stopped"
    /\ sql_thread_status' = "NOT_CONNECTED"
    /\ card_id' = program_options.card_id
    /\ card_registered' = FALSE
    /\ current_round' = 0
    /\ consolidated_sector_map' = Fresh
    /\ j' = 0
    /\ UNCHANGED <<half_bad, program_options, card, stored, faults>>

----------------------------------------------------------------------------
(* How a call ends.                                                        *)

Fault == losses + errors + cut < MaxFaults

Answered(status) == sql_thread_status' = status /\ UNCHANGED faults

Lost ==
    /\ Fault
    /\ losses' = losses + 1
    /\ sql_thread_status' = "DISCONNECTED"
    /\ UNCHANGED <<errors, cut>>

Failed ==
    /\ Fault
    /\ errors' = errors + 1
    /\ sql_thread_status' = "ERROR"
    /\ UNCHANGED <<losses, cut>>

\* The thread gives up: it returns, and does not come back.
GivesUp == pc' = "stopped"

Running(p) == pc = p /\ phase # "over"

----------------------------------------------------------------------------
(* Registering the card.                                                   *)

card_id_known == card_id # 0

\* Mutant: the card is looked up only once.
insert_again == IF losses > 0 THEN "insert" ELSE "find"

look_up == "find"

Connect ==
    /\ Running("connect")
    /\ Answered("CONNECTED")
    /\ card_registered' = (card_registered \/ card_id_known)
    /\ pc' = IF card_registered' THEN "update" ELSE look_up
    /\ UNCHANGED <<main_thread, program_options, card_id, update, card, stored>>

\* mysql_real_connect fails, for whatever reason: again in 30 seconds.  Or
\* mysql_init does.
ConnectFails ==
    /\ Running("connect")
    /\ \/ /\ Fault /\ losses' = losses + 1
          /\ sql_thread_status' = "ERROR"
          /\ UNCHANGED <<pc, errors, cut>>
       \/ Failed /\ GivesUp
    /\ UNCHANGED <<main_thread, program_options, card_id, card_registered,
                   update, card, stored>>

\* The result of mysql_stmt_fetch is only compared with MYSQL_NO_DATA: where
\* it fails, for a lost connection too, the id stays 0, and the connection
\* passes for good.
Fetched(id) == card_id' = id /\ pc' = IF id # 0 THEN "update_card" ELSE "insert"

FetchFails ==
    /\ Fault
    /\ \/ cut' = cut + 1 /\ UNCHANGED errors
       \/ errors' = errors + 1 /\ UNCHANGED cut
    /\ sql_thread_status' = "CONNECTED"
    /\ UNCHANGED losses

FindCard ==
    /\ Running("find")
    /\ \/ Fetched(IF card = "none" THEN 0 ELSE 1) /\ Answered("CONNECTED")
       \/ Fetched(0) /\ FetchFails
       \/ Lost /\ pc' = "connect" /\ UNCHANGED card_id
       \/ Failed /\ GivesUp /\ UNCHANGED card_id
    /\ UNCHANGED <<main_thread, program_options, card_registered, update, card, stored>>

NoCardName ==
    /\ Running("insert") /\ ~program_options.card_name
    /\ Answered("ERROR")
    /\ GivesUp
    /\ UNCHANGED <<main_thread, program_options, card_id, card_registered, update, card, stored>>

\* uuid is a unique key: a second row for the card is refused.
InsertCard ==
    /\ Running("insert") /\ program_options.card_name
    /\ \/ /\ card = "none"
          /\ Answered("CONNECTED")
          /\ card' = "as_is"
          /\ card_id' = 1
          /\ card_registered' = TRUE
          /\ pc' = "update"
       \/ /\ card # "none"
          /\ Answered("ERROR")
          /\ GivesUp
          /\ UNCHANGED <<card, card_id, card_registered>>
       \/ /\ Lost
          /\ card' = card \/ (card = "none" /\ card' = "as_is")
          /\ pc' = "connect"
          /\ UNCHANGED <<card_id, card_registered>>
       \/ Failed /\ GivesUp /\ UNCHANGED <<card, card_id, card_registered>>
    /\ UNCHANGED <<main_thread, program_options, update, stored>>

\* card_id has been set, so that when the connection is lost here, the card is
\* taken next time for one whose id was given, and is not updated again.
UpdateCard ==
    /\ Running("update_card")
    /\ \/ /\ Answered("CONNECTED")
          /\ card' = "as_is"
          /\ card_registered' = TRUE
          /\ pc' = "update"
       \/ /\ Lost
          /\ card' \in {card, "as_is"}
          /\ pc' = "connect"
          /\ UNCHANGED card_registered
       \/ Failed /\ GivesUp /\ UNCHANGED <<card, card_registered>>
    /\ UNCHANGED <<main_thread, program_options, card_id, update, stored>>

----------------------------------------------------------------------------
(* Updating the map.                                                       *)

StartUpdate ==
    /\ Running("update") \/ Running("sleep")
    /\ current_round' = rounds_completed + 1
    /\ consolidated_sector_map' = Fresh
    /\ j' = 0
    /\ pc' = "build"
    /\ UNCHANGED <<main_thread, program_options, sql_thread_status, card_id, card_registered, card,
                   stored, faults>>

\* Mutant: a block is bad if all its sectors are.
merged_alike(block, sector) == block \cap sector

\* A block is written, or read, if all its sectors are, and bad if one is.
merged(block, sector) ==
    (block \cap sector) \cup ((block \cup sector) \cap {"FAILED"})

BuildMap ==
    /\ Running("build") /\ j < MappedSectors
    /\ consolidated_sector_map' =
           [consolidated_sector_map EXCEPT ![j \div sectors_per_block] =
                merged(@, sector_map[j])]
    /\ j' = j + 1
    /\ UNCHANGED <<main_thread, program_options, pc, sql_thread_status, card_id, card_registered,
                   current_round, card, stored, faults>>

Store == stored' = [round |-> current_round, num_bad |-> total_bad_sectors,
                    map |-> consolidated_sector_map]

\* What status mysql_stmt_execute leaves.
executed_status(outcome) ==
    CASE outcome = "ok"    -> "CONNECTED"
      [] outcome = "lost"  -> "DISCONNECTED"
      [] outcome = "error" -> "ERROR"

\* Whatever comes of it, sql_thread_update_sector_map returns 0.
Execute ==
    /\ Running("build") /\ j = MappedSectors
    /\ \/ /\ Store
          /\ sql_thread_status' = executed_status("ok")
          /\ UNCHANGED faults
       \/ /\ Fault /\ losses' = losses + 1
          /\ sql_thread_status' = executed_status("lost")
          /\ Store \/ UNCHANGED stored
          /\ UNCHANGED <<errors, cut>>
       \/ /\ Fault /\ errors' = errors + 1
          /\ sql_thread_status' = executed_status("error")
          /\ UNCHANGED <<stored, losses, cut>>
    /\ pc' = "sleep"
    /\ UNCHANGED <<main_thread, program_options, card_id, card_registered, update, card>>

\* Preparing the statement or sending the map fails.
PrepareFails ==
    /\ Running("build") /\ j = MappedSectors
    /\ \/ Lost /\ pc' = "connect"
       \/ Failed /\ GivesUp
    /\ UNCHANGED <<main_thread, program_options, card_id, card_registered, update, card, stored>>

SqlThread ==
    \/ Connect \/ ConnectFails
    \/ FindCard \/ NoCardName \/ InsertCard \/ UpdateCard
    \/ StartUpdate \/ BuildMap \/ Execute \/ PrepareFails

Next == MainThread \/ SqlThread \/ End

Spec == Init /\ [][Next]_vars

(* The SQL thread runs, and its calls return; the test need not go on. *)
FairSpec == Spec /\ WF_vars(SqlThread)

----------------------------------------------------------------------------

Bad(map) == {b \in DOMAIN map : "FAILED" \in map[b]}

(* The types of the variables; but for the one store in between, the       *)
(* counter is the number of sectors flagged.                               *)
TypeOK ==
    /\ phase \in {"reset", "write", "read", "ending", "over"}
    /\ at \in Sectors
    /\ half_bad \in {"no", "counted", "flagged"}
    /\ sector_map \in [Sectors -> SUBSET Flags]
    /\ total_bad_sectors + (IF half_bad = "flagged" THEN 1 ELSE 0)
         = Cardinality(Bad(sector_map)) + (IF half_bad = "counted" THEN 1 ELSE 0)
    /\ rounds_completed \in 0 .. MaxRounds
    /\ program_options \in [card_name : BOOLEAN, card_id : {0, 1}]
    /\ pc \in {"connect", "find", "insert", "update_card", "update", "build",
               "sleep", "stopped"}
    /\ sql_thread_status \in {"NOT_CONNECTED", "CONNECTED", "DISCONNECTED", "ERROR"}
    /\ card_id \in {0, 1}
    /\ card_registered \in BOOLEAN
    /\ current_round \in 0 .. MaxRounds + 1
    /\ consolidated_sector_map \in BlockMap
    /\ j \in 0 .. MappedSectors
    /\ card \in {"none", "as_was", "as_is"}
    /\ stored \in [round : 0 .. MaxRounds + 1, num_bad : 0 .. MaxBad, map : BlockMap]
    /\ losses \in 0 .. MaxFaults
    /\ errors \in 0 .. MaxFaults
    /\ cut \in 0 .. MaxFaults

(* The row is put together at different moments, but what it says fits     *)
(* together: at most one more block is shown bad than bad sectors are      *)
(* reported, those being counted by now, and a block shown as read is      *)
(* shown as written.                                                       *)
RowFitsTogether ==
    /\ Cardinality(Bad(stored.map)) <= stored.num_bad + 1
    /\ phase # "over" => /\ stored.num_bad <= total_bad_sectors
                         /\ stored.round <= rounds_completed + 1
    /\ \A b \in DOMAIN stored.map :
          "READ" \in stored.map[b] => "WRITTEN" \in stored.map[b]

(* Whoever watches the database never sees the test go back: not the round,*)
(* nor the number of bad sectors, nor a bad block that becomes good.       *)
RowGoesForward ==
    [][/\ stored.round <= stored'.round
       /\ stored.num_bad <= stored'.num_bad
       /\ Bad(stored.map) \subseteq Bad(stored'.map)]_vars

\* The thread gave up on a card that has a row: the result of a look-up was
\* cut off and taken for none, and the insert refused.
RefusedAfterCut == cut > 0 /\ card # "none" /\ card_id = 0

(* A call that loses the connection, whatever the server did before, is    *)
(* nothing the thread gives up for, with one exception: a look-up whose    *)
(* result is cut off (sql.c:373), and only where the card has a row.       *)
(* Otherwise it gives up only when a call failed for another reason, or    *)
(* when it has no name for a card to register.                             *)
SurvivesLosses ==
    pc = "stopped" /\ phase # "over" =>
        errors > 0 \/ RefusedAfterCut \/ ~program_options.card_name

(* The database catches up: time and again it shows every sector that is   *)
(* bad, unless the thread gives up or the program ends; but for those at   *)
(* the end of the device for which the map has no room.                    *)
BadShown ==
    []<>(\/ \A s \in 0 .. MappedSectors - 1 :
               "FAILED" \in sector_map[s] =>
                   s \div sectors_per_block \in Bad(stored.map)
         \/ pc = "stopped")
===============================================================================
