--------------------------- MODULE EnduranceRounds ---------------------------
(***************************************************************************)
(* What the endurance test promises, whatever the device does: rounds one  *)
(* after the other until half of the device is bad, or until it gives the  *)
(* device up; a bad sector is never forgotten, only a bad one is ever      *)
(* excluded from use, and the round of the first error is recorded.        *)
(***************************************************************************)
EXTENDS Integers, FiniteSets

CONSTANTS NumSectors    \* sectors of the device

VARIABLES
    status,             \* between (rounds), testing, worn_out or gave_up
    round,              \* rounds completed
    bad,                \* sectors that have failed
    unusable,           \* sectors that are no longer touched
    first_error         \* the round of the first bad sector, or -1

vars == <<status, round, bad, unusable, first_error>>

Init ==
    /\ status = "between"
    /\ round = 0
    /\ bad = {}
    /\ unusable = {}
    /\ first_error = -1

WornOut == Cardinality(bad) >= NumSectors \div 2

Begin ==
    /\ status = "between" /\ ~WornOut
    /\ status' = "testing"
    /\ UNCHANGED <<round, bad, unusable, first_error>>

(* Sectors are found bad, or bad ones found unusable. *)
Find ==
    /\ status = "testing"
    /\ bad \subseteq bad' /\ bad' \subseteq 0 .. NumSectors - 1
    /\ unusable \subseteq unusable' /\ unusable' \subseteq bad'
    /\ UNCHANGED <<status, round, first_error>>

Complete ==
    /\ status = "testing"
    /\ status' = "between"
    /\ round' = round + 1
    /\ first_error' = IF first_error = -1 /\ bad # {} THEN round ELSE first_error
    /\ UNCHANGED <<bad, unusable>>

Conclude ==
    /\ status = "between" /\ WornOut
    /\ status' = "worn_out"
    /\ UNCHANGED <<round, bad, unusable, first_error>>

GiveUp ==
    /\ status = "testing"
    /\ status' = "gave_up"
    /\ UNCHANGED <<round, bad, unusable, first_error>>

Next == Begin \/ Find \/ Complete \/ Conclude \/ GiveUp

Spec == Init /\ [][Next]_vars

=============================================================================
