----------------------------- MODULE RetryAnswers -----------------------------
(***************************************************************************)
(* What the retry layer promises its callers: how a call of lseek_or_retry,*)
(* read_or_reset_device or write_or_reset_device may be answered, given    *)
(* the state of the device handle.  EnduranceTest takes one such answer in *)
(* each of its steps; RetryLayer, which models the code, implements them.  *)
(***************************************************************************)

VARIABLES
    call,           \* the function called: none, lseek, read or write
    answer,         \* pending, ok, error, or eof (a read of 0 bytes)
    disc,           \* *device_was_disconnected, when the call has been answered
    handle,         \* the device handle: open, stale (its device went away) or
                    \* closed
    later_round     \* a round of the endurance test has been completed

vars == <<call, answer, disc, handle, later_round>>

Handles == {"open", "stale", "closed"}

\* A handle that was obtained in the course of the call; its device may be
\* gone again.
Renewed == handle' \in {"open", "stale"}

Init ==
    /\ call = "none"
    /\ answer = "ok"
    /\ disc = FALSE
    /\ handle = "open"
    /\ later_round \in BOOLEAN

Call ==
    /\ answer # "pending"
    /\ call' \in {"lseek", "read", "write"}
    /\ answer' = "pending"
    /\ disc' = FALSE
    /\ UNCHANGED <<handle, later_round>>

(* The device goes away. *)
Break ==
    /\ handle = "open"
    /\ handle' = "stale"
    /\ UNCHANGED <<call, answer, disc, later_round>>

(* A stale handle may still seek; a handle is only exchanged for another   *)
(* when the device went away, and then the caller is told.  When it is not *)
(* noticed that the device went away, a seek that fails leaves the handle. *)
Lseek ==
    /\ call = "lseek"
    /\ \/ answer' = "ok" /\ ~disc' /\ handle # "closed" /\ handle' = handle
       \/ answer' = "ok" /\ disc' /\ handle # "open" /\ Renewed
       \/ answer' = "error" /\ ~disc' /\ handle # "open" /\ handle' = handle
       \/ answer' = "error" /\ disc' /\ handle # "open" /\ handle' \in Handles

(* A write that succeeds without a word of a disconnect went to the handle *)
(* there was, whose device may be gone when the answer comes; nothing is   *)
(* recovered from in the first round.                                      *)
Write ==
    /\ call = "write"
    /\ \/ answer' = "ok" /\ ~disc' /\ handle # "closed" /\ handle' = handle
       \/ answer' = "ok" /\ disc' /\ later_round /\ Renewed
       \/ answer' = "error" /\ ~disc' /\ handle # "closed" /\ handle' = handle
       \/ answer' = "error" /\ ~disc' /\ later_round /\ handle # "closed"
                            /\ handle' \in {"stale", "closed"}
       \/ answer' = "error" /\ disc' /\ handle # "open" /\ handle' = handle
       \/ answer' = "error" /\ disc' /\ later_round /\ handle' \in Handles

(* A read tells nothing of a disconnect.                                   *)
Read ==
    /\ call = "read"
    /\ ~disc'
    /\ \/ answer' \in {"ok", "eof"} /\ handle # "closed" /\ Renewed
       \/ answer' = "error" /\ handle' \in Handles

Answer ==
    /\ answer = "pending"
    /\ Lseek \/ Write \/ Read
    /\ UNCHANGED <<call, later_round>>

Next == Call \/ Break \/ Answer

Spec == Init /\ [][Next]_vars

===============================================================================
