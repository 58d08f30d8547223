------------------------------ MODULE RetryLayer ------------------------------
(***************************************************************************)
(* The retry layer: lseek_or_retry, read_or_reset_device and               *)
(* write_or_reset_device, which repeat a failed request, reset the device, *)
(* or wait for it to reconnect, and call each other in doing so.           *)
(*                                                                         *)
(* The functions are frames of a call stack, and one action is one system  *)
(* call or one decision; the device may be pulled out and come back        *)
(* between any two of them.                                                *)
(***************************************************************************)
EXTENDS Naturals, Sequences

CONSTANTS
    MAX_RESET_RETRIES,  \* 5 in the program
    MaxUnplugs,         \* bound: how often the device goes away by itself
    MaxCalls            \* bound: calls of the layer in a behaviour

ASSUME RetryAssumption ==
    /\ MAX_RESET_RETRIES \in Nat \ {0}
    /\ MaxUnplugs \in Nat
    /\ MaxCalls \in Nat

VARIABLES
    stack,          \* the active functions, the innermost first
    ret,            \* what the last function or system call returned
    fd,             \* open, stale (the device it is for went away) or closed
    moved,          \* the file position is not that of the request
    attached,       \* the device is attached
    known,          \* device_num is the number it has, or had when last seen
    usb,            \* it is attached by USB
    event,          \* its arrival, as the udev monitor of
                    \* wait_for_device_reconnect sees it: none, new or rejected
    later_round,    \* rounds_completed is not 0
    device_was_disconnected,    \* the caller's flag, cleared by the caller
    unplugs, calls, \* for the bounds
    call,           \* the function the caller called last
    handle,         \* history: the handle as the caller knows it
    renewed         \* history: a new handle was obtained during the call

device == <<attached, known, usb, event, unplugs>>
caller == <<calls, call, later_round>>
vars   == <<stack, ret, fd, moved, device, caller, device_was_disconnected,
            handle, renewed>>

----------------------------------------------------------------------------
(* Frames.  A frame has the function, what it does (op), where it is (at), *)
(* its retry_count, its local ret, and whether it was given the caller's   *)
(* flag (tells).                                                           *)

\* lseek_or_retry, read_or_retry or write_or_retry.
Retry(op, tells) ==
    [fn |-> "retry", op |-> op, at |-> "first", n |-> 0, ret |-> "error", tells |-> tells]

\* lseek_or_reset_device, read_or_reset_device or write_or_reset_device.
ResetLoop(op, tells) ==
    [fn |-> "reset_loop", op |-> op, at |-> "start", n |-> 0, ret |-> "error", tells |-> tells]

\* handle_device_disconnect; op is the operation of the function it is called
\* from: unless that seeks itself, the file position is to be restored.
Reconnect(op) ==
    [fn |-> "reconnect", op |-> op, at |-> "start", n |-> 0, ret |-> "error", tells |-> FALSE]

ResetDevice ==
    [fn |-> "reset_device", op |-> "none", at |-> "start", n |-> 0, ret |-> "error",
     tells |-> FALSE]

Idle == stack = <<>>
Top  == Head(stack)
At(fn, at) == ~Idle /\ Top.fn = fn /\ Top.at = at

Become(frame)     == stack' = <<frame>> \o Tail(stack)
Goto(at)          == Become([Top EXCEPT !.at = at])
Enter(frame, at)  == stack' = <<frame, [Top EXCEPT !.at = at]>> \o Tail(stack)

\* The function returns; the caller of the layer sees the handle it leaves.
Return(v) ==
    /\ stack' = Tail(stack)
    /\ ret' = v
    /\ handle' = IF Len(stack) = 1 THEN fd' ELSE handle

\* Mutant: a reset is not reported.
TellDisconnectOnly ==
    device_was_disconnected' =
      (device_was_disconnected \/ (Top.tells /\ Top.at # "redone"))

\* Mutant: only a reset is reported.
TellResetOnly ==
    device_was_disconnected' =
      (device_was_disconnected \/ (Top.tells /\ Top.at = "redone"))

Tell == device_was_disconnected' = (device_was_disconnected \/ Top.tells)

\* did_device_disconnect: there is no device of the number the program knows.
Disconnected == ~(attached /\ known)

\* Mutant: the retries are not counted.
CountedNot(f) == f.n

Counted(f) == f.n + 1

Init ==
    /\ stack = <<>>
    /\ ret = "ok"
    /\ fd = "open"
    /\ moved = FALSE
    /\ attached = TRUE
    /\ known = TRUE
    /\ usb \in BOOLEAN
    /\ event = "none"
    /\ later_round \in BOOLEAN
    /\ device_was_disconnected = FALSE
    /\ unplugs = 0
    /\ calls = 0
    /\ call = "none"
    /\ handle = "open"
    /\ renewed = FALSE

----------------------------------------------------------------------------
(* The callers: endurance_test_write_slice and ..._block, main() and       *)
(* endurance_test_read_block.  Without a handle nothing is read.           *)

Call(op) ==
    /\ Idle
    /\ calls < MaxCalls
    /\ op = "read" => fd # "closed"
    /\ calls' = calls + 1
    /\ call' = op
    /\ stack' = << IF op = "lseek" THEN Retry(op, TRUE) ELSE ResetLoop(op, op = "write") >>
    /\ device_was_disconnected' = FALSE
    /\ moved' = FALSE
    /\ renewed' = FALSE
    /\ UNCHANGED <<ret, fd, device, later_round, handle>>

----------------------------------------------------------------------------
(* lseek_or_retry, read_or_retry, write_or_retry.                          *)

\* What a system call may do.  A seek only moves the file position, and cannot
\* fail while the device is there; when it is gone it may.
Outcomes(op) ==
    CASE fd = "open"   -> IF op = "lseek" THEN {"ok"} ELSE
                          IF op = "read" THEN {"ok", "error", "eof"} ELSE {"ok", "error"}
      [] fd = "stale"  -> IF op = "lseek" THEN {"ok", "error"} ELSE
                          IF op = "read" THEN {"error", "eof"} ELSE {"error"}
      [] fd = "closed" -> {"error"}

Request ==
    /\ At("retry", "first") \/ At("retry", "again")
    /\ \E r \in Outcomes(Top.op) :
         /\ Become([Top EXCEPT !.at = "check", !.ret = r,
                               !.n = IF Top.at = "again" THEN Counted(Top) ELSE @])
         /\ moved' = (moved /\ ~(Top.op = "lseek" /\ r = "ok"))
    /\ UNCHANGED <<ret, fd, device, caller, device_was_disconnected, handle, renewed>>

\* Mutant: one retry too many.
AgainOnceMore == /\ Top.ret # "ok" /\ (Top.ret = "eof" => Top.fn = "retry")
                 /\ Top.n <= MAX_RESET_RETRIES

\* The loop goes on; read_or_retry repeats a read of nothing as well.
Again == /\ Top.ret # "ok" /\ (Top.ret = "eof" => Top.fn = "retry")
         /\ Top.n < MAX_RESET_RETRIES

RetryDone ==
    /\ At("retry", "check")
    /\ ~Again
    /\ fd' = fd
    /\ Return(Top.ret)
    /\ UNCHANGED <<moved, device, caller, device_was_disconnected, renewed>>

RetryAgain ==
    /\ At("retry", "check")
    /\ Again
    /\ ~Disconnected
    /\ Goto("again")
    /\ UNCHANGED <<ret, fd, moved, device, caller, device_was_disconnected, handle, renewed>>

\* Mutant: a write is recovered in the first round as well.
NoRecoveryEver(op) == FALSE

\* A write is not recovered in the first round.
NoRecovery(op) == op = "write" /\ ~later_round

\* The caller is told that the device went away; unless it is not to be
\* recovered, it is waited for.
AwaitDevice ==
    /\ Tell
    /\ fd' = fd
    /\ IF NoRecovery(Top.op)
       THEN Return("error")
       ELSE Enter(Reconnect(Top.op), "reconnected") /\ UNCHANGED <<ret, handle>>
    /\ UNCHANGED <<moved, device, caller, renewed>>

RetryDisconnected ==
    /\ At("retry", "check")
    /\ Again
    /\ Disconnected
    /\ AwaitDevice

(* handle_device_disconnect has returned, to either kind of loop. *)
Reconnected ==
    /\ At("retry", "reconnected") \/ At("reset_loop", "reconnected")
    /\ fd' = fd
    /\ IF ret = "error" THEN Return("error") ELSE Goto("check") /\ UNCHANGED <<ret, handle>>
    /\ UNCHANGED <<moved, device, caller, device_was_disconnected, renewed>>

----------------------------------------------------------------------------
(* lseek_or_reset_device, read_or_reset_device, write_or_reset_device.     *)

ResetLoopStart ==
    /\ At("reset_loop", "start")
    /\ Enter(Retry(Top.op, Top.tells), "done")
    /\ UNCHANGED <<ret, fd, moved, device, caller, device_was_disconnected, handle, renewed>>

(* The request has been retried, for the first time or (redone) after a    *)
(* reset, of which the caller is told.                                     *)
ResetLoopTried ==
    /\ At("reset_loop", "done") \/ At("reset_loop", "redone")
    /\ Become([Top EXCEPT !.at = "check", !.ret = ret])
    /\ IF Top.at = "redone" THEN Tell ELSE UNCHANGED device_was_disconnected
    /\ UNCHANGED <<ret, fd, moved, device, caller, handle, renewed>>

ResetLoopDone ==
    /\ At("reset_loop", "check")
    /\ ~Again
    /\ fd' = fd
    /\ Return(Top.ret)
    /\ UNCHANGED <<moved, device, caller, device_was_disconnected, renewed>>

ResetLoopDisconnected ==
    /\ At("reset_loop", "check")
    /\ Again
    /\ Disconnected \/ fd = "closed"
    /\ AwaitDevice

(* The device is there, which it need not be any more at the next step.    *)
ResetLoopConnected ==
    /\ At("reset_loop", "check")
    /\ Again
    /\ ~Disconnected /\ fd # "closed"
    /\ Goto("connected")
    /\ UNCHANGED <<ret, fd, moved, device, caller, device_was_disconnected, handle, renewed>>

\* can_reset_device: it is found, and a USB device.
can_reset_device == usb /\ ~Disconnected

(* The device is not reset in the first round of writing, or cannot be.    *)
ResetLoopGivesUp ==
    /\ At("reset_loop", "connected")
    /\ NoRecovery(Top.op) \/ ~can_reset_device
    /\ fd' = fd
    /\ Return("error")
    /\ UNCHANGED <<moved, device, caller, device_was_disconnected, renewed>>

ResetLoopResets ==
    /\ At("reset_loop", "connected")
    /\ ~NoRecovery(Top.op) /\ can_reset_device
    /\ Enter(ResetDevice, "reset")
    /\ UNCHANGED <<ret, fd, moved, device, caller, device_was_disconnected, handle, renewed>>

(* The reset failed: a seek is given up, a read or write after one more    *)
(* look at the loop's condition.                                           *)
ResetFailed ==
    /\ At("reset_loop", "reset")
    /\ ret = "error"
    /\ fd' = fd
    /\ IF Top.op = "lseek"
       THEN Return("error") /\ UNCHANGED device_was_disconnected
       ELSE /\ Become([Top EXCEPT !.at = "check", !.n = MAX_RESET_RETRIES])
            /\ Tell
            /\ UNCHANGED <<ret, handle>>
    /\ UNCHANGED <<moved, device, caller, renewed>>

\* Mutant: the file position is not restored after a reset.
ToRedoAtOnce(op) == "redone"

\* A seek is repeated at once, other requests once the position is restored.
ToRedo(op) == IF op = "lseek" THEN "redone" ELSE "sought"

ResetSucceeded ==
    /\ At("reset_loop", "reset")
    /\ ret = "ok"
    /\ LET op == IF ToRedo(Top.op) = "sought" THEN "lseek" ELSE Top.op
       IN  stack' = <<Retry(op, Top.tells),
                      [Top EXCEPT !.at = ToRedo(Top.op), !.n = @ + 1]>> \o Tail(stack)
    /\ UNCHANGED <<ret, fd, moved, device, caller, device_was_disconnected, handle, renewed>>

(* The position is restored and the request repeated, or given up; in that *)
(* case the caller is not told of the reset.                               *)
SoughtAfterReset ==
    /\ At("reset_loop", "sought")
    /\ fd' = fd
    /\ IF ret = "error"
       THEN Return("error")
       ELSE Enter(Retry(Top.op, Top.tells), "redone") /\ UNCHANGED <<ret, handle>>
    /\ UNCHANGED <<moved, device, caller, device_was_disconnected, renewed>>

----------------------------------------------------------------------------
(* handle_device_disconnect and wait_for_device_reconnect.                 *)

OpenHandle ==
    /\ fd' = "open"
    /\ known' = TRUE
    /\ moved' = TRUE
    /\ renewed' = TRUE

(* The handle is closed before udev is set up.                             *)
StartWaiting ==
    /\ At("reconnect", "start")
    /\ Goto("listen")
    /\ fd' = "closed"
    /\ UNCHANGED <<ret, moved, device, caller, device_was_disconnected, handle, renewed>>

(* From here on the device's arrivals are seen ...                         *)
Listen ==
    /\ At("reconnect", "listen")
    /\ Goto("wait")
    /\ UNCHANGED <<ret, fd, moved, device, caller, device_was_disconnected, handle, renewed>>

(* ... unless udev refuses.                                                *)
CannotListen ==
    /\ At("reconnect", "listen")
    /\ fd' = fd
    /\ Return("error")
    /\ UNCHANGED <<moved, device, caller, device_was_disconnected, renewed>>

SeekAfter(op) == op # "lseek"

(* The device is recognised by what it holds, and opened.                  *)
Accept ==
    /\ At("reconnect", "wait")
    /\ event = "new"
    /\ event' = "none"
    /\ OpenHandle
    /\ IF SeekAfter(Top.op)
       THEN Enter(ResetLoop("lseek", FALSE), "sought") /\ UNCHANGED <<ret, handle>>
       ELSE Return("ok")
    /\ UNCHANGED <<attached, usb, unplugs, caller, device_was_disconnected>>

(* Memory runs out before the new handle is put to use, or after.          *)
AcceptFails ==
    /\ At("reconnect", "wait")
    /\ event = "new"
    /\ event' = "none"
    /\ \/ OpenHandle
       \/ UNCHANGED <<fd, known, moved, renewed>>
    /\ Return("error")
    /\ UNCHANGED <<attached, usb, unplugs, caller, device_was_disconnected>>

(* It cannot be opened, or its contents are not recognised.                *)
Reject ==
    /\ At("reconnect", "wait")
    /\ event = "new"
    /\ event' = "rejected"
    /\ UNCHANGED <<stack, ret, fd, moved, attached, known, usb, unplugs, caller,
                   device_was_disconnected, handle, renewed>>

SoughtAfterReconnect ==
    /\ At("reconnect", "sought")
    /\ fd' = fd
    /\ Return(ret)
    /\ UNCHANGED <<moved, device, caller, device_was_disconnected, renewed>>

----------------------------------------------------------------------------
(* reset_device.                                                           *)

(* The USB device is not found or cannot be opened: nothing has changed.   *)
CannotReset ==
    /\ At("reset_device", "start")
    /\ fd' = fd
    /\ Return("error")
    /\ UNCHANGED <<moved, device, caller, device_was_disconnected, renewed>>

(* The handle is closed, and the reset refused.                            *)
ResetRefused ==
    /\ At("reset_device", "start")
    /\ ~Disconnected
    /\ fd' = "closed"
    /\ Return("error")
    /\ UNCHANGED <<moved, device, caller, device_was_disconnected, renewed>>

(* The reset; the device may be gone for a while.                          *)
ResetIt ==
    /\ At("reset_device", "start")
    /\ ~Disconnected
    /\ fd' = "closed"
    /\ attached' \in BOOLEAN
    /\ Goto("find")
    /\ UNCHANGED <<ret, moved, known, usb, event, unplugs, caller,
                   device_was_disconnected, handle, renewed>>

Find ==
    /\ At("reset_device", "find")
    /\ attached
    /\ OpenHandle
    /\ Return("ok")
    /\ UNCHANGED <<attached, usb, event, unplugs, caller, device_was_disconnected>>

(* find_device finds nothing, or fails; only if it finds two such devices  *)
(* has the reset failed.                                                   *)
FindNothing ==
    /\ At("reset_device", "find")
    /\ fd' = fd
    /\ Return("ok") \/ Return("error")
    /\ UNCHANGED <<moved, device, caller, device_was_disconnected, renewed>>

----------------------------------------------------------------------------
(* The device.                                                             *)

Waiting == At("reconnect", "wait")

Unplug ==
    /\ attached
    /\ unplugs < MaxUnplugs
    /\ unplugs' = unplugs + 1
    /\ attached' = FALSE
    /\ event' = "none"
    /\ fd' = IF fd = "open" THEN "stale" ELSE fd
    /\ handle' = IF handle = "open" THEN "stale" ELSE handle
    /\ UNCHANGED <<stack, ret, moved, known, usb, caller, device_was_disconnected, renewed>>

(* It comes back, perhaps under another number.  Only a monitor that has   *)
(* been set up hears of it.                                                *)
Plug ==
    /\ ~attached
    /\ attached' = TRUE
    /\ known' \in BOOLEAN
    /\ event' = IF Waiting THEN "new" ELSE "none"
    /\ UNCHANGED <<stack, ret, fd, moved, usb, unplugs, caller,
                   device_was_disconnected, handle, renewed>>

----------------------------------------------------------------------------

Step ==
    \/ Request \/ RetryDone \/ RetryAgain \/ RetryDisconnected \/ Reconnected
    \/ ResetLoopStart \/ ResetLoopTried \/ ResetLoopDone \/ ResetLoopDisconnected
    \/ ResetLoopConnected \/ ResetLoopGivesUp \/ ResetLoopResets \/ ResetFailed \/ ResetSucceeded
    \/ SoughtAfterReset
    \/ StartWaiting \/ Listen \/ CannotListen \/ Accept \/ AcceptFails \/ Reject
    \/ SoughtAfterReconnect
    \/ CannotReset \/ ResetRefused \/ ResetIt \/ Find \/ FindNothing

Calls == \E op \in {"lseek", "read", "write"} : Call(op)

Next == Calls \/ Step \/ Unplug \/ Plug

Spec == Init /\ [][Next]_vars

(* The main thread runs; the device may never come back.                   *)
FairSpec == Spec /\ WF_vars(Step)

----------------------------------------------------------------------------

Frames == [fn    : {"retry", "reset_loop", "reconnect", "reset_device"},
           op    : {"lseek", "read", "write", "none"},
           at    : {"first", "again", "check", "reconnected", "start", "done",
                    "connected", "redone", "reset", "sought", "listen", "wait", "find"},
           n     : 0 .. MAX_RESET_RETRIES,
           ret   : {"ok", "error", "eof"},
           tells : BOOLEAN]

(* The types of the variables; the functions do not call each other any    *)
(* deeper than a read that is retried, reconnected and sought.             *)
TypeOK ==
    /\ stack \in Seq(Frames) /\ Len(stack) <= 6
    /\ ret \in {"ok", "error", "eof"}
    /\ fd \in {"open", "stale", "closed"} /\ (fd = "open" => attached)
    /\ event \in {"none", "new", "rejected"} /\ (event # "none" => attached)
    /\ {moved, attached, known, usb, later_round, device_was_disconnected,
        renewed} \subseteq BOOLEAN
    /\ unplugs \in 0 .. MaxUnplugs
    /\ calls \in 0 .. MaxCalls
    /\ call \in {"none", "lseek", "read", "write"}
    /\ handle \in {"open", "stale", "closed"}

(* A request that succeeds was made at the position it was meant for,      *)
(* whatever resets and reconnects moved the file position meanwhile.       *)
AnsweredInPlace == Idle /\ ret = "ok" => ~moved

(* The slice loop of the endurance test relies on being told of every      *)
(* exchange of the handle, to write the slice again: a seek or write that  *)
(* succeeds on another handle than it was called with says so.             *)
RenewalTold ==
    Idle /\ ret = "ok" /\ call \in {"lseek", "write"} /\ renewed
      => device_was_disconnected

(* write_or_retry: "If we haven't completed at least one round, then we    *)
(* can't be sure that the beginning-of-device and middle-of-device are     *)
(* accurate": a write of the first round never exchanges the handle, by    *)
(* whichever way through the functions.                                    *)
FirstRoundNotRecovered == call = "write" /\ ~later_round => ~renewed

Answers == INSTANCE RetryAnswers WITH
             answer <- IF Idle THEN ret ELSE "pending",
             disc   <- Idle /\ device_was_disconnected /\ call # "read"

(* The layer's answers are those of RetryAnswers, with which EnduranceTest *)
(* reckons.                                                                *)
KeepsAnswers == Answers!Spec

(* A call ends, or waits for the device.                                   *)
CallEnds == ~Idle ~> (Idle \/ Waiting)

----------------------------------------------------------------------------
(* What the program's documentation says, and the code does not do.        *)

(* README.md on a device that is disconnected: "this program is designed   *)
(* to wait for it to reconnect.  If it reconnects, it will automatically   *)
(* resume from where it left off."                                         *)
ReconnectResumes ==
    Waiting /\ attached ~> ~Waiting \/ ~attached \/ event = "rejected"

===============================================================================
