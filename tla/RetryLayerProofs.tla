--------------------------- MODULE RetryLayerProofs ---------------------------
(***************************************************************************)
(* Proofs about RetryLayer, for any number of retries, of calls, and of    *)
(* times the device goes away: its types and safety invariants, and that   *)
(* it implements RetryAnswers.  Each invariant is kept by every action;    *)
(* those of the call stack rest on which function may call which (For).    *)
(***************************************************************************)
EXTENDS RetryLayer, SequenceTheorems, TLAPS

----------------------------------------------------------------------------
(* The call stack.                                                         *)

Ops == {"lseek", "read", "write"}

\* What a frame may be.
FrameOK(f) ==
    /\ f \in Frames
    /\ \/ /\ f.fn = "retry" /\ f.op \in Ops
          /\ f.at \in {"first", "again", "check", "reconnected"}
       \/ /\ f.fn = "reset_loop" /\ f.op \in Ops
          /\ f.at \in {"start", "done", "check", "connected", "reconnected", "reset",
                       "sought", "redone"}
          /\ f.at = "sought" => f.op # "lseek"
       \/ /\ f.fn = "reconnect" /\ f.op \in Ops
          /\ f.at \in {"start", "listen", "wait", "sought"}
          /\ f.at = "sought" => f.op # "lseek"
       \/ f.fn = "reset_device" /\ f.at \in {"start", "find"}
    /\ f.op # "read" => f.ret # "eof"
    /\ f.at = "reconnected" => f.ret # "ok"
    /\ f.at \in {"connected", "reset"} => f.ret = "error"
    /\ f.at \in {"again", "connected", "reset"} => f.n < MAX_RESET_RETRIES

\* Frame g runs on behalf of frame f.
For(g, f) ==
    \/ f.at = "reconnected" /\ g.fn = "reconnect" /\ g.op = f.op
    \/ f.fn = "reset_loop" /\ f.at \in {"done", "redone"} /\ g.fn = "retry" /\ g.op = f.op
    \/ f.fn = "reset_loop" /\ f.at = "sought" /\ g.fn = "retry" /\ g.op = "lseek"
    \/ f.fn = "reset_loop" /\ f.at = "reset" /\ g.fn = "reset_device"
    \/ f.fn = "reconnect" /\ f.at = "sought" /\ g.fn = "reset_loop" /\ g.op = "lseek"

\* How much deeper the calls may go from a frame.
Rank(f) == CASE f.fn = "reset_device" -> 1
             [] f.fn = "reconnect"    -> (IF f.op = "lseek" THEN 1 ELSE 4)
             [] f.fn = "retry"        -> (IF f.op = "lseek" THEN 2 ELSE 5)
             [] f.fn = "reset_loop"   -> (IF f.op = "lseek" THEN 3 ELSE 6)

\* The outermost function, which the caller has called.
BaseOK(f) == (f.fn = "retry" /\ f.op = "lseek") \/ f.fn = "reset_loop"

StackInv ==
    /\ stack \in Seq(Frames)
    /\ \A k \in 1 .. Len(stack) : FrameOK(stack[k])
    /\ \A k \in 1 .. Len(stack) : k < Len(stack) => For(stack[k], stack[k + 1])
    /\ \A i, k \in 1 .. Len(stack) : i <= k => Rank(stack[k]) >= Rank(stack[i]) + (k - i)
    /\ stack # <<>> => BaseOK(stack[Len(stack)])

LEMMA RankRange == ASSUME NEW f, FrameOK(f) PROVE Rank(f) \in 1 .. 6
  BY DEF FrameOK, Rank

LEMMA ForRank ==
    ASSUME NEW g, NEW f, FrameOK(g), FrameOK(f), For(g, f)
    PROVE  Rank(g) < Rank(f)
  BY DEF FrameOK, For, Rank

LEMMA TopOK ==
    ASSUME StackInv, ~Idle
    PROVE  /\ Top = stack[1] /\ FrameOK(Top) /\ Top \in Frames
           /\ Len(stack) \in Nat \ {0}
           /\ Len(stack) = 1 => BaseOK(Top)
           /\ Len(stack) > 1 => For(Top, stack[2])
  BY DEF StackInv, Idle, Top, FrameOK

\* The calls nest no deeper than six.
LEMMA StackDepth == StackInv => Len(stack) <= 6
<1> SUFFICES ASSUME StackInv PROVE Len(stack) <= 6
  OBVIOUS
<1>1. CASE stack = <<>>
  BY <1>1
<1>2. CASE stack # <<>>
  <2> DEFINE n == Len(stack)
  <2>1. n \in Nat \ {0} /\ n \in 1 .. n /\ 1 \in 1 .. n
    BY <1>2 DEF StackInv
  <2>2. Rank(stack[n]) \in 1 .. 6 /\ Rank(stack[1]) \in 1 .. 6
    BY <2>1, RankRange DEF StackInv
  <2>3. Rank(stack[n]) >= Rank(stack[1]) + (n - 1)
    BY <2>1 DEF StackInv
  <2> QED BY <2>1, <2>2, <2>3
<1> QED BY <1>1, <1>2

LEMMA Replaced ==
    ASSUME NEW S, NEW s \in Seq(S), s # <<>>, NEW f \in S
    PROVE  /\ <<f>> \o Tail(s) \in Seq(S)
           /\ Len(<<f>> \o Tail(s)) = Len(s)
           /\ (<<f>> \o Tail(s))[1] = f
           /\ \A k \in 2 .. Len(s) : (<<f>> \o Tail(s))[k] = s[k]
  OBVIOUS

LEMMA Pushed ==
    ASSUME NEW S, NEW s \in Seq(S), s # <<>>, NEW f \in S, NEW g \in S
    PROVE  /\ <<g, f>> \o Tail(s) \in Seq(S)
           /\ Len(<<g, f>> \o Tail(s)) = Len(s) + 1
           /\ (<<g, f>> \o Tail(s))[1] = g /\ (<<g, f>> \o Tail(s))[2] = f
           /\ \A k \in 2 .. Len(s) : (<<g, f>> \o Tail(s))[k + 1] = s[k]
  OBVIOUS

LEMMA Popped ==
    ASSUME NEW S, NEW s \in Seq(S), s # <<>>
    PROVE  /\ Tail(s) \in Seq(S)
           /\ Len(Tail(s)) = Len(s) - 1
           /\ \A k \in 1 .. Len(s) - 1 : Tail(s)[k] = s[k + 1]
  OBVIOUS

LEMMA BecomeStack ==
    ASSUME StackInv, ~Idle, NEW f, FrameOK(f), f.fn = Top.fn, f.op = Top.op,
           stack' = <<f>> \o Tail(stack)
    PROVE  /\ StackInv' /\ ~Idle' /\ Top' = f /\ Len(stack') = Len(stack)
           /\ Len(stack) > 1 => stack'[2] = stack[2]
<1> DEFINE t == <<f>> \o Tail(stack)
<1>1. /\ t \in Seq(Frames) /\ Len(t) = Len(stack) /\ Len(stack) \in Nat \ {0}
      /\ t[1] = f /\ \A k \in 2 .. Len(stack) : t[k] = stack[k]
      /\ stack[1] = Top
  BY Replaced, TopOK DEF StackInv, Idle, FrameOK
<1> HIDE DEF t
<1>2. Rank(f) = Rank(stack[1]) /\ \A g : For(f, g) <=> For(stack[1], g)
  BY <1>1 DEF Rank, For
<1>3. \A k \in 1 .. Len(t) : FrameOK(t[k]) /\ Rank(t[k]) = Rank(stack[k])
  BY <1>1, <1>2 DEF StackInv
<1>4. \A k \in 1 .. Len(t) : k < Len(t) => For(t[k], t[k + 1])
  <2> SUFFICES ASSUME NEW k \in 1 .. Len(t), k < Len(t) PROVE For(t[k], t[k + 1])
    OBVIOUS
  <2>1. t[k + 1] = stack[k + 1] /\ For(stack[k], stack[k + 1])
    BY <1>1 DEF StackInv
  <2> QED BY <1>1, <1>2, <2>1
<1>5. BaseOK(t[Len(t)])
  BY <1>1 DEF StackInv, Idle, BaseOK
<1>6. \A i, k \in 1 .. Len(t) : i <= k => Rank(t[k]) >= Rank(t[i]) + (k - i)
  BY <1>1, <1>3 DEF StackInv
<1>7. stack' = t
  BY DEF t
<1>8. StackInv'
  BY <1>1, <1>3, <1>4, <1>5, <1>6, <1>7 DEF StackInv
<1> QED BY <1>1, <1>7, <1>8 DEF Idle, Top

LEMMA OneOrMore == ASSUME NEW n \in Nat \ {0} PROVE n = 1 \/ n \in 2 .. n
  OBVIOUS

LEMMA RankStep ==
    \A a, b, c \in 1 .. 6, m \in Nat : a >= b + (m - 1) /\ c < b => a >= c + m
  OBVIOUS

LEMMA EnterStack ==
    ASSUME StackInv, ~Idle, NEW f, FrameOK(f), f.fn = Top.fn, f.op = Top.op,
           NEW g, FrameOK(g), For(g, f), stack' = <<g, f>> \o Tail(stack)
    PROVE  StackInv' /\ ~Idle' /\ Top' = g /\ Len(stack') = Len(stack) + 1 /\ stack'[2] = f
<1> DEFINE t == <<g, f>> \o Tail(stack)
<1>1. /\ t \in Seq(Frames) /\ Len(t) = Len(stack) + 1 /\ Len(stack) \in Nat \ {0}
      /\ t[1] = g /\ t[2] = f /\ \A k \in 2 .. Len(stack) : t[k + 1] = stack[k]
      /\ stack[1] = Top
  BY Pushed, TopOK DEF StackInv, Idle, FrameOK
<1> HIDE DEF t
<1>2. Rank(f) = Rank(stack[1]) /\ \A h : For(f, h) <=> For(stack[1], h)
  BY <1>1 DEF Rank, For
<1>3. \A k \in 1 .. Len(stack) : FrameOK(t[k + 1]) /\ Rank(t[k + 1]) = Rank(stack[k])
  BY <1>1, <1>2 DEF StackInv
<1>4. \A k \in 1 .. Len(t) : FrameOK(t[k])
  <2> SUFFICES ASSUME NEW k \in 1 .. Len(t) PROVE FrameOK(t[k])
    OBVIOUS
  <2>1. k = 1 \/ (k - 1 \in 1 .. Len(stack) /\ k = (k - 1) + 1)
    BY <1>1
  <2> QED BY <1>1, <1>3, <2>1
<1>5. \A k \in 1 .. Len(t) : k < Len(t) => For(t[k], t[k + 1])
  <2> SUFFICES ASSUME NEW k \in 1 .. Len(t), k < Len(t) PROVE For(t[k], t[k + 1])
    OBVIOUS
  <2>1. CASE k = 1
    BY <1>1, <2>1
  <2>2. CASE k = 2
    <3>1. 1 \in 1 .. Len(stack) /\ 2 \in 2 .. Len(stack) /\ 1 < Len(stack)
      BY <1>1, <2>2
    <3>2. t[2 + 1] = stack[2]
      BY <1>1, <3>1
    <3>3. For(stack[1], stack[1 + 1])
      BY <3>1 DEF StackInv
    <3> QED BY <1>1, <1>2, <2>2, <3>2, <3>3
  <2>3. CASE k > 2
    <3>1. k - 1 \in 2 .. Len(stack) /\ k \in 2 .. Len(stack) /\ k = (k - 1) + 1
      BY <1>1, <2>3
    <3>2. t[k] = stack[k - 1] /\ t[k + 1] = stack[k]
      BY <1>1, <3>1
    <3>3. For(stack[k - 1], stack[k])
      BY <1>1, <3>1 DEF StackInv
    <3> QED BY <3>2, <3>3
  <2> QED BY <2>1, <2>2, <2>3
<1>6. \A i, k \in 1 .. Len(t) : i <= k => Rank(t[k]) >= Rank(t[i]) + (k - i)
  <2> SUFFICES ASSUME NEW i \in 1 .. Len(t), NEW k \in 1 .. Len(t), i <= k
               PROVE  Rank(t[k]) >= Rank(t[i]) + (k - i)
    OBVIOUS
  <2>1. Rank(t[i]) \in 1 .. 6 /\ Rank(t[k]) \in 1 .. 6
    BY <1>4, RankRange
  <2>2. CASE i = k
    BY <2>1, <2>2
  <2>3. CASE i > 1 /\ i # k
    <3>1. i - 1 \in 1 .. Len(stack) /\ k - 1 \in 1 .. Len(stack)
          /\ i = (i - 1) + 1 /\ k = (k - 1) + 1 /\ i - 1 <= k - 1
      BY <1>1, <2>3
    <3>2. Rank(stack[k - 1]) >= Rank(stack[i - 1]) + ((k - 1) - (i - 1))
      BY <3>1 DEF StackInv
    <3>3. Rank(t[i]) = Rank(stack[i - 1]) /\ Rank(t[k]) = Rank(stack[k - 1])
      BY <1>3, <3>1
    <3> QED BY <2>1, <3>1, <3>2, <3>3
  <2>4. CASE i = 1 /\ k > 1
    <3>1. k - 1 \in 1 .. Len(stack) /\ 1 \in 1 .. Len(stack) /\ k = (k - 1) + 1 /\ 1 <= k - 1
          /\ k - 1 \in Nat
      BY <1>1, <2>4
    <3>2. Rank(stack[k - 1]) >= Rank(stack[1]) + ((k - 1) - 1)
      BY <3>1 DEF StackInv
    <3>3. Rank(t[k]) = Rank(stack[k - 1]) /\ Rank(t[1]) = Rank(g)
      BY <1>1, <1>3, <3>1
    <3>4. Rank(g) < Rank(stack[1]) /\ Rank(g) \in 1 .. 6 /\ Rank(stack[1]) \in 1 .. 6
      BY <1>2, ForRank, RankRange
    <3>5. Rank(stack[k - 1]) \in 1 .. 6
      BY <2>1, <3>3
    <3>6. Rank(stack[k - 1]) >= Rank(g) + (k - 1)
      BY <3>1, <3>2, <3>4, <3>5, RankStep, Zenon
    <3> QED BY <2>4, <3>3, <3>6
  <2> QED BY <2>2, <2>3, <2>4
<1>7. BaseOK(t[Len(t)])
  <2>1. Len(stack) = 1 \/ Len(stack) \in 2 .. Len(stack)
    BY <1>1, OneOrMore
  <2>2. BaseOK(stack[Len(stack)])
    BY DEF StackInv, Idle
  <2>3. Len(stack) = 1 => BaseOK(t[2])
    BY <1>1, <2>2 DEF BaseOK
  <2> QED BY <1>1, <2>1, <2>2, <2>3
<1>8. stack' = t
  BY DEF t
<1>9. StackInv'
  BY <1>1, <1>4, <1>5, <1>6, <1>7, <1>8 DEF StackInv
<1> QED BY <1>1, <1>8, <1>9 DEF Idle, Top

LEMMA PopStack ==
    ASSUME StackInv, ~Idle, stack' = Tail(stack)
    PROVE  /\ StackInv' /\ Len(stack') = Len(stack) - 1
           /\ Len(stack) = 1 => Idle'
           /\ Len(stack) > 1 => ~Idle' /\ Top' = stack[2] /\ FrameOK(stack[2])
<1> DEFINE t == Tail(stack)
<1>1. /\ t \in Seq(Frames) /\ Len(t) = Len(stack) - 1 /\ Len(stack) \in Nat \ {0}
      /\ \A k \in 1 .. Len(t) : t[k] = stack[k + 1] /\ k + 1 \in 1 .. Len(stack)
  BY Popped, TopOK DEF StackInv, Idle
<1> HIDE DEF t
<1>2. \A k \in 1 .. Len(t) : FrameOK(t[k])
  BY <1>1 DEF StackInv
<1>3. \A k \in 1 .. Len(t) : k < Len(t) => For(t[k], t[k + 1])
  <2> SUFFICES ASSUME NEW k \in 1 .. Len(t), k < Len(t) PROVE For(t[k], t[k + 1])
    OBVIOUS
  <2>1. k + 1 \in 1 .. Len(t) /\ k + 1 \in 1 .. Len(stack) /\ k + 1 < Len(stack)
    BY <1>1
  <2>2. For(stack[k + 1], stack[(k + 1) + 1])
    BY <2>1 DEF StackInv
  <2> QED BY <1>1, <2>1, <2>2
<1>4. \A i, k \in 1 .. Len(t) : i <= k => Rank(t[k]) >= Rank(t[i]) + (k - i)
  <2> SUFFICES ASSUME NEW i \in 1 .. Len(t), NEW k \in 1 .. Len(t), i <= k
               PROVE  Rank(t[k]) >= Rank(t[i]) + (k - i)
    OBVIOUS
  <2>1. Rank(stack[k + 1]) >= Rank(stack[i + 1]) + ((k + 1) - (i + 1))
    BY <1>1 DEF StackInv
  <2>2. (k + 1) - (i + 1) = k - i
    OBVIOUS
  <2> QED BY <1>1, <2>1, <2>2
<1>5. t # <<>> => BaseOK(t[Len(t)])
  <2>1. t # <<>> => Len(t) \in 1 .. Len(t) /\ Len(t) + 1 = Len(stack)
    BY <1>1
  <2> QED BY <1>1, <2>1 DEF StackInv, Idle
<1>6. stack' = t
  BY DEF t
<1>7. StackInv'
  BY <1>1, <1>2, <1>3, <1>4, <1>5, <1>6 DEF StackInv
<1>8. Len(stack) = 1 => t = <<>>
  BY <1>1
<1>9. Len(stack) > 1 => t # <<>> /\ Head(t) = stack[2] /\ FrameOK(stack[2])
  BY <1>1, <1>2
<1> QED BY <1>1, <1>6, <1>7, <1>8, <1>9 DEF Idle, Top

----------------------------------------------------------------------------
(* What holds of the innermost function, as the functions return and go on: *)
(* only a read reports the end of the device, and a request is made, or is *)
(* reported to have succeeded, only while the file position is the          *)
(* request's own.                                                           *)

\* f is the innermost function, r the last answer, m whether the position moved.
Settled(f, r, m) ==
    /\ f.at \in {"sought", "reset", "reconnected"} => r # "eof"
    /\ f.at \in {"done", "redone"} /\ f.op # "read" => r # "eof"
    /\ f.at \in {"done", "redone", "sought"} /\ r = "ok" => ~m
    /\ f.at = "reconnected" /\ f.op # "lseek" /\ r = "ok" => ~m
    /\ f.at = "check" /\ f.ret = "ok" => ~m
    /\ f.fn = "retry" /\ f.op # "lseek" /\ f.at \in {"first", "again", "check"} => ~m
    /\ f.fn = "reset_loop" /\ f.op # "lseek" /\ f.at = "start" => ~m

\* What f promises its caller when it returns v.
Promise(f, v, m) ==
    /\ v = "eof" => f.fn \in {"retry", "reset_loop"} /\ f.op = "read"
    /\ v = "ok" /\ f.fn \in {"retry", "reset_loop"} => ~m
    /\ v = "ok" /\ f.fn = "reconnect" /\ f.op # "lseek" => ~m

TopInv ==
    /\ Idle /\ ret = "ok" => ~moved
    /\ ~Idle => Settled(Top, ret, moved)

ValuesOK ==
    /\ ret \in {"ok", "error", "eof"}
    /\ fd \in {"open", "stale", "closed"} /\ (fd = "open" => attached)
    /\ event \in {"none", "new", "rejected"} /\ (event # "none" => attached)
    /\ moved \in BOOLEAN /\ attached \in BOOLEAN /\ known \in BOOLEAN /\ usb \in BOOLEAN
    /\ later_round \in BOOLEAN /\ device_was_disconnected \in BOOLEAN /\ renewed \in BOOLEAN
    /\ unplugs \in 0 .. MaxUnplugs
    /\ calls \in 0 .. MaxCalls
    /\ call \in {"none", "lseek", "read", "write"}
    /\ handle \in {"open", "stale", "closed"}

CallInv == StackInv /\ TopInv /\ ValuesOK

\* An arrival is pending only while it is waited for.
WaitInv == event # "none" => At("reconnect", "wait")

LEMMA WaitSafe == Spec => []WaitInv
<1>1. Init => WaitInv
  BY DEF Init, WaitInv
<1>2. ASSUME WaitInv, [Next]_vars PROVE WaitInv'
  <2>1. CASE UNCHANGED vars
    BY <1>2, <2>1 DEF vars, device, WaitInv, At, Idle, Top
  <2>2. CASE Unplug \/ Plug \/ Reject
    BY <2>2 DEF Unplug, Plug, Reject, Waiting, WaitInv, At, Idle, Top
  <2>3. CASE Accept \/ AcceptFails
    BY <2>3 DEF Accept, AcceptFails, WaitInv
  <2>4. CASE event = "none" /\ event' = event
    BY <2>4 DEF WaitInv
  <2>5. ASSUME Calls PROVE event = "none" /\ event' = event
    BY <1>2, <2>5 DEF Calls, Call, device, WaitInv, At
  <2>6. ASSUME \/ Request \/ RetryDone \/ RetryAgain \/ RetryDisconnected \/ Reconnected
               \/ ResetLoopStart \/ ResetLoopTried \/ ResetLoopDone \/ ResetLoopDisconnected
               \/ ResetLoopConnected \/ ResetLoopGivesUp \/ ResetLoopResets
        PROVE  event = "none" /\ event' = event
    BY <1>2, <2>6 DEF WaitInv, At, device, Request, RetryDone, RetryAgain, RetryDisconnected,
       Reconnected, ResetLoopStart, ResetLoopTried, ResetLoopDone, ResetLoopDisconnected,
       ResetLoopConnected, ResetLoopGivesUp, ResetLoopResets, AwaitDevice
  <2>7. ASSUME \/ ResetFailed \/ ResetSucceeded \/ SoughtAfterReset \/ StartWaiting \/ Listen
               \/ CannotListen \/ SoughtAfterReconnect \/ CannotReset \/ ResetRefused
               \/ ResetIt \/ Find \/ FindNothing
        PROVE  event = "none" /\ event' = event
    BY <1>2, <2>7 DEF WaitInv, At, device, ResetFailed, ResetSucceeded, SoughtAfterReset,
       StartWaiting, Listen, CannotListen, SoughtAfterReconnect, CannotReset, ResetRefused,
       ResetIt, Find, FindNothing
  <2> QED BY <1>2, <2>1, <2>2, <2>3, <2>4, <2>5, <2>6, <2>7 DEF Next, Step
<1> QED BY <1>1, <1>2, PTL DEF Spec

LEMMA Resumes ==
    ASSUME NEW g, NEW f, FrameOK(g), FrameOK(f), For(g, f), NEW v, NEW m, Promise(g, v, m)
    PROVE  Settled(f, v, m)
  BY DEF FrameOK, For, Promise, Settled

LEMMA Becoming ==
    ASSUME StackInv, ~Idle, NEW f, FrameOK(f), f.fn = Top.fn, f.op = Top.op,
           stack' = <<f>> \o Tail(stack), Settled(f, ret', moved')
    PROVE  StackInv' /\ TopInv'
<1>1. StackInv' /\ ~Idle' /\ Top' = f
  BY BecomeStack
<1> QED BY <1>1 DEF TopInv, Settled

LEMMA Entering ==
    ASSUME StackInv, ~Idle, NEW f, FrameOK(f), f.fn = Top.fn, f.op = Top.op,
           NEW g, FrameOK(g), For(g, f), stack' = <<g, f>> \o Tail(stack),
           Settled(g, ret', moved')
    PROVE  StackInv' /\ TopInv'
<1>1. StackInv' /\ ~Idle' /\ Top' = g
  BY EnterStack
<1> QED BY <1>1 DEF TopInv, Settled

LEMMA Returning ==
    ASSUME StackInv, ~Idle, NEW v, Return(v), Promise(Top, v, moved')
    PROVE  StackInv' /\ TopInv'
<1>1. /\ StackInv' /\ ret' = v /\ FrameOK(Top)
      /\ Len(stack) \in Nat \ {0}
      /\ Len(stack) = 1 => Idle' /\ BaseOK(Top)
      /\ Len(stack) > 1 => /\ ~Idle' /\ Top' = stack[2] /\ FrameOK(stack[2])
                           /\ For(Top, stack[2])
  BY PopStack, TopOK DEF Return
<1>2. CASE Len(stack) = 1
  BY <1>1, <1>2 DEF TopInv, BaseOK, Promise
<1>3. CASE Len(stack) > 1
  <2>1. Settled(stack[2], v, moved')
    BY <1>1, <1>3, Resumes
  <2> QED BY <1>1, <1>3, <2>1 DEF TopInv, Settled
<1>4. Len(stack) = 1 \/ Len(stack) > 1
  BY <1>1
<1> QED BY <1>2, <1>3, <1>4

----------------------------------------------------------------------------
(* Every action keeps it.                                                  *)

Places == {"first", "again", "check", "reconnected", "start", "done", "connected",
           "redone", "reset", "sought", "listen", "wait", "find"}

LEMMA GoneTo ==
    ASSUME NEW f \in Frames, NEW at \in Places
    PROVE  LET g == [f EXCEPT !.at = at]
           IN  /\ g \in Frames /\ g.at = at /\ g.fn = f.fn /\ g.op = f.op
               /\ g.n = f.n /\ g.ret = f.ret /\ g.tells = f.tells
  BY DEF Frames, Places

LEMMA FramesOK ==
    /\ \A op \in Ops, tells \in BOOLEAN :
         FrameOK(Retry(op, tells)) /\ FrameOK(ResetLoop(op, tells))
    /\ \A op \in Ops : FrameOK(Reconnect(op))
    /\ FrameOK(ResetDevice)
  BY RetryAssumption DEF FrameOK, Frames, Ops, Retry, ResetLoop, Reconnect, ResetDevice

LEMMA CallKeeps == ASSUME CallInv, Calls PROVE CallInv'
<1>1. PICK op \in Ops : Call(op)
  BY DEF Calls, Ops
<1> DEFINE f == IF op = "lseek" THEN Retry(op, TRUE) ELSE ResetLoop(op, op = "write")
<1>2. FrameOK(f) /\ BaseOK(f) /\ f \in Frames /\ Settled(f, ret, FALSE)
  <2>1. CASE op = "lseek"
    <3>1. f = Retry(op, TRUE) /\ FrameOK(f)
      BY <2>1, FramesOK
    <3>2. f.fn = "retry" /\ f.op = "lseek" /\ f.at = "first"
      BY <2>1, <3>1 DEF Retry
    <3> QED BY <3>1, <3>2 DEF FrameOK, BaseOK, Settled
  <2>2. CASE op # "lseek"
    <3>1. f = ResetLoop(op, op = "write") /\ FrameOK(f)
      BY <2>2, FramesOK
    <3>2. \A t : ResetLoop(op, t).fn = "reset_loop" /\ ResetLoop(op, t).at = "start"
      BY DEF ResetLoop
    <3>3. f.fn = "reset_loop" /\ f.at = "start"
      BY <3>1, <3>2
    <3> QED BY <3>1, <3>3 DEF FrameOK, BaseOK, Settled
  <2> QED BY <2>1, <2>2
<1>3. stack' = <<f>> /\ moved' = FALSE /\ ret' = ret
  BY <1>1 DEF Call
<1>4. f = <<f>>[1] /\ Rank(f) >= Rank(f) + (1 - 1)
  <2> HIDE DEF f
  <2>1. Rank(f) \in 1 .. 6
    BY <1>2, RankRange
  <2>2. \A k \in 1 .. 6 : k >= k + (1 - 1)
    OBVIOUS
  <2> QED BY <2>1, <2>2
<1> HIDE DEF f
<1>5. StackInv'
  BY <1>2, <1>3, <1>4 DEF StackInv
<1>6. TopInv'
  BY <1>2, <1>3 DEF TopInv, Idle, Top, Settled
<1>7. calls' \in 0 .. MaxCalls
  <2>1. calls \in 0 .. MaxCalls /\ calls < MaxCalls /\ calls' = calls + 1
    BY <1>1 DEF Call, CallInv, ValuesOK
  <2>2. calls + 1 \in 0 .. MaxCalls
    BY <2>1, RetryAssumption
  <2> QED BY <2>1, <2>2
<1>8. ValuesOK'
  <2>1. /\ UNCHANGED <<ret, fd, device, later_round, handle>>
        /\ moved' = FALSE /\ device_was_disconnected' = FALSE /\ renewed' = FALSE
        /\ call' \in {"none", "lseek", "read", "write"}
    BY <1>1 DEF Call, Ops
  <2> QED BY <1>7, <2>1 DEF CallInv, ValuesOK, device
<1> QED BY <1>5, <1>6, <1>8 DEF CallInv

LEMMA RequestKeeps == ASSUME CallInv, Request PROVE CallInv'
<1>1. ~Idle /\ FrameOK(Top) /\ Top \in Frames /\ Top.fn = "retry" /\ Top.op \in Ops
      /\ Settled(Top, ret, moved) /\ Top.at \in {"first", "again"}
  BY TopOK DEF Request, CallInv, TopInv, At, FrameOK
<1>2. PICK r \in Outcomes(Top.op) :
        /\ Become([Top EXCEPT !.at = "check", !.ret = r,
                              !.n = IF Top.at = "again" THEN Counted(Top) ELSE @])
        /\ moved' = (moved /\ ~(Top.op = "lseek" /\ r = "ok"))
  BY DEF Request
<1> DEFINE f == [Top EXCEPT !.at = "check", !.ret = r,
                            !.n = IF Top.at = "again" THEN Counted(Top) ELSE @]
<1>3. r \in {"ok", "error", "eof"} /\ (Top.op # "read" => r # "eof")
  BY <1>1 DEF Outcomes, CallInv, ValuesOK, Ops
<1>4. /\ f \in Frames /\ f.at = "check" /\ f.ret = r /\ f.fn = "retry" /\ f.op = Top.op
  <2>1. Top.at = "again" => Top.n + 1 \in 0 .. MAX_RESET_RETRIES
    BY <1>1, RetryAssumption DEF FrameOK, Frames
  <2> DEFINE n == IF Top.at = "again" THEN Counted(Top) ELSE Top.n
  <2>2. n \in 0 .. MAX_RESET_RETRIES
    BY <1>1, <2>1 DEF Counted, Frames
  <2>3. f = [Top EXCEPT !.at = "check", !.ret = r, !.n = n]
    BY <1>1 DEF Frames
  <2> HIDE DEF n
  <2> QED BY <1>1, <1>3, <2>2, <2>3 DEF Frames
<1>5. FrameOK(f)
  BY <1>1, <1>3, <1>4 DEF FrameOK
<1>6. /\ moved' \in BOOLEAN
      /\ (Top.op # "lseek" => moved' = moved) /\ (Top.op = "lseek" /\ r = "ok" => ~moved')
  BY <1>2 DEF CallInv, ValuesOK
<1>7. Settled(f, ret', moved')
  BY <1>1, <1>4, <1>6 DEF Settled
<1>8. stack' = <<f>> \o Tail(stack)
  BY <1>2 DEF Become
<1> HIDE DEF f
<1>9. StackInv' /\ TopInv'
  BY <1>1, <1>4, <1>5, <1>7, <1>8, Becoming DEF CallInv
<1>10. ValuesOK'
  BY <1>6 DEF Request, CallInv, ValuesOK, device, caller
<1> QED BY <1>9, <1>10 DEF CallInv

\* What is known of the function that takes a step.
LEMMA TopFacts ==
    ASSUME CallInv, ~Idle
    PROVE  /\ StackInv /\ ValuesOK /\ FrameOK(Top) /\ Top \in Frames
           /\ Settled(Top, ret, moved)
           /\ Top.ret \in {"ok", "error", "eof"}
  BY TopOK DEF CallInv, TopInv, Frames

LEMMA TopGoneTo ==
    ASSUME CallInv, ~Idle, NEW at \in Places
    PROVE  LET f == [Top EXCEPT !.at = at]
           IN  /\ f \in Frames /\ f.at = at /\ f.fn = Top.fn /\ f.op = Top.op
               /\ f.n = Top.n /\ f.ret = Top.ret /\ f.tells = Top.tells
  BY TopFacts, GoneTo

\* A function goes on ...
LEMMA Going ==
    ASSUME CallInv, ~Idle, NEW at \in Places, Goto(at),
           FrameOK([Top EXCEPT !.at = at]), Settled([Top EXCEPT !.at = at], ret', moved')
    PROVE  StackInv' /\ TopInv'
<1>1. Top \in Frames /\ StackInv
  BY TopFacts
<1>2. [Top EXCEPT !.at = at].fn = Top.fn /\ [Top EXCEPT !.at = at].op = Top.op
  BY <1>1, GoneTo
<1> QED BY <1>1, <1>2, Becoming DEF Goto, Become

\* ... or calls another.
LEMMA Calling ==
    ASSUME CallInv, ~Idle, NEW at \in Places, NEW g, Enter(g, at), FrameOK(g),
           FrameOK([Top EXCEPT !.at = at]), For(g, [Top EXCEPT !.at = at]),
           Settled(g, ret', moved')
    PROVE  StackInv' /\ TopInv'
<1>1. Top \in Frames /\ StackInv
  BY TopFacts
<1>2. [Top EXCEPT !.at = at].fn = Top.fn /\ [Top EXCEPT !.at = at].op = Top.op
  BY <1>1, GoneTo
<1> QED BY <1>1, <1>2, Entering DEF Enter

LEMMA RetryDoneKeeps == ASSUME CallInv, RetryDone PROVE CallInv'
<1>1. ~Idle /\ Top.fn = "retry" /\ Top.at = "check" /\ Return(Top.ret) /\ moved' = moved
  BY DEF RetryDone, At
<1>2. Promise(Top, Top.ret, moved')
  BY <1>1, TopFacts DEF Settled, Promise, FrameOK
<1>3. StackInv' /\ TopInv'
  BY <1>1, <1>2, TopFacts, Returning
<1>4. ValuesOK'
  BY <1>1, TopFacts DEF RetryDone, Return, ValuesOK, device, caller
<1> QED BY <1>3, <1>4 DEF CallInv

LEMMA RetryAgainKeeps == ASSUME CallInv, RetryAgain PROVE CallInv'
<1>1. ~Idle /\ Top.fn = "retry" /\ Top.at = "check" /\ Goto("again") /\ moved' = moved
      /\ ret' = ret /\ Top.n < MAX_RESET_RETRIES
  BY DEF RetryAgain, At, Again
<1> DEFINE f == [Top EXCEPT !.at = "again"]
<1>2. /\ f \in Frames /\ f.at = "again" /\ f.fn = Top.fn /\ f.op = Top.op
      /\ f.n = Top.n /\ f.ret = Top.ret
  BY TopGoneTo, <1>1 DEF Places
<1> HIDE DEF f
<1>3. FrameOK(f) /\ Settled(f, ret', moved')
  BY <1>1, <1>2, TopFacts DEF FrameOK, Settled
<1> USE DEF f
<1>4. StackInv' /\ TopInv'
  BY <1>1, <1>3, Going DEF Places
<1>5. ValuesOK'
  BY TopFacts, <1>1 DEF RetryAgain, ValuesOK, device, caller
<1> QED BY <1>4, <1>5 DEF CallInv

LEMMA AwaitKeeps ==
    ASSUME CallInv, ~Idle, Top.fn \in {"retry", "reset_loop"}, Top.at = "check",
           Top.ret # "ok", AwaitDevice
    PROVE  CallInv'
<1>1. moved' = moved /\ Top.op \in Ops
  BY TopFacts DEF AwaitDevice, FrameOK
<1>2. ValuesOK'
  BY TopFacts DEF AwaitDevice, Tell, Return, ValuesOK, device, caller, Frames
<1>3. CASE Return("error")
  <2>1. Promise(Top, "error", moved')
    BY DEF Promise
  <2> QED BY <1>2, <1>3, <2>1, TopFacts, Returning DEF CallInv
<1>4. CASE ~Return("error")
  <2>1. Enter(Reconnect(Top.op), "reconnected") /\ ret' = ret
    BY <1>4 DEF AwaitDevice
  <2> DEFINE f == [Top EXCEPT !.at = "reconnected"]
             g == Reconnect(Top.op)
  <2>2. /\ f \in Frames /\ f.at = "reconnected" /\ f.fn = Top.fn /\ f.op = Top.op
        /\ f.n = Top.n /\ f.ret = Top.ret
    BY TopGoneTo DEF Places
  <2>3. FrameOK(g) /\ g.fn = "reconnect" /\ g.op = Top.op /\ g.at = "start"
    BY <1>1, FramesOK DEF Reconnect
  <2> HIDE DEF f, g
  <2>4. FrameOK(f) /\ For(g, f) /\ Settled(g, ret', moved')
    BY <2>2, <2>3, TopFacts DEF FrameOK, Settled, For
  <2> USE DEF f, g
  <2>5. StackInv' /\ TopInv'
    BY <2>1, <2>3, <2>4, Calling DEF Places
  <2> QED BY <1>2, <2>5 DEF CallInv
<1> QED BY <1>3, <1>4

LEMMA RetryDisconnectedKeeps == ASSUME CallInv, RetryDisconnected PROVE CallInv'
  BY AwaitKeeps DEF RetryDisconnected, At, Again

LEMMA ReconnectedKeeps == ASSUME CallInv, Reconnected PROVE CallInv'
<1>1. ~Idle /\ Top.fn \in {"retry", "reset_loop"} /\ Top.at = "reconnected" /\ moved' = moved
  BY DEF Reconnected, At
<1>2. ValuesOK'
  BY TopFacts, <1>1 DEF Reconnected, Return, ValuesOK, device, caller
<1>3. CASE Return("error")
  <2>1. Promise(Top, "error", moved')
    BY DEF Promise
  <2> QED BY <1>1, <1>2, <1>3, <2>1, TopFacts, Returning DEF CallInv
<1>4. CASE ~Return("error")
  <2>1. Goto("check") /\ ret' = ret /\ ret # "error"
    BY <1>4 DEF Reconnected
  <2> DEFINE f == [Top EXCEPT !.at = "check"]
  <2>2. /\ f \in Frames /\ f.at = "check" /\ f.fn = Top.fn /\ f.op = Top.op
        /\ f.n = Top.n /\ f.ret = Top.ret
    BY <1>1, TopGoneTo DEF Places
  <2> HIDE DEF f
  <2>3. FrameOK(f) /\ Settled(f, ret', moved')
    BY <1>1, <2>1, <2>2, TopFacts DEF FrameOK, Settled, ValuesOK
  <2> USE DEF f
  <2>4. StackInv' /\ TopInv'
    BY <1>1, <2>1, <2>3, Going DEF Places
  <2> QED BY <1>2, <2>4 DEF CallInv
<1> QED BY <1>3, <1>4

LEMMA ResetLoopStartKeeps == ASSUME CallInv, ResetLoopStart PROVE CallInv'
<1> DEFINE f == [Top EXCEPT !.at = "done"]
           g == Retry(Top.op, Top.tells)
<1>1. ~Idle /\ Top.fn = "reset_loop" /\ Top.at = "start" /\ Enter(g, "done") /\ moved' = moved
      /\ ret' = ret
  BY DEF ResetLoopStart, At
<1>2. /\ f \in Frames /\ f.at = "done" /\ f.fn = Top.fn /\ f.op = Top.op
      /\ f.n = Top.n /\ f.ret = Top.ret
  BY TopGoneTo, <1>1 DEF Places
<1>3. Top.op \in Ops /\ Top.tells \in BOOLEAN
  BY TopFacts, <1>1 DEF FrameOK, Frames
<1>4. FrameOK(g) /\ g.fn = "retry" /\ g.op = Top.op /\ g.at = "first" /\ g.ret = "error"
  BY <1>1, <1>3, FramesOK DEF Retry
<1> HIDE DEF f, g
<1>5. FrameOK(f) /\ For(g, f) /\ Settled(g, ret', moved')
  BY <1>1, <1>2, <1>4, TopFacts DEF FrameOK, Settled, For
<1> USE DEF f, g
<1>6. StackInv' /\ TopInv'
  BY <1>1, <1>4, <1>5, Calling DEF Places
<1>7. ValuesOK'
  BY TopFacts, <1>1 DEF ResetLoopStart, ValuesOK, device, caller
<1> QED BY <1>6, <1>7 DEF CallInv

LEMMA ResetLoopTriedKeeps == ASSUME CallInv, ResetLoopTried PROVE CallInv'
<1> DEFINE f == [Top EXCEPT !.at = "check", !.ret = ret]
<1>1. /\ ~Idle /\ Top.fn = "reset_loop" /\ Top.at \in {"done", "redone"}
      /\ stack' = <<f>> \o Tail(stack) /\ moved' = moved /\ ret' = ret
  BY DEF ResetLoopTried, At, Become
<1>2. ret \in {"ok", "error", "eof"}
  BY TopFacts, <1>1 DEF ValuesOK
<1>3. /\ f \in Frames /\ f.at = "check" /\ f.fn = Top.fn /\ f.op = Top.op /\ f.ret = ret
  BY TopFacts, <1>1, <1>2 DEF Frames
<1> HIDE DEF f
<1>4. FrameOK(f) /\ Settled(f, ret', moved')
  BY <1>1, <1>3, TopFacts DEF FrameOK, Settled
<1>5. StackInv' /\ TopInv'
  BY <1>1, <1>3, <1>4, TopFacts, Becoming
<1>6. ValuesOK'
  BY TopFacts, <1>1 DEF ResetLoopTried, Tell, ValuesOK, device, caller, Frames
<1> QED BY <1>5, <1>6 DEF CallInv

LEMMA ResetLoopDoneKeeps == ASSUME CallInv, ResetLoopDone PROVE CallInv'
<1>1. ~Idle /\ Top.fn = "reset_loop" /\ Top.at = "check" /\ Return(Top.ret) /\ moved' = moved
  BY DEF ResetLoopDone, At
<1>2. Promise(Top, Top.ret, moved')
  BY <1>1, TopFacts DEF Settled, Promise, FrameOK
<1>3. StackInv' /\ TopInv'
  BY <1>1, <1>2, TopFacts, Returning
<1>4. ValuesOK'
  BY <1>1, TopFacts DEF ResetLoopDone, Return, ValuesOK, device, caller
<1> QED BY <1>3, <1>4 DEF CallInv

LEMMA ResetLoopDisconnectedKeeps == ASSUME CallInv, ResetLoopDisconnected PROVE CallInv'
  BY AwaitKeeps DEF ResetLoopDisconnected, At, Again

LEMMA ResetLoopConnectedKeeps == ASSUME CallInv, ResetLoopConnected PROVE CallInv'
<1>1. ~Idle /\ Top.fn = "reset_loop" /\ Top.at = "check" /\ Goto("connected") /\ moved' = moved
      /\ ret' = ret
      /\ Top.ret = "error" /\ Top.n < MAX_RESET_RETRIES
  BY TopFacts DEF ResetLoopConnected, At, Again
<1> DEFINE f == [Top EXCEPT !.at = "connected"]
<1>2. /\ f \in Frames /\ f.at = "connected" /\ f.fn = Top.fn /\ f.op = Top.op
      /\ f.n = Top.n /\ f.ret = Top.ret
  BY TopGoneTo, <1>1 DEF Places
<1> HIDE DEF f
<1>3. FrameOK(f) /\ Settled(f, ret', moved')
  BY <1>1, <1>2, TopFacts DEF FrameOK, Settled
<1> USE DEF f
<1>4. StackInv' /\ TopInv'
  BY <1>1, <1>3, Going DEF Places
<1>5. ValuesOK'
  BY TopFacts, <1>1 DEF ResetLoopConnected, ValuesOK, device, caller
<1> QED BY <1>4, <1>5 DEF CallInv

LEMMA ResetLoopGivesUpKeeps == ASSUME CallInv, ResetLoopGivesUp PROVE CallInv'
<1>1. ~Idle /\ Top.fn = "reset_loop" /\ Return("error") /\ moved' = moved
  BY DEF ResetLoopGivesUp, At
<1>2. Promise(Top, "error", moved')
  BY <1>1, TopFacts DEF Settled, Promise, FrameOK
<1>3. StackInv' /\ TopInv'
  BY <1>1, <1>2, TopFacts, Returning
<1>4. ValuesOK'
  BY <1>1, TopFacts DEF ResetLoopGivesUp, Return, ValuesOK, device, caller
<1> QED BY <1>3, <1>4 DEF CallInv

LEMMA ResetLoopResetsKeeps == ASSUME CallInv, ResetLoopResets PROVE CallInv'
<1> DEFINE f == [Top EXCEPT !.at = "reset"]
           g == ResetDevice
<1>1. ~Idle /\ Top.fn = "reset_loop" /\ Top.at = "connected" /\ Enter(g, "reset") /\ moved' = moved
      /\ ret' = ret
  BY DEF ResetLoopResets, At
<1>2. /\ f \in Frames /\ f.at = "reset" /\ f.fn = Top.fn /\ f.op = Top.op
      /\ f.n = Top.n /\ f.ret = Top.ret
  BY TopGoneTo, <1>1 DEF Places
<1>3. Top.op \in Ops /\ Top.tells \in BOOLEAN
  BY TopFacts, <1>1 DEF FrameOK, Frames
<1>4. FrameOK(g) /\ g.fn = "reset_device" /\ g.at = "start" /\ g.op = "none"
  BY <1>1, <1>3, FramesOK DEF ResetDevice
<1> HIDE DEF f, g
<1>5. FrameOK(f) /\ For(g, f) /\ Settled(g, ret', moved')
  BY <1>1, <1>2, <1>4, TopFacts DEF FrameOK, Settled, For
<1> USE DEF f, g
<1>6. StackInv' /\ TopInv'
  BY <1>1, <1>4, <1>5, Calling DEF Places
<1>7. ValuesOK'
  BY TopFacts, <1>1 DEF ResetLoopResets, ValuesOK, device, caller
<1> QED BY <1>6, <1>7 DEF CallInv

LEMMA ResetFailedKeeps == ASSUME CallInv, ResetFailed PROVE CallInv'
<1>1. ~Idle /\ Top.fn = "reset_loop" /\ Top.at = "reset" /\ moved' = moved
  BY DEF ResetFailed, At
<1>2. ValuesOK'
  BY TopFacts, <1>1 DEF ResetFailed, Return, Tell, ValuesOK, device, caller, Frames
<1>3. CASE Return("error")
  <2>1. Promise(Top, "error", moved')
    BY DEF Promise
  <2> QED BY <1>1, <1>2, <1>3, <2>1, TopFacts, Returning DEF CallInv
<1>4. CASE ~Return("error")
  <2> DEFINE f == [Top EXCEPT !.at = "check", !.n = MAX_RESET_RETRIES]
  <2>1. stack' = <<f>> \o Tail(stack) /\ ret' = ret
    BY <1>4 DEF ResetFailed, Become
  <2>2. /\ f \in Frames /\ f.at = "check" /\ f.fn = Top.fn /\ f.op = Top.op
        /\ f.ret = Top.ret
    <3>1. MAX_RESET_RETRIES \in 0 .. MAX_RESET_RETRIES
      BY RetryAssumption
    <3> QED BY <1>1, <3>1, TopFacts DEF Frames
  <2> HIDE DEF f
  <2>3. FrameOK(f) /\ Settled(f, ret', moved')
    BY <1>1, <2>1, <2>2, TopFacts DEF FrameOK, Settled
  <2>4. StackInv' /\ TopInv'
    BY <1>1, <2>1, <2>2, <2>3, TopFacts, Becoming
  <2> QED BY <1>2, <2>4 DEF CallInv
<1> QED BY <1>3, <1>4

LEMMA ResetSucceededKeeps == ASSUME CallInv, ResetSucceeded PROVE CallInv'
<1> DEFINE at == ToRedo(Top.op)
           g  == Retry("lseek", Top.tells)
           f  == [Top EXCEPT !.at = at, !.n = @ + 1]
<1>1. ~Idle /\ Top.fn = "reset_loop" /\ Top.at = "reset" /\ moved' = moved /\ ret' = ret
  BY DEF ResetSucceeded, At
<1>2. /\ Top.op \in Ops /\ Top.tells \in BOOLEAN
      /\ at \in {"redone", "sought"} /\ (at = "redone" <=> Top.op = "lseek")
  BY <1>1, TopFacts DEF FrameOK, Frames, Ops, ToRedo
<1>3. stack' = <<g, f>> \o Tail(stack)
  BY <1>2 DEF ResetSucceeded
<1>4. Top.n + 1 \in 0 .. MAX_RESET_RETRIES
  BY <1>1, TopFacts, RetryAssumption DEF FrameOK, Frames
<1>5. f \in Frames /\ f.at = at /\ f.fn = Top.fn /\ f.op = Top.op /\ f.ret = Top.ret
  <2> DEFINE n == Top.n + 1
  <2>1. n \in 0 .. MAX_RESET_RETRIES /\ at \in Places /\ Top \in Frames
    BY <1>1, <1>2, <1>4, TopFacts DEF Places
  <2>2. f = [Top EXCEPT !.at = at, !.n = n]
    BY <2>1 DEF Frames
  <2> HIDE DEF n, at
  <2> QED BY <2>1, <2>2 DEF Frames, Places
<1>6. FrameOK(g) /\ g.fn = "retry" /\ g.op = "lseek" /\ g.at = "first" /\ g.ret = "error"
  BY <1>2, FramesOK DEF Retry, Ops
<1> HIDE DEF f, g, at
<1>7. FrameOK(f) /\ For(g, f) /\ Settled(g, ret', moved')
  BY <1>1, <1>2, <1>5, <1>6, TopFacts DEF FrameOK, Settled, For
<1>8. StackInv' /\ TopInv'
  BY <1>1, <1>3, <1>5, <1>6, <1>7, TopFacts, Entering
<1>9. ValuesOK'
  BY TopFacts, <1>1 DEF ResetSucceeded, ValuesOK, device, caller
<1> QED BY <1>8, <1>9 DEF CallInv

LEMMA SoughtAfterResetKeeps == ASSUME CallInv, SoughtAfterReset PROVE CallInv'
<1>1. ~Idle /\ Top.fn = "reset_loop" /\ Top.at = "sought" /\ moved' = moved
  BY DEF SoughtAfterReset, At
<1>2. ValuesOK'
  BY TopFacts, <1>1 DEF SoughtAfterReset, Return, ValuesOK, device, caller
<1>3. CASE Return("error")
  <2>1. Promise(Top, "error", moved')
    BY DEF Promise
  <2> QED BY <1>1, <1>2, <1>3, <2>1, TopFacts, Returning DEF CallInv
<1>4. CASE ~Return("error")
  <2> DEFINE f == [Top EXCEPT !.at = "redone"]
             g == Retry(Top.op, Top.tells)
  <2>1. Enter(g, "redone") /\ ret' = ret /\ ret # "error"
    BY <1>4 DEF SoughtAfterReset
  <2>2. /\ f \in Frames /\ f.at = "redone" /\ f.fn = Top.fn /\ f.op = Top.op
        /\ f.n = Top.n /\ f.ret = Top.ret
    BY <1>1, TopGoneTo DEF Places
  <2>3. Top.op \in Ops /\ Top.tells \in BOOLEAN /\ ret = "ok"
    BY <1>1, <2>1, TopFacts DEF FrameOK, Frames, Settled, ValuesOK
  <2>4. FrameOK(g) /\ g.fn = "retry" /\ g.op = Top.op /\ g.at = "first" /\ g.ret = "error"
    BY <2>3, FramesOK DEF Retry
  <2> HIDE DEF f, g
  <2>5. FrameOK(f) /\ For(g, f) /\ Settled(g, ret', moved')
    BY <1>1, <2>1, <2>2, <2>3, <2>4, TopFacts DEF FrameOK, Settled, For
  <2> USE DEF f, g
  <2>6. StackInv' /\ TopInv'
    BY <1>1, <2>1, <2>4, <2>5, Calling DEF Places
  <2> QED BY <1>2, <2>6 DEF CallInv
<1> QED BY <1>3, <1>4

LEMMA AcceptKeeps == ASSUME CallInv, Accept PROVE CallInv'
<1>1. ~Idle /\ Top.fn = "reconnect" /\ Top.at = "wait" /\ event = "new" /\ event' = "none"
      /\ OpenHandle
  BY DEF Accept, At
<1>2. ValuesOK'
  BY TopFacts, <1>1 DEF Accept, OpenHandle, Return, ValuesOK, caller
<1>3. CASE Top.op = "lseek"
  <2>1. Return("ok") /\ Promise(Top, "ok", moved')
    BY <1>1, <1>3 DEF Accept, SeekAfter, Promise
  <2> QED BY <1>1, <1>2, <2>1, TopFacts, Returning DEF CallInv
<1>4. CASE Top.op # "lseek"
  <2> DEFINE f == [Top EXCEPT !.at = "sought"]
             g == ResetLoop("lseek", FALSE)
  <2>1. Enter(g, "sought") /\ ret' = ret
    BY <1>4 DEF Accept, SeekAfter
  <2>2. /\ f \in Frames /\ f.at = "sought" /\ f.fn = Top.fn /\ f.op = Top.op
        /\ f.n = Top.n /\ f.ret = Top.ret
    BY <1>1, TopGoneTo DEF Places
  <2>3. FrameOK(g) /\ g.fn = "reset_loop" /\ g.op = "lseek" /\ g.at = "start"
    BY FramesOK DEF ResetLoop, Ops
  <2> HIDE DEF f, g
  <2>4. FrameOK(f) /\ For(g, f) /\ Settled(g, ret', moved')
    BY <1>1, <1>4, <2>1, <2>2, <2>3, TopFacts DEF FrameOK, Settled, For
  <2> USE DEF f, g
  <2>5. StackInv' /\ TopInv'
    BY <1>1, <2>1, <2>3, <2>4, Calling DEF Places
  <2> QED BY <1>2, <2>5 DEF CallInv
<1> QED BY <1>3, <1>4

LEMMA StartWaitingKeeps == ASSUME CallInv, StartWaiting PROVE CallInv'
<1>1. ~Idle /\ Top.fn = "reconnect" /\ Top.at = "start" /\ Goto("listen") /\ moved' = moved
      /\ ret' = ret
  BY DEF StartWaiting, At
<1> DEFINE f == [Top EXCEPT !.at = "listen"]
<1>2. /\ f \in Frames /\ f.at = "listen" /\ f.fn = Top.fn /\ f.op = Top.op
      /\ f.n = Top.n /\ f.ret = Top.ret
  BY TopGoneTo, <1>1 DEF Places
<1> HIDE DEF f
<1>3. FrameOK(f) /\ Settled(f, ret', moved')
  BY <1>1, <1>2, TopFacts DEF FrameOK, Settled
<1> USE DEF f
<1>4. StackInv' /\ TopInv'
  BY <1>1, <1>3, Going DEF Places
<1>5. ValuesOK'
  BY TopFacts, <1>1 DEF StartWaiting, ValuesOK, device, caller
<1> QED BY <1>4, <1>5 DEF CallInv

LEMMA ListenKeeps == ASSUME CallInv, Listen PROVE CallInv'
<1>1. ~Idle /\ Top.fn = "reconnect" /\ Top.at = "listen" /\ Goto("wait") /\ moved' = moved
      /\ ret' = ret
  BY DEF Listen, At
<1> DEFINE f == [Top EXCEPT !.at = "wait"]
<1>2. /\ f \in Frames /\ f.at = "wait" /\ f.fn = Top.fn /\ f.op = Top.op
      /\ f.n = Top.n /\ f.ret = Top.ret
  BY TopGoneTo, <1>1 DEF Places
<1> HIDE DEF f
<1>3. FrameOK(f) /\ Settled(f, ret', moved')
  BY <1>1, <1>2, TopFacts DEF FrameOK, Settled
<1> USE DEF f
<1>4. StackInv' /\ TopInv'
  BY <1>1, <1>3, Going DEF Places
<1>5. ValuesOK'
  BY TopFacts, <1>1 DEF Listen, ValuesOK, device, caller
<1> QED BY <1>4, <1>5 DEF CallInv

LEMMA CannotListenKeeps == ASSUME CallInv, CannotListen PROVE CallInv'
<1>1. ~Idle /\ Top.fn = "reconnect" /\ Return("error")
  BY DEF CannotListen, At
<1>2. Promise(Top, "error", moved')
  BY <1>1, TopFacts DEF Settled, Promise, FrameOK
<1>3. StackInv' /\ TopInv'
  BY <1>1, <1>2, TopFacts, Returning
<1>4. ValuesOK'
  BY <1>1, TopFacts DEF CannotListen, Return, ValuesOK, device, caller
<1> QED BY <1>3, <1>4 DEF CallInv

LEMMA AcceptFailsKeeps == ASSUME CallInv, AcceptFails PROVE CallInv'
<1>1. ~Idle /\ Top.fn = "reconnect" /\ event = "new" /\ Return("error")
  BY DEF AcceptFails, At
<1>2. Promise(Top, "error", moved')
  BY <1>1, TopFacts DEF Settled, Promise, FrameOK
<1>3. StackInv' /\ TopInv'
  BY <1>1, <1>2, TopFacts, Returning
<1>4. ValuesOK'
  BY <1>1, TopFacts DEF AcceptFails, Return, ValuesOK, caller, OpenHandle
<1> QED BY <1>3, <1>4 DEF CallInv

LEMMA SoughtAfterReconnectKeeps == ASSUME CallInv, SoughtAfterReconnect PROVE CallInv'
<1>1. ~Idle /\ Top.fn = "reconnect" /\ Top.at = "sought" /\ moved' = moved /\ Return(ret)
  BY DEF SoughtAfterReconnect, At
<1>2. Promise(Top, ret, moved')
  BY <1>1, TopFacts DEF Settled, Promise, FrameOK
<1>3. StackInv' /\ TopInv'
  BY <1>1, <1>2, TopFacts, Returning
<1>4. ValuesOK'
  BY <1>1, TopFacts DEF SoughtAfterReconnect, Return, ValuesOK, device, caller
<1> QED BY <1>3, <1>4 DEF CallInv

LEMMA CannotResetKeeps == ASSUME CallInv, CannotReset PROVE CallInv'
<1>1. ~Idle /\ Top.fn = "reset_device" /\ Return("error")
  BY DEF CannotReset, At
<1>2. Promise(Top, "error", moved')
  BY <1>1, TopFacts DEF Settled, Promise, FrameOK
<1>3. StackInv' /\ TopInv'
  BY <1>1, <1>2, TopFacts, Returning
<1>4. ValuesOK'
  BY <1>1, TopFacts DEF CannotReset, Return, ValuesOK, device, caller
<1> QED BY <1>3, <1>4 DEF CallInv

LEMMA ResetRefusedKeeps == ASSUME CallInv, ResetRefused PROVE CallInv'
<1>1. ~Idle /\ Top.fn = "reset_device" /\ Return("error")
  BY DEF ResetRefused, At
<1>2. Promise(Top, "error", moved')
  BY <1>1, TopFacts DEF Settled, Promise, FrameOK
<1>3. StackInv' /\ TopInv'
  BY <1>1, <1>2, TopFacts, Returning
<1>4. ValuesOK'
  BY <1>1, TopFacts DEF ResetRefused, Return, ValuesOK, device, caller
<1> QED BY <1>3, <1>4 DEF CallInv

LEMMA ResetItKeeps == ASSUME CallInv, WaitInv, ResetIt PROVE CallInv'
<1>1. ~Idle /\ Top.fn = "reset_device" /\ Goto("find") /\ moved' = moved
      /\ ret' = ret
  BY DEF ResetIt, At
<1> DEFINE f == [Top EXCEPT !.at = "find"]
<1>2. /\ f \in Frames /\ f.at = "find" /\ f.fn = Top.fn /\ f.op = Top.op
      /\ f.n = Top.n /\ f.ret = Top.ret
  BY TopGoneTo, <1>1 DEF Places
<1> HIDE DEF f
<1>3. FrameOK(f) /\ Settled(f, ret', moved')
  BY <1>1, <1>2, TopFacts DEF FrameOK, Settled
<1> USE DEF f
<1>4. StackInv' /\ TopInv'
  BY <1>1, <1>3, Going DEF Places
<1>5. ValuesOK'
  <2>1. event = "none"
    BY DEF ResetIt, WaitInv, At
  <2> QED BY TopFacts, <1>1, <2>1 DEF ResetIt, ValuesOK, caller, Disconnected
<1> QED BY <1>4, <1>5 DEF CallInv

LEMMA FindKeeps == ASSUME CallInv, Find PROVE CallInv'
<1>1. ~Idle /\ Top.fn = "reset_device" /\ Return("ok")
  BY DEF Find, At
<1>2. Promise(Top, "ok", moved')
  BY <1>1, TopFacts DEF Settled, Promise, FrameOK
<1>3. StackInv' /\ TopInv'
  BY <1>1, <1>2, TopFacts, Returning
<1>4. ValuesOK'
  BY <1>1, TopFacts DEF Find, Return, ValuesOK, caller, OpenHandle
<1> QED BY <1>3, <1>4 DEF CallInv

LEMMA FindNothingKeeps == ASSUME CallInv, FindNothing PROVE CallInv'
<1>1. ~Idle /\ Top.fn = "reset_device" /\ (Return("ok") \/ Return("error"))
  BY DEF FindNothing, At
<1>2. Promise(Top, "ok", moved') /\ Promise(Top, "error", moved')
  BY <1>1 DEF Promise
<1>3. StackInv' /\ TopInv'
  BY <1>1, <1>2, TopFacts, Returning
<1>4. ValuesOK'
  BY <1>1, TopFacts DEF FindNothing, Return, ValuesOK, device, caller
<1> QED BY <1>3, <1>4 DEF CallInv

\* The device comes and goes between any two steps of them.
LEMMA DeviceKeeps == ASSUME CallInv, Unplug \/ Plug \/ Reject PROVE CallInv'
<1>1. stack' = stack /\ ret' = ret /\ moved' = moved
  BY DEF Unplug, Plug, Reject
<1>2. StackInv' /\ TopInv'
  BY <1>1 DEF CallInv, StackInv, TopInv, Idle, Top, Settled
<1>3. unplugs' \in 0 .. MaxUnplugs
  <2>1. unplugs \in 0 .. MaxUnplugs /\ (unplugs < MaxUnplugs => unplugs + 1 \in 0 .. MaxUnplugs)
    BY RetryAssumption DEF CallInv, ValuesOK
  <2> QED BY <2>1 DEF Unplug, Plug, Reject
<1>4. ValuesOK'
  <2>1. CASE Unplug
    <3>1. fd' \in {"stale", "closed"} /\ handle' \in {"open", "stale", "closed"}
      BY <2>1 DEF CallInv, ValuesOK, Unplug
    <3>2. /\ attached' = FALSE /\ event' = "none"
          /\ UNCHANGED <<ret, moved, known, usb, caller, device_was_disconnected, renewed>>
      BY <2>1 DEF Unplug
    <3>3. /\ ret' \in {"ok", "error", "eof"} /\ moved' \in BOOLEAN /\ known' \in BOOLEAN
          /\ usb' \in BOOLEAN /\ later_round' \in BOOLEAN /\ renewed' \in BOOLEAN
          /\ device_was_disconnected' \in BOOLEAN /\ calls' \in 0 .. MaxCalls
          /\ call' \in {"none", "lseek", "read", "write"}
      BY <3>2 DEF CallInv, ValuesOK, caller
    <3> QED BY <1>3, <3>1, <3>2, <3>3 DEF ValuesOK
  <2>2. CASE Plug
    BY <1>3, <2>2 DEF CallInv, ValuesOK, Plug, caller
  <2>3. CASE Reject
    BY <1>3, <2>3 DEF CallInv, ValuesOK, Reject, caller
  <2> QED BY <2>1, <2>2, <2>3
<1> QED BY <1>2, <1>4 DEF CallInv

LEMMA CallInit == Init => CallInv
<1> SUFFICES ASSUME Init PROVE CallInv
  OBVIOUS
<1>1. stack = <<>> /\ ret = "ok" /\ moved = FALSE
  BY DEF Init
<1>2. StackInv /\ TopInv
  BY <1>1 DEF StackInv, TopInv, Idle
<1>3. 0 \in 0 .. MaxUnplugs /\ 0 \in 0 .. MaxCalls
  BY RetryAssumption
<1>4. ValuesOK
  BY <1>3 DEF Init, ValuesOK
<1> QED BY <1>2, <1>4 DEF CallInv

LEMMA CallStep == CallInv /\ WaitInv /\ [Next]_vars => CallInv'
<1> SUFFICES ASSUME CallInv, WaitInv, [Next]_vars PROVE CallInv'
  OBVIOUS
<1>1. CASE Step
  BY <1>1, RequestKeeps, RetryDoneKeeps, RetryAgainKeeps, RetryDisconnectedKeeps,
     ReconnectedKeeps, ResetLoopStartKeeps, ResetLoopTriedKeeps, ResetLoopDoneKeeps,
     ResetLoopDisconnectedKeeps, ResetLoopConnectedKeeps, ResetLoopGivesUpKeeps,
     ResetLoopResetsKeeps, ResetFailedKeeps, ResetSucceededKeeps, SoughtAfterResetKeeps,
     StartWaitingKeeps, ListenKeeps, CannotListenKeeps, AcceptKeeps, AcceptFailsKeeps,
     SoughtAfterReconnectKeeps, CannotResetKeeps, ResetRefusedKeeps, ResetItKeeps,
     FindKeeps, FindNothingKeeps, DeviceKeeps
  DEF Step
<1>2. CASE UNCHANGED vars
  BY <1>2 DEF vars, device, caller, CallInv, StackInv, TopInv, ValuesOK, Idle, Top, Settled
<1> QED BY <1>1, <1>2, CallKeeps, DeviceKeeps DEF Next

LEMMA CallSafe == Spec => []CallInv
  BY CallInit, CallStep, WaitSafe, PTL DEF Spec

(* The functions and the handle stay within their types, and the functions  *)
(* call each other no deeper than six, however often the device comes and   *)
(* goes.                                                                    *)
THEOREM RetryTypeCorrect == Spec => []TypeOK
<1>1. CallInv => TypeOK
  BY StackDepth DEF CallInv, ValuesOK, StackInv, TypeOK
<1> QED BY <1>1, CallSafe, PTL

(* A request that succeeds was made where it was meant to be.               *)
THEOREM InPlace == Spec => []AnsweredInPlace
<1>1. CallInv => AnsweredInPlace
  BY DEF CallInv, TopInv, AnsweredInPlace
<1> QED BY <1>1, CallSafe, PTL

----------------------------------------------------------------------------
(* What the caller is told.  As long as it has not been told of a           *)
(* disconnect, a seek has only been retried, and a write has been retried   *)
(* or is being repeated after a reset, which it will be told of.  In the    *)
(* first round a write is only retried.                                     *)

Quiet(f) == f.fn = "retry" /\ f.tells = TRUE /\ f.at # "reconnected"

Outer(f, exchanged) ==
    /\ f.fn = "reset_loop" /\ f.tells = TRUE /\ f.at # "reconnected"
    /\ exchanged = TRUE => f.at \in {"reset", "sought", "redone"}

ToldInv ==
    device_was_disconnected = FALSE =>
      /\ call = "lseek" => renewed = FALSE /\ (~Idle => Len(stack) = 1 /\ Quiet(Top))
      /\ call = "write" =>
           /\ Idle /\ ret = "ok" => renewed = FALSE
           /\ ~Idle => \/ Len(stack) = 1 /\ Outer(Top, renewed)
                       \/ /\ Len(stack) = 2 /\ Outer(stack[2], renewed)
                          /\ Quiet(Top) \/ Top.fn = "reset_device"

Early(f) ==
    f.fn = "reset_loop" /\ f.op = "write" /\ f.at \in {"start", "done", "check", "connected"}

FirstInv ==
    call = "write" /\ later_round = FALSE =>
      /\ renewed = FALSE
      /\ ~Idle => \/ Len(stack) = 1 /\ Early(Top)
                  \/ /\ Len(stack) = 2 /\ Early(stack[2])
                     /\ Top.fn = "retry" /\ Top.op = "write" /\ Top.at # "reconnected"

LEMMA BecomeShape ==
    ASSUME StackInv, ~Idle, NEW f, stack' = <<f>> \o Tail(stack)
    PROVE  /\ ~Idle' /\ Top' = f /\ Len(stack') = Len(stack)
           /\ Len(stack) = 2 => stack'[2] = stack[2]
<1> DEFINE S == Frames \cup {f}
<1>1. stack \in Seq(S) /\ stack # <<>> /\ f \in S
  BY DEF StackInv, Idle
<1> HIDE DEF S
<1> QED BY <1>1, Replaced DEF Idle, Top

LEMMA EnterShape ==
    ASSUME StackInv, ~Idle, NEW f, NEW g, stack' = <<g, f>> \o Tail(stack)
    PROVE  ~Idle' /\ Top' = g /\ stack'[2] = f /\ (Len(stack) = 1 => Len(stack') = 2)
<1> DEFINE S == Frames \cup {f, g}
<1>1. stack \in Seq(S) /\ stack # <<>> /\ f \in S /\ g \in S
  BY DEF StackInv, Idle
<1> HIDE DEF S
<1> QED BY <1>1, Pushed DEF Idle, Top

LEMMA PopShape ==
    ASSUME StackInv, ~Idle, stack' = Tail(stack)
    PROVE  /\ Len(stack) = 1 => Idle' /\ BaseOK(Top)
           /\ Len(stack) = 2 => /\ ~Idle' /\ Top' = stack[2] /\ Len(stack') = 1
                                /\ For(Top, stack[2]) /\ FrameOK(stack[2])
  BY TopOK, PopStack

LEMMA RequestTells ==
    ASSUME CallInv, ToldInv, FirstInv, Request PROVE ToldInv' /\ FirstInv'
<1>1. /\ ~Idle /\ StackInv /\ Top \in Frames /\ Top.fn = "retry"
      /\ UNCHANGED <<device_was_disconnected, call, later_round, renewed, ret>>
  BY TopFacts DEF Request, At, caller
<1>2. PICK f : /\ stack' = <<f>> \o Tail(stack)
               /\ f.fn = Top.fn /\ f.op = Top.op /\ f.tells = Top.tells /\ f.at = "check"
  <2>1. PICK r : Become([Top EXCEPT !.at = "check", !.ret = r,
                                    !.n = IF Top.at = "again" THEN Counted(Top) ELSE @])
    BY DEF Request
  <2> DEFINE n == IF Top.at = "again" THEN Counted(Top) ELSE Top.n
             f == [Top EXCEPT !.at = "check", !.ret = r, !.n = n]
  <2>2. f = [Top EXCEPT !.at = "check", !.ret = r,
                        !.n = IF Top.at = "again" THEN Counted(Top) ELSE @]
    BY <1>1 DEF Frames
  <2> HIDE DEF n
  <2>3. f.fn = Top.fn /\ f.op = Top.op /\ f.tells = Top.tells /\ f.at = "check"
    BY <1>1 DEF Frames
  <2> HIDE DEF f
  <2> QED BY <2>1, <2>2, <2>3 DEF Become
<1>3. /\ ~Idle' /\ Top' = f /\ Len(stack') = Len(stack)
      /\ Len(stack) = 2 => stack'[2] = stack[2]
  BY <1>1, <1>2, BecomeShape
<1> QED BY <1>1, <1>2, <1>3 DEF ToldInv, FirstInv, Quiet, Outer, Early

LEMMA RetryDoneTells ==
    ASSUME CallInv, ToldInv, FirstInv, RetryDone PROVE ToldInv' /\ FirstInv'
<1>1. /\ ~Idle /\ StackInv /\ FrameOK(Top) /\ Top.fn = "retry" /\ Top.at = "check"
      /\ stack' = Tail(stack)
      /\ UNCHANGED <<device_was_disconnected, call, later_round, renewed>>
  BY TopFacts DEF RetryDone, Return, At, caller
<1> QED BY <1>1, PopShape DEF ToldInv, FirstInv, Quiet, Outer, Early, BaseOK, For

LEMMA RetryAgainTells ==
    ASSUME CallInv, ToldInv, FirstInv, RetryAgain PROVE ToldInv' /\ FirstInv'
<1> DEFINE f == [Top EXCEPT !.at = "again"]
<1>1. /\ ~Idle /\ StackInv /\ Top \in Frames /\ Top.fn = "retry"
      /\ stack' = <<f>> \o Tail(stack)
      /\ UNCHANGED <<device_was_disconnected, call, later_round, renewed, ret>>
  BY TopFacts DEF RetryAgain, Goto, Become, At, caller
<1>2. f.at = "again" /\ f.fn = Top.fn /\ f.op = Top.op /\ f.tells = Top.tells
  BY <1>1, GoneTo DEF Places
<1> HIDE DEF f
<1> QED BY <1>1, <1>2, BecomeShape DEF ToldInv, FirstInv, Quiet, Outer, Early

\* A device that is waited for has been reported, and is not waited for in the
\* first round.
LEMMA Elsewhere ==
    ASSUME CallInv, ToldInv, FirstInv, ~Idle, Top.fn = "reconnect" \/ Top.at = "reconnected",
           UNCHANGED <<device_was_disconnected, call, later_round>>
    PROVE  ToldInv' /\ FirstInv'
  BY TopFacts DEF FrameOK, ToldInv, FirstInv, Quiet, Outer, Early

LEMMA ReconnectTells ==
    ASSUME CallInv, ToldInv, FirstInv,
           \/ Reconnected \/ StartWaiting \/ Listen \/ CannotListen \/ Accept \/ AcceptFails
           \/ SoughtAfterReconnect
    PROVE  ToldInv' /\ FirstInv'
  BY Elsewhere DEF Reconnected, StartWaiting, Listen, CannotListen, Accept, AcceptFails,
     SoughtAfterReconnect, At, caller

LEMMA AwaitTells ==
    ASSUME CallInv, ToldInv, FirstInv, ~Idle, AwaitDevice,
           Top.fn \in {"retry", "reset_loop"}, Top.at = "check" PROVE ToldInv' /\ FirstInv'
<1>1. /\ device_was_disconnected' = (device_was_disconnected \/ Top.tells)
      /\ UNCHANGED <<call, later_round, renewed>>
      /\ StackInv /\ FrameOK(Top) /\ Top \in Frames
      /\ device_was_disconnected \in BOOLEAN /\ Top.tells \in BOOLEAN
  BY TopFacts DEF AwaitDevice, Tell, caller, ValuesOK, Frames
<1>2. ToldInv'
  BY <1>1 DEF ToldInv, Quiet, Outer
<1>3. FirstInv'
  <2> SUFFICES ASSUME call = "write", later_round = FALSE PROVE FirstInv'
    BY <1>1 DEF FirstInv
  <2>1. Top.op = "write"
    BY DEF FirstInv, Early
  <2>2. stack' = Tail(stack)
    BY <2>1 DEF AwaitDevice, NoRecovery, Return
  <2> QED BY <1>1, <2>2, PopShape DEF FirstInv, Early, BaseOK
<1> QED BY <1>2, <1>3

LEMMA DisconnectedTells ==
    ASSUME CallInv, ToldInv, FirstInv, RetryDisconnected \/ ResetLoopDisconnected
    PROVE  ToldInv' /\ FirstInv'
  BY AwaitTells DEF RetryDisconnected, ResetLoopDisconnected, At

LEMMA ResetLoopStartTells ==
    ASSUME CallInv, ToldInv, FirstInv, ResetLoopStart PROVE ToldInv' /\ FirstInv'
<1> DEFINE f == [Top EXCEPT !.at = "done"]
           g == Retry(Top.op, Top.tells)
<1>1. /\ ~Idle /\ StackInv /\ FrameOK(Top) /\ Top \in Frames
      /\ Top.fn = "reset_loop" /\ Top.at = "start"
      /\ stack' = <<g, f>> \o Tail(stack)
      /\ UNCHANGED <<device_was_disconnected, call, later_round, renewed, ret>>
  BY TopFacts DEF ResetLoopStart, Enter, At, caller
<1>2. /\ f.at = "done" /\ f.fn = Top.fn /\ f.op = Top.op /\ f.tells = Top.tells
      /\ g.fn = "retry" /\ g.op = Top.op /\ g.tells = Top.tells /\ g.at = "first"
  BY <1>1, GoneTo DEF Places, Retry
<1> HIDE DEF f, g
<1> QED BY <1>1, <1>2, EnterShape DEF ToldInv, FirstInv, Quiet, Outer, Early

LEMMA ResetLoopTriedTells ==
    ASSUME CallInv, ToldInv, FirstInv, ResetLoopTried PROVE ToldInv' /\ FirstInv'
<1> DEFINE f == [Top EXCEPT !.at = "check", !.ret = ret]
<1>1. /\ ~Idle /\ StackInv /\ Top \in Frames
      /\ Top.fn = "reset_loop" /\ Top.at \in {"done", "redone"}
      /\ stack' = <<f>> \o Tail(stack)
      /\ UNCHANGED <<call, later_round, renewed, ret>>
      /\ device_was_disconnected \in BOOLEAN /\ Top.tells \in BOOLEAN
      /\ Top.at = "redone" => device_was_disconnected' = (device_was_disconnected \/ Top.tells)
      /\ Top.at = "done" => device_was_disconnected' = device_was_disconnected
  BY TopFacts DEF ResetLoopTried, Become, Tell, At, caller, ValuesOK, Frames
<1>2. f.at = "check" /\ f.fn = Top.fn /\ f.op = Top.op /\ f.tells = Top.tells
  BY <1>1 DEF Frames
<1> HIDE DEF f
<1>3. /\ ~Idle' /\ Top' = f /\ Len(stack') = Len(stack)
      /\ Len(stack) = 2 => stack'[2] = stack[2]
  BY <1>1, BecomeShape
<1>4. ToldInv'
  BY <1>1, <1>2, <1>3 DEF ToldInv, Quiet, Outer
<1>5. FirstInv'
  BY <1>1, <1>2, <1>3 DEF FirstInv, Early
<1> QED BY <1>4, <1>5

LEMMA ResetLoopDoneTells ==
    ASSUME CallInv, ToldInv, FirstInv, ResetLoopDone PROVE ToldInv' /\ FirstInv'
<1>1. /\ ~Idle /\ StackInv /\ FrameOK(Top) /\ Top.fn = "reset_loop" /\ Top.at = "check"
      /\ stack' = Tail(stack)
      /\ UNCHANGED <<device_was_disconnected, call, later_round, renewed>>
  BY TopFacts DEF ResetLoopDone, Return, At, caller
<1> QED BY <1>1, PopShape DEF ToldInv, FirstInv, Quiet, Outer, Early, BaseOK, For, FrameOK

LEMMA ResetLoopConnectedTells ==
    ASSUME CallInv, ToldInv, FirstInv, ResetLoopConnected PROVE ToldInv' /\ FirstInv'
<1> DEFINE f == [Top EXCEPT !.at = "connected"]
<1>1. /\ ~Idle /\ StackInv /\ Top \in Frames /\ Top.fn = "reset_loop" /\ Top.at = "check"
      /\ stack' = <<f>> \o Tail(stack)
      /\ UNCHANGED <<device_was_disconnected, call, later_round, renewed, ret>>
  BY TopFacts DEF ResetLoopConnected, Goto, Become, At, caller
<1>2. f.at = "connected" /\ f.fn = Top.fn /\ f.op = Top.op /\ f.tells = Top.tells
  BY <1>1, GoneTo DEF Places
<1> HIDE DEF f
<1> QED BY <1>1, <1>2, BecomeShape DEF ToldInv, FirstInv, Quiet, Outer, Early

LEMMA ResetLoopGivesUpTells ==
    ASSUME CallInv, ToldInv, FirstInv, ResetLoopGivesUp PROVE ToldInv' /\ FirstInv'
<1>1. /\ ~Idle /\ StackInv /\ FrameOK(Top) /\ Top.fn = "reset_loop"
      /\ stack' = Tail(stack) /\ ret' = "error"
      /\ UNCHANGED <<device_was_disconnected, call, later_round, renewed>>
  BY TopFacts DEF ResetLoopGivesUp, Return, At, caller
<1> QED BY <1>1, PopShape DEF ToldInv, FirstInv, Quiet, Outer, Early, BaseOK, For, FrameOK

LEMMA ResetLoopResetsTells ==
    ASSUME CallInv, ToldInv, FirstInv, ResetLoopResets PROVE ToldInv' /\ FirstInv'
<1> DEFINE f == [Top EXCEPT !.at = "reset"]
           g == ResetDevice
<1>1. /\ ~Idle /\ StackInv /\ FrameOK(Top) /\ Top \in Frames
      /\ Top.fn = "reset_loop" /\ Top.at = "connected" /\ ~NoRecovery(Top.op)
      /\ stack' = <<g, f>> \o Tail(stack)
      /\ UNCHANGED <<device_was_disconnected, call, later_round, renewed, ret>>
  BY TopFacts DEF ResetLoopResets, Enter, At, caller
<1>2. /\ f.at = "reset" /\ f.fn = Top.fn /\ f.op = Top.op /\ f.tells = Top.tells
      /\ g.fn = "reset_device"
  BY <1>1, GoneTo DEF Places, ResetDevice
<1> HIDE DEF f, g
<1> QED BY <1>1, <1>2, EnterShape DEF ToldInv, FirstInv, Quiet, Outer, Early, NoRecovery

LEMMA ResetFailedTells ==
    ASSUME CallInv, ToldInv, FirstInv, ResetFailed PROVE ToldInv' /\ FirstInv'
<1> DEFINE f == [Top EXCEPT !.at = "check", !.n = MAX_RESET_RETRIES]
<1>1. /\ ~Idle /\ StackInv /\ FrameOK(Top) /\ Top \in Frames
      /\ Top.fn = "reset_loop" /\ Top.at = "reset"
      /\ UNCHANGED <<call, later_round, renewed>>
      /\ device_was_disconnected \in BOOLEAN /\ Top.tells \in BOOLEAN
      /\ Top.op = "lseek" => UNCHANGED device_was_disconnected
      /\ Top.op # "lseek" => device_was_disconnected' = (device_was_disconnected \/ Top.tells)
  BY TopFacts DEF ResetFailed, Tell, At, caller, ValuesOK, Frames
<1>2. FirstInv'
  BY <1>1 DEF FirstInv, Early
<1>3. ToldInv'
  <2>1. CASE Top.op # "lseek"
    BY <1>1, <2>1 DEF ToldInv, Quiet, Outer
  <2>2. CASE Top.op = "lseek"
    <3>1. stack' = Tail(stack) /\ ret' = "error"
      BY <2>2 DEF ResetFailed, Return
    <3> QED BY <1>1, <2>2, <3>1, PopShape DEF ToldInv, Quiet, Outer, BaseOK, For, FrameOK
  <2> QED BY <2>1, <2>2
<1> QED BY <1>2, <1>3

LEMMA ResetSucceededTells ==
    ASSUME CallInv, ToldInv, FirstInv, ResetSucceeded PROVE ToldInv' /\ FirstInv'
<1>1. /\ ~Idle /\ StackInv /\ FrameOK(Top) /\ Top \in Frames
      /\ Top.fn = "reset_loop" /\ Top.at = "reset"
      /\ UNCHANGED <<device_was_disconnected, call, later_round, renewed, ret>>
  BY TopFacts DEF ResetSucceeded, At, caller
<1>2. PICK f, g : /\ stack' = <<g, f>> \o Tail(stack)
                  /\ f.at \in {"redone", "sought"} /\ f.fn = Top.fn /\ f.tells = Top.tells
                  /\ g.fn = "retry" /\ g.tells = Top.tells /\ g.at = "first"
  <2> DEFINE at == ToRedo(Top.op)
             n  == Top.n + 1
             op == IF at = "sought" THEN "lseek" ELSE Top.op
             f  == [Top EXCEPT !.at = at, !.n = n]
             g  == Retry(op, Top.tells)
  <2>1. at \in {"redone", "sought"}
    BY DEF ToRedo
  <2>2. stack' = <<g, f>> \o Tail(stack)
    BY <1>1 DEF ResetSucceeded, Frames
  <2>3. g.fn = "retry" /\ g.tells = Top.tells /\ g.at = "first"
    BY DEF Retry
  <2> HIDE DEF at, n, g
  <2>4. f.at = at /\ f.fn = Top.fn /\ f.tells = Top.tells
    BY <1>1 DEF Frames
  <2> HIDE DEF f
  <2> QED BY <2>1, <2>2, <2>3, <2>4
<1>3. ~Idle' /\ Top' = g /\ stack'[2] = f /\ (Len(stack) = 1 => Len(stack') = 2)
  BY <1>1, <1>2, EnterShape
<1>4. ToldInv'
  BY <1>1, <1>2, <1>3 DEF ToldInv, Quiet, Outer
<1>5. FirstInv'
  BY <1>1 DEF FirstInv, Early
<1> QED BY <1>4, <1>5

LEMMA SoughtAfterResetTells ==
    ASSUME CallInv, ToldInv, FirstInv, SoughtAfterReset PROVE ToldInv' /\ FirstInv'
<1>1. /\ ~Idle /\ StackInv /\ FrameOK(Top) /\ Top \in Frames
      /\ Top.fn = "reset_loop" /\ Top.at = "sought"
      /\ UNCHANGED <<device_was_disconnected, call, later_round, renewed>>
  BY TopFacts DEF SoughtAfterReset, At, caller
<1>2. FirstInv'
  BY <1>1 DEF FirstInv, Early
<1>3. CASE stack' = Tail(stack) /\ ret' = "error"
  BY <1>1, <1>2, <1>3, PopShape DEF ToldInv, Quiet, Outer, BaseOK, For, FrameOK
<1>4. CASE Enter(Retry(Top.op, Top.tells), "redone") /\ ret' = ret
  <2> DEFINE f == [Top EXCEPT !.at = "redone"]
             g == Retry(Top.op, Top.tells)
  <2>1. stack' = <<g, f>> \o Tail(stack)
    BY <1>4 DEF Enter
  <2>2. /\ f.at = "redone" /\ f.fn = Top.fn /\ f.tells = Top.tells
        /\ g.fn = "retry" /\ g.tells = Top.tells /\ g.at = "first"
    BY <1>1, GoneTo DEF Places, Retry
  <2> HIDE DEF f, g
  <2>3. ~Idle' /\ Top' = g /\ stack'[2] = f /\ (Len(stack) = 1 => Len(stack') = 2)
    BY <1>1, <2>1, EnterShape
  <2>4. ToldInv'
    BY <1>1, <1>4, <2>2, <2>3 DEF ToldInv, Quiet, Outer
  <2> QED BY <1>2, <2>4
<1> QED BY <1>3, <1>4 DEF SoughtAfterReset, Return

LEMMA ResetDeviceTells ==
    ASSUME CallInv, ToldInv, FirstInv, CannotReset \/ ResetRefused \/ Find \/ FindNothing
    PROVE  ToldInv' /\ FirstInv'
<1>1. /\ ~Idle /\ StackInv /\ FrameOK(Top) /\ Top \in Frames
      /\ Top.fn = "reset_device" /\ stack' = Tail(stack)
      /\ UNCHANGED <<device_was_disconnected, call, later_round>>
      /\ renewed' = renewed \/ renewed' = TRUE
  BY TopFacts DEF CannotReset, ResetRefused, Find, FindNothing, OpenHandle, Return, At, caller
<1>2. FirstInv'
  BY <1>1 DEF FirstInv, Early
<1>3. ToldInv'
  BY <1>1, PopShape DEF ToldInv, Quiet, Outer, BaseOK, For, FrameOK
<1> QED BY <1>2, <1>3

LEMMA ResetItTells ==
    ASSUME CallInv, ToldInv, FirstInv, ResetIt PROVE ToldInv' /\ FirstInv'
<1> DEFINE f == [Top EXCEPT !.at = "find"]
<1>1. /\ ~Idle /\ StackInv /\ Top \in Frames /\ Top.fn = "reset_device"
      /\ stack' = <<f>> \o Tail(stack)
      /\ UNCHANGED <<device_was_disconnected, call, later_round, renewed, ret>>
  BY TopFacts DEF ResetIt, Goto, Become, At, caller
<1>2. f.at = "find" /\ f.fn = Top.fn /\ f.op = Top.op /\ f.tells = Top.tells
  BY <1>1, GoneTo DEF Places
<1> HIDE DEF f
<1> QED BY <1>1, <1>2, BecomeShape DEF ToldInv, FirstInv, Quiet, Outer, Early

LEMMA DeviceTells ==
    ASSUME CallInv, ToldInv, FirstInv, Unplug \/ Plug \/ Reject PROVE ToldInv' /\ FirstInv'
<1>1. UNCHANGED <<stack, device_was_disconnected, call, later_round, renewed, ret>>
  BY DEF Unplug, Plug, Reject, caller
<1> QED BY <1>1 DEF ToldInv, FirstInv, Quiet, Outer, Early, Idle, Top

LEMMA CallTells ==
    ASSUME CallInv, ToldInv, FirstInv, Calls PROVE ToldInv' /\ FirstInv'
<1>1. PICK op \in Ops : Call(op)
  BY DEF Calls, Ops
<1>2. /\ call' = op /\ device_was_disconnected' = FALSE /\ renewed' = FALSE
      /\ stack' = << IF op = "lseek" THEN Retry(op, TRUE) ELSE ResetLoop(op, op = "write") >>
  BY <1>1 DEF Call
<1>3. ~Idle' /\ Len(stack') = 1 /\ Top' = stack'[1]
  BY <1>2 DEF Idle, Top
<1>4. CASE op = "lseek"
  <2>1. Top' = Retry("lseek", TRUE)
    BY <1>2, <1>3, <1>4
  <2>2. Quiet(Top)'
    BY <2>1 DEF Quiet, Retry
  <2> QED BY <1>2, <1>3, <1>4, <2>2 DEF ToldInv, FirstInv
<1>5. CASE op = "write"
  <2>1. Top' = ResetLoop("write", TRUE)
    BY <1>2, <1>3, <1>5
  <2>2. Outer(Top, renewed)' /\ Early(Top)'
    BY <1>2, <2>1 DEF Outer, Early, ResetLoop
  <2> QED BY <1>2, <1>3, <1>5, <2>2 DEF ToldInv, FirstInv
<1>6. CASE op = "read"
  BY <1>2, <1>6 DEF ToldInv, FirstInv
<1> QED BY <1>4, <1>5, <1>6 DEF Ops

LEMMA TellsSafe == Spec => [](ToldInv /\ FirstInv)
<1>1. Init => ToldInv /\ FirstInv
  BY DEF Init, ToldInv, FirstInv, Idle
<1>2. ASSUME CallInv, ToldInv, FirstInv, [Next]_vars PROVE ToldInv' /\ FirstInv'
  <2>1. CASE Step
    BY <1>2, <2>1, RequestTells, RetryDoneTells, RetryAgainTells, DisconnectedTells,
       ReconnectTells, ResetLoopStartTells, ResetLoopTriedTells, ResetLoopDoneTells,
       ResetLoopConnectedTells, ResetLoopGivesUpTells, ResetLoopResetsTells, ResetFailedTells,
       ResetSucceededTells, SoughtAfterResetTells, ResetDeviceTells, ResetItTells, DeviceTells
    DEF Step
  <2>2. CASE UNCHANGED vars
    BY <1>2, <2>2 DEF vars, caller, ToldInv, FirstInv, Quiet, Outer, Early, Idle, Top
  <2> QED BY <1>2, <2>1, <2>2, CallTells, DeviceTells DEF Next
<1> QED BY <1>1, <1>2, CallSafe, PTL DEF Spec

(* A seek or write that succeeds with another handle than it was called     *)
(* with has said so, whatever happened to the device meanwhile.             *)
THEOREM RenewalsTold == Spec => []RenewalTold
<1>1. ToldInv /\ CallInv => RenewalTold
  BY DEF ToldInv, RenewalTold, CallInv, ValuesOK
<1> QED BY <1>1, CallSafe, TellsSafe, PTL

(* A write of the first round never exchanges the handle.                   *)
THEOREM FirstRoundKept == Spec => []FirstRoundNotRecovered
<1>1. FirstInv /\ CallInv => FirstRoundNotRecovered
  BY DEF FirstInv, FirstRoundNotRecovered, CallInv, ValuesOK
<1> QED BY <1>1, CallSafe, TellsSafe, PTL

----------------------------------------------------------------------------
(* The handle.  A request that is answered was made on a handle.            *)

\* As Settled and Promise, h the handle.
Handled(f, r, h) ==
    /\ f.at = "check" /\ f.ret # "error" => h # "closed"
    /\ f.at \in {"reconnected", "done", "redone", "sought"} /\ r # "error" => h # "closed"

Hands(f, v, h) == v # "error" /\ f.fn # "reset_device" => h # "closed"

OpenInv ==
    /\ fd = "open" => known = TRUE
    /\ ~Idle => Handled(Top, ret, fd)

\* A seek that has failed has no open device.
SeekFailed(f, h) == f.op = "lseek" /\ f.at = "check" /\ f.ret = "error" => h # "open"

\* A seek is made on the caller's handle until the caller is told that its
\* device went away.
SeekInv ==
    call = "lseek" /\ ~Idle =>
      /\ device_was_disconnected = TRUE => handle # "open"
      /\ device_was_disconnected = FALSE => fd = handle /\ SeekFailed(Top, fd)

\* The same of a write, until it is reset; f is the outermost function.
Own(f, h, v) ==
    /\ f.at \in {"start", "done", "check", "connected"} => h = v
    /\ f.at \in {"start", "done"} => f.n = 0
    /\ v = "closed" => \/ f.at \in {"start", "done"}
                       \/ f.at = "check" /\ f.ret = "error" /\ f.n = 0

\* A write of the first round that is told of a disconnect fails.
Lost(f, r) ==
    /\ f.at \in {"done", "check", "connected"}
    /\ f.at = "done" => r = "error"
    /\ f.at = "check" => f.ret = "error"

WriteInv ==
    call = "write" /\ ~Idle =>
      /\ device_was_disconnected = FALSE =>
           /\ Len(stack) = 1 => /\ Own(Top, fd, handle)
                                /\ Top.at = "sought" /\ ret = "error" => fd # "open"
           /\ Len(stack) = 2 => Own(stack[2], fd, handle) /\ SeekFailed(Top, fd)
      /\ device_was_disconnected = TRUE /\ later_round = FALSE =>
           fd = handle /\ handle # "open" /\ Len(stack) = 1 /\ Lost(Top, ret)

HandleInv ==
    /\ OpenInv /\ SeekInv /\ WriteInv
    /\ Idle => fd = handle
    /\ call = "read" /\ ~Idle => handle # "closed"

LEMMA HandledOn ==
    ASSUME NEW g, NEW f, FrameOK(g), FrameOK(f), For(g, f), NEW v, NEW h, Hands(g, v, h)
    PROVE  Handled(f, v, h)
  BY DEF FrameOK, For, Hands, Handled

LEMMA OneOrTwo == \A n \in Nat \ {0} : n = 1 \/ n > 1
  OBVIOUS

LEMMA ReturnHandled ==
    ASSUME CallInv, ~Idle, NEW v, Return(v), Hands(Top, v, fd')
    PROVE  ~Idle' => Handled(Top, ret, fd)'
<1>1. /\ ret' = v /\ FrameOK(Top) /\ Len(stack) \in Nat \ {0}
      /\ Len(stack) = 1 => Idle'
      /\ Len(stack) > 1 => Top' = stack[2] /\ FrameOK(stack[2]) /\ For(Top, stack[2])
  BY PopStack, TopOK DEF Return, CallInv
<1>2. CASE Len(stack) = 1
  BY <1>1, <1>2
<1>3. CASE Len(stack) > 1
  <2>1. Handled(stack[2], v, fd')
    BY <1>1, <1>3, HandledOn
  <2> QED BY <1>1, <1>3, <2>1 DEF Handled
<1>4. Len(stack) = 1 \/ Len(stack) > 1
  BY <1>1, OneOrTwo, Zenon
<1> QED BY <1>2, <1>3, <1>4

LEMMA BecomeHandled ==
    ASSUME CallInv, ~Idle, NEW f, stack' = <<f>> \o Tail(stack), Handled(f, ret', fd')
    PROVE  Handled(Top, ret, fd)'
<1>1. Top' = f
  BY BecomeShape DEF CallInv
<1> QED BY <1>1 DEF Handled

LEMMA GoHandled ==
    ASSUME CallInv, ~Idle, NEW at \in {"again", "connected", "listen", "wait", "find"}, Goto(at)
    PROVE  Handled(Top, ret, fd)'
<1>1. [Top EXCEPT !.at = at].at = at
  BY TopGoneTo DEF Places
<1> QED BY <1>1, BecomeHandled DEF Goto, Become, Handled

LEMMA EnterHandled ==
    ASSUME CallInv, ~Idle, NEW f, NEW g, stack' = <<g, f>> \o Tail(stack),
           g.at \in {"first", "start"}
    PROVE  Handled(Top, ret, fd)'
<1>1. Top' = g
  BY EnterShape DEF CallInv
<1> QED BY <1>1 DEF Handled

LEMMA FirstAt ==
    /\ \A op, tells : Retry(op, tells).at = "first" /\ ResetLoop(op, tells).at = "start"
    /\ \A op : Reconnect(op).at = "start"
    /\ ResetDevice.at = "start"
  BY DEF Retry, ResetLoop, Reconnect, ResetDevice

LEMMA EntersHandled ==
    ASSUME CallInv, ~Idle, NEW g, g.at \in {"first", "start"}, NEW at, Enter(g, at)
    PROVE  Handled(Top, ret, fd)'
  BY EnterHandled DEF Enter

LEMMA ErrorHandled ==
    ASSUME CallInv, ~Idle, Return("error")
    PROVE  ~Idle' => Handled(Top, ret, fd)'
  BY ReturnHandled DEF Hands

LEMMA AwaitHandled ==
    ASSUME CallInv, ~Idle, AwaitDevice
    PROVE  ~Idle' => Handled(Top, ret, fd)'
  BY ErrorHandled, EntersHandled, FirstAt DEF AwaitDevice

LEMMA HandledStep ==
    ASSUME CallInv, OpenInv, Step PROVE ~Idle' => Handled(Top, ret, fd)'
<1>1. CASE Request
  <2>1. PICK r \in Outcomes(Top.op) :
          Become([Top EXCEPT !.at = "check", !.ret = r,
                             !.n = IF Top.at = "again" THEN Counted(Top) ELSE @])
    BY <1>1 DEF Request
  <2> DEFINE n == IF Top.at = "again" THEN Counted(Top) ELSE Top.n
             f == [Top EXCEPT !.at = "check", !.ret = r, !.n = n]
  <2>2. ~Idle /\ Top \in Frames /\ fd' = fd /\ Top.op \in Ops /\ Top.fn = "retry"
    BY <1>1, TopFacts DEF Request, At, FrameOK
  <2>3. f = [Top EXCEPT !.at = "check", !.ret = r,
                        !.n = IF Top.at = "again" THEN Counted(Top) ELSE @]
    BY <2>2 DEF Frames
  <2> HIDE DEF n
  <2>4. f.at = "check" /\ f.ret = r
    BY <2>2 DEF Frames
  <2>5. r # "error" => fd # "closed"
    BY <2>2 DEF Outcomes, Ops
  <2> HIDE DEF f
  <2>6. Handled(f, ret', fd')
    BY <2>2, <2>4, <2>5 DEF Handled
  <2> QED BY <2>1, <2>2, <2>3, <2>6, BecomeHandled DEF Become
<1>2. CASE RetryDone \/ ResetLoopDone
  <2>1. ~Idle /\ Top.at = "check" /\ Return(Top.ret) /\ fd' = fd
    BY <1>2 DEF RetryDone, ResetLoopDone, At
  <2>2. Hands(Top, Top.ret, fd')
    BY <2>1 DEF OpenInv, Handled, Hands
  <2> QED BY <2>1, <2>2, ReturnHandled
<1>3. CASE RetryDisconnected \/ ResetLoopDisconnected
  BY <1>3, AwaitHandled DEF RetryDisconnected, ResetLoopDisconnected, At
<1>4. CASE Reconnected
  <2>1. ~Idle /\ Top.at = "reconnected" /\ fd' = fd
    BY <1>4 DEF Reconnected, At
  <2>2. CASE Return("error")
    BY <2>1, <2>2, ErrorHandled
  <2>3. CASE Goto("check") /\ ret' = ret /\ ret # "error"
    <3> DEFINE f == [Top EXCEPT !.at = "check"]
    <3>1. f.at = "check" /\ f.ret = Top.ret
      BY <2>1, TopGoneTo DEF Places
    <3> HIDE DEF f
    <3>2. Handled(f, ret', fd')
      BY <2>1, <2>3, <3>1 DEF OpenInv, Handled
    <3> QED BY <2>1, <2>3, <3>2, BecomeHandled DEF Goto, Become, f
  <2> QED BY <1>4, <2>2, <2>3 DEF Reconnected
<1>5. CASE ResetLoopTried
  <2> DEFINE f == [Top EXCEPT !.at = "check", !.ret = ret]
  <2>1. ~Idle /\ Top \in Frames /\ Top.at \in {"done", "redone"} /\ ret' = ret /\ fd' = fd
    BY <1>5, TopFacts DEF ResetLoopTried, At
  <2>2. f.at = "check" /\ f.ret = ret
    BY <2>1 DEF Frames
  <2>3. stack' = <<f>> \o Tail(stack)
    BY <1>5 DEF ResetLoopTried, Become
  <2> HIDE DEF f
  <2>4. Handled(f, ret', fd')
    BY <2>1, <2>2 DEF OpenInv, Handled
  <2> QED BY <2>1, <2>3, <2>4, BecomeHandled
<1>6. CASE ResetFailed
  <2>1. ~Idle /\ Top \in Frames /\ Top.at = "reset" /\ Top.ret = "error"
    BY <1>6, TopFacts DEF ResetFailed, At, FrameOK
  <2>2. CASE Return("error")
    BY <2>1, <2>2, ErrorHandled
  <2>3. CASE Become([Top EXCEPT !.at = "check", !.n = MAX_RESET_RETRIES])
    <3> DEFINE f == [Top EXCEPT !.at = "check", !.n = MAX_RESET_RETRIES]
    <3>1. f.at = "check" /\ f.ret = "error"
      BY <2>1 DEF Frames
    <3>2. stack' = <<f>> \o Tail(stack)
      BY <2>3 DEF Become
    <3> HIDE DEF f
    <3>3. Handled(f, ret', fd')
      BY <3>1 DEF Handled
    <3> QED BY <2>1, <3>2, <3>3, BecomeHandled
  <2> QED BY <1>6, <2>2, <2>3 DEF ResetFailed
<1>7. CASE ResetSucceeded
  <2> DEFINE op == IF ToRedo(Top.op) = "sought" THEN "lseek" ELSE Top.op
  <2>1. ~Idle /\ Retry(op, Top.tells).at = "first"
    BY <1>7, FirstAt DEF ResetSucceeded, At
  <2> QED BY <1>7, <2>1, EnterHandled DEF ResetSucceeded
<1>8. CASE RetryAgain \/ ResetLoopConnected \/ StartWaiting \/ Listen \/ ResetIt
  BY <1>8, GoHandled DEF RetryAgain, ResetLoopConnected, StartWaiting, Listen, ResetIt, At
<1>9. CASE ResetLoopStart \/ ResetLoopResets
  BY <1>9, EntersHandled, FirstAt DEF ResetLoopStart, ResetLoopResets, At
<1>10. CASE \/ ResetLoopGivesUp \/ CannotListen \/ AcceptFails \/ CannotReset
            \/ ResetRefused
  BY <1>10, ErrorHandled DEF ResetLoopGivesUp, CannotListen, AcceptFails, CannotReset,
     ResetRefused, At
<1>11. CASE SoughtAfterReset
  BY <1>11, ErrorHandled, EntersHandled, FirstAt DEF SoughtAfterReset, At
<1>12. CASE Accept
  <2>1. ~Idle /\ fd' = "open" /\ Hands(Top, "ok", fd')
    BY <1>12 DEF Accept, OpenHandle, At, Hands
  <2>2. CASE Return("ok")
    BY <2>1, <2>2, ReturnHandled
  <2>3. CASE Enter(ResetLoop("lseek", FALSE), "sought")
    <3> DEFINE g == ResetLoop("lseek", FALSE)
    <3>1. g.at \in {"first", "start"}
      BY DEF ResetLoop
    <3> HIDE DEF g
    <3>2. Enter(g, "sought")
      BY <2>3 DEF g
    <3> QED BY <2>1, <3>1, <3>2, EntersHandled
  <2> QED BY <1>12, <2>2, <2>3 DEF Accept
<1>13. CASE SoughtAfterReconnect
  <2>1. ~Idle /\ Top.at = "sought" /\ Return(ret) /\ fd' = fd
    BY <1>13 DEF SoughtAfterReconnect, At
  <2>2. Hands(Top, ret, fd')
    BY <2>1 DEF OpenInv, Handled, Hands
  <2> QED BY <2>1, <2>2, ReturnHandled
<1>14. CASE Find \/ FindNothing
  <2>1. ~Idle /\ Hands(Top, "ok", fd')
    BY <1>14 DEF Find, FindNothing, At, Hands
  <2> QED BY <1>14, <2>1, ReturnHandled, ErrorHandled DEF Find, FindNothing
<1>15. CASE Reject
  BY <1>15 DEF Reject, OpenInv, Idle, Top, Handled
<1> QED BY <1>1, <1>2, <1>3, <1>4, <1>5, <1>6, <1>7, <1>8, <1>9, <1>10, <1>11, <1>12, <1>13,
           <1>14, <1>15 DEF Step

\* A step goes on within the layer, or is a return.
LEMMA Outcome ==
    ASSUME CallInv, Step
    PROVE  /\ ~Idle
           /\ call' = call /\ later_round' = later_round
           /\ device_was_disconnected = TRUE => device_was_disconnected' = TRUE
           /\ \/ ~Idle' /\ handle' = handle
              \/ Len(stack) = 1 /\ Idle' /\ handle' = fd'
<1>1. ~Idle /\ call' = call /\ later_round' = later_round
  BY DEF Step, At, caller, Request, RetryDone, RetryAgain, RetryDisconnected, Reconnected,
     ResetLoopStart, ResetLoopTried, ResetLoopDone, ResetLoopDisconnected, ResetLoopConnected,
     ResetLoopGivesUp, ResetLoopResets, ResetFailed, ResetSucceeded, SoughtAfterReset,
     StartWaiting, Listen, CannotListen, Accept, AcceptFails, Reject, SoughtAfterReconnect,
     CannotReset, ResetRefused, ResetIt, Find, FindNothing, AwaitDevice
<1>2. device_was_disconnected = TRUE => device_was_disconnected' = TRUE
  <2>1. Tell => (device_was_disconnected = TRUE => device_was_disconnected' = TRUE)
    BY DEF Tell
  <2>2. \/ Tell \/ device_was_disconnected' = device_was_disconnected
    BY DEF Step, Request, RetryDone, RetryAgain, RetryDisconnected, Reconnected,
     ResetLoopStart, ResetLoopTried, ResetLoopDone, ResetLoopDisconnected, ResetLoopConnected,
     ResetLoopGivesUp, ResetLoopResets, ResetFailed, ResetSucceeded, SoughtAfterReset,
     StartWaiting, Listen, CannotListen, Accept, AcceptFails, Reject, SoughtAfterReconnect,
     CannotReset, ResetRefused, ResetIt, Find, FindNothing, AwaitDevice
  <2> QED BY <2>1, <2>2
<1>3. ASSUME NEW v, Return(v)
      PROVE  (~Idle' /\ handle' = handle) \/ (Len(stack) = 1 /\ Idle' /\ handle' = fd')
  <2>1. Len(stack) \in Nat \ {0} /\ StackInv
    BY <1>1, TopOK DEF CallInv
  <2>2. Len(stack) = 1 \/ Len(stack) > 1
    BY <2>1, OneOrTwo, Zenon
  <2>3. CASE Len(stack) = 1
    BY <1>1, <1>3, <2>1, <2>3, PopStack DEF Return
  <2>4. CASE Len(stack) > 1
    BY <1>1, <1>3, <2>1, <2>4, PopStack DEF Return
  <2> QED BY <2>2, <2>3, <2>4
<1>4. ASSUME NEW f, Become(f) PROVE ~Idle'
  BY <1>1, <1>4, BecomeShape DEF Become, CallInv
<1>5. ASSUME NEW g, NEW at, Enter(g, at) PROVE ~Idle'
  BY <1>1, <1>5, EnterShape DEF Enter, CallInv
<1>6. (\E v : Return(v)) \/ (~Idle' /\ handle' = handle)
  <2>1. CASE \/ Request \/ RetryAgain \/ ResetLoopTried \/ ResetLoopConnected \/ StartWaiting
             \/ Listen \/ ResetIt
    BY <1>4, <2>1 DEF Request, RetryAgain, ResetLoopTried, ResetLoopConnected, StartWaiting,
       Listen, ResetIt, Goto
  <2>2. CASE ResetLoopStart \/ ResetLoopResets
    BY <1>5, <2>2 DEF ResetLoopStart, ResetLoopResets
  <2>3. CASE RetryDisconnected \/ ResetLoopDisconnected
    BY <1>5, <2>3 DEF RetryDisconnected, ResetLoopDisconnected, AwaitDevice
  <2>4. CASE Reconnected
    BY <1>4, <2>4 DEF Reconnected, Goto
  <2>5. CASE ResetFailed
    BY <1>4, <2>5 DEF ResetFailed
  <2>6. CASE ResetSucceeded
    BY <1>1, <2>6, EnterShape DEF ResetSucceeded, CallInv
  <2>7. CASE SoughtAfterReset
    BY <1>5, <2>7 DEF SoughtAfterReset
  <2>8. CASE Accept
    BY <1>5, <2>8 DEF Accept
  <2>9. CASE Reject
    BY <1>1, <2>9 DEF Reject, Idle
  <2>10. CASE \/ RetryDone \/ ResetLoopDone \/ ResetLoopGivesUp \/ CannotListen \/ AcceptFails
              \/ SoughtAfterReconnect \/ CannotReset \/ ResetRefused \/ Find \/ FindNothing
    BY <2>10 DEF RetryDone, ResetLoopDone, ResetLoopGivesUp, CannotListen, AcceptFails,
       SoughtAfterReconnect, CannotReset, ResetRefused, Find, FindNothing
  <2> QED BY <2>1, <2>2, <2>3, <2>4, <2>5, <2>6, <2>7, <2>8, <2>9, <2>10 DEF Step
<1> QED BY <1>1, <1>2, <1>3, <1>6

LEMMA KnownStep ==
    ASSUME CallInv, OpenInv, [Next]_vars PROVE fd' = "open" => known' = TRUE
<1>1. \/ OpenHandle
      \/ fd' \in {fd, "closed"} /\ known' = known
      \/ fd' # "open"
      \/ fd' = fd /\ ~attached
  BY DEF Next, Step, Calls, Call, device, vars, Request, RetryDone, RetryAgain,
     RetryDisconnected, Reconnected, Unplug, Plug,
     ResetLoopStart, ResetLoopTried, ResetLoopDone, ResetLoopDisconnected, ResetLoopConnected,
     ResetLoopGivesUp, ResetLoopResets, ResetFailed, ResetSucceeded, SoughtAfterReset,
     StartWaiting, Listen, CannotListen, Accept, AcceptFails, Reject, SoughtAfterReconnect,
     CannotReset, ResetRefused, ResetIt, Find, FindNothing, AwaitDevice
<1> QED BY <1>1 DEF OpenInv, CallInv, ValuesOK, OpenHandle

LEMMA CallHandles == ASSUME CallInv, HandleInv, Calls PROVE HandleInv'
<1>1. PICK op \in Ops : Call(op)
  BY DEF Calls, Ops
<1>2. /\ Idle /\ fd = handle /\ fd' = fd /\ handle' = handle
      /\ call' = op /\ device_was_disconnected' = FALSE
      /\ op = "read" => fd # "closed"
      /\ stack' = << IF op = "lseek" THEN Retry(op, TRUE) ELSE ResetLoop(op, op = "write") >>
  BY <1>1 DEF Call, HandleInv
<1>3. ~Idle' /\ Len(stack') = 1 /\ Top' = stack'[1]
  BY <1>2 DEF Idle, Top
<1>4. Top'.at \in {"first", "start"} /\ Top'.n = 0 /\ (op # "lseek" => Top'.at = "start")
  BY <1>2, <1>3 DEF Retry, ResetLoop
<1>5. OpenInv'
  <2>1. Handled(Top, ret, fd)'
    BY <1>4 DEF Handled
  <2> QED BY <2>1, KnownStep DEF HandleInv, OpenInv, Next
<1>6. SeekInv' /\ WriteInv'
  BY <1>2, <1>3, <1>4 DEF SeekInv, WriteInv, SeekFailed, Own
<1> QED BY <1>2, <1>3, <1>5, <1>6 DEF HandleInv

LEMMA DeviceHandles == ASSUME CallInv, HandleInv, Unplug \/ Plug PROVE HandleInv'
<1>1. UNCHANGED <<stack, ret, call, later_round, device_was_disconnected>>
  BY DEF Unplug, Plug, caller
<1>2. Idle' = Idle /\ Top' = Top
  BY <1>1 DEF Idle, Top
<1>3. /\ fd' = "closed" => fd = "closed"
      /\ fd = "closed" => fd' = "closed"
      /\ fd # "open" => fd' # "open"
      /\ handle' = "closed" => handle = "closed"
      /\ handle # "open" => handle' # "open"
      /\ fd = handle => fd' = handle'
  BY DEF Unplug, Plug
<1>4. OpenInv'
  <2>1. ~Idle => Handled(Top, ret, fd)'
    BY <1>1, <1>2, <1>3 DEF HandleInv, OpenInv, Handled
  <2> QED BY <1>2, <2>1, KnownStep DEF HandleInv, OpenInv, Next
<1>5. SeekInv'
  BY <1>1, <1>2, <1>3 DEF HandleInv, SeekInv, SeekFailed
<1>6. WriteInv'
  BY <1>1, <1>2, <1>3 DEF HandleInv, WriteInv, SeekFailed, Own, Lost
<1> QED BY <1>1, <1>2, <1>3, <1>4, <1>5, <1>6 DEF HandleInv

\* What the request that is retried finds.
LEMMA RequestFrame ==
    ASSUME CallInv, Request
    PROVE  \E f : /\ stack' = <<f>> \o Tail(stack)
                  /\ f.fn = "retry" /\ f.op = Top.op /\ f.at = "check"
                  /\ f.op = "lseek" /\ f.ret = "error" => fd # "open"
<1>1. PICK r \in Outcomes(Top.op) :
        Become([Top EXCEPT !.at = "check", !.ret = r,
                           !.n = IF Top.at = "again" THEN Counted(Top) ELSE @])
  BY DEF Request
<1> DEFINE n == IF Top.at = "again" THEN Counted(Top) ELSE Top.n
           f == [Top EXCEPT !.at = "check", !.ret = r, !.n = n]
<1>2. Top \in Frames /\ Top.op \in Ops /\ Top.fn = "retry"
  BY TopFacts DEF Request, At, FrameOK
<1>3. f = [Top EXCEPT !.at = "check", !.ret = r,
                      !.n = IF Top.at = "again" THEN Counted(Top) ELSE @]
  BY <1>2 DEF Frames
<1> HIDE DEF n
<1>4. f.at = "check" /\ f.ret = r /\ f.fn = Top.fn /\ f.op = Top.op
  BY <1>2 DEF Frames
<1>5. Top.op = "lseek" /\ r = "error" => fd # "open"
  BY DEF Outcomes
<1>6. stack' = <<f>> \o Tail(stack)
  BY <1>1, <1>3 DEF Become
<1> HIDE DEF f
<1> QED BY <1>2, <1>4, <1>5, <1>6

LEMMA LostDevice == ASSUME HandleInv, CallInv, Disconnected PROVE fd # "open"
  BY DEF HandleInv, OpenInv, CallInv, ValuesOK, Disconnected

LEMMA SeekStep ==
    ASSUME CallInv, ToldInv, HandleInv, Step PROVE SeekInv'
<1> SUFFICES ASSUME call = "lseek", ~Idle' PROVE SeekInv'
  BY Outcome DEF SeekInv
<1>1. ~Idle /\ call' = call /\ handle' = handle
  BY Outcome
<1>2. CASE device_was_disconnected = TRUE
  BY <1>1, <1>2, Outcome DEF HandleInv, SeekInv
<1>3. CASE device_was_disconnected = FALSE
  <2>1. /\ Len(stack) = 1 /\ Quiet(Top) /\ fd = handle /\ StackInv
        /\ FrameOK(Top) /\ Top.op = "lseek"
    BY <1>1, <1>3, TopOK, TopFacts DEF ToldInv, HandleInv, SeekInv, BaseOK, Quiet
  <2>2. Request \/ RetryDone \/ RetryAgain \/ RetryDisconnected \/ Reject
    BY <2>1 DEF Quiet, Step, At, Reconnected,
     ResetLoopStart, ResetLoopTried, ResetLoopDone, ResetLoopDisconnected, ResetLoopConnected,
     ResetLoopGivesUp, ResetLoopResets, ResetFailed, ResetSucceeded, SoughtAfterReset,
     StartWaiting, Listen, CannotListen, Accept, AcceptFails, SoughtAfterReconnect,
     CannotReset, ResetRefused, ResetIt, Find, FindNothing
  <2>3. CASE Request
    <3>1. PICK f : /\ stack' = <<f>> \o Tail(stack)
                   /\ f.op = "lseek" /\ f.ret = "error" => fd # "open"
      BY <2>3, RequestFrame
    <3>2. Top' = f /\ fd' = fd /\ device_was_disconnected' = FALSE
      BY <1>1, <1>3, <2>1, <2>3, <3>1, BecomeShape DEF Request
    <3> QED BY <1>1, <2>1, <3>1, <3>2 DEF SeekInv, SeekFailed
  <2>4. CASE RetryDone
    <3>1. Idle'
      BY <1>1, <2>1, <2>4, PopStack DEF RetryDone, Return
    <3> QED BY <3>1
  <2>5. CASE RetryAgain
    <3> DEFINE f == [Top EXCEPT !.at = "again"]
    <3>1. f.at = "again" /\ stack' = <<f>> \o Tail(stack)
      BY <1>1, <2>5, TopGoneTo DEF RetryAgain, Goto, Become, Places
    <3> HIDE DEF f
    <3>2. Top' = f /\ fd' = fd /\ device_was_disconnected' = FALSE
      BY <1>1, <1>3, <2>1, <2>5, <3>1, BecomeShape DEF RetryAgain
    <3> QED BY <1>1, <2>1, <3>1, <3>2 DEF SeekInv, SeekFailed
  <2>6. CASE RetryDisconnected
    <3>1. device_was_disconnected' = TRUE /\ fd # "open"
      BY <2>1, <2>6, LostDevice DEF RetryDisconnected, AwaitDevice, Tell, Quiet
    <3> QED BY <1>1, <2>1, <3>1 DEF SeekInv
  <2>7. CASE Reject
    BY <1>1, <2>7 DEF Reject, HandleInv, SeekInv, Idle, Top, SeekFailed
  <2> QED BY <2>2, <2>3, <2>4, <2>5, <2>6, <2>7
<1>4. device_was_disconnected \in BOOLEAN
  BY DEF CallInv, ValuesOK
<1> QED BY <1>2, <1>3, <1>4

\* A write that is going on, and goes on.
Writing ==
    /\ CallInv /\ ToldInv /\ FirstInv /\ HandleInv /\ call = "write"
    /\ ~Idle /\ ~Idle' /\ call' = call /\ handle' = handle /\ later_round' = later_round
    /\ device_was_disconnected \in BOOLEAN /\ later_round \in BOOLEAN
    /\ device_was_disconnected = TRUE => device_was_disconnected' = TRUE

LEMMA OutOfOne ==
    ASSUME Writing, Len(stack) = 1, NEW v PROVE ~Return(v)
  BY PopStack DEF Writing, CallInv, Return

LEMMA TriedFrame ==
    ASSUME CallInv, ResetLoopTried
    PROVE  \E f : /\ stack' = <<f>> \o Tail(stack)
                  /\ f.at = "check" /\ f.ret = ret /\ f.n = Top.n
<1> DEFINE f == [Top EXCEPT !.at = "check", !.ret = ret]
<1>1. f.at = "check" /\ f.ret = ret /\ f.n = Top.n
  BY TopFacts DEF ResetLoopTried, At, Frames
<1>2. stack' = <<f>> \o Tail(stack)
  BY DEF ResetLoopTried, Become
<1> QED BY <1>1, <1>2

LEMMA ConnectedFrame ==
    ASSUME CallInv, ResetLoopConnected
    PROVE  \E f : stack' = <<f>> \o Tail(stack) /\ f.at = "connected"
<1> DEFINE f == [Top EXCEPT !.at = "connected"]
<1>1. f.at = "connected"
  BY TopGoneTo DEF ResetLoopConnected, At, Places
<1> QED BY <1>1 DEF ResetLoopConnected, Goto, Become

LEMMA WriteLost ==
    ASSUME Writing, Step, device_was_disconnected = TRUE PROVE WriteInv'
<1> SUFFICES ASSUME later_round = FALSE
             PROVE  fd' = handle' /\ handle' # "open" /\ Len(stack') = 1 /\ Lost(Top', ret')
  BY DEF Writing, WriteInv, Lost
<1>1. /\ StackInv /\ Len(stack) = 1 /\ Early(Top) /\ Lost(Top, ret) /\ fd = handle
      /\ handle # "open"
  BY DEF Writing, CallInv, HandleInv, WriteInv, FirstInv
<1>2. \/ ResetLoopTried \/ ResetLoopConnected
      \/ ResetLoopDone \/ ResetLoopGivesUp \/ ResetLoopDisconnected
  BY <1>1 DEF Early, Lost, Step, At, Request, RetryDone, RetryAgain, RetryDisconnected, Reconnected,
     ResetLoopStart, ResetLoopResets, NoRecovery, ResetFailed, ResetSucceeded, SoughtAfterReset,
     StartWaiting, Listen, CannotListen, Accept, AcceptFails, Reject, SoughtAfterReconnect,
     CannotReset, ResetRefused, ResetIt, Find, FindNothing
<1>3. CASE ResetLoopTried
  <2>1. PICK f : /\ stack' = <<f>> \o Tail(stack)
                 /\ f.at = "check" /\ f.ret = ret
    BY <1>3, TriedFrame DEF Writing
  <2>2. Top' = f /\ Len(stack') = 1 /\ fd' = fd /\ Top.at = "done"
    BY <1>1, <1>3, <2>1, BecomeShape DEF Writing, ResetLoopTried, At, Early
  <2> QED BY <1>1, <2>1, <2>2 DEF Lost, Writing
<1>4. CASE ResetLoopConnected
  <2>1. PICK f : stack' = <<f>> \o Tail(stack) /\ f.at = "connected"
    BY <1>4, ConnectedFrame DEF Writing
  <2>2. Top' = f /\ Len(stack') = 1 /\ fd' = fd
    BY <1>1, <1>4, <2>1, BecomeShape DEF Writing, ResetLoopConnected
  <2> QED BY <1>1, <2>1, <2>2 DEF Lost, Writing
<1>5. CASE ResetLoopDone \/ ResetLoopGivesUp \/ ResetLoopDisconnected
  <2>1. Top.op = "write"
    BY <1>1 DEF Early
  <2>2. \E v : Return(v)
    BY <1>5, <2>1
       DEF ResetLoopDone, ResetLoopGivesUp, ResetLoopDisconnected, AwaitDevice, NoRecovery
  <2> QED BY <1>1, <2>2, OutOfOne
<1> QED BY <1>2, <1>3, <1>4, <1>5

\* While only the retries inside a write go on.
LEMMA WriteRetries ==
    ASSUME Writing, Step, device_was_disconnected = FALSE, Top.fn = "retry"
    PROVE  WriteInv'
<1>1. /\ StackInv /\ Len(stack) = 2 /\ Outer(stack[2], renewed) /\ Quiet(Top)
      /\ Own(stack[2], fd, handle) /\ SeekFailed(Top, fd)
      /\ later_round = FALSE => Early(stack[2]) /\ Top.op = "write"
      /\ For(Top, stack[2]) /\ FrameOK(Top)
  <2>1. StackInv /\ FrameOK(Top) /\ (Len(stack) = 2 => For(Top, stack[2]))
    BY TopOK, TopFacts DEF Writing
  <2>2. Len(stack) = 2 /\ Outer(stack[2], renewed) /\ Quiet(Top)
    BY DEF Writing, ToldInv, Outer
  <2>3. Own(stack[2], fd, handle) /\ SeekFailed(Top, fd)
    BY <2>2 DEF Writing, HandleInv, WriteInv
  <2>4. later_round = FALSE => Early(stack[2]) /\ Top.op = "write"
    BY <2>2 DEF Writing, FirstInv, Early
  <2> QED BY <2>1, <2>2, <2>3, <2>4
<1>2. Request \/ RetryDone \/ RetryAgain \/ RetryDisconnected
  BY <1>1 DEF Quiet, Step, At, Reconnected, ResetLoopStart, ResetLoopTried, ResetLoopDone,
     ResetLoopDisconnected, ResetLoopConnected, ResetLoopGivesUp, ResetLoopResets, ResetFailed,
     ResetSucceeded, SoughtAfterReset, StartWaiting, Listen, CannotListen, Accept, AcceptFails,
     Reject, SoughtAfterReconnect, CannotReset, ResetRefused, ResetIt, Find, FindNothing
<1>3. CASE Request
  <2>1. PICK f : /\ stack' = <<f>> \o Tail(stack)
                 /\ f.op = "lseek" /\ f.ret = "error" => fd # "open"
    BY <1>3, RequestFrame DEF Writing
  <2>2. /\ Top' = f /\ Len(stack') = 2 /\ stack'[2] = stack[2] /\ fd' = fd
        /\ device_was_disconnected' = FALSE
    BY <1>1, <1>3, <2>1, BecomeShape DEF Writing, Request
  <2> QED BY <1>1, <2>1, <2>2 DEF Writing, WriteInv, SeekFailed, Own
<1>4. CASE RetryDone
  <2>1. /\ stack' = Tail(stack) /\ ret' = Top.ret /\ fd' = fd /\ Top.at = "check"
        /\ device_was_disconnected' = FALSE
    BY <1>4 DEF RetryDone, Return, At
  <2>2. Top' = stack[2] /\ Len(stack') = 1
    BY <1>1, <2>1, PopShape DEF Writing
  <2>3. stack[2].at = "sought" /\ ret' = "error" => fd' # "open"
    BY <1>1, <2>1 DEF For, SeekFailed, Outer
  <2>4. Own(Top, fd, handle)'
    BY <1>1, <2>1, <2>2 DEF Writing, Own
  <2>5. Top'.at = "sought" /\ ret' = "error" => fd' # "open"
    BY <2>2, <2>3
  <2> QED BY <2>1, <2>2, <2>4, <2>5 DEF WriteInv
<1>5. CASE RetryAgain
  <2> DEFINE f == [Top EXCEPT !.at = "again"]
  <2>1. f.at = "again" /\ stack' = <<f>> \o Tail(stack)
    BY <1>5, TopGoneTo DEF Writing, RetryAgain, Goto, Become, Places
  <2> HIDE DEF f
  <2>2. /\ Top' = f /\ Len(stack') = 2 /\ stack'[2] = stack[2] /\ fd' = fd
        /\ device_was_disconnected' = FALSE
    BY <1>1, <1>5, <2>1, BecomeShape DEF Writing, RetryAgain
  <2> QED BY <1>1, <2>1, <2>2 DEF Writing, WriteInv, SeekFailed, Own
<1>6. CASE RetryDisconnected
  <2>1. device_was_disconnected' = TRUE /\ fd # "open"
    BY <1>1, <1>6, LostDevice
    DEF Writing, RetryDisconnected, AwaitDevice, Tell, Quiet
  <2> SUFFICES ASSUME later_round = FALSE
               PROVE  fd' = handle' /\ handle' # "open" /\ Len(stack') = 1 /\ Lost(Top', ret')
    BY <2>1 DEF Writing, WriteInv, Lost
  <2>2. Top.op = "write" /\ Early(stack[2])
    BY <1>1
  <2>3. stack' = Tail(stack) /\ ret' = "error" /\ fd' = fd
    BY <1>6, <2>2 DEF RetryDisconnected, AwaitDevice, NoRecovery, Return
  <2>4. Top' = stack[2] /\ Len(stack') = 1
    BY <1>1, <2>3, PopShape DEF Writing
  <2>5. stack[2].at = "done"
    BY <1>1, <2>2 DEF For, Early, Quiet
  <2> QED BY <1>1, <2>1, <2>3, <2>4, <2>5 DEF Writing, Own, Lost
<1> QED BY <1>2, <1>3, <1>4, <1>5, <1>6

\* While a device is reset for a write.
LEMMA WriteResets ==
    ASSUME Writing, Step, device_was_disconnected = FALSE, Top.fn = "reset_device"
    PROVE  WriteInv'
<1>1. /\ StackInv /\ FrameOK(Top) /\ Len(stack) = 2 /\ stack[2].at = "reset"
      /\ Own(stack[2], fd, handle) /\ later_round # FALSE
  <2>1. StackInv /\ FrameOK(Top) /\ (Len(stack) = 2 => For(Top, stack[2]))
    BY TopOK, TopFacts DEF Writing
  <2>2. Len(stack) = 2
    BY DEF Writing, ToldInv, Outer
  <2>3. Own(stack[2], fd, handle)
    BY <2>2 DEF Writing, HandleInv, WriteInv
  <2>4. later_round # FALSE
    BY <2>2 DEF Writing, FirstInv, Early
  <2>5. stack[2].at = "reset"
    BY <2>1, <2>2, TopFacts DEF For, Writing, ToldInv, Outer
  <2> QED BY <2>1, <2>2, <2>3, <2>4, <2>5
<1>2. /\ CannotReset \/ ResetRefused \/ ResetIt \/ Find \/ FindNothing
      /\ device_was_disconnected' = device_was_disconnected
  BY DEF Step, At, Request, RetryDone, RetryAgain, RetryDisconnected,
     Reconnected, ResetLoopStart, ResetLoopTried, ResetLoopDone,
     ResetLoopDisconnected, ResetLoopConnected, ResetLoopGivesUp, ResetLoopResets, ResetFailed,
     ResetSucceeded, SoughtAfterReset, StartWaiting, Listen, CannotListen, Accept, AcceptFails,
     Reject, SoughtAfterReconnect, CannotReset, ResetRefused, ResetIt, Find, FindNothing
<1>3. CASE stack' = Tail(stack)
  <2>1. Top' = stack[2] /\ Len(stack') = 1
    BY <1>1, <1>3, PopShape DEF Writing
  <2>2. Own(Top, fd, handle)'
    BY <1>1, <2>1 DEF Writing, Own
  <2> QED BY <1>1, <1>2, <2>1, <2>2 DEF Writing, WriteInv
<1>4. CASE ResetIt
  <2> DEFINE f == [Top EXCEPT !.at = "find"]
  <2>1. f.at = "find" /\ stack' = <<f>> \o Tail(stack)
    BY <1>4, TopGoneTo DEF Writing, ResetIt, At, Goto, Become, Places
  <2> HIDE DEF f
  <2>2. Top' = f /\ Len(stack') = 2 /\ stack'[2] = stack[2]
    BY <1>1, <2>1, BecomeShape DEF Writing
  <2>3. Own(stack[2], fd, handle)' /\ SeekFailed(Top, fd)'
    BY <1>1, <2>1, <2>2 DEF Writing, Own, SeekFailed
  <2> QED BY <1>1, <1>2, <2>2, <2>3 DEF Writing, WriteInv
<1> QED BY <1>2, <1>3, <1>4 DEF CannotReset, ResetRefused, Find, FindNothing, Return

\* A write calls g, and goes on at f.
LEMMA WriteEnters ==
    ASSUME Writing, Len(stack) = 1, device_was_disconnected = FALSE, NEW f, NEW g,
           stack' = <<g, f>> \o Tail(stack), fd' = fd,
           device_was_disconnected' = device_was_disconnected,
           Own(f, fd, handle), g.at # "check"
    PROVE  WriteInv'
<1>1. Top' = g /\ stack'[2] = f /\ Len(stack') = 2
  BY EnterShape DEF Writing, CallInv
<1>2. Own(stack[2], fd, handle)' /\ SeekFailed(Top, fd)'
  BY <1>1 DEF Writing, Own, SeekFailed
<1> QED BY <1>1, <1>2 DEF Writing, WriteInv

LEMMA WriteBase ==
    ASSUME Writing, Step, device_was_disconnected = FALSE, Len(stack) = 1
    PROVE  WriteInv'
<1>1. /\ StackInv /\ FrameOK(Top) /\ Top \in Frames /\ Outer(Top, renewed)
      /\ Own(Top, fd, handle)
      /\ later_round = FALSE => Early(Top)
      /\ Top.at \in {"done", "redone"} /\ ret # "error" => fd # "closed"
  <2>1. StackInv /\ FrameOK(Top) /\ Top \in Frames
    BY TopFacts DEF Writing
  <2>2. Outer(Top, renewed)
    BY DEF Writing, ToldInv
  <2>3. Own(Top, fd, handle)
    BY DEF Writing, HandleInv, WriteInv
  <2>4. later_round = FALSE => Early(Top)
    BY DEF Writing, FirstInv
  <2>5. Top.at \in {"done", "redone"} /\ ret # "error" => fd # "closed"
    BY DEF Writing, HandleInv, OpenInv, Handled
  <2> QED BY <2>1, <2>2, <2>3, <2>4, <2>5
<1>2. \/ ResetLoopStart \/ ResetLoopTried \/ ResetLoopConnected \/ ResetLoopResets
      \/ ResetFailed \/ ResetSucceeded \/ SoughtAfterReset \/ ResetLoopDisconnected
  <2>1. ~(ResetLoopDone \/ ResetLoopGivesUp)
    BY OutOfOne DEF ResetLoopDone, ResetLoopGivesUp
  <2> QED
    BY <1>1, <2>1 DEF Outer, Step, At, Request, RetryDone, RetryAgain, RetryDisconnected,
       Reconnected, StartWaiting, Listen, CannotListen, Accept, AcceptFails, Reject,
       SoughtAfterReconnect, CannotReset, ResetRefused, ResetIt, Find, FindNothing
<1>3. CASE ResetLoopStart
  <2> DEFINE f == [Top EXCEPT !.at = "done"]
             g == Retry(Top.op, Top.tells)
  <2>1. f.at = "done" /\ f.n = Top.n /\ Top.at = "start"
    BY <1>3, TopGoneTo DEF Writing, ResetLoopStart, At, Places
  <2>2. g.at = "first" /\ stack' = <<g, f>> \o Tail(stack)
    BY <1>3, FirstAt DEF ResetLoopStart, Enter
  <2>3. fd' = fd /\ device_was_disconnected' = device_was_disconnected
    BY <1>3 DEF ResetLoopStart
  <2> HIDE DEF f, g
  <2>4. Own(f, fd, handle)
    BY <1>1, <2>1 DEF Own
  <2> QED BY <2>2, <2>3, <2>4, WriteEnters
<1>4. CASE ResetLoopTried
  <2>1. PICK f : /\ stack' = <<f>> \o Tail(stack)
                 /\ f.at = "check" /\ f.ret = ret /\ f.n = Top.n
    BY <1>4, TriedFrame DEF Writing
  <2>2. /\ Top' = f /\ Len(stack') = 1 /\ fd' = fd
        /\ Top.at \in {"done", "redone"}
    BY <1>1, <1>4, <2>1, BecomeShape DEF Writing, ResetLoopTried, At
  <2>3. CASE Top.at = "done"
    <3>1. device_was_disconnected' = FALSE
      BY <1>4, <2>3 DEF ResetLoopTried
    <3>2. fd = handle /\ Top.n = 0 /\ (fd = "closed" => ret = "error")
      BY <1>1, <2>3 DEF Own
    <3>3. Own(f, fd, handle)
      BY <2>1, <3>2 DEF Own
    <3>4. Own(Top, fd, handle)'
      BY <2>2, <3>3 DEF Own, Writing
    <3> QED BY <2>1, <2>2, <3>1, <3>4 DEF WriteInv
  <2>4. CASE Top.at = "redone"
    <3>1. device_was_disconnected' = TRUE /\ later_round # FALSE
      BY <1>1, <1>4, <2>4 DEF ResetLoopTried, Tell, Outer, Early
    <3> QED BY <3>1 DEF Writing, WriteInv
  <2> QED BY <2>2, <2>3, <2>4
<1>5. CASE ResetLoopConnected
  <2>1. PICK f : stack' = <<f>> \o Tail(stack) /\ f.at = "connected"
    BY <1>5, ConnectedFrame DEF Writing
  <2>2. /\ Top' = f /\ Len(stack') = 1 /\ fd' = fd /\ Top.at = "check" /\ fd # "closed"
        /\ device_was_disconnected' = FALSE
    BY <1>1, <1>5, <2>1, BecomeShape DEF Writing, ResetLoopConnected, At
  <2>3. Own(Top, fd, handle)'
    BY <1>1, <2>1, <2>2 DEF Own, Writing
  <2> QED BY <2>1, <2>2, <2>3 DEF WriteInv
<1>6. CASE ResetLoopResets
  <2> DEFINE f == [Top EXCEPT !.at = "reset"]
             g == ResetDevice
  <2>1. f.at = "reset" /\ Top.at = "connected"
    BY <1>6, TopGoneTo DEF Writing, ResetLoopResets, At, Places
  <2>2. g.at = "start" /\ stack' = <<g, f>> \o Tail(stack)
    BY <1>6, FirstAt DEF ResetLoopResets, Enter
  <2>3. fd' = fd /\ device_was_disconnected' = device_was_disconnected
    BY <1>6 DEF ResetLoopResets
  <2> HIDE DEF f, g
  <2>4. Own(f, fd, handle)
    BY <1>1, <2>1 DEF Own
  <2> QED BY <2>2, <2>3, <2>4, WriteEnters
<1>7. CASE ResetFailed
  <2>1. Top.at = "reset" /\ later_round # FALSE
    BY <1>1, <1>7 DEF ResetFailed, At, Early
  <2>2. Tell
    BY <1>7, OutOfOne DEF ResetFailed
  <2> QED BY <1>1, <2>1, <2>2 DEF Writing, WriteInv, Tell, Outer
<1>8. CASE ResetSucceeded
  <2> DEFINE at == ToRedo(Top.op)
             n  == Top.n + 1
             op == IF at = "sought" THEN "lseek" ELSE Top.op
             f  == [Top EXCEPT !.at = at, !.n = n]
             g  == Retry(op, Top.tells)
  <2>1. at \in {"redone", "sought"} /\ Top.at = "reset"
    BY <1>8 DEF ToRedo, ResetSucceeded, At
  <2>2. stack' = <<g, f>> \o Tail(stack) /\ g.at = "first"
    BY <1>1, <1>8, FirstAt DEF ResetSucceeded, Frames
  <2>3. fd' = fd /\ device_was_disconnected' = device_was_disconnected
    BY <1>8 DEF ResetSucceeded
  <2> HIDE DEF at, n, g
  <2>4. f.at = at
    BY <1>1 DEF Frames
  <2> HIDE DEF f
  <2>5. Own(f, fd, handle)
    BY <1>1, <2>1, <2>4 DEF Own
  <2> QED BY <2>2, <2>3, <2>5, WriteEnters
<1>9. CASE SoughtAfterReset
  <2> DEFINE f == [Top EXCEPT !.at = "redone"]
             g == Retry(Top.op, Top.tells)
  <2>1. f.at = "redone" /\ Top.at = "sought"
    BY <1>9, TopGoneTo DEF Writing, SoughtAfterReset, At, Places
  <2>2. g.at = "first" /\ stack' = <<g, f>> \o Tail(stack)
    BY <1>9, FirstAt, OutOfOne DEF SoughtAfterReset, Enter
  <2>3. fd' = fd /\ device_was_disconnected' = device_was_disconnected
    BY <1>9 DEF SoughtAfterReset
  <2> HIDE DEF f, g
  <2>4. Own(f, fd, handle)
    BY <1>1, <2>1 DEF Own
  <2> QED BY <2>2, <2>3, <2>4, WriteEnters
<1>10. CASE ResetLoopDisconnected
  <2>1. Tell /\ Top.at = "check"
    BY <1>10 DEF ResetLoopDisconnected, AwaitDevice, At
  <2>2. later_round # FALSE
    <3>1. ASSUME later_round = FALSE PROVE Return("error")
      BY <1>1, <1>10, <3>1 DEF Early, ResetLoopDisconnected, AwaitDevice, NoRecovery
    <3> QED BY <3>1, OutOfOne
  <2> QED BY <1>1, <2>1, <2>2 DEF Writing, WriteInv, Tell, Outer
<1> QED BY <1>2, <1>3, <1>4, <1>5, <1>6, <1>7, <1>8, <1>9, <1>10

LEMMA WriteStep ==
    ASSUME CallInv, ToldInv, FirstInv, HandleInv, Step PROVE WriteInv'
<1> SUFFICES ASSUME call = "write", ~Idle' PROVE WriteInv'
  BY Outcome DEF WriteInv
<1>1. Writing
  BY Outcome DEF Writing, CallInv, ValuesOK
<1>2. CASE device_was_disconnected = TRUE
  BY <1>1, <1>2, WriteLost
<1>3. CASE device_was_disconnected = FALSE
  <2>1. Len(stack) = 1 \/ Top.fn \in {"retry", "reset_device"}
    BY <1>1, <1>3 DEF Writing, ToldInv, Quiet
  <2> QED BY <1>1, <1>3, <2>1, WriteBase, WriteRetries, WriteResets
<1> QED BY <1>1, <1>2, <1>3 DEF Writing

LEMMA HandleStep ==
    ASSUME CallInv, ToldInv, FirstInv, HandleInv, [Next]_vars PROVE HandleInv'
<1>1. CASE Step
  <2>1. OpenInv'
    BY <1>1, HandledStep, KnownStep DEF OpenInv, HandleInv, Next
  <2>2. SeekInv' /\ WriteInv'
    BY <1>1, SeekStep, WriteStep
  <2>3. (Idle' => fd' = handle') /\ (call' = "read" /\ ~Idle' => handle' # "closed")
    BY <1>1, Outcome DEF HandleInv
  <2> QED BY <2>1, <2>2, <2>3 DEF HandleInv
<1>2. CASE UNCHANGED vars
  BY <1>2 DEF vars, device, caller, HandleInv, OpenInv, SeekInv, WriteInv, Handled, SeekFailed,
     Own, Lost, Idle, Top
<1> QED BY <1>1, <1>2, CallHandles, DeviceHandles DEF Next

LEMMA HandleSafe == Spec => []HandleInv
<1>1. Init => HandleInv
  BY DEF Init, HandleInv, OpenInv, SeekInv, WriteInv, Idle
<1> QED BY <1>1, HandleStep, CallSafe, TellsSafe, PTL DEF Spec

----------------------------------------------------------------------------
(* The layer implements RetryAnswers.                                      *)

\* The outermost function does what the caller has called it for.
BaseInv == ~Idle => stack[Len(stack)].op = call

LEMMA GoOp ==
    ASSUME CallInv, ~Idle, NEW at \in Places
    PROVE  /\ Goto(at) => \E f : f.op = Top.op /\ stack' = <<f>> \o Tail(stack)
           /\ \A g : Enter(g, at) =>
                       \E f : f.op = Top.op /\ stack' = <<g, f>> \o Tail(stack)
<1> DEFINE f == [Top EXCEPT !.at = at]
<1>1. f.op = Top.op
  BY TopGoneTo
<1>2. Goto(at) => stack' = <<f>> \o Tail(stack)
  BY DEF Goto, Become
<1>3. \A g : Enter(g, at) => stack' = <<g, f>> \o Tail(stack)
  BY DEF Enter
<1> HIDE DEF f
<1> QED BY <1>1, <1>2, <1>3

\* No step changes what a function does.
LEMMA SameOp ==
    ASSUME CallInv, Step
    PROVE  \/ stack' \in {stack, Tail(stack)}
           \/ \E f : f.op = Top.op /\ stack' = <<f>> \o Tail(stack)
           \/ \E f, g : f.op = Top.op /\ stack' = <<g, f>> \o Tail(stack)
<1>1. ~Idle /\ Top \in Frames
  BY TopFacts, Outcome
<1>2. CASE Request
  BY <1>2, RequestFrame
<1>3. CASE ResetLoopTried
  <2> DEFINE f == [Top EXCEPT !.at = "check", !.ret = ret]
  <2>1. f.op = Top.op
    BY <1>1 DEF Frames
  <2>2. stack' = <<f>> \o Tail(stack)
    BY <1>3 DEF ResetLoopTried, Become
  <2> HIDE DEF f
  <2> QED BY <2>1, <2>2
<1>4. CASE ResetFailed
  <2> DEFINE f == [Top EXCEPT !.at = "check", !.n = MAX_RESET_RETRIES]
  <2>1. f.op = Top.op
    BY <1>1 DEF Frames
  <2>2. stack' = <<f>> \o Tail(stack) \/ stack' = Tail(stack)
    BY <1>4 DEF ResetFailed, Become, Return
  <2> HIDE DEF f
  <2> QED BY <2>1, <2>2
<1>5. CASE ResetSucceeded
  <2> DEFINE n  == Top.n + 1
             at == ToRedo(Top.op)
             f  == [Top EXCEPT !.at = at, !.n = n]
             g  == Retry(IF ToRedo(Top.op) = "sought" THEN "lseek" ELSE Top.op, Top.tells)
  <2>1. stack' = <<g, f>> \o Tail(stack)
    BY <1>1, <1>5 DEF ResetSucceeded, Frames
  <2> HIDE DEF n, at
  <2>2. f.op = Top.op
    BY <1>1 DEF Frames
  <2> HIDE DEF f, g
  <2> QED BY <2>1, <2>2
<1>6. CASE \/ RetryAgain \/ RetryDisconnected \/ Reconnected \/ ResetLoopStart
           \/ ResetLoopDisconnected \/ ResetLoopConnected \/ ResetLoopResets
           \/ SoughtAfterReset \/ StartWaiting \/ Listen \/ Accept \/ ResetIt
  <2>1. \/ stack' = Tail(stack)
        \/ \E at \in Places : Goto(at) \/ \E g : Enter(g, at)
    BY <1>6 DEF Places, RetryAgain, RetryDisconnected, Reconnected, ResetLoopStart,
       ResetLoopDisconnected, ResetLoopConnected, ResetLoopResets, SoughtAfterReset,
       StartWaiting, Listen, Accept, ResetIt, AwaitDevice, Return
  <2> QED BY <1>1, <2>1, GoOp
<1>7. CASE \/ RetryDone \/ ResetLoopDone \/ ResetLoopGivesUp \/ CannotListen \/ AcceptFails
           \/ Reject \/ SoughtAfterReconnect \/ CannotReset \/ ResetRefused \/ Find
           \/ FindNothing
  BY <1>7 DEF RetryDone, ResetLoopDone, ResetLoopGivesUp, CannotListen, AcceptFails, Reject,
     SoughtAfterReconnect, CannotReset, ResetRefused, Find, FindNothing, Return
<1> QED BY <1>2, <1>3, <1>4, <1>5, <1>6, <1>7 DEF Step

LEMMA BaseSafe == Spec => []BaseInv
<1>1. Init => BaseInv
  BY DEF Init, BaseInv, Idle
<1>2. ASSUME CallInv, BaseInv, Step PROVE BaseInv'
  <2>1. ~Idle /\ call' = call
    BY <1>2, Outcome
  <2>2. stack \in Seq(Frames) /\ Len(stack) \in Nat \ {0} /\ stack # <<>>
    BY <1>2, <2>1, TopOK DEF CallInv, StackInv, Idle
  <2>3. Len(stack) = 1 \/ Len(stack) \in 2 .. Len(stack)
    BY <2>2, OneOrMore
  <2>4. stack[Len(stack)].op = call /\ Top = stack[1]
    BY <1>2, <2>1, TopOK DEF BaseInv, CallInv
  <2>5. CASE stack' = stack
    BY <2>1, <2>4, <2>5 DEF BaseInv, Idle
  <2>6. CASE stack' = Tail(stack)
    <3>1. /\ Len(Tail(stack)) = Len(stack) - 1
          /\ Len(stack) \in 2 .. Len(stack) =>
               Tail(stack)[Len(stack) - 1] = stack[(Len(stack) - 1) + 1]
      BY <2>2, Popped
    <3>2. Len(stack) = 1 => stack' = <<>>
      BY <2>1, <2>2, <2>6, PopStack, <1>2 DEF CallInv, Idle
    <3>3. (Len(stack) - 1) + 1 = Len(stack)
      BY <2>2
    <3> QED BY <2>1, <2>3, <2>4, <2>6, <3>1, <3>2, <3>3 DEF BaseInv, Idle
  <2>7. ASSUME NEW f, f.op = Top.op, stack' = <<f>> \o Tail(stack) PROVE BaseInv'
    <3> DEFINE S == Frames \cup {f}
    <3>1. stack \in Seq(S) /\ f \in S
      BY <2>2
    <3> HIDE DEF S
    <3>2. /\ Len(stack') = Len(stack) /\ stack'[1] = f
          /\ \A k \in 2 .. Len(stack) : stack'[k] = stack[k]
      BY <2>2, <2>7, <3>1, Replaced
    <3> QED BY <2>1, <2>3, <2>4, <2>7, <3>2 DEF BaseInv
  <2>8. ASSUME NEW f, NEW g, f.op = Top.op, stack' = <<g, f>> \o Tail(stack) PROVE BaseInv'
    <3> DEFINE S == Frames \cup {f, g}
    <3>1. stack \in Seq(S) /\ f \in S /\ g \in S
      BY <2>2
    <3> HIDE DEF S
    <3>2. /\ Len(stack') = Len(stack) + 1 /\ stack'[2] = f
          /\ \A k \in 2 .. Len(stack) : stack'[k + 1] = stack[k]
      BY <2>2, <2>8, <3>1, Pushed
    <3>3. Len(stack) = 1 => Len(stack) + 1 = 2
      OBVIOUS
    <3> QED BY <2>1, <2>3, <2>4, <2>8, <3>2, <3>3 DEF BaseInv
  <2> QED BY <1>2, <2>5, <2>6, <2>7, <2>8, SameOp
<1>3. ASSUME Calls PROVE BaseInv'
  <2>1. PICK op \in Ops : Call(op)
    BY <1>3 DEF Calls, Ops
  <2> DEFINE f == IF op = "lseek" THEN Retry(op, TRUE) ELSE ResetLoop(op, op = "write")
  <2>2. stack' = <<f>> /\ call' = op
    BY <2>1 DEF Call
  <2>3. f.op = op
    BY DEF Retry, ResetLoop
  <2> HIDE DEF f
  <2> QED BY <2>2, <2>3 DEF BaseInv
<1>4. ASSUME BaseInv, UNCHANGED <<stack, call>> PROVE BaseInv'
  BY <1>4 DEF BaseInv, Idle
<1>5. CallInv /\ BaseInv /\ [Next]_vars => BaseInv'
  BY <1>2, <1>3, <1>4 DEF Next, Unplug, Plug, vars, caller
<1> QED BY <1>1, <1>5, CallSafe, PTL DEF Spec

\* How a call ends.
LEMMA Answered ==
    ASSUME CallInv, HandleInv, Step, Idle'
    PROVE  /\ Len(stack) = 1 /\ BaseOK(Top) /\ FrameOK(Top) /\ handle' = fd' /\ fd' = fd
           /\ ~Idle /\ StackInv
           /\ \/ /\ Top.at = "check" /\ ~Again /\ ret' = Top.ret
                 /\ device_was_disconnected' = device_was_disconnected
              \/ /\ Top.at = "check" /\ NoRecovery(Top.op) /\ ret' = "error"
                 /\ Tell /\ fd # "open"
              \/ /\ Top.at = "sought" /\ ret = "error" /\ ret' = "error"
                 /\ device_was_disconnected' = device_was_disconnected
              \/ /\ Top.at = "reset" /\ Top.op = "lseek" /\ ret' = "error"
                 /\ device_was_disconnected' = device_was_disconnected
              \/ /\ Top.at \in {"reconnected", "connected"} /\ ret' = "error"
                 /\ device_was_disconnected' = device_was_disconnected
<1>1. /\ Len(stack) = 1 /\ ~Idle /\ handle' = fd' /\ BaseOK(Top) /\ StackInv /\ FrameOK(Top)
      /\ Top.fn \in {"retry", "reset_loop"}
  BY Outcome, TopOK, TopFacts DEF CallInv, BaseOK
<1>2. ASSUME NEW f, Become(f) PROVE FALSE
  BY <1>1, <1>2, BecomeShape DEF Become
<1>3. ASSUME NEW g, NEW at, Enter(g, at) PROVE FALSE
  BY <1>1, <1>3, EnterShape DEF Enter
<1>4. \/ RetryDone \/ RetryDisconnected \/ Reconnected \/ ResetLoopDone
      \/ ResetLoopDisconnected \/ ResetLoopGivesUp \/ ResetFailed \/ SoughtAfterReset
  <2>1. ~(\/ Request \/ RetryAgain \/ ResetLoopTried \/ ResetLoopConnected)
    BY <1>2 DEF Request, RetryAgain, ResetLoopTried, ResetLoopConnected, Goto
  <2>2. ~(ResetLoopStart \/ ResetLoopResets)
    BY <1>3 DEF ResetLoopStart, ResetLoopResets
  <2>3. ~ResetSucceeded
    BY <1>1, EnterShape DEF ResetSucceeded
  <2>4. ~(\/ StartWaiting \/ Listen \/ CannotListen \/ Accept \/ AcceptFails \/ Reject
          \/ SoughtAfterReconnect \/ CannotReset \/ ResetRefused \/ ResetIt \/ Find
          \/ FindNothing)
    BY <1>1 DEF At, StartWaiting, Listen, CannotListen, Accept, AcceptFails, Reject,
       SoughtAfterReconnect, CannotReset, ResetRefused, ResetIt, Find, FindNothing
  <2> QED BY <2>1, <2>2, <2>3, <2>4 DEF Step
<1>5. CASE RetryDone \/ ResetLoopDone
  BY <1>1, <1>5 DEF RetryDone, ResetLoopDone, Return, At
<1>6. CASE RetryDisconnected \/ ResetLoopDisconnected
  <2>1. AwaitDevice /\ Top.at = "check" /\ (Disconnected \/ fd = "closed")
    BY <1>6 DEF RetryDisconnected, ResetLoopDisconnected, At
  <2>2. NoRecovery(Top.op) /\ Return("error") /\ Tell /\ fd' = fd
    BY <1>3, <2>1 DEF AwaitDevice
  <2>3. fd # "open"
    BY <2>1, LostDevice
  <2> QED BY <1>1, <2>1, <2>2, <2>3 DEF Return
<1>7. CASE Reconnected
  BY <1>1, <1>2, <1>7 DEF Reconnected, Goto, Return, At
<1>8. CASE ResetLoopGivesUp
  BY <1>1, <1>8 DEF ResetLoopGivesUp, Return, At
<1>9. CASE ResetFailed
  BY <1>1, <1>2, <1>9 DEF ResetFailed, Return, At
<1>10. CASE SoughtAfterReset
  BY <1>1, <1>3, <1>10 DEF SoughtAfterReset, Return, At
<1> QED BY <1>4, <1>5, <1>6, <1>7, <1>8, <1>9, <1>10

AllInv == CallInv /\ WaitInv /\ ToldInv /\ FirstInv /\ HandleInv /\ BaseInv

LEMMA AnswerFacts ==
    ASSUME AllInv, Step, Idle'
    PROVE  /\ call' = call /\ later_round' = later_round /\ handle' = fd /\ fd' = fd
           /\ Len(stack) = 1 /\ Top.op = call /\ call \in Ops
           /\ ret' \in {"ok", "error", "eof"} /\ (ret' = "eof" => call = "read")
           /\ ret' # "error" => fd # "closed"
           /\ device_was_disconnected' \in BOOLEAN /\ later_round \in BOOLEAN
           /\ device_was_disconnected = TRUE => device_was_disconnected' = TRUE
<1>1. /\ Len(stack) = 1 /\ BaseOK(Top) /\ FrameOK(Top) /\ handle' = fd' /\ fd' = fd
      /\ ~Idle /\ StackInv
      /\ ret' = "error" \/ (Top.at = "check" /\ ret' = Top.ret)
  BY Answered DEF AllInv
<1>2. /\ call' = call /\ later_round' = later_round
      /\ device_was_disconnected = TRUE => device_was_disconnected' = TRUE
  BY Outcome DEF AllInv
<1>3. Top.op = call /\ Top = stack[1]
  BY <1>1, TopOK DEF AllInv, BaseInv
<1>4. Top.op \in Ops /\ Top.ret \in {"ok", "error", "eof"}
  BY <1>1, TopFacts DEF BaseOK, FrameOK, Ops, AllInv
<1>5. Top.at = "check" /\ Top.ret # "error" => fd # "closed"
  BY <1>1 DEF AllInv, HandleInv, OpenInv, Handled
<1>6. Top.op # "read" => Top.ret # "eof"
  BY <1>1 DEF FrameOK
<1>7. later_round \in BOOLEAN /\ device_was_disconnected' \in BOOLEAN
  <2>1. CallInv'
    BY CallStep DEF AllInv, Next
  <2> QED BY <2>1 DEF AllInv, CallInv, ValuesOK
<1> QED BY <1>1, <1>2, <1>3, <1>4, <1>5, <1>6, <1>7

LEMMA SeekAnswered ==
    ASSUME AllInv, Step, Idle', call = "lseek"
    PROVE  \/ device_was_disconnected' = TRUE /\ handle # "open"
           \/ /\ device_was_disconnected' = FALSE /\ handle = fd
              /\ ret' = "error" => fd # "open"
<1>1. ~Idle
  BY Answered DEF AllInv
<1>2. CASE device_was_disconnected = TRUE
  BY <1>1, <1>2, AnswerFacts DEF AllInv, HandleInv, SeekInv
<1>3. CASE device_was_disconnected = FALSE
  <2>1. Quiet(Top) /\ fd = handle /\ SeekFailed(Top, fd)
    BY <1>1, <1>3 DEF AllInv, ToldInv, HandleInv, SeekInv
  <2>2. Top.op = "lseek"
    BY AnswerFacts
  <2>3. /\ Top.at = "check" /\ ret' = Top.ret
        /\ device_was_disconnected' = device_was_disconnected
    <3>1. ~NoRecovery(Top.op)
      BY <2>2 DEF NoRecovery
    <3>2. BaseOK(Top) /\ FrameOK(Top)
      BY Answered DEF AllInv
    <3>3. Top.at \in {"first", "again", "check", "reconnected"}
      BY <2>1, <3>2 DEF FrameOK, Quiet
    <3> QED BY <2>1, <3>1, <3>3, Answered DEF Quiet, AllInv
  <2> QED BY <1>3, <2>1, <2>2, <2>3 DEF SeekFailed
<1>4. device_was_disconnected \in BOOLEAN
  BY DEF AllInv, CallInv, ValuesOK
<1> QED BY <1>2, <1>3, <1>4

LEMMA WriteAnswered ==
    ASSUME AllInv, Step, Idle', call = "write"
    PROVE  \/ /\ device_was_disconnected' = FALSE /\ handle # "closed"
              /\ \/ fd = handle
                 \/ ret' = "error" /\ fd # "open" /\ later_round # FALSE
           \/ device_was_disconnected' = TRUE /\ later_round # FALSE
           \/ /\ device_was_disconnected' = TRUE /\ ret' = "error"
              /\ fd = handle /\ handle # "open"
<1>1. /\ ~Idle /\ StackInv /\ Len(stack) = 1 /\ FrameOK(Top) /\ Top.op = "write"
      /\ Top.ret \in {"ok", "error", "eof"}
  BY Answered, AnswerFacts, TopFacts DEF AllInv
<1>2. later_round = FALSE => Early(Top)
  BY <1>1 DEF AllInv, FirstInv
<1>3. CASE device_was_disconnected = TRUE
  <2>1. device_was_disconnected' = TRUE
    BY <1>3, AnswerFacts
  <2>2. CASE later_round = FALSE
    <3>1. fd = handle /\ handle # "open" /\ Lost(Top, ret)
      BY <1>1, <1>3, <2>2 DEF AllInv, HandleInv, WriteInv
    <3>2. ret' = "error"
      BY <3>1, Answered DEF Lost, AllInv
    <3> QED BY <2>1, <3>1, <3>2
  <2> QED BY <2>1, <2>2
<1>4. CASE device_was_disconnected = FALSE
  <2>1. /\ Outer(Top, renewed) /\ Own(Top, fd, handle)
        /\ Top.at = "sought" /\ ret = "error" => fd # "open"
    BY <1>1, <1>4 DEF AllInv, ToldInv, HandleInv, WriteInv
  <2>2. CASE Top.at = "check" /\ NoRecovery(Top.op) /\ ret' = "error" /\ Tell /\ fd # "open"
    <3>1. device_was_disconnected' = TRUE /\ fd = handle
      BY <2>1, <2>2 DEF Tell, Outer, Own
    <3> QED BY <2>2, <3>1
  <2>3. CASE /\ Top.at = "check" /\ ~Again /\ ret' = Top.ret
             /\ device_was_disconnected' = device_was_disconnected
    <3>1. fd = handle
      BY <2>1, <2>3 DEF Own
    <3>2. ~(Top.ret = "error" /\ Top.n = 0)
      BY <2>3, RetryAssumption DEF Again
    <3>3. handle # "closed"
      BY <2>1, <2>3, <3>2 DEF Own
    <3> QED BY <1>4, <2>3, <3>1, <3>3
  <2>4. CASE /\ Top.at = "sought" /\ ret = "error" /\ ret' = "error"
             /\ device_was_disconnected' = device_was_disconnected
    <3>1. later_round # FALSE
      BY <1>2, <2>4 DEF Early
    <3>2. handle # "closed"
      BY <2>1, <2>4 DEF Own
    <3> QED BY <1>4, <2>1, <2>4, <3>1, <3>2
  <2>5. CASE /\ Top.at \in {"reconnected", "connected"} /\ ret' = "error"
             /\ device_was_disconnected' = device_was_disconnected
    <3>1. Top.at = "connected"
      BY <2>1, <2>5 DEF Outer
    <3>2. fd = handle /\ handle # "closed"
      BY <2>1, <3>1 DEF Own
    <3> QED BY <1>4, <2>5, <3>2
  <2> QED BY <1>1, <2>2, <2>3, <2>4, <2>5, Answered DEF AllInv
<1>5. device_was_disconnected \in BOOLEAN
  BY DEF AllInv, CallInv, ValuesOK
<1> QED BY <1>3, <1>4, <1>5

\* A call that ends is a step Answer of RetryAnswers ...
LEMMA AnswerStep == ASSUME AllInv, Step, Idle' PROVE Answers!Answer
<1>1. /\ ~Idle /\ call' = call /\ later_round' = later_round /\ handle' = fd
      /\ call \in Ops
      /\ ret' \in {"ok", "error", "eof"} /\ (ret' = "eof" => call = "read")
      /\ ret' # "error" => fd # "closed"
      /\ device_was_disconnected' \in BOOLEAN /\ later_round \in BOOLEAN
  BY AnswerFacts, Answered DEF AllInv
<1>2. fd \in {"open", "stale", "closed"} /\ handle \in {"open", "stale", "closed"}
  BY DEF AllInv, CallInv, ValuesOK
<1>3. CASE call = "lseek"
  <2>1. Answers!Lseek
    BY <1>1, <1>2, <1>3, SeekAnswered DEF Answers!Lseek, Answers!Renewed, Answers!Handles
  <2> QED BY <1>1, <2>1 DEF Answers!Answer
<1>4. CASE call = "write"
  <2>1. Answers!Write
    BY <1>1, <1>2, <1>4, WriteAnswered DEF Answers!Write, Answers!Renewed, Answers!Handles
  <2> QED BY <1>1, <2>1 DEF Answers!Answer
<1>5. CASE call = "read"
  <2>1. handle # "closed"
    BY <1>1, <1>5 DEF AllInv, HandleInv
  <2>2. Answers!Read
    BY <1>1, <1>2, <1>5, <2>1 DEF Answers!Read, Answers!Renewed, Answers!Handles
  <2> QED BY <1>1, <2>2 DEF Answers!Answer
<1> QED BY <1>1, <1>3, <1>4, <1>5 DEF Ops

\* ... and what goes on in the layer meanwhile leaves it unchanged.
LEMMA AnswersStep == ASSUME AllInv, [Next]_vars PROVE [Answers!Next]_(Answers!vars)
<1>1. CASE Step
  <2>1. CASE Idle'
    BY <1>1, <2>1, AnswerStep DEF Answers!Next
  <2>2. CASE ~Idle'
    <3>1. ~Idle /\ call' = call /\ later_round' = later_round /\ handle' = handle
      BY <1>1, <2>2, Outcome DEF AllInv
    <3> QED BY <2>2, <3>1 DEF Answers!vars
  <2> QED BY <2>1, <2>2
<1>2. CASE Calls
  <2>1. PICK op \in Ops : Call(op)
    BY <1>2 DEF Calls, Ops
  <2>2. /\ Idle /\ ~Idle' /\ call' = op /\ handle' = handle /\ later_round' = later_round
    BY <2>1 DEF Call, Idle
  <2>3. ret # "pending"
    BY DEF AllInv, CallInv, ValuesOK
  <2>4. Answers!Call
    BY <2>2, <2>3 DEF Answers!Call, Ops
  <2> QED BY <2>4 DEF Answers!Next
<1>3. CASE Unplug
  <2>1. UNCHANGED <<stack, ret, call, later_round, device_was_disconnected>>
    BY <1>3 DEF Unplug, caller
  <2>2. Idle' = Idle
    BY <2>1 DEF Idle
  <2>3. CASE handle = "open"
    <3>1. Answers!Break
      BY <1>3, <2>1, <2>2, <2>3 DEF Unplug, Answers!Break
    <3> QED BY <3>1 DEF Answers!Next
  <2>4. CASE handle # "open"
    BY <1>3, <2>1, <2>2, <2>4 DEF Unplug, Answers!vars
  <2> QED BY <2>3, <2>4
<1>4. CASE Plug \/ UNCHANGED vars
  <2>1. UNCHANGED <<stack, ret, call, later_round, device_was_disconnected, handle>>
    BY <1>4 DEF Plug, vars, caller
  <2> QED BY <2>1 DEF Answers!vars, Idle
<1> QED BY <1>1, <1>2, <1>3, <1>4 DEF Next

(* What a caller sees of the layer is what RetryAnswers allows, however     *)
(* often the device goes away and comes back, and wherever the layer is     *)
(* when it does.                                                            *)
THEOREM AnswersKept == Spec => KeepsAnswers
<1>1. Init => Answers!Init
  BY DEF Init, Answers!Init, Idle
<1>2. AllInv /\ [Next]_vars => [Answers!Next]_(Answers!vars)
  BY AnswersStep
<1>3. Spec => []AllInv
  BY CallSafe, WaitSafe, TellsSafe, HandleSafe, BaseSafe, PTL DEF AllInv
<1> QED BY <1>1, <1>2, <1>3, PTL DEF Spec, KeepsAnswers, Answers!Spec

=============================================================================
