---------------------------- MODULE LockfileProofs ----------------------------
(***************************************************************************)
(* Proofs about Lockfile, for any number of copies and requests.           *)
(***************************************************************************)
EXTENDS Lockfile, TLAPS

----------------------------------------------------------------------------
(* Types.  A copy that has ended holds no lock.                            *)

LEMMA TypeInit == Init => TypeOK
  BY LockfileAssumption DEF Init, TypeOK, Stages, Statuses

LEMMA EnterType ==
    ASSUME TypeOK, NEW c \in Copies, pc[c] # "ended", NEW s \in Stages, Enter(c, s)
    PROVE  /\ stage' \in [Copies -> Stages]
           /\ requests' \in [Copies -> 0 .. MaxRequests]
           /\ pc' \in [Copies -> {"wait", "paused", "go", "test", "io", "ended"}]
           /\ main_thread_status' \in [Copies -> Statuses]
           /\ \A d \in Copies : pc[d] # "ended" => pc'[d] # "ended"
  BY LockfileAssumption DEF TypeOK, Enter, Statuses

LEMMA TypeNext == TypeOK /\ [Next]_vars => TypeOK'
<1> SUFFICES ASSUME TypeOK, [Next]_vars PROVE TypeOK'
  OBVIOUS
<1>1. ASSUME NEW c \in Copies, GoAhead(c) \/ Pause(c) \/ Resume(c) PROVE TypeOK'
  BY <1>1 DEF GoAhead, Pause, Resume, restored, TypeOK, Statuses
<1>2. ASSUME NEW c \in Copies, StartTest(c) PROVE TypeOK'
  BY <1>2 DEF StartTest, NoneSince, TypeOK
<1>3. ASSUME NEW c \in Copies, SkipTest(c) PROVE TypeOK'
  BY <1>3, EnterType DEF SkipTest, AfterTest, Stages, TypeOK
<1>4. ASSUME NEW c \in Copies, EndTest(c) PROVE TypeOK'
  BY <1>4, EnterType DEF EndTest, AfterTest, Testing, Unlocked, NoneSince, Stages, TypeOK
<1>5. ASSUME NEW c \in Copies, LoseTest(c) PROVE TypeOK'
  BY <1>5, EnterType DEF LoseTest, AfterTest, Testing, NoneSince, Stages, TypeOK
<1>6. ASSUME NEW c \in Copies, ChooseSize(c) PROVE TypeOK'
  BY <1>6, EnterType DEF ChooseSize, Stages, TypeOK
<1>7. ASSUME NEW c \in Copies, Request(c) PROVE TypeOK'
  BY <1>7, LockfileAssumption DEF Request, TypeOK
<1>8. ASSUME NEW c \in Copies, CapacityRequestDone(c) PROVE TypeOK'
  BY <1>8, EnterType, LockfileAssumption
     DEF CapacityRequestDone, before_next_request, Stages, TypeOK
<1>9. ASSUME NEW c \in Copies, EnduranceRequestDone(c) PROVE TypeOK'
  BY <1>9 DEF EnduranceRequestDone, before_next_request, Statuses, TypeOK
<1>10. ASSUME NEW c \in Copies, End(c) PROVE TypeOK'
  BY <1>10, LockfileAssumption DEF End, Unlocked, NoneSince, Statuses, TypeOK
<1>11. CASE UNCHANGED vars
  BY <1>11 DEF vars, TypeOK
<1> QED
  BY <1>1, <1>2, <1>3, <1>4, <1>5, <1>6, <1>7, <1>8, <1>9, <1>10, <1>11 DEF Next, Run

(* Every variable keeps its type; the lock is held by no copy that has     *)
(* ended, as the system releases it with the process.                      *)
THEOREM LockfileTypeCorrect == Spec => []TypeOK
  BY TypeInit, TypeNext, PTL DEF Spec

----------------------------------------------------------------------------
(* Who holds the lock.                                                     *)

\* A copy that runs a test has the lock; who has it without a test is beyond
\* the tests for good.
LockInv ==
    /\ \A c \in Copies : Testing(c) => holder = c
    /\ LockedForTests

LEMMA LockInit == Init => LockInv
  BY DEF Init, LockInv, LockedForTests, Testing

LEMMA LockNext == TypeOK /\ LockInv /\ [Next]_vars => LockInv'
<1> SUFFICES ASSUME TypeOK, LockInv, [Next]_vars PROVE LockInv'
  OBVIOUS
<1> USE DEF TypeOK, LockInv, LockedForTests, Testing
<1>1. ASSUME NEW c \in Copies, GoAhead(c) \/ Pause(c) \/ Resume(c) PROVE LockInv'
  BY <1>1 DEF GoAhead, Pause, Resume
<1>2. ASSUME NEW c \in Copies, StartTest(c) PROVE LockInv'
  BY <1>2, LockfileAssumption DEF StartTest, lock_lockfile, is_lockfile_locked
<1>3. ASSUME NEW c \in Copies, SkipTest(c) PROVE LockInv'
  BY <1>3 DEF SkipTest, AfterTest, Enter, Tests
<1>4. ASSUME NEW c \in Copies, EndTest(c) PROVE LockInv'
  BY <1>4, LockfileAssumption DEF EndTest, Unlocked, AfterTest, Enter
<1>5. ASSUME NEW c \in Copies, LoseTest(c) PROVE LockInv'
  BY <1>5 DEF LoseTest, AfterTest, Enter
<1>6. ASSUME NEW c \in Copies, ChooseSize(c) PROVE LockInv'
  BY <1>6 DEF ChooseSize, Enter
<1>7. ASSUME NEW c \in Copies, Request(c) PROVE LockInv'
  BY <1>7 DEF Request
<1>8. ASSUME NEW c \in Copies, CapacityRequestDone(c) PROVE LockInv'
  BY <1>8 DEF CapacityRequestDone, before_next_request, Enter
<1>9. ASSUME NEW c \in Copies, EnduranceRequestDone(c) PROVE LockInv'
  BY <1>9 DEF EnduranceRequestDone, before_next_request
<1>10. ASSUME NEW c \in Copies, End(c) PROVE LockInv'
  BY <1>10, LockfileAssumption DEF End, Unlocked
<1>11. CASE UNCHANGED vars
  BY <1>11 DEF vars
<1> QED
  BY <1>1, <1>2, <1>3, <1>4, <1>5, <1>6, <1>7, <1>8, <1>9, <1>10, <1>11 DEF Next, Run

LEMMA Locked == Spec => [](TypeOK /\ LockInv)
  BY TypeInit, TypeNext, LockInit, LockNext, PTL DEF Spec

(* However many copies look at the lock and take it, each in two steps, at *)
(* most one of them measures.                                              *)
THEOREM MeasuresAlone == Spec => []TestsRunAlone
<1>1. TypeOK /\ LockInv => TestsRunAlone
  BY DEF LockInv, TestsRunAlone
<1> QED BY <1>1, Locked, PTL

(* Whoever holds the lock outside of a test is a copy in its endurance     *)
(* test, which has lost its speed test to a seek.                          *)
THEOREM HeldForTests == Spec => []LockedForTests
<1>1. LockInv => LockedForTests
  BY DEF LockInv
<1> QED BY <1>1, Locked, PTL

----------------------------------------------------------------------------
(* How often a test is disturbed.                                          *)

\* A copy has only disturbed a test that is still running, and must look at
\* the lock before its next request.
LateInv ==
    \A c \in Copies :
        late[c] # 0 => /\ late[c] = 1
                       /\ \E d \in Copies \ {c} : Testing(d)
                       /\ pc[c] = "go" => stage[c] = "bisect"

LEMMA LateInit == Init => LateInv
  BY DEF Init, LateInv

LEMMA LateNext == TypeOK /\ LockInv /\ LateInv /\ [Next]_vars => LateInv'
<1> SUFFICES ASSUME TypeOK, LockInv, LateInv, [Next]_vars PROVE LateInv'
  OBVIOUS
<1> USE DEF TypeOK, LateInv, Testing
<1>1. ASSUME NEW c \in Copies, Pause(c) PROVE LateInv'
  BY <1>1 DEF Pause
<1>2. ASSUME NEW c \in Copies, GoAhead(c) \/ Resume(c) PROVE LateInv'
  <2>1. holder \in {NoCopy, c}
    BY <1>2 DEF GoAhead, Resume, is_lockfile_locked
  <2>2. \A d \in Copies \ {c} : ~Testing(d)
    BY <2>1, LockfileAssumption DEF LockInv
  <2>3. late[c] = 0
    BY <2>2
  <2> QED BY <1>2, <2>3 DEF GoAhead, Resume
<1>3. ASSUME NEW c \in Copies, StartTest(c) \/ EndTest(c) \/ LoseTest(c) PROVE LateInv'
  BY <1>3 DEF StartTest, EndTest, LoseTest, NoneSince
<1>4. ASSUME NEW c \in Copies, SkipTest(c) PROVE LateInv'
  BY <1>4 DEF SkipTest, AfterTest, Enter
<1>5. ASSUME NEW c \in Copies, ChooseSize(c) PROVE LateInv'
  BY <1>5 DEF ChooseSize, Enter
<1>6. ASSUME NEW c \in Copies, Request(c) PROVE LateInv'
  BY <1>6 DEF Request
<1>7. ASSUME NEW c \in Copies, CapacityRequestDone(c) PROVE LateInv'
  BY <1>7 DEF CapacityRequestDone, before_next_request, Enter
<1>8. ASSUME NEW c \in Copies, EnduranceRequestDone(c) PROVE LateInv'
  BY <1>8 DEF EnduranceRequestDone, before_next_request
<1>9. ASSUME NEW c \in Copies, End(c) PROVE LateInv'
  BY <1>9 DEF End, NoneSince
<1>10. CASE UNCHANGED vars
  BY <1>10 DEF vars
<1> QED
  BY <1>1, <1>2, <1>3, <1>4, <1>5, <1>6, <1>7, <1>8, <1>9, <1>10 DEF Next, Run

(* Between the beginning and the end of a test another copy issues at most *)
(* one request, but for those with which it bisects a fake device.         *)
THEOREM OneLateRequest == Spec => []DisturbsAtMostOnce
<1>1. TypeOK /\ LateInv => DisturbsAtMostOnce
  <2> SUFFICES ASSUME TypeOK, LateInv, NEW c \in Copies PROVE late[c] <= 1
    BY DEF DisturbsAtMostOnce
  <2>1. late[c] = 0 \/ late[c] = 1
    BY DEF LateInv
  <2> QED BY <2>1
<1> QED
  BY <1>1, TypeInit, TypeNext, LockInit, LockNext, LateInit, LateNext, PTL DEF Spec

----------------------------------------------------------------------------
(* The status.                                                             *)

\* The status of a copy, or the one it will have again after its pause.
StatusOf(c) == IF pc[c] = "paused" THEN previous_status[c] ELSE main_thread_status[c]

StatusInv ==
    \A c \in Copies : pc[c] # "ended" =>
        /\ pc[c] = "paused" => main_thread_status[c] = "PAUSED"
        /\ StatusOf(c) \in IF stage[c] = "endurance" THEN {"WRITING", "READING"}
                                                     ELSE {"IDLE"}

LEMMA StatusInit == Init => StatusInv
  BY DEF Init, StatusInv, StatusOf

LEMMA StatusNext == TypeOK /\ StatusInv /\ [Next]_vars => StatusInv'
<1> SUFFICES ASSUME TypeOK, StatusInv, [Next]_vars PROVE StatusInv'
  OBVIOUS
<1> USE DEF TypeOK, StatusInv, StatusOf
<1>1. ASSUME NEW c \in Copies, GoAhead(c) \/ Pause(c) \/ Resume(c) PROVE StatusInv'
  BY <1>1 DEF GoAhead, Pause, Resume, restored
<1>2. ASSUME NEW c \in Copies, StartTest(c) PROVE StatusInv'
  BY <1>2 DEF StartTest
<1>3. ASSUME NEW c \in Copies, SkipTest(c) PROVE StatusInv'
  BY <1>3 DEF SkipTest, AfterTest, Enter, Tests
<1>4. ASSUME NEW c \in Copies, EndTest(c) \/ LoseTest(c) PROVE StatusInv'
  BY <1>4 DEF EndTest, LoseTest, Testing, AfterTest, Enter
<1>5. ASSUME NEW c \in Copies, ChooseSize(c) PROVE StatusInv'
  BY <1>5 DEF ChooseSize, Enter
<1>6. ASSUME NEW c \in Copies, Request(c) PROVE StatusInv'
  BY <1>6 DEF Request
<1>7. ASSUME NEW c \in Copies, CapacityRequestDone(c) PROVE StatusInv'
  BY <1>7 DEF CapacityRequestDone, before_next_request, Enter
<1>8. ASSUME NEW c \in Copies, EnduranceRequestDone(c) PROVE StatusInv'
  BY <1>8 DEF EnduranceRequestDone, before_next_request
<1>9. ASSUME NEW c \in Copies, End(c) PROVE StatusInv'
  BY <1>9 DEF End
<1>10. CASE UNCHANGED vars
  BY <1>10 DEF vars
<1> QED
  BY <1>1, <1>2, <1>3, <1>4, <1>5, <1>6, <1>7, <1>8, <1>9, <1>10 DEF Next, Run

(* What a copy shows is PAUSED while it waits for the lock, and what it    *)
(* does otherwise; a pause gives back the status it found.                 *)
THEOREM StatusTrue == Spec => []StatusTellsStage
<1>1. TypeOK /\ StatusInv => StatusTellsStage
  BY DEF TypeOK, StatusInv, StatusOf, StatusTellsStage
<1> QED
  BY <1>1, TypeInit, TypeNext, StatusInit, StatusNext, PTL DEF Spec

===============================================================================
