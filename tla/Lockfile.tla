------------------------------- MODULE Lockfile -------------------------------
(***************************************************************************)
(* Several copies of mfst that share a lockfile, so that the tests that    *)
(* measure speed have the bus to themselves: a copy locks the file for the *)
(* block size test and for the speed test, and before (most of) its other  *)
(* requests waits while another copy has it locked.                        *)
(*                                                                         *)
(* The lock is lockf()'s: it is tried, never waited for; a process does    *)
(* not see its own lock, may lock twice, and loses the lock when it closes *)
(* the file or ends.  Looking at the lock and acting on what was seen are  *)
(* two steps, between which the other copies run.                          *)
(***************************************************************************)
EXTENDS Naturals

CONSTANTS
    Copies,         \* the copies of the program
    NoCopy,         \* the holder of a file that is not locked
    MaxRequests     \* bound: requests of a copy in one stage

ASSUME LockfileAssumption ==
    /\ NoCopy \notin Copies
    /\ MaxRequests \in Nat \ {0}

VARIABLES
    holder,              \* the copy that has the lockfile locked
    pc,                  \* where each copy is with the lockfile
    stage,               \* what it is doing in main()
    requests,            \* requests issued in this stage
    main_thread_status,
    previous_status,     \* wait_for_file_lock's copy of it, while it waits
    late                 \* history: requests the copy has issued since the
                         \* test now running in another one began (2: or more),
                         \* but for those made in the course of bisecting

vars == <<holder, pc, stage, requests, main_thread_status, previous_status, late>>

Stages   == {"block_size", "size", "capacity", "bisect", "speed", "endurance"}
Tests    == {"block_size", "speed"}
Statuses == {"IDLE", "PAUSED", "WRITING", "READING", "ENDING"}

----------------------------------------------------------------------------

\* Mutant: a copy takes its own lock for another's.
is_lockfile_locked_by_anyone(c) == holder # NoCopy

\* lockf(F_TEST) refuses: somebody else holds the lock.
is_lockfile_locked(c) == holder \notin {NoCopy, c}

\* Mutant: the result of lockf(F_TLOCK) is not looked at.
lock_regardless(c) == TRUE

lock_lockfile(c) == ~is_lockfile_locked(c)

\* Mutant: nothing ever gives the lock back.
never_unlocked(c) == holder

Unlocked(c) == IF holder = c THEN NoCopy ELSE holder

\* Mutant: the status is left as wait_for_file_lock found it on waking.
restored_late(c) == main_thread_status[c]

restored(c) == previous_status[c]

\* Mutant: the lock is only looked at when a loop of requests begins.
looked_once(c) == "go"

\* Before the next request of a loop the lock is looked at, save by the loop
\* of probe_device_size that bisects.
before_next_request(c) == IF stage[c] = "bisect" THEN "go" ELSE "wait"

Testing(c) == pc[c] = "test"

NoneSince == late' = [c \in Copies |-> 0]

Init ==
    /\ holder = NoCopy
    /\ pc = [c \in Copies |-> "wait"]
    /\ stage \in [Copies -> {"block_size",   \* a new device, with -b
                             "size",         \* a new device, without
                             "endurance"}]   \* resuming from a state file
    /\ requests = [c \in Copies |-> 0]
    /\ main_thread_status =
         [c \in Copies |-> IF stage[c] = "endurance" THEN "WRITING" ELSE "IDLE"]
    /\ previous_status = [c \in Copies |-> "IDLE"]
    /\ late = [c \in Copies |-> 0]

\* main() goes on to stage s, which begins with a wait.
Enter(c, s) ==
    /\ stage' = [stage EXCEPT ![c] = s]
    /\ requests' = [requests EXCEPT ![c] = 0]
    /\ pc' = [pc EXCEPT ![c] = "wait"]
    /\ main_thread_status' =
         [main_thread_status EXCEPT ![c] = IF s = "endurance" THEN "WRITING" ELSE @]

----------------------------------------------------------------------------
(* wait_for_file_lock.                                                     *)

(* The file is not locked: the copy goes ahead. *)
GoAhead(c) ==
    /\ pc[c] = "wait"
    /\ ~is_lockfile_locked(c)
    /\ pc' = [pc EXCEPT ![c] = "go"]
    /\ UNCHANGED <<holder, stage, requests, main_thread_status, previous_status, late>>

Pause(c) ==
    /\ pc[c] = "wait"
    /\ is_lockfile_locked(c)
    /\ pc' = [pc EXCEPT ![c] = "paused"]
    /\ previous_status' = [previous_status EXCEPT ![c] = main_thread_status[c]]
    /\ main_thread_status' = [main_thread_status EXCEPT ![c] = "PAUSED"]
    /\ UNCHANGED <<holder, stage, requests, late>>

(* The poll finds the file unlocked. *)
Resume(c) ==
    /\ pc[c] = "paused"
    /\ ~is_lockfile_locked(c)
    /\ pc' = [pc EXCEPT ![c] = "go"]
    /\ main_thread_status' = [main_thread_status EXCEPT ![c] = restored(c)]
    /\ previous_status' = [previous_status EXCEPT ![c] = "IDLE"]
    /\ UNCHANGED <<holder, stage, requests, late>>

----------------------------------------------------------------------------
(* The tests: probe_for_optimal_block_size and probe_device_speeds.        *)

AfterTest(c) == Enter(c, IF stage[c] = "block_size" THEN "size" ELSE "endurance")

StartTest(c) ==
    /\ pc[c] = "go"
    /\ stage[c] \in Tests
    /\ lock_lockfile(c)
    /\ holder' = c
    /\ pc' = [pc EXCEPT ![c] = "test"]
    /\ NoneSince
    /\ UNCHANGED <<stage, requests, main_thread_status, previous_status>>

(* Another copy locked the file since this one looked: no test is run. *)
SkipTest(c) ==
    /\ pc[c] = "go"
    /\ stage[c] \in Tests
    /\ ~lock_lockfile(c)
    /\ AfterTest(c)
    /\ UNCHANGED <<holder, previous_status, late>>

(* The test is done, or an error other than the next one ends it. *)
EndTest(c) ==
    /\ Testing(c)
    /\ holder' = Unlocked(c)
    /\ AfterTest(c)
    /\ NoneSince
    /\ UNCHANGED previous_status

(* A seek of the sequential passes of the speed test fails: the function   *)
(* returns with the file locked.                                           *)
LoseTest(c) ==
    /\ Testing(c)
    /\ stage[c] = "speed"
    /\ AfterTest(c)
    /\ NoneSince
    /\ UNCHANGED <<holder, previous_status>>

----------------------------------------------------------------------------
(* The capacity test and the endurance test, as far as the lock goes.      *)

(* After its wait main() begins the capacity test, without another, or     *)
(* takes the size given with -e.                                           *)
ChooseSize(c) ==
    /\ pc[c] = "go"
    /\ stage[c] = "size"
    /\ \/ /\ stage' = [stage EXCEPT ![c] = "capacity"]
          /\ UNCHANGED <<pc, requests, main_thread_status>>
       \/ Enter(c, "speed")
    /\ UNCHANGED <<holder, previous_status, late>>

(* What is done to the device between two looks at the lock: a block is    *)
(* written or read, in one piece or around the unusable sectors in it.     *)
Request(c) ==
    /\ pc[c] = "go"
    /\ stage[c] \in {"capacity", "bisect", "endurance"}
    /\ requests[c] < MaxRequests
    /\ requests' = [requests EXCEPT ![c] = @ + 1]
    /\ pc' = [pc EXCEPT ![c] = "io"]
    /\ late' = IF stage[c] # "bisect" /\ \E d \in Copies \ {c} : Testing(d)
               THEN [late EXCEPT ![c] = IF @ = 0 THEN 1 ELSE 2]
               ELSE late
    /\ UNCHANGED <<holder, stage, main_thread_status, previous_status>>

(* probe_device_size goes on, begins to bisect, or has found the size. *)
CapacityRequestDone(c) ==
    /\ pc[c] = "io"
    /\ stage[c] \in {"capacity", "bisect"}
    /\ \/ /\ pc' = [pc EXCEPT ![c] = before_next_request(c)]
          /\ UNCHANGED <<stage, requests, main_thread_status>>
       \/ /\ stage[c] = "capacity"
          /\ stage' = [stage EXCEPT ![c] = "bisect"]
          /\ requests' = [requests EXCEPT ![c] = 0]
          /\ pc' = [pc EXCEPT ![c] = "go"]
          /\ UNCHANGED main_thread_status
       \/ Enter(c, "speed")
    /\ UNCHANGED <<holder, previous_status, late>>

(* The endurance test goes on, with a block to write or to read. *)
EnduranceRequestDone(c) ==
    /\ pc[c] = "io"
    /\ stage[c] = "endurance"
    /\ pc' = [pc EXCEPT ![c] = before_next_request(c)]
    /\ \E s \in {"WRITING", "READING"} :
          main_thread_status' = [main_thread_status EXCEPT ![c] = s]
    /\ UNCHANGED <<holder, stage, requests, previous_status, late>>

(* The program ends, or is killed: the lock goes with it, and so does what *)
(* the model remembers of the copy.                                        *)
End(c) ==
    /\ pc[c] # "ended"
    /\ pc' = [pc EXCEPT ![c] = "ended"]
    /\ holder' = Unlocked(c)
    /\ main_thread_status' = [main_thread_status EXCEPT ![c] = "ENDING"]
    /\ previous_status' = [previous_status EXCEPT ![c] = "IDLE"]
    /\ requests' = [requests EXCEPT ![c] = 0]
    /\ IF Testing(c) THEN NoneSince ELSE late' = [late EXCEPT ![c] = 0]
    /\ UNCHANGED stage

----------------------------------------------------------------------------

\* What the program does by itself; it is ended by the user, or once it has
\* issued the requests it may.
Run(c) ==
    \/ GoAhead(c) \/ Pause(c) \/ Resume(c)
    \/ StartTest(c) \/ SkipTest(c) \/ EndTest(c) \/ LoseTest(c)
    \/ ChooseSize(c) \/ Request(c) \/ CapacityRequestDone(c) \/ EnduranceRequestDone(c)

Done(c) == pc[c] = "go" /\ requests[c] = MaxRequests /\ End(c)

Next == \E c \in Copies : Run(c) \/ End(c)

Spec == Init /\ [][Next]_vars

(* Each copy is a process of its own that keeps running. *)
FairSpec == Spec /\ \A c \in Copies : WF_vars(Run(c) \/ Done(c))

----------------------------------------------------------------------------

(* The types of the variables; a copy that has ended holds no lock. *)
TypeOK ==
    /\ holder \in {c \in Copies : pc[c] # "ended"} \cup {NoCopy}
    /\ pc \in [Copies -> {"wait", "paused", "go", "test", "io", "ended"}]
    /\ stage \in [Copies -> Stages]
    /\ requests \in [Copies -> 0 .. MaxRequests]
    /\ main_thread_status \in [Copies -> Statuses]
    /\ previous_status \in [Copies -> Statuses]
    /\ late \in [Copies -> 0 .. 2]

(* Two copies never measure at the same time, although each only looks at  *)
(* the lock, and takes it in another step.                                 *)
TestsRunAlone == \A c, d \in Copies : Testing(c) /\ Testing(d) => c = d

(* A copy disturbs a test with at most the one request that it had already *)
(* decided on, leaving aside what it does to bisect a fake device.          *)
DisturbsAtMostOnce == \A c \in Copies : late[c] <= 1

(* What the screen and the database show of a copy is that it is paused    *)
(* exactly while it is, and otherwise what it does.                        *)
StatusTellsStage ==
    \A c \in Copies : pc[c] # "ended" =>
        /\ main_thread_status[c] = "PAUSED" <=> pc[c] = "paused"
        /\ main_thread_status[c] \in {"WRITING", "READING"} => stage[c] = "endurance"
        /\ main_thread_status[c] = "IDLE" => stage[c] # "endurance"

(* wait_for_file_lock tells its user that the copy that has the file locked *)
(* runs its speed tests, and that things resume once it is finished.  That  *)
(* is so but for the copies that lost the speed test to a failed seek: they *)
(* keep the lock throughout the endurance test (device_speed_test.c:105).   *)
LockedForTests == holder # NoCopy /\ ~Testing(holder) => stage[holder] = "endurance"

(* A copy that pauses does not stay so, whatever the others do, once they  *)
(* have ended: the copies do not wait for each other in a circle, and one  *)
(* that kept its lock does not wait for itself.                            *)
PauseEnds == \A c \in Copies : pc[c] = "paused" ~> pc[c] # "paused"

===============================================================================
