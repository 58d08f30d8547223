# A TLA+ verification of mfst

mfst wears out flash media on purpose. It overwrites a device round after round
with data only it can know, reads it back, counts the sectors that no longer
hold it, and goes on until half of them are bad or the device no longer
answers. A test takes weeks, so that the program has to survive unplugged
devices, USB resets, a medium that answers with another device's sectors, other
copies of itself on the same bus, and its own restarts.

The modules here model that core, TLC checks them on small instances, and TLAPS
proves most of what is safety for every value of the parameters. Paths are
relative to the repository; `map` in `PROJECT.json` gives the source lines of every
definition.

## 1. Inventory

| component | code | state it keeps | operations |
|---|---|---|---|
| Endurance test | `mfst.c` 200-280, 1705-1780, 2160-2850, 3480-3780 | the round, the sector map, four counters, six threshold dates, the place in the slice, the handle's position | start a round, write a slice, read a slice, compare a block, end a round |
| Retry layer | `mfst.c` 1210-1700, `device.c` 20-50, 780-1060 | the handle, retry counts, `*device_was_disconnected` | seek, read and write with retries, resets and reconnects |
| Lockfile | `lockfile.c`, `mfst.c` 280-330 | a POSIX lock that the copies share, `main_thread_status` | look, lock, unlock, pause |
| State file | `state.c`, `mfst.c` 2525-2540, 3200-3600 | a JSON file, its temporary file, `state_file` | save, load, resume |
| Capacity test | `mfst.c` 515-830 | lower and upper limit of the size | probe, bisect |
| Speed and block size tests | `device_speed_test.c`, `block_size_test.c` | timers, sums | timed sequential and random I/O |
| Device search and identity | `device.c` 100-780, 1060-1119 | the candidates of udev | find a device by its first and middle megabyte, or its UUID |
| BOD and MOD buffers | `mfst.c` 2440-2540 | what was written last to the two megabytes that identify the device | update while writing |
| Startup and resume | `mfst.c` `main` | program options, the testing context | new start, resume |
| SQL thread | `sql.c` | a connection, a card id | every 30 s copy the status to a database |
| RNG, log, statistics, screen, options, base64/CRC, web monitor, build files | the rest | | |

**How they interact.** `main` calls the size, capacity and speed tests once and
then loops over rounds. Everything that touches the device goes through the
retry layer by a call with a pointer to the handle, which the retry layer may
exchange, and a flag that it sets when it did; the slice loop starts the slice
anew if the flag is set. Between two requests a copy looks at the lockfile and
pauses. `save_state` is called at the start of every round but the first
(`mfst.c:3560`), and when a block in the identifying areas was written
(`mfst.c:2535`, `mfst.c:2579`); at the end of a round it is not. The SQL thread
reads the context of the main thread without a lock.

**What is hard.** The device goes away between any two system calls, comes back
as another number, or comes back before anybody listens. The functions of the
retry layer call each other recursively. A slice is half written when its
device is exchanged. A sector fails at the write, at the read *and* at the
comparison. Copies look at a lock and act on what they saw later. The program
is killed at any moment of a save. Fractions are rounded: slices, blocks,
thresholds. `hazards` in `PROJECT.json` lists these by line, with the properties
that watch them, or the reason why none does yet.

**What makes each part correct.**

- *Endurance test*: every sector is judged in every round or already known to
  be bad; a sector once bad stays bad and is counted once; data is compared
  with that of its own sector; a slice that counts as written was written in
  one session with the device; a round ends.
- *Retry layer*: a request that succeeds was carried out where it was meant to
  be; whenever the handle was exchanged the caller knows; no other device is
  accepted while there is nothing to tell it by; a call ends.
- *Lockfile*: speed measurements run alone; a copy disturbs another's
  measurement by at most the one request it had already decided on; a pause
  ends and leaves the status as it was.
- *State file*: a restart at any moment finds a file that says what was true at
  the last save, loses at most the round that was running, and keeps the dates
  of the thresholds.
- *Capacity test*: a genuine device is found to be one; the size found of another
  is that of its storage; the search ends.
- *BOD/MOD buffers, device search*: the device under test is recognised by either
  area as long as that is whole, after any restart of a slice or of the program;
  no other device is taken for it, and overwritten, unless what is kept of half
  of the two areas is in doubt.
- *SQL thread*: the parts of what it stores fit together although they are read
  at different moments; it survives lost connections and catches up; it is gone
  before what it reads is freed (it is not).

## 2. Modules

| module | contents |
|---|---|
| `EnduranceTest` | the endurance test on a device that fails as `RetryAnswers` allows |
| `EnduranceRounds` | what it promises: rounds, bad and unusable sectors, the first error |
| `RetryLayer` | the retry layer down to its system calls |
| `RetryAnswers` | what it promises its callers |
| `Lockfile` | copies of the program that share a lockfile |
| `SaveState` | the endurance test across saves, crashes and restarts |
| `DeviceIdentity` | what is kept of the device to know it again, and the search that uses it |
| `CapacityTest` | the search for the end of the storage of a fake device |
| `SqlThread` | the thread that copies the state of the test to a database, beside the test |
| `EnduranceTestProofs` | types, places and bad sectors, and that it implements `EnduranceRounds` |
| `EnduranceRoundProofs` | what a round leaves: `ThresholdsDated`, `WrittenInOneSession`, `AllJudged`, `ReportAddsUp`; why it ends: `TestRunsOut` |
| `RetryLayerProofs` | the retry layer's safety properties, and that it implements `RetryAnswers` |
| `LockfileProofs` | all of the lockfile's safety properties |
| `SaveStateProofs` | all of the state file's properties |
| `SqlThreadProofs` | all of the SQL thread's safety properties |
| `CapacityTestProofs` | all of the capacity test's safety properties |
| `DeviceIdentityProofs` | that the device is known again, others are left alone, and for which geometry |
| `MC*` | instances for TLC |

```
EnduranceRounds <-- implements -- EnduranceTest    answers taken from
                                                        |
                                  RetryAnswers <--------+
                                       ^
                                       +-- implements -- RetryLayer
SaveState   rounds and sectors as EnduranceTest leaves them, over restarts
DeviceIdentity  which device RetryLayer accepts, over the writes of EnduranceTest
            and the restarts of SaveState
Lockfile    the same program seen by other copies of it
CapacityTest  what main() does before, once, on a device nobody shares
SqlThread   what another thread sees of the test, and stores
```

### EnduranceTest

One action is one call of the retry layer together with the code up to the next
call: `WriteChunk` is a `write_or_reset_device` that returns a number of bytes
with the flags it sets and the choice of the next thing to do, `WriteSkip` the
seek behind a sector that is not to be used, and so on. `pc` says which call
comes next; `slice`, `block`, `cur` are the loop variables of the slice, block
and chunk loops; `fd` and `pos` are the handle and its file position, and
`content` is what the medium holds, sector by sector. A sector is not an array
of bytes: it holds its own data of some round, garbage (anything else), zeroes,
or a well-formed sector that carries another device's UUID, which is what the
comparison tells apart.

The order of the slices is random in the code (`random_list`) and a free choice
here. `Disconnect` makes the handle stale, `Decay` changes a sector of the
medium; a bad answer of an attached device is a fault as well, while everything
a stale handle does follows from the disconnect and is free.

`here`, `before` and `aborted` are history: which sectors of the slice were
written in this session with the device or an earlier one, and whether a block
was given up. No guard reads them.

Left out: reads that return 0 bytes for ever (a livelock, listed as a hazard),
the bytes kept of the identifying areas, which are in `DeviceIdentity`, and the
saves inside `endurance_test_write_block`, which are in `SaveState`.

### RetryLayer and RetryAnswers

`stack` is the call stack, innermost frame first; a frame has the function, the
request it is for, its label, its own retry count and result and whether it
holds the caller's flag. One action is one system call or one decision; `Unplug`
and `Plug` may happen between any two. Assumed of the operating system: a seek
on an attached device's handle does not fail; a read or write on a stale handle
fails or returns 0, a seek may succeed; a device that comes back has the same
number or another; `find_device`'s comparison of a candidate is a free choice
(accepted, rejected): what it depends on is in `DeviceIdentity`.

Some of what the model shows is odd and deliberate: a device that was pulled
out and is back when the outer loop looks again is reset, although nothing is
wrong with it, or given up if it cannot be reset; the `ENOENT` branch of
`reset_device` is never taken, because `find_device` does not set `errno` so, and
`reset_device` then returns success with the handle -1 (`FindNothing`); a write
whose reset succeeds and whose following seek fails is an error without the
flag (`mfst.c:1665`), which `RetryAnswers` allows a write only together with an
error.

`RetryAnswers` has three states of the handle and the answers a call may give in
each. `KeepsAnswers` checks that `RetryLayer` implements it. `EnduranceTest` takes
its answers at its own granularity: an answer that leaves a handle already stale
again is an answer there followed by `Disconnect`.

### Lockfile

Looking at the lock (`is_lockfile_locked`, a `F_TEST`) and the request that
follows are two steps. `requests` counts what a copy does in a stage; a request
is what the code does between two looks. `lockf`'s own rules are modelled: it
is tried and not waited for, a process does not see its own lock, locks twice
without noticing, and loses the lock when the file is closed or the process
ends. A copy may be killed anywhere (`End`).

### SaveState

`save_state` is called, writes the temporary file (torn if the program dies
now), has it written, renames it, or fails at one of these and never tries
again (`state_file` is cleared). `Image` is what it stores, `Loadable` what
`load_state` accepts, `Unpacked` what it makes of the map, `Resume` and
`StartAnew` what `main` does next. `Crash` may come at any step and loses
everything but the files. The endurance test is reduced to rounds in which
sectors turn out bad; FAILED_THIS_ROUND is left out since a round clears it.

`begun` and `tally` are history. Left out: files of version 1, written by older
releases, and the other names and options in the file. Three things to know
about the code when reading it: a save in the first round stores 0 rounds and
is rejected by `load_state`, as is a file with speeds or sizes of 0; a rejected
file is overwritten by the next test if the command line names a device, and
otherwise ends the program; a save in the middle of a round stores what the
round has found so far, so that a restart may end the test at half of the
device with no date for a threshold that the unfinished round crossed.

### DeviceIdentity

Two devices of the right size: the one under test, whose sectors are `content`,
and a blank one, which reads as zeroes. A sector holds what a round of a process
wrote to a sector (`Datum`, which carries the UUID), zeroes or something else.
The write phase has an action for each turn of the loop in
`endurance_test_write_block`: the write of a run of usable sectors (`WriteRun`,
whole or short) and the skip with the update of the buffers (`EndTurn`), with the
failures, the reconnects and the resets that may come in between; the read phase
is one step. `update_bod_mod_buffers` is given what the code gives it: a number
of sectors counted from the start of the *block* (`Affected`), which after a turn
that wrote nothing includes what an earlier call left in the variable. It
therefore copies more than was written, and at the end of a block what lies
behind the block's buffer in memory (`behind`, one of two values).

`Accepts` and `Rejects` are the two answers a comparison may give, and both may be
possible: the sectors of the middle are counted after their buffer was freed
(`device.c:279`), and the sectors to look at for a UUID are drawn at random.
`Matches` are the sets of devices a search may come up with. Taking the other
device ends the behaviour (`pc = "lost"`): the program overwrites it.

Where the code uses what has no defined value the model has a choice: the buffers
of a new test are whatever `malloc` returned, uniformly zeroes or something else.
After a restart no sector counts as bad while the device is looked for
(`total_bad_sectors`), since `main` counts them afterwards.

`stored`, `intact`, `open` and `spoilt` are history: which sectors were last
written with success, which of them still hold that, which slices are begun and
not complete, and which places of the buffers were filled from behind a block.

Left out: a resume on a device named with `-f`, which is not compared at all; the
branch of `find_device` for `must_match_preferred_dev_name`, which no caller
sets; devices of other sizes, which are never compared; the retries inside a
request, and a device that comes back unseen, which are in `RetryLayer`.

### CapacityTest

The device has `real` sectors of the `num_logical_sectors` it claims, and answers
the slices that were written last from a cache. `PlaceSlice` is one pass of the
loop that draws the positions of the slices; a draw is one of a few numbers
(`Draws`), and the position follows by the code's arithmetic. `WriteSlice` and `ReadSlice` are
one pass of the two initial loops, `WriteArea` and `VerifySlice` those of the
bisection. A slice is compared as a whole: `FirstWrong` is the number of sectors
before the first mismatch, which is what the code distinguishes (none, some,
all). Numbers are unsigned and wrap around at `Word`, offsets are negative from
half of it on, and both happen: after each good slice of an area the lower limit
is set behind all four (`mfst.c:814`), and if the next slice is bad the upper
limit is set below it. In the last pass the size is then answered up to 12 MB too
large (`NotTooLarge` allows for it), in an earlier one the difference wraps
around and the test ends in an error (`ProbeEnds`). The size that is answered at the
end of a last pass is `low` as it stands (`mfst.c:824`), while that of a slice that is
bad in part is divided back from its offset in bytes.

A read that fails leaves the file position, and zeroes the *expected* data of
the first slice where it should zero the data read. Whether the comparison then
fails depends on what the buffer held before; both are possible (`Compared`).

Three more things that the model shows and that no property condemns. The last
sector is in no slice, so that a device short of one sector passes. If the
storage ends in the first slice, its size is recorded but -1 returned, and the
size that the device claims is used. Near the end of the device the area no
longer fits (it is always written whole), the write fails, and a fake device
passes for what it claims to be.

Left out: a read that returns 0 bytes, which both of the loops that read
(`mfst.c:629`, `mfst.c:777`) would repeat for ever. `ProbeEnds` says nothing of it.

The program divides by an eighth of the device less what precedes it, so that a
device needs two slices for each eighth (64 MB): `CapacityAssumption`.

### SqlThread

Two processes: `MainThread` is the endurance test reduced to its stores (a
sector's flags, the counter, the round), one at a time, and `SqlThread` the loop
of `sql_thread_main`, of which each call to the database is an action with all
its outcomes: answered, connection lost before or after the server acted, failed
otherwise. `losses`, `errors` and `cut` count them apart: a result that cannot
be fetched (`mysql_stmt_fetch`, `sql.c:373`) is taken for none, whether the
connection was lost (`cut`) or not. `SurvivesLosses` makes an exception of it:
the card has a row, its id stays 0, the insert is refused, and the thread ends
(`RefusedAfterCut`). Every other loss is survived. `StartUpdate` reads the
round, each `BuildMap` one sector, and `Execute` the counter, which is bound by
its address. `merged` is the arithmetic on the nibbles of the map: `Fresh` is
0x6, and 0x09 the flags that are ORed; FAILED_THIS_ROUND goes with FAILED and is
left out, and so are the random order of the slices and the clearing of WRITTEN
where a slice restarts (`mfst.c:2837`). The two stores of `mark_sector_bad` are
unsynchronised and are seen in either order. The time, the rate and the status
of the main thread are data that no property is about. Sleeping 30 seconds is
the time that may pass before the next action.

A database is external, and its client library connects again by itself
(`MYSQL_OPT_RECONNECT`), so that the thread keeps using a connection that was
lost. That a statement is not carried out after its connection was lost is an
assumption on the server, without which an old row could replace a newer one.

When the process ends, what it held is gone (`End`). The thread is not waited for,
so that the last state of a test seldom reaches the database, and between
`cleanup` and the end of the process it may read what has been freed, which is
undefined and not modelled.

## 3. Runs

| run | module | shows |
|---|---|---|
| `endurance` | EnduranceTest | all of the endurance test's properties with two faults in two rounds |
| `retry` | RetryLayer | in-place answers, the flag, no recovery in round 0, `RetryAnswers`, calls end |
| `lockfile` | Lockfile | tests run alone, one late request at most, who may hold the lock, pauses end |
| `state` | SaveState | counts, dates and rounds across crashes |
| `identity` | DeviceIdentity | the device under test is recognised, others are left alone |
| `capacity` | CapacityTest | genuine devices, bounds on the error of the size, the search ends |
| `sql` | SqlThread | one row that fits together and never goes back; lost connections survived, with one exception; bad sectors show up |
| `write_abort` | EnduranceTest | finding, below |
| `reconnect_missed` | RetryLayer | finding |
| `stranger_taken` | DeviceIdentity | finding |
| `state_rejected`, `state_forgets` | SaveState | findings |

Every property of a passing run has a mutant in `PROJECT.json`: a plausible bug
of a mapped definition (a dropped guard, a missing reset, a flag counted twice)
under which TLC finds the property violated. The mutated forms stand in the
modules just before the definition they change, marked *Mutant*.

### Bounds

- **`endurance`**: 5 sectors in 2 slices with blocks of 2 sectors. The slices
  are then of 2 and 3 sectors, and the second has a short last block, so that
  every rounding of the code is met. Two rounds: the code treats round 0
  differently (no recovery of writes), and flags have to outlive a reset of the
  map. Two faults (disconnects, failed or short requests, mangled reads, decay),
  with free follow-on failures of a stale handle: what needs a fault in the
  consequence of another is met. The instance with three faults has 2.4 million
  states, takes over five minutes, and passes as well. Two re-reads of a
  mangled block instead of five: none, one and too many are distinguished. `write_abort` has
  8 sectors, so that each slice has two blocks.
- **`retry`**: 2 retries instead of 5 and 3 unplugs, enough for a disconnect in
  the recovery from a disconnect, in every function of the layer, after a first
  retry has been used up; two calls, so that the second meets the handle the
  first has left.
- **`lockfile`**: three copies, so that two of them can race for what a third
  releases; two requests in each stage: one after the look, one that must look
  again.
- **`state`**: 4 interchangeable sectors (symmetry; no liveness is checked) of
  which 2 may be found bad, half of the device, where the test ends; thresholds
  of 1 and 2 sectors, so that one is crossed alone and both at once; three
  rounds; any number of crashes and restarts.

- **`identity`**: 14 sectors in slices of 3, 3, 3 and 5 sectors, blocks of 3 and
  areas of 2. The middle area, sectors 7 and 8, is the end of a block that begins
  before the middle; the last slice has a block that is cut short; the first area
  ends in the midst of a block. Two rounds, so that an area may hold one round's
  data and the buffer another's; two faults, of which a crash is one. 13 sectors
  to draw for the UUID: one bad sector leaves enough, two do not. With three
  faults the run has 5.5 million states, takes four minutes and passes as well.
  A block is a sector longer than an area, which is as long as `MiddleSeen` allows:
  with 18 sectors and blocks of 4 a block can have the whole of the middle area
  inside, and both properties are violated, see the findings.
- **`capacity`**: 7 slices of 2 sectors on a device that claims 96, instead of 9
  slices of 8192: six regions of 16 sectors, larger than the area of 14, so that
  the gap takes more than one pass; a first sector that is bad is told from a
  later one; 3 of the 7 slices are read back, 4 of 9 in the program. Every real
  size from 0 to 96, caches of none to three slices, one fault. Draws of 0 and
  15 put a slice at the beginning or the end of its region, in every combination.
  Words of 10 bits, so that the product with the sector size wraps around as it
  does in 64.

- **`sql`**: 4 sectors in 2 blocks of 2, so that flags are merged and two blocks
  share what is read at different moments; two of them go bad, half of the
  device; a round and the reset that begins the next, which is where a row can
  mix two rounds; one fault, at any call: the thread keeps no count of faults.

Deadlock is not checked (`CHECK_DEADLOCK FALSE`): all of these programs end, and the
retry layer waits for a device that may never come. That they do not stop
elsewhere is what `RoundFinishes`, `PauseEnds`, `CallEnds` and
`ProbeEnds` say.

### Fairness

- `EnduranceTest`: weak fairness of the main thread's next step. It is an
  ordinary runnable thread; every call it waits for returns (`CallEnds`, or the
  device does not come back and the call is not an answer).
- `RetryLayer`: weak fairness of `Step`, the program's own steps. `Plug` has none:
  nobody owes the program a device, and `CallEnds` allows it to wait for one.
- `Lockfile`: weak fairness of each copy's own steps: a copy is a process of its
  own, a speed test lasts a bounded time, and a copy that has used up the
  requests of the endurance test (the bound) ends. No copy is obliged to be
  killed.
- `CapacityTest`: weak fairness of the next step; nothing else runs meanwhile.
- `SqlThread`: weak fairness of the SQL thread: it is a runnable thread whose sleeps
  end and whose calls return. The main thread may stop anywhere (a pause, a
  device that is gone).
- `SaveState`, `DeviceIdentity`: none. All of their properties are safety properties.

Faults, disconnects and crashes are never fair.

## 4. Findings

Each of these is a disagreement between the code and a sentence of the
repository, and each has a run in which TLC shows it.

1. **`WriteAbortEndsTest`** (`mfst.c:2829`). The caller of
   `endurance_test_write_block` looks only for -1, but the function returns a
   positive `ABORT_REASON_*`, as its comment says. The run has slices of two
   blocks (8 sectors). In the first round the write of sector 0 fails, and the
   seek past it too, on a handle that is stale although the device is attached
   again, so that no disconnect is noticed. The block is given up, both of its
   sectors are marked as written (`mfst.c:2840`), and the slice goes on with its
   second block while the file position is still that of the first.
2. **`NoneTakenInFirstRound`** (`mfst.c:1326`). In the first round the seek that
   starts a slice waits for a device that disconnected, and takes a blank one
   that matches the buffers, which have not been filled; the comment in
   `write_or_retry` (`mfst.c:1572`) says why nothing is to be recovered in that
   round, and the write does not.
3. **`ReconnectResumes`** (`device.c:875`). A device that comes back under
   another number before the udev monitor is enabled is never seen.
4. **`SavedRoundLoads`** (`state.c:717`). A first error in round 0 is stored as 0,
   which `load_state` rejects with the whole file.
5. **`UnusableOutlivesRestart`** (`state.c:850`). The do-not-use flag is packed
   into one bit and unpacked into another, so that a restart forgets it.

Smaller ones are in the models without a run of their own.

- *Endurance test.* A sector that fails at the write is counted again in
  `num_bad_sectors_this_round` by the comparison (`mfst.c:2676` against
  `device_testing_context.h:196`). In the first round a write does not wait for a
  disconnected device, and the sector being written is condemned for good
  (`mfst.c:1632`), where `README.md:120` promises to pause and to resume.
- *Lockfile.* Two exits of the speed test keep the lock
  (`device_speed_test.c:105`), and every other copy pauses until this one ends,
  for reasons that `mfst.c:306` gives otherwise; `LockedForTests` says that it is
  these and no others. The bisection of the capacity test never looks at the
  lockfile (`mfst.c:723` against `README.md:147`; `DisturbsAtMostOnce` leaves it
  aside).
- *Capacity test.* The limits of the bisection may cross (`mfst.c:814` against
  `mfst.c:609`).
- *Identity.* What was written to a block is told to the buffers from the start of
  the block on, so that they take up what lies behind it in memory
  (`mfst.c:2693`). A write that begins before the middle area and ends behind it
  is not seen to affect it (`mfst.c:2507`): the buffer keeps an earlier round's
  data, and if the first area is damaged too the device is not recognised; this
  takes a block of more than an area (`MiddleSeen` says when it cannot happen). A capacity test that fails leaves the
  physical size at 0 and with it the middle of the device (`mfst.c:3349`), so
  that both areas are the first. Candidates in excess of one are to be told
  apart by a preferred name (`device.h:75`), but `are_devices_identical` wants a
  device that is a block device and a character device (`device.c:119`) and is
  never true. The branch for `must_match_preferred_dev_name` (`device.c:544`),
  which has no caller, accepts what does not match. The draw of sectors for the
  UUID never ends if fewer than 4096 are good (`device.c:353`), which a search at
  a resume does not rule out, as it counts no sector as bad yet
  (`mfst.c:3507`). `reset_device` succeeds without a handle if it finds nothing or
  cannot open what it found (`device.c:1107`).
- *SQL thread.* A card whose update loses the connection is taken for one whose
  id was given, and its size is never logged (`sql.c:531` against
  `README.md:133`). A result of the card lookup that cannot be fetched, as the
  connection is lost or for another reason, is taken for none; if the card has a
  row, the insert that follows is refused and ends the thread (`sql.c:373`). An update that fails is reported as done (`sql.c:204`), which
  does no harm: the next one is made 30 seconds later. The map leaves out up to
  9999 sectors at the end of a device (`sql.c:45`).

## 5. Proofs

The safety properties of `EnduranceTest`, `RetryLayer`, `Lockfile`, `SaveState`,
`SqlThread`, `CapacityTest` and `DeviceIdentity` are proved for every value of the
parameters: any device, geometry, number of copies, retries, rounds, crashes and
faults. Two of the theorems are refinements, and they meet: `RetryLayer` implements `RetryAnswers`, from which
`EnduranceTest` takes its answers, and `EnduranceTest` implements
`EnduranceRounds`.

| module | theorem | says |
|---|---|---|
| `EnduranceTestProofs` | `TypeCorrect` | `Spec => []TypeOK` |
| | `ReadInPlace` | `Spec => []ReadsInPlace` |
| | `CountExact` | `Spec => []BadCountMatchesMap` |
| | `BadStaysBad` | `Spec => BadSectorsStayBad` |
| | `UnusableLeftAlone` | `Spec => UnusableNeverWritten` |
| | `Refinement` | `Spec => KeepsPromise` (`EnduranceRounds`) |
| `EnduranceRoundProofs` | `ThresholdsDated` | `Spec => []ThresholdsRecorded` |
| | `WrittenInOneSession` | `Spec => []OneSessionPerSlice` |
| | `AllJudged` | `Spec => []EverySectorJudged` |
| | `ReportAddsUp` | `Spec => []RoundTally` |
| | `TestRunsOut` | `Spec => [][RankGoesDown]_vars`, in a well-founded order |
| `RetryLayerProofs` | `RetryTypeCorrect` | `Spec => []TypeOK` |
| | `InPlace` | `Spec => []AnsweredInPlace` |
| | `RenewalsTold` | `Spec => []RenewalTold` |
| | `FirstRoundKept` | `Spec => []FirstRoundNotRecovered` |
| | `AnswersKept` | `Spec => KeepsAnswers` (`RetryAnswers`) |
| `LockfileProofs` | `LockfileTypeCorrect` | `Spec => []TypeOK` |
| | `MeasuresAlone` | `Spec => []TestsRunAlone` |
| | `HeldForTests` | `Spec => []LockedForTests` |
| | `OneLateRequest` | `Spec => []DisturbsAtMostOnce` |
| | `StatusTrue` | `Spec => []StatusTellsStage` |
| `SaveStateProofs` | `SaveStateTypeCorrect` | `Spec => []TypeOK` |
| | `SavedCountExact` | `Spec => []BadCountMatchesMap` |
| | `OnlyTheRoundLost` | `Spec => RestartLosesOnlyTheRound` |
| | `DatesKeptOverRestarts` | `Spec => []DatesOutliveRestarts` |
| `SqlThreadProofs` | `SqlThreadTypeCorrect` | `Spec => []TypeOK` |
| | `RowConsistent` | `Spec => []RowFitsTogether` |
| | `RowMonotone` | `Spec => RowGoesForward` |
| | `LossesSurvived` | `Spec => []SurvivesLosses` |
| `CapacityTestProofs` | `CapacityTypeCorrect` | `Spec => []TypeOK` |
| | `GenuineAccepted` | `Spec => []GenuineFound` |
| | `FoundNotTooLarge` | `Spec => []NotTooLarge` |
| | `FoundNotMuchTooSmall` | `Spec => []NotMuchTooSmall` |
| `DeviceIdentityProofs` | `IdentityTypeCorrect` | `Spec => []TypeOK` |
| | `OwnFoundByBeginning` | `Spec => [](Telling("bod") => ~BodModMismatch("own"))` |
| | `OwnFound` | `MiddleSeen` gives `Spec => []OwnDeviceFound` |
| | `StrangersRefused` | `MiddleSeen` gives `Spec => []StrangersSpared` |
| | `SmallBlocksSeen`, `EvenSlicesSeen` | which devices and blocks meet `MiddleSeen` |

### Assumptions

Each module assumes of its constants what is named in it. `EnduranceAssumption`
says `NumSectors >= NUM_SLICES`, no slice is empty: a device has 16 slices, and one
with fewer than 16 sectors (8 KB) does not exist. `SaveStateAssumption` says that a
threshold takes at least one sector and not more than all. `SqlThreadAssumption`
has devices, maps and tests that are not empty, `RetryAssumption` at least one
retry, `LockfileAssumption` at least one request. `CapacityAssumption` has regions
of two slices, more slices than the two at the ends, a word that whole sectors
fill, and a device of which every byte has an offset that is not negative; the
draws may be any set of numbers. `IdentityAssumption` has an even number of sectors,
so that the middle falls between two, areas that do not overlap, and a sample of
at least two sectors. Everything else says that
numbers are numbers. A device with fewer sectors than the map of the SQL thread
has blocks is allowed: nothing of it is shown, and the theorems hold. No fairness
is assumed, since liveness is not part of the proofs.

Two theorems about `DeviceIdentity` have a hypothesis on the geometry, `MiddleSeen`:
a block that begins before the middle of the device and ends behind it is at most
a sector longer than an area. The code needs it, as it only looks at the two ends
of what was written (`mfst.c:2507`), and it is tight: with blocks one sector
longer TLC finds both properties violated. Where it holds is proved as well. An area has 1 MB, so
that blocks of up to that size, and a sector more, meet it on any device
(`SmallBlocksSeen`); larger ones, which a device with a large
`max_sectors_per_request` gets (`mfst.c:3318`), meet it if the number of sectors is
a multiple of the 16 slices (`EvenSlicesSeen`). The run has an instance that meets it
with none to spare, and says so (`InstanceAssumption`).

### The arguments

*The endurance test.* `TypeOK` is not inductive: that `block` and `cur` stay in the
device depends on their staying in the slice and in the block, which in turn
depends on where the program is. `TypeInv` is `TypeOK` with `Places`, which says
so by `pc`, and with it the file position: when a block is read, `pos` is `cur`,
and it is the end of the block when the block is compared. `ReadsInPlace` is a
part of it. (Nothing of the kind holds of writes, where a seek that fails
after a reconnect leaves the new handle at position 0.) The geometry
(`SliceGeometry`, `BlockGeometry`: slices and blocks are intervals that touch, the
last ones cut short) is proved once, over integer division, and cited by the
actions. There is one lemma for each action.

`BadInv` adds that the counter is the cardinality of the set of failed sectors,
and that an unusable sector is a failed one. The counter changes in three
places (write, read, compare), each of which adds a set of sectors and counts
those that had not failed before: `CountUnion` is the set-theoretic step,
`CondemnedFound` and `CompareFound` show that it applies. That round data never
goes to an unusable sector rests on the places: a chunk stays in a run of
writable sectors (`WritesWithinRun`). The refinement needs `BadInv` to know that
`total_bad_sectors` reaching half of the device is the abstract `WornOut`, and
that only bad sectors are ever excluded from use.

*A round.* Three more invariants rest on `BadInv`. `DatesInv`: a threshold with a
date has been crossed, and was so no later than any that takes as many sectors;
it is kept because the counter only grows. `SessionInv`: in a pass over the slice
to which nothing has happened that the slice loop acts on (`Clean`), the usable
sectors already passed (`Behind`) have been written in this session or an earlier
one, and all in this one while the handle is good; it fails for a block that is
given up, which is the first finding, so that `Clean` has to name it. `JudgedInv`: what the
phase has passed, which is everything but `Ahead` and `Left`, is marked, and what
has been compared is flagged as failed exactly if it compared unequal. The
slices are a partition of the device (`SlicesCover`), so that at the end of a
phase nothing is left. `TallyInv` follows the counts through the comparison by the
sets `Recovered` and `Condemned`; the count of failed sectors may exceed the second
(see the findings), and the theorem says no more than that none is missing.

*The end of a round.* A failure keeps the code busy in four ways: a slice is
restarted after a reconnect, a block is read again when it is mangled, a failed
sector is skipped, a seek is repeated. What makes them end is written down as a
rank, in falling importance: the sectors still in use (a failure costs one),
`TroubleLeft`, the phases, slices, blocks, re-reads and sectors to go. `TroubleLeft`
is the point of it: a fault counts for six, of which a stale handle keeps five
until it is replaced, and one is left for a restart that is due, so that a
restart, which sets back the blocks, is always paid for by a fault. That a
restart is due only at the end of a block is `RestartDue`. The order of such tuples
is well-founded (`WFLexProductOrdering` of the library). The rank starts at the bounds
on rounds and faults, which are any numbers; retries within a call are the retry
layer's (`CallEnds`).

*The retry layer.* The functions call each other, so that the first thing to prove
is that they do not do so for ever: `StackInv` says which function may be called
by which, from which of its labels (`For`), and gives each a rank that decreases
inwards, so that the stack is at most six deep. On top of it everything is
said of the innermost frame: what holds where it stands (`Settled`) and what it
promises when it returns (`Promise`), as rules for a procedure; from these
follows `AnsweredInPlace`. A pop restores what the caller's label asks for by the
promise alone. What the caller is told needs the whole stack, but it is short as
long as nothing was told: `ToldInv` has the shapes that it may have then (`Quiet`,
`Outer`), `FirstInv` those of a write in the first round (`Early`). `HandleInv`
compares the caller's handle with the one it had at the call, by operation
(`SeekInv`, `WriteInv`). `RetryAnswers` allows the answer of every call by these
three (`Answered`, `AnswerStep`), and `AnswersStep` shows that nothing else is
visible to it. Reconnecting is where these invariants earn their keep: an
operation retried within an operation that is retried.

*The lockfile.* `LockInv`: who tests holds the lock, and who holds it otherwise is
past all tests. `LateInv` counts: a copy that has disturbed a test has done so
once and stands before a look at the lock, which it will find taken as long as
the test runs. `StatusInv` follows the status that a pause sets aside.

*The state file.* `TypeInv` includes `Saves`: the test stands still while it is
saved, so that the file that is renamed is the image of the moment of the call.
`BegunInv` ties a file that loads to the round that was saved last, and
`DatesInv` the dates in memory *and* in the file to the numbers of bad sectors at
the ends of all rounds so far, over the runs of the program, so that both survive
a crash.

*The SQL thread.* `TypeInv` has the two orders of the stores of `mark_sector_bad`:
the counter is one ahead of the map or one behind, or neither. `BuildInv` is what
a reader of changing data may rely on: a bad sector stays bad, so that a block of
the stored map that was bad is found bad again as soon as its sector is passed.
`RowInv` adds that a bad block has a bad sector of its own, so that no more blocks
are bad than sectors (`BlocksCounted`), and that reading starts when all is written
(`PassInv`). `StopInv` follows what is known of the card: without a failure or a
cut-off result, an id of 0 behind a look-up means that the card has no row, so that
its insert is not refused.

*The capacity test.* That the slices lie apart (`SlicesApart`) is built up one
`PlaceSlice` at a time: a slice is drawn behind the one before and within its
region, so that a region of two slices always has room for it (`DrawnInRegion`).
The limits of the bisection may cross and their difference wrap around, so that
nothing can be said of the numbers themselves. But the device is only asked for
the byte at a sector, and that depends on the sector modulo the sectors that fill
the word: its `Place`. Of places the invariants are simple. `LowInv`: the lower
limit is no further behind the storage than the slices of an area that follow
the first (`Excess`). `HighInv`: the upper limit is not before the end of the
storage and, in the last pass, the area reaches it; for the gap is the distance
from `low` to `high` modulo the word, also when they have crossed (`GapCovers`).
The answer is `low` and not its place, so that `LowInv` needs to know that no last
pass is reached with a `low` that has wrapped. `LimitsInv` says so: limits that are
not in order have crossed, and then the gap is a multiple of `WordSectors` less a few
slices (`Short`). An odd multiple has its half off the device, where no area can be
written (`OddGap`); an even one leaves two gaps of the same kind
(`AreaBetweenCrossed`); and none is so small that the pass would be the last
(`CrossedIsWide`).

*The identity of the device.* A place in a buffer is `Kept` if its sector was not
stored (nobody reads it back), or the place was overrun, or it holds round data
and the sector, as long as it is intact, holds the same. `KeptInv` says that of all places
outside the slices that were begun and not completed; within a slice `Passed` says
it of what the pass over it has gone by, so that it holds of all of the slice when
the slice is complete. A turn of the block's loop keeps it because every place that
it fills is for a sector at or behind the one the turn began at (`UpdateFills`),
and because every sector of an area that it has written is filled
(`WrittenIsFilled`), although the number it is told is counted from the start of
the block: this is where `MiddleSeen` is needed, for the middle, and nothing is for
the beginning, hence `OwnFoundByBeginning`. A place that is filled from behind the
block belongs to a later block or slice, and is counted as overrun until it is
filled again. Over restarts `FileInv` says that the file keeps up with the buffers
until a save fails, and that after a crash either it did, or every slice counts as
begun. That there are enough numbers for the rounds of all processes is
`Generations`: a crash costs all rounds of a process at most, if saves have failed.
`OwnDeviceFound` then is a look at one area. For `StrangersSpared` the places in which
a blank device matches are counted: each of them holds no round data, so that it
was overrun, or has a sector of its own that is not stored or in a slice begun
(`EmptyPlacesUnsure`); and no sector of a blank device carries the UUID.

### Model-checked only

- Liveness: `RoundFinishes`, `CallEnds`, `PauseEnds`, `ProbeEnds`, `BadShown`. It rests on
  fairness and is out of the prover's reach. Of `RoundFinishes` the half that is about
  data, that no behaviour goes round for ever, is proved (`TestRunsOut`); that the main
  thread has a step to take until a round is over or the test has ended is left to TLC.
- The findings, whose properties are false.

## 6. Not modelled

- *Speed and block size measurements*: sums and clocks. Their locking is in
  `Lockfile`.
- *A resume on a device named with `-f`* is not compared with anything, and
  `must_match_preferred_dev_name` is set by no caller.
- *State files of version 1*, written by older releases.
- *RNG*: deterministic from a seed; the data of a sector in a round is one value
  in the models.
- *Log, statistics, screen, options, web monitor*: formatting and display. The
  log's lock (`mfst.c:68`) is tested and set in two steps, so that lines of the two
  threads may mix; no state of the test is behind it.
- *Base64, CRC-32C*: pure functions on bytes, taken as correct.
- *What the SQL thread reads after `cleanup`*: undefined.
- *Build files*: generated.

## 7. Plan

What is left, in this order.

1. Reads of 0 bytes in `EnduranceTest`, with the end of the device as a part of
   the model (`mfst.c:2205`).
2. The bisection of the capacity test in `Lockfile`, with a run that shows what it
   disturbs (`mfst.c:723`).
