# Verification of the BTC08 test application

The program (`src/btc08_test`) drives a chain of BTC08 mining chips over SPI from a
shell: it brings the chips up, sends them jobs, collects golden nonces (GN) and
out-of-nonce events (OON), changes frequencies, and starts and stops threads that do so.
This directory holds TLA+ models of its parts, TLC configurations that check them on
small instances, and TLAPS proofs of what matters most about them.

## The system and its parts

Line numbers are those of the files under `src/btc08_test`.

| part | state | operations | what is hard | what makes it correct |
|---|---|---|---|---|
| Endless mining loop, `SimpleWork.c` 699-900 | the ring `handle->work`, `last_queued_id`, vector index, the last READ_JOB_ID answer | `set_work`, GN and OON branches of `TestInfiniteWorkLoop`, `handleGN3` | chips run while the host polls; a nonce is found again by job id alone; failing transfers mostly unnoticed | a nonce is checked with the work it was found for; no job is sent to a full FIFO; the chain never runs dry |
| Other job loops, `SimpleWork.c` 42-642, 919-1132, `SingleCommand.c` 195-527, 1594-1838 | job ids and counters, OONs and nonces counted, FIFO count read from READ_ID | `TestWork`, `TestWorkLoop`, `TestWorkLoop_RandomVector`, `RunJob`, `Run1Job`, `TestAsic`, `handleOON` | each asks other chips, answers differently and knows its end by another counter; lost transfers | a loop that has an end comes to it, when all jobs are done, and with the right verdict |
| Bring-up and register tests, `SimpleWork.c`, `SingleCommand.c` 529-1746, `ScenarioTest.c` 165-388, 585-701, `AutoTest.c` | handle: number of chips, cores of each, ranges; registers of the chips | reset, addressing, last chip, cores, PLL, BIST, interrupts, data, ranges, first jobs; read and compare | the same steps in some twenty orders; results dropped; chips renumbered | the jobs run on the chips, cores and data they are meant for; a passed test means something |
| Nonce distribution, `engine/Btc08.c` 1241-1296 | `startNonce`, `endNonce` of each chip | `DistributionNonce` | integer division, `uint32_t` arithmetic, chips without cores | the ranges partition the nonces |
| Enable Chip Test, `SingleCommand.c` 2134-2457, 2795-3026 | `struct BTC08_INFO` | `start`, `start2`, `enable`, `disable`, `stop`; the worker thread | two threads, a lock taken by some accesses only, one field used as argument by both | no job lost, counted twice or forgotten; stop returns |
| Frequency Test, `SingleCommand.c` 1840-2125, 2688-2793 | `struct BTC08_INFO` | `start`, `freq`, `stop`; the worker | frames of two threads in one buffer; exits of the worker that keep the lock or leave the session open | an OON is never lost between two commands; stop returns; the lock keeps frames apart |
| Mining service, `ScenarioTest.c` 165-583, 703-816 | `SERVICE_INFO` on the heap, `mining_log` | `StartService`, `StopService`, `MonitorLoop`, `WorkLoop`, the menu | three threads, free of what two of them read, conditional joins | no use after free, one miner, an alert stops mining |
| ASIC driver, `engine/Btc08.c` | handle: pins, SPI, `txBuf`/`rxBuf`, chips and cores | one function per SPI command | frames built outside any lock; failing transfers | a command reaches the chip it was meant for |
| SPI, GPIO, `engine/Spi.c`, `engine/GpioControl.c` | file descriptors, locks, `bReset` | transfer; read, write, wait for an edge | the lock covers only the ioctl; reset racing the wait | frames are not mixed; a reset ends the wait |
| Queue, semaphore, `engine/NX_Queue.c`, `engine/NX_Semaphore.c` | ring and counters under a mutex; counter and condition | init, push, pop, peek, count, deinit; pend, post | deinit against waiters; wake-ups | FIFO order and bound; counting semaphore |
| PLL and BIST, `engine/PllCtrl.c`, `engine/Btc08.c` 294-441, 1041-1239 | tables, cores of each chip | frequency to index and back, lock status, BIST | bounds of the table, polling ten times | the setting found is the one asked for |

`main.c` and the menus only read arguments; the test vector tables, `TestFunction.c`, the
temperature conversion and the helpers of `Utils.c` keep no state that outlives a call.
`sha2.c` is third-party code.

How they interact: the menus call the loops or start them as threads; the threads call
the driver, which calls SPI and GPIO. The loops learn of GN and OON by polling two pins
that all chips of the chain share. Shell and worker share `struct BTC08_INFO` (or
`SERVICE_INFO`) and, through it, one handle. There are no tests in the repository;
the documentation is comments and the help texts of the menus.

## Modules

| module | models | kind |
|---|---|---|
| `InfiniteWorkLoop` | `TestInfiniteWorkLoop`, `set_work`, `handleGN3` and the driver calls they make | state machine |
| `InfiniteWorkLoopProofs` | | proofs |
| `DistributionNonce` | `DistributionNonce` | sequential function, one action per loop iteration |
| `EnableChip` | one session of the Enable Chip Test | shell and worker |
| `EnableChipProofs` | | proofs |
| `MiningService` | the menu, monitor and worker of `ScenarioTest.c` | menu, and two threads per service |
| `MiningServiceProofs` | | proofs, also those about `DistributionNonce` |
| `Bringup` | what every test does before its loop, and the tests that are no more than that | lists of driver commands, one action per command |
| `BringupProofs`, `BringupJobsProofs` | | proofs |
| `JobLoops` | the loops after the first jobs, except the ones above | host and chips |
| `JobLoopsProofs` | | proofs |
| `FrequencyTest` | shell and worker of the Frequency Test, driver commands in three steps | shell, worker, chips |
| `FrequencyTestProofs` | | proofs |
| `BoundedFifo` | what a queue shared by threads promises | abstract specification |
| `NXQueue` | `NX_Queue.c` | threads and a mutex; implements `BoundedFifo` |
| `NXQueueProofs` | | proofs |
| `MC...` | | instances for TLC |

### InfiniteWorkLoop

Variables carry the names of the code: `work`, `last_queued_id`, `index`, `res`, `isErr`.
`pc` is the place in the loop. `SetWork` is one call of `set_work` with the index
arithmetic of its caller; `ReadJobId` and `HandleGN` are the GN branch (broadcast
READ_JOB_ID, then READ_HASH and READ_RESULT and the submission); `CheckOON` is the OON
branch. A work is the index of its test vector, and `submit_nonce` succeeds exactly when
the work found in the ring has the midstate, data and target the chip hashed with.

The chips are external. What the code relies on, and the model assumes of them:
- the FIFO status is the same for all chips (`SimpleWork.c` 164), so there is one FIFO;
- a job latches the registers written before its RUN_JOB; RUN_JOB to a full FIFO is ignored;
- an OON comes for at least two exhausted jobs (`OonPeriod`): the loop queues two jobs
  for each (`SimpleWork.c` 727, 883; the hash rate counts two works per OON, 872);
- a result waits for the host during at most `GnSlack` jobs. A job takes seconds
  (`SimpleWork.c` 731-732) and a poll less than a millisecond; the model is looser (three jobs). With
  FIFO depth four and seven ring slots, three is the largest slack that is safe, and
  `WorkLoopAssumption` states it as `FifoDepth + GnSlack <= RingSize`.

Commands fail as `Unreliable` says. RUN_JOB, READ_HASH and READ_RESULT may fail in the run
and in the theorems. WRITE_PARAM, WRITE_TARGET, READ_JOB_ID and CLEAR_OON are modelled with
their failures too, but with them the properties do not hold, since the code drops their
results; the hazards list says what then happens.

### DistributionNonce

The first loop is `Count`, the division `Divide`, the second loop `Split`, the
statements after it `Rest`. Arithmetic wraps at `Modulus`. `before` is a history
variable: the cores counted before each chip. A division by zero has both outcomes
a build has. `fault_chip_id` makes the function skip the first chip, whichever the
faulty one is, and the model does the same. Its specification is called `NonceSpec`, so that one
module of proofs can be about it and about the service.

### EnableChip

Shell and worker each have a `pc`. `SetBTC08_INFO` is a sequence of steps (`SetCheck`,
`SetFlags`, `SetRun`) that both threads run, because the shell runs it without the lock and
it reads `chipId` again in every statement. A section that runs under the lock is one
action unless the shell's `enable`, which takes no lock, can get in between in a way that
matters: the OON branch is two actions (`HandleOON`, `RunNextJob`) for that reason. Tests
made before the lock (`CheckGN`, `CheckOON`, `Scan`) are actions of their own.
`InitBTC08_INFO` is the reset of the chips and the clearing of the flags, between which
commands may come.

Left out: a second session over a running one, READ_JOB_ID failing (its stale answer
is that of another chip), job ids (only logged here), chips beyond the chain, `numGN`
and `numOON` apart (only their sum is used).

### MiningService

A service is a number; `started` and `freed` are the heap. `StartService` is two actions
(the monitor runs before the worker is created), `StopService` is `StopWorker`,
`JoinWorker`, `StopMonitor`, `JoinMonitor`, `FreeService`, with the conditions of the code.
A pass of `MonitorLoop` is `MonitorCheck` and `MonitorSleep`, the report after the alert `MonitorReport`;
`WorkLoop` is `WorkerInit`, `WorkerLoop`, `WorkerBody`, `WorkerExit` and the two halves of
the label `failure`. A freed `SERVICE_INFO` may read as anything (`Reads`), and its use is
recorded in `misuse`. The log file is assumed to open: a failing `fopen` (`ScenarioTest.c` 724)
is ignored by the menu, and the first report then writes through a null pointer. What a pass does with jobs is the subject of `InfiniteWorkLoop`.

### Bringup

The tests of the four menus, of the options of `main` and of `AutoTest.c` send much the
same commands in different orders. Each function of the source is an operator of the same name
that gives the list of its commands (`Programs`), with the address, the arguments, the
number of chips a loop needs to reach the step (`need`) and whether the caller looks at
the result (`must`). The actions are the commands: what a chip does with a write is
`Effect`, and `AutoAddress`, `SetPllConfigByIdx`, `ReadBistStep`, `DistributionNonce`,
`GetBoardType`, `CheckCores`, `CheckNumChips`, `CheckId` and `ReadAndCompare` are what the
driver and the tests do with answers. `Again` is the next round of a loop of `AutoTest.c`, or
the next command typed in the menu, on the same handle.

A chip is a record of its registers; chip 1 is the one farthest from the host, and a chip
with LAST_CHIP cuts off those behind it (`Reach`). BIST finds the cores that work and are
not disabled, if parameters, target and nonce are the golden ones (`BistFinds`). `dist` says which
range `DistributionNonce` divided; the arithmetic has its own module. A lost command
leaves everything as it is, and the code goes on in most places.

What the properties leave out, because the code does not do it:
- `TestXCore` writes a nonce range to chip 1 only (`SingleCommand.c` 444), and `TestAsic` with a
  last chip above 1 leaves chips without an OON interrupt (1706);
- the broadcast SET_CONTROL after BIST takes LAST_CHIP back, so `TestWork` and `TestWorkLoop`
  with a last chip above 1 mine with chips that have no address;
- `TestDisableCore` with a fault chip above 1 renumbers the chips after READ_BIST (729);
- a lost SET_DISABLE goes unnoticed on a chip with broken cores, and the sum of cores in
  the Frequency Test lets one chip make up for another; a chip whose PLL was left off never
  ends BIST and shows any count;
- `TestWRTarget` and `TestWRDisable` drop the result of the read (1000, 1112), so with a lost read they
  may pass a broken chip: `VerdictSound` asks them only when nothing was lost;
- a BIST that was polled ten times and still runs leaves a count that is too low. The model has it (fault
  `late`), and the nonces are distributed by it, but of the properties about counts only `CoresMatch` speaks
  of such runs: it says whose count it is, not that it is the true one.

Left out of the inputs: a last chip 0. The menu takes it for `TestWork` (`1 0`, `SimpleWork.c` 1160) and
`main` for `TestAsic` (`-L 0`, `main.c` 181), though ids start at 1. SET_CONTROL with
LAST_CHIP is then a broadcast, and the board is down to the chip nearest to the host. `TestWorkLoop` tests
for 0 and its call is modelled.

Undefined beyond three chips: `TestWRDisable` takes the cores to disable from entry `chipId - 1` of an
array of three (1080, 1103, 1113). On a longer board the program may end there, or write and compare whatever lies
behind the array. The model takes the outcome in which the write and the comparison of a chip find
the same value, with `disable_some` for it. The run has boards of one to three chips, where all is
defined; the theorems are about boards of any length, and for this one test on more than three chips they hold
only of that outcome.

### JobLoops

Seven loops in one state machine: `test` says which, and what differs is an operator each:
`ScansGN` and `Asked` whom READ_JOB_ID asks, `Answer` what is sent for an OON, `AfterOON` and
`EndOfPass` how the end is known, `Succeeds` the verdict, `FirstJobs` what is queued first.
`CheckFifo` is `handleOON` of `SimpleWork.c`, which asks chip 1 for its FIFO; the `handleOON` of
`SingleCommand.c` clears without asking. `res` keeps its value over a lost READ_JOB_ID,
as in the code. `lost` is the one command of which transfers get lost in a behaviour.

Assumed of the chips: an OON flag per chip with the id of the job it ended last; a broadcast
READ_JOB_ID is answered by a chip that has set the pin; a loop that counts OONs sees one before
the chip ends its next job (seconds against milliseconds), unless it leaves it; and, for
`TestWork` and `TestWorkLoop` only, the order of the comment "OON occures on chip#1 > chip#2 >
chip#3".

Seen while modelling, and left out of the properties: `TestWorkLoop` and `Run1Job` print "Test
Succeed" although a nonce did not match (`SimpleWork.c` 636, `SingleCommand.c` 523); `RunJob`
may print "Test Failed" on a healthy board, as OONs that fall together count once (337, 407);
`TestAsic` waits for ever when its READ_JOB_ID was lost (1797); the endless loops send jobs to
full FIFOs; a `TestWorkLoop` that lost two CLEAR_OONs with a FIFO of two has sent a job to a full
FIFO and ends by the id of a job that the chips did not do (`AllDone` leaves out runs
with such a job: the attempt to prove it without found the case, which needs more ids
than the run has); with 0 or more than 255 works `TestWorkLoop` never ends.

### FrequencyTest

A driver command is `Fill` (the frame is written to `txBuf`), `Transfer` (under the lock of
`Spi.c`, so one step) and the action of its caller, which collects the answer from `rxBuf`
(`Collect`). Shell and worker each go through these phases, so that their commands can mix where the lock of
`BTC08_INFO` does not keep them apart. A frame sent or collected by the wrong thread is recorded in
`stolen`. The start-up is one step (`Bringup`, `BringupFailed`); the list of its commands is in
module `Bringup`. PLL output and RESETB are switched together. `Golden` are the chips that find nonces.
A command on a destroyed handle is a crash, and so is the join of a thread that was never created.

The user waits for the end of the start-up before a `freq`, and types no more of them once
frames were mixed: what follows has no property left to state.

### NXQueue and BoundedFifo

The critical section of push and pop is two steps, the ring (`Ring`) and the count (`Count`),
because `NX_GetQueueCnt` reads the count without the lock; `NX_DeinitQueue` is `Disable`, `Destroy`
and `Clear`, the last two outside it. A thread that finds the mutex destroyed goes on
without it. `BoundedFifo` has a call, one step at which it takes effect, and a reply. The
refinement maps the ring to the sequence of its elements from `head` on, from one slot earlier
while a pop has moved `head` and not yet counted, and a call takes effect with its last access
to the ring. Closing takes effect when `bEnabled` is cleared; the elements are gone when the structure
is. That a push waiting for the lock while the structure is cleared under it can still not divide
by `maxElement` 0 is part of what the refinement shows.

## Runs

| run | instance | shows |
|---|---|---|
| `infinite_work_loop` | 2 chips, 7 vectors, FIFO 4, ring 7, slack 3, OON every 2 jobs, 1 failing step | types; `NonceBelongsToWork`; `NoWorkDropped`; `KeepsMining` |
| `distribution_nonce` | up to 3 chips, 3 cores each, 12 nonces | types; `Partition` |
| `enable_chip` | 2 chips, FIFO 4, 2 exhausted jobs, `MaxEnables` 2 | types; `CountedOnce`; `NotStarved`; `NoJobLost` |
| `enable_chip_stop` | 2 chips, 1 exhausted job, 1 failing call | `StopReturns` |
| `enable_chip_command` | 2 chips | violates `EnableHolds` |
| `mining_service` | 2 services, 1 failing call | types; `FreeAfterJoin`; `OneMiner`; `LogOpen`; `HotStops`; `StopReturns` |
| `bringup` | every test, boards of 1 to 3 chips with 2 cores, one of them weak or broken, 1 lost transfer or late BIST, 2 rounds | types; `JobsReady`; `SharesPartition`; `CoresMatch`; `NoCrash`; `VerdictSound`; `CheckedCores` |
| `bringup_range` | up to 2 chips, no faults | violates `ShortRange` |
| `job_loops` | 7 loops, 2 chips, FIFO 2, 5 job ids, 1 or 4 works, 2 lost transfers of one command | types; `NoJobDropped`; `AllDone`; `VerdictSound`; `Ends`; `KeepsMining` |
| `frequency_test` | 2 chips, FIFO 2, 1 lost READ_RESULT | types; `NoJobDropped`; `LockKeepsBuffers`; `KeepsMining`; `StopReturns` |
| `frequency_freq` | the same without faults | violates `FreqSet` |
| `nxqueue` | 2 threads, 3 elements, rings of 0, 1, 3 slots and one too large | types; `ImplementsFifo`; `LockReleased` |

Why the bounds are enough. FIFO, ring and vector count of the mining loop are those of the
source; two chips let two results wait at once, one failing step puts ring and vector
index out of step for good. The nonce run contains every combination of shares that
divide evenly or not, chips without cores, the faulty chip and a range that ends at the
last nonce; the theorem covers the rest. Two chips in `EnableChip` are a chip the shell
works on and one the worker works on, `MaxEnables` 2 lets a chip be enabled again with
jobs left and a third time with its FIFO full, two exhausted jobs make two OONs fall
together. Two services are the fewest where a new one meets the threads of an old one.
Three chips in `Bringup` have a first, a middle and a last one, so that chips are cut off
and renumbered twice; two cores tell a disabled core from a broken one; one fault at each
command in turn meets every dropped result. In `JobLoops` four works with a FIFO of two fill it and go
on after it, ids of five values wrap, and two lost commands are as many as a FIFO has places.
In `FrequencyTest` an OON of a chip that is not the last, and the broadcast that clears it, need two chips. Three slots let a
ring wrap with a free one left, two threads are enough for each pair of calls to meet.

The violations.
- `EnableHolds`: the help says that `enable` enables a chip (`SingleCommand.c` 88). Typed while
  the worker is still initialising (seconds after `start`, BIST included), it overwrites the
  chip id of `start`, or its flags are cleared by the rest of the initialisation. The other
  properties of `EnableChip` therefore leave such sessions out (`overlap`).
- `FreqSet`: the help says that `freq` sets the PLL frequency (75). The worker asks for an OON without
  the lock (2056) and overwrites a PLL frame of the shell between filling and transfer: the
  command comes back, and a chip has no clock or the old frequency. The other properties of `FrequencyTest`
  leave such sessions out (`stolen`).
- `ShortRange`: with option `n 0` and the same range for all chips the Frequency Test writes the
  start of the full range and the end of the short one (1991), although its log, two lines
  before, and `main.c` 119 say short range.

`CHECK_DEADLOCK FALSE` is set where the program ends: after the function returns, after
`stop`, after a crash.

## Fairness

The host thread of the mining loop never blocks, so `Host` is weakly fair; a chain with a
job goes on hashing (`Exhaust`, weak); a broadcast READ_JOB_ID is answered by some chip with
a result, and no chip is passed over for ever (strong, per chip). `EnableChip` and
`MiningService` ask for weak fairness of the threads, which are scheduled by the kernel. The
shell's `SetIsDone` needs the lock, which the worker takes and gives back again and
again: strong fairness, justified by the `sched_yield` in every pass (`SingleCommand.c` 2442).
`FrequencyTest` asks for weak fairness of shell, worker and chips and for strong
fairness of taking the lock, on the same ground; `JobLoops` for weak fairness of the host and of each chip's jobs;
`NXQueue` only for threads inside a call, and for none that wait for the mutex. `Bringup` has safety
properties only.
Commands of the user, exhausted jobs of `EnableChip`, nonces and alerts have no fairness.

## What is proved

All proofs are by `tlapm`, for all values of the constants that the modules' named
assumptions allow.

`InfiniteWorkLoopProofs`
- `TypeCorrect`: `Spec => []TypeOK`.
- `NonceCorrect`: `Spec => []NonceBelongsToWork`, provided that only RUN_JOB, READ_HASH and
  READ_RESULT fail. `NonceBelongsToWork` says nothing of jobs still queued, so it is not
  inductive. The invariant adds that the jobs in the FIFO were given the slots just
  before `last_queued_id`, in order (n - p works were queued after the job at position p of a FIFO
  of length n), that each job's work is in its slot with the registers it latched, and that
  a waiting result is at most FIFO length plus age slots back. As no result is older than
  `GnSlack`, and FIFO and slack together fit the ring, the slot filled next belongs to
  neither a queued job nor a waiting result.
- `NoDrop`: `Spec => NoWorkDropped`, under the same condition. The invariant is an account
  of the FIFO: jobs queued, works the host is about to queue, jobs exhausted since the
  last OON and two for an OON not served yet never exceed the FIFO depth.

`MiningServiceProofs`
- `TypeCorrect`: `Spec => []TypeOK`.
- `FreeCorrect`: `Spec => []FreeAfterJoin`. Whether `StopService` joins a thread depends on the
  exit flag it finds, so the invariant says who may have set the flags (`Flags`): the
  one of the worker is set by a thread of the service itself (`selfExit`), by the `StopService`
  in progress, or by one that has freed the service; the one of the monitor only by the
  last two. `Joined` then says what `StopService` has waited for at each of its steps.
- `OneMinerCorrect` and `LogCorrect`: `Spec => []OneMiner` and `Spec => []LogOpen`. In an orderly
  run `selfExit` is empty, so both joins are made, and only the service the menu points
  to has running threads (`OneService`).
- `NonceTypeCorrect`: `NonceSpec => []NonceTypeOK`.
- `PartitionCorrect`: `NonceSpec => []Partition`. The invariant says how far the second loop has come:
  the chips before `ii` partition the nonces from `start` to just before `startNonce`, and
  `startNonce` is `start` plus one per chip plus `noncePerCore` per core counted in
  `before`. `LastHasRoom` makes sure no sum wraps.

`NXQueueProofs`
- `TypeCorrect`: `Spec => []TypeOK`. That the count stays under the capacity needs the rest of
  the invariant: a thread between the test and the count has the mutex, which is a working one
  as long as the queue is enabled, and is the only such thread (`Exclusion`); it still has the room or
  the element it was tested for; and `tail` is one past the elements, counting the one that
  is stored and not yet counted (`RingFits`).
- `FifoImplemented`: `Spec => ImplementsFifo`. Each action is one of `BoundedFifo` or changes none of
  its variables. What it rests on is about segments of a ring read as sequences: a slot at the
  end appends, the first slot is the head and the rest the tail, and going once round the ring
  changes nothing.

`EnableChipProofs`
- `TypeCorrect`: `Spec => []TypeOK`. A chip that is enabled, scanned or not marked done was
  enabled by somebody (`EnabledKnown`).
- `NothingCountedTwice`: `Spec => []CountedOnce`. The chips whose OON flag is set are jobs that
  were exhausted and are not counted yet, so they are added to `counted` (`Counts`). A count
  by `HandleGN` is paid by a chip that was not marked done, an `enable` that takes the mark
  back by one more repeated enable.
- `NoChipIsForgotten`: `Spec => []NotStarved`. That a chip comes to be enabled only with jobs
  on their way rests on `InTurn`: while the worker starts its chips, `chipId` and `i` move together
  and the chips beyond are not enabled.
- `JobsFitTheFifo`: `Spec => NoJobLost`, an action property. The jobs of a chip, those a thread
  is about to send and the OONs without an answer are at most two for every enable (`Account`),
  and a step that sends a job takes it from the second or third of these.

`FrequencyTestProofs`
- `TypeCorrect`: `Spec => []TypeOK`. A frame for one chip is always for a chip of the chain, even if the
  other thread wrote it.
- `BuffersKept`: `Spec => []LockKeepsBuffers`. Outside a command a thread has nothing half done
  (`InStep`), and the commands under the lock are where the lock is held (`LockHeld`).
- `NoJobIsDropped`: `Spec => []NoJobDropped`. The loop asks the last chip only and answers with a broadcast.
  From the flag over the answer of READ_JOB_ID to the RUN_JOB a place in the FIFO of the last chip is
  free (`Owed`), a second one if the flag was set again after the CLEAR_OON (`Cleared`), and no chip has more jobs
  than the last one (`InOrder`).

`JobLoopsProofs`
- `TypeCorrect`: `Spec => []TypeOK`.
- `NoJobIsDropped`: `Spec => []NoJobDropped`. `TestWorkLoop` keeps one job per chip: jobs of the last
  chip, an OON that is due and a RUN_JOB to send are at most one more than the commands lost
  (`Account`). A lost CLEAR_OON makes it answer the same OON twice, a lost RUN_JOB only takes a job away.
- `EveryChipIsDone`: `Spec => []AllDone`. What the host knows of OONs is so, even from an answer
  that is old (`Ended`, `Asks`); chips were given the same jobs (`Together`); the k-th job
  has id k while ids do not wrap (`Numbered`); when the loop ends the last chip has done all of
  its jobs (`AtEnd`), and the others, which run dry before it, too.
- `SuccessIsEarned`: `Spec => []VerdictSound`. `RunJob` compares one counter with chips times works. The
  nonces it has read are pairs of a chip and a number up to `FifoDepth` (`AllRead`), the counter is the
  cardinality of that set (`Verdict`), and a set of as many pairs as there are is all of them.

`BringupProofs`
- `TypeCorrect`: `Spec => []TypeOK`.
- `ProgramFacts`: of every test that can be asked for, as a list of commands and without a state: it ends;
  it reads the cores of every address after its last numbering and before it uses them (`CountedAt`),
  but for `TestDisableCore` with a fault chip above 1, which renumbers in between (SingleCommand.c:729);
  `DistributionNonce` divides by counts read after a BIST on golden data (`FoundAt`); a register
  test compares every chip.
- `CountsAreCurrent`: `Spec => []CoresMatch`. A count in the handle is of the chip that has the address now,
  whatever transfer fails and whatever chip is cut off: a numbering reaches all chips or none, and
  addresses count from the first chip that the clock reaches (`NumInv`, `CountInv`).
- `VerdictIsSound`: `Spec => []VerdictSound` (for `TestWRDisable` on more than three chips see the end of
  section Bringup). A broken chip has its comparison still ahead as long as the test
  has not failed (`Judged`); a register test cuts off no chip (`NoLast`), so its numbering
  reaches them all.
- `NoDivisionByZero`: `Spec => []NoCrash`. Without a fault BIST has run on the golden data of every chip (`Filled`,
  `BistInv`), all of them have a clock (`Lit`), so a count of zero is that of a chip without a working core.

`BringupJobsProofs`
- `JobsAreReady`: `Spec => []JobsReady`; `SharesArePartition`: `Spec => []SharesPartition`;
  `CoresAreChecked`: `Spec => []CheckedCores`. What a chip holds when a test starts to mine was written by
  commands far apart, so the invariant is the account of them all. A fact (`Fact`, `Holds`) is about the
  handle or about one register of the chips at an address; `Gains` and `Keeps` say which facts a command
  makes true and which it leaves true, from the command alone; a program is annotated with the facts
  that follow (`Knows`). `KnowInv` is that the facts known at `pc` are true, and it is preserved by one lemma
  per kind of fact (`WholeStep`, `NumberedStep`, `ChipGained`, ...). Facts about registers are trusted only
  as long as nothing was lost; the numbering, the chain and the counts also after a loss (`Robust`), which is
  what `CheckedCores` needs. The other half has no state: each test that mines is annotated piece by piece
  (`Start`, `SetPll`, `RunBist`, `Shares`, `RunJob`, `CutFaultChips`, ...: one lemma `...Goes` each), and the facts
  at its END are what the property asks for (`Promised`, `MinesPromised`). The rounds of AutoTest.c start
  over with a reset, which needs no fact.

The lists of `Bringup` are functions of the position (`Rounds` and its like), not folds, so what stands at
a place is known without induction. Where a proof needs the last or the least of a set of positions it
takes the least element of a set of numbers, which the library proves of Nat.

For each of these the invariant was first checked by TLC on the instance of the run, conjunct by
conjunct.

Only model-checked:
- liveness (`KeepsMining`, `HotStops`, `StopReturns`, `Ends`, `LockReleased`), which TLAPS cannot prove.

Every safety property of a passing run is also proved, for every value of the constants.

## Plan

1. Done: `InfiniteWorkLoop`, `DistributionNonce`, `EnableChip`, `MiningService`, with the proofs above.
2. Done: `Bringup`, `JobLoops`, `FrequencyTest`, `NXQueue` implementing `BoundedFifo`.
3. Done: `NXQueue` proved to implement `BoundedFifo`; the invariants of `EnableChip`, `FrequencyTest` and
   `JobLoops` proved; the types and all safety properties of `Bringup` proved.
4. Not yet decided: a second session over a running one (`start2`).

## Not modelled, and why

- `GpioControl.c` and `NX_Semaphore.c`: the application reads and writes pins, which the loops
  model as flags; it calls neither the semaphore nor the waiting for an edge.
- A second session over a running one (`start2`): two workers on one chain; every
  property of a session would have to leave it out.
- Parsing of options, vectors and commands, printing, logging, the reads that are only printed.
- `sha2.c`, `TestFunction.c`, the hash-rate and temperature arithmetic: data without interaction, in floating
  point for the most part.
- The kernel's SPI and GPIO. What goes wrong on the wire other than a failing transfer: the
  protocol of the chips has no sequence numbers, and the code no check.
- A last chip 0 for `TestWork` and `TestAsic`, and what `TestWRDisable` reads beyond its array on more than
  three chips: see section Bringup.
- A log file that cannot be opened: see section MiningService.
- What the hazards of `PROJECT.json` list with a note.
