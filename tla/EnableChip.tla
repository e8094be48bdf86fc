------------------------------ MODULE EnableChip ------------------------------
(***************************************************************************)
(* One session of the "Enable Chip Test" of SingleCommand.c: the shell of   *)
(* SingleCommandLoop_EnableChip and the thread TestWorkLoop_EnableChip it   *)
(* creates, from start or start2 to stop.  They share struct BTC08_INFO.    *)
(* The worker takes its lock for the work on one chip, the shell for        *)
(* disable and stop, but not for enable; and the worker tests chip_enable,  *)
(* isDone and the interrupt pins without it.                                *)
(*                                                                          *)
(* A job is one unit: its id is only logged here.  numGN and numOON are     *)
(* reported by their sum, counted, which calc_hashrate turns into a hash    *)
(* rate.  Each chip has its own FIFO and flags, and is external.            *)
(***************************************************************************)
EXTENDS Integers, FiniteSets

CONSTANTS
  NumChips,     \* handle->numChips
  FifoDepth,    \* MAX_JOB_FIFO_NUM
  Unreliable,   \* SPI commands whose transfer may fail
  MaxFaults,    \* bound on worker and shell steps with a failed transfer
  MaxExhausted, \* bound on the jobs the chips exhaust
  MaxEnables    \* bound on the chips enabled before the last enable command

Chips    == 1 .. NumChips
Threads  == {"shell", "worker"}
Commands == {"INIT", "READ_RESULT", "CLEAR_OON", "RUN_JOB"}

ASSUME EnableChipAssumption ==
  /\ NumChips \in Nat \ {0}
  /\ FifoDepth \in Nat \ {0}
  /\ Unreliable \subseteq Commands
  /\ MaxFaults \in Nat /\ MaxExhausted \in Nat /\ MaxEnables \in Nat

VARIABLES
  pc,            \* where each thread is
  i,             \* the worker's loop counter
  delayed,       \* the session was started by start2
  chipId,        \* btc08_info->chipId, argument of SetBTC08_INFO
  chip_enable, chip_isdone, isDone, counted,
  lock,          \* holder of btc08_info->lock
  jobs,          \* jobs in the FIFO of each chip, the running one included
  gn, oon,       \* interrupt flags of each chip
  faults,        \* steps with a failed transfer so far
  exhausted,     \* history: jobs the chips exhausted
  enables,       \* history: times SetBTC08_INFO took each chip
  overlap,       \* history: enable was typed before the worker reached its loop
  wanted         \* history: chips the user started or enabled, and did not disable

info    == <<delayed, chipId, chip_enable, chip_isdone, isDone, counted, lock>>
chain   == <<jobs, gn, oon, exhausted>>
history == <<enables, overlap, wanted>>
vars    == <<pc, i, info, chain, faults, history>>

Init ==
  /\ pc = [t \in Threads |-> "IDLE"]
  /\ i = 0
  /\ delayed = FALSE
  /\ chipId \in Chips
  /\ chip_enable = [c \in Chips |-> FALSE]
  /\ chip_isdone = [c \in Chips |-> FALSE]
  /\ isDone = FALSE
  /\ counted = 0
  /\ lock = "none"
  /\ jobs = [c \in Chips |-> 0]
  /\ gn = [c \in Chips |-> FALSE]
  /\ oon = [c \in Chips |-> FALSE]
  /\ faults = 0 /\ exhausted = 0
  /\ enables = [c \in Chips |-> 0]
  /\ overlap = FALSE
  /\ wanted = {}

Goto(t, label) == pc' = [pc EXCEPT ![t] = label]

Outcome(cmd) == IF cmd \in Unreliable /\ faults < MaxFaults THEN BOOLEAN ELSE {TRUE}

CountFault(failed) == faults' = IF failed THEN faults + 1 ELSE faults

\* The times a chip was enabled, from the k-th on.
EnablesFrom(k) == UNION { {c} \X (k .. enables[c]) : c \in Chips }

-----------------------------------------------------------------------------
(* The chips.                                                               *)

Exhaust(c) ==
  /\ jobs[c] > 0 /\ exhausted < MaxExhausted
  /\ jobs' = [jobs EXCEPT ![c] = jobs[c] - 1]
  /\ oon' = [oon EXCEPT ![c] = TRUE]
  /\ exhausted' = exhausted + 1
  /\ UNCHANGED <<pc, i, info, gn, faults, history>>

FindNonce(c) ==
  /\ jobs[c] > 0 /\ ~gn[c]
  /\ gn' = [gn EXCEPT ![c] = TRUE]
  /\ UNCHANGED <<pc, i, info, jobs, oon, exhausted, faults, history>>

\* A chip with a full FIFO ignores the job.
Queue(c, n) == jobs' = [jobs EXCEPT ![c] = IF jobs[c] + n > FifoDepth THEN FifoDepth ELSE jobs[c] + n]

-----------------------------------------------------------------------------
(* SetBTC08_INFO, called by the worker with the lock and by the shell       *)
(* without it.  It reads btc08_info->chipId again in every statement.       *)

\* "already used" makes the worker give up, the shell goes on.
SetCheck(t) ==
  /\ pc[t] = "SET"
  /\ IF chip_enable[chipId]
       THEN IF t = "worker"
              THEN Goto(t, "END") /\ lock' = "none"
              ELSE Goto(t, "CMD") /\ lock' = lock
       ELSE Goto(t, "FLAGS") /\ lock' = lock
  /\ UNCHANGED <<i, delayed, chipId, chip_enable, chip_isdone, isDone, counted,
                 chain, faults, history>>

SetFlags(t) ==
  /\ pc[t] = "FLAGS"
  /\ chip_enable' = [chip_enable EXCEPT ![chipId] = TRUE]
  /\ chip_isdone' = [chip_isdone EXCEPT ![chipId] = FALSE]
  /\ enables' = [enables EXCEPT ![chipId] = enables[chipId] + 1]
  /\ Goto(t, "RUN1")
  /\ UNCHANGED <<i, delayed, chipId, isDone, counted, lock, chain, faults, overlap, wanted>>

\* Where a caller goes on: the worker takes the next chip under start2.
AfterSet(t) ==
  IF t = "shell" THEN "CMD"
  ELSE IF delayed /\ i + 1 < NumChips THEN "NEXT_CHIP" ELSE "LOOP"

\* The two RUN_JOBs.  The worker destroys the handle when it ends: a shell that
\* is still here then writes through a dangling pointer, and either crashes or
\* reaches no chip.
SetRun(t) ==
  /\ pc[t] \in {"RUN1", "RUN2"}
  /\ \E ok \in Outcome("RUN_JOB") :
       /\ IF ok /\ pc["worker"] # "END" THEN Queue(chipId, 1) ELSE jobs' = jobs
       /\ CountFault(~ok)
  /\ IF pc[t] = "RUN1" THEN Goto(t, "RUN2")
     ELSE \/ Goto(t, AfterSet(t))
          \/ t = "shell" /\ pc["worker"] = "END" /\ Goto(t, "CRASHED")
  /\ lock' = IF t = "worker" /\ pc'[t] = "LOOP" THEN "none" ELSE lock
  /\ UNCHANGED <<i, delayed, chipId, chip_enable, chip_isdone, isDone, counted,
                 gn, oon, exhausted, history>>

-----------------------------------------------------------------------------
(* The shell.                                                               *)

\* start <chipId>; with a session running it answers "already started".
Start(c) ==
  /\ pc["shell"] = "IDLE"
  /\ chipId' = c
  /\ wanted' = {c}
  /\ pc' = [shell |-> "CMD", worker |-> "INIT"]
  /\ UNCHANGED <<i, delayed, chip_enable, chip_isdone, isDone, counted, lock,
                 chain, faults, enables, overlap>>

\* start2 <delay>: every chip of the chain in turn.
Start2 ==
  /\ pc["shell"] = "IDLE"
  /\ delayed' = TRUE
  /\ wanted' = Chips
  /\ pc' = [shell |-> "CMD", worker |-> "INIT"]
  /\ UNCHANGED <<i, chipId, chip_enable, chip_isdone, isDone, counted, lock,
                 chain, faults, enables, overlap>>

WorkerStarting == pc["worker"] \in {"INIT", "INIT_FLAGS", "LOCK", "NEXT_CHIP",
                                    "SET", "FLAGS", "RUN1", "RUN2"}

\* enable <chipId>, without the lock.
Enable(c) ==
  /\ pc["shell"] = "CMD"
  /\ Cardinality(EnablesFrom(1)) < MaxEnables
  /\ chipId' = c
  /\ overlap' = (overlap \/ WorkerStarting)
  /\ wanted' = wanted \cup {c}
  /\ Goto("shell", "SET")
  /\ UNCHANGED <<i, delayed, chip_enable, chip_isdone, isDone, counted, lock,
                 chain, faults, enables>>

\* disable <chipId>: the jobs the chip has stay in its FIFO.
Disable(c) ==
  /\ pc["shell"] = "CMD" /\ lock = "none"
  /\ chip_enable[c]
  /\ chip_enable' = [chip_enable EXCEPT ![c] = FALSE]
  /\ wanted' = wanted \ {c}
  /\ chip_isdone' = [chip_isdone EXCEPT ![c] = TRUE]
  /\ UNCHANGED <<pc, i, delayed, chipId, isDone, counted, lock, chain, faults,
                 enables, overlap>>

Stop ==
  /\ pc["shell"] = "CMD"
  /\ Goto("shell", "STOP")
  /\ UNCHANGED <<i, info, chain, faults, history>>

SetIsDone ==
  /\ pc["shell"] = "STOP" /\ lock = "none"
  /\ isDone' = TRUE
  /\ Goto("shell", "JOIN")
  /\ UNCHANGED <<i, delayed, chipId, chip_enable, chip_isdone, counted, lock,
                 chain, faults, history>>

\* pthread_join, then free(btc08_info) and out of the loop.
Join ==
  /\ pc["shell"] = "JOIN" /\ pc["worker"] = "END"
  /\ Goto("shell", "OUT")
  /\ UNCHANGED <<i, info, chain, faults, history>>

-----------------------------------------------------------------------------
(* The worker.                                                              *)

\* InitBTC08_INFO, steps 1 to 5: the reset empties the chips.
InitReset ==
  /\ pc["worker"] = "INIT"
  /\ jobs' = [c \in Chips |-> 0]
  /\ gn' = [c \in Chips |-> FALSE]
  /\ oon' = [c \in Chips |-> FALSE]
  /\ Goto("worker", "INIT_FLAGS")
  /\ UNCHANGED <<i, info, exhausted, faults, history>>

\* InitBTC08_INFO, steps 6 to 15.  A frequency it does not know or a core that
\* fails BIST ends the worker, with isDone still FALSE.
InitFlags ==
  /\ pc["worker"] = "INIT_FLAGS"
  /\ \E ok \in Outcome("INIT") :
       /\ IF ok
            THEN /\ chip_enable' = [c \in Chips |-> FALSE]
                 /\ chip_isdone' = [c \in Chips |-> TRUE]
                 /\ counted' = 0
                 /\ Goto("worker", "LOCK")
            ELSE /\ UNCHANGED <<chip_enable, chip_isdone, counted>>
                 /\ Goto("worker", "END")
       /\ CountFault(~ok)
  /\ UNCHANGED <<i, delayed, chipId, isDone, lock, chain, history>>

\* Step 2 of the worker: one chip, or under start2 every chip, with the lock.
TakeLock ==
  /\ pc["worker"] = "LOCK" /\ lock = "none"
  /\ lock' = "worker"
  /\ i' = 0
  /\ chipId' = IF delayed THEN 1 ELSE chipId
  /\ Goto("worker", "SET")
  /\ UNCHANGED <<delayed, chip_enable, chip_isdone, isDone, counted, chain, faults,
                 history>>

NextChip ==
  /\ pc["worker"] = "NEXT_CHIP"
  /\ i' = i + 1
  /\ chipId' = i' + 1
  /\ Goto("worker", "SET")
  /\ UNCHANGED <<delayed, chip_enable, chip_isdone, isDone, counted, lock, chain,
                 faults, history>>

\* The loop condition, and the GN pin, which any chip pulls low.
CheckGN ==
  /\ pc["worker"] = "LOOP"
  /\ i' = 0
  /\ Goto("worker", IF isDone THEN "END"
                    ELSE IF \E c \in Chips : gn[c] THEN "GN_SCAN" ELSE "OON_PIN")
  /\ UNCHANGED <<info, chain, faults, history>>

CheckOON ==
  /\ pc["worker"] = "OON_PIN"
  /\ i' = 0
  /\ Goto("worker", IF \E c \in Chips : oon[c] THEN "OON_SCAN" ELSE "LOOP")
  /\ UNCHANGED <<info, chain, faults, history>>

\* The chips are scanned in order; what follows the last one.
NextOfScan(scan) == IF scan = "GN_SCAN" THEN "OON_PIN" ELSE "LOOP"

\* The scan visits one chip too many.  Used to test the properties below.
StepScanPastEnd(scan) ==
  IF i < NumChips THEN i' = i + 1 /\ Goto("worker", scan)
                  ELSE i' = 0 /\ Goto("worker", NextOfScan(scan))

StepScan(scan) ==
  IF i + 1 < NumChips THEN i' = i + 1 /\ Goto("worker", scan)
                      ELSE i' = 0 /\ Goto("worker", NextOfScan(scan))

\* chip_enable is tested before the lock is taken.
Scan(scan, body) ==
  /\ pc["worker"] = scan
  /\ IF chip_enable[i + 1] THEN i' = i /\ Goto("worker", body) ELSE StepScan(scan)
  /\ UNCHANGED <<info, chain, faults, history>>

\* Plausible slips of HandleGN, used to test the properties below: the nonce is
\* counted without the chip being marked done, and the error path keeps the lock.
HandleGNNotMarked ==
  LET c == i + 1 IN
  /\ pc["worker"] = "GN" /\ lock = "none"
  /\ IF gn[c] /\ ~chip_isdone[c]
       THEN counted' = counted + 1 /\ gn' = [gn EXCEPT ![c] = FALSE]
       ELSE UNCHANGED <<counted, gn>>
  /\ StepScan("GN_SCAN")
  /\ UNCHANGED <<delayed, chipId, isDone, lock, chip_enable, chip_isdone, jobs, oon,
                 exhausted, faults, history>>

HandleGNKeepsLock ==
  LET c == i + 1 IN
  /\ pc["worker"] = "GN" /\ lock = "none"
  /\ \E okResult \in Outcome("READ_RESULT") :
       IF gn[c] /\ ~chip_isdone[c] /\ ~okResult
         THEN Goto("worker", "END") /\ isDone' = TRUE /\ i' = i /\ lock' = "worker"
         ELSE StepScan("GN_SCAN") /\ UNCHANGED <<isDone, lock>>
  /\ UNCHANGED <<delayed, chipId, chip_enable, chip_isdone, counted, chain, faults, history>>

\* With the lock from READ_JOB_ID to handleGN: the nonce of a chip not done yet
\* is counted and read, which clears its flag.  A nonce that cannot be read or
\* is not the golden one ends the worker.
HandleGN ==
  LET c == i + 1 IN
  /\ pc["worker"] = "GN" /\ lock = "none"
  /\ IF gn[c] /\ ~chip_isdone[c]
       THEN /\ chip_isdone' = [chip_isdone EXCEPT ![c] = TRUE]
            /\ counted' = counted + 1
            /\ \E ok \in Outcome("READ_RESULT") :
                 /\ gn' = [gn EXCEPT ![c] = ~ok]
                 /\ isDone' = (isDone \/ ~ok)
                 /\ IF ok THEN StepScan("GN_SCAN") ELSE i' = i /\ Goto("worker", "END")
                 /\ CountFault(~ok)
       ELSE /\ StepScan("GN_SCAN")
            /\ UNCHANGED <<chip_isdone, counted, gn, isDone, faults>>
  /\ UNCHANGED <<delayed, chipId, chip_enable, lock, jobs, oon, exhausted, history>>

\* A job ran out without a nonce, or after its nonce: counted in the first case.
\* handleOON is CLEAR_OON, whose result is not looked at.  The lock is kept
\* until the next job is sent, but an enable may come between.
HandleOON ==
  LET c == i + 1 IN
  /\ pc["worker"] = "OON" /\ lock = "none"
  /\ IF oon[c]
       THEN /\ counted' = IF chip_isdone[c] THEN counted ELSE counted + 1
            /\ chip_isdone' = [chip_isdone EXCEPT ![c] = FALSE]
            /\ \E ok \in Outcome("CLEAR_OON") :
                 oon' = [oon EXCEPT ![c] = ~ok] /\ CountFault(~ok)
            /\ i' = i /\ Goto("worker", "OON_RUN")
            /\ lock' = "worker"
       ELSE /\ StepScan("OON_SCAN")
            /\ UNCHANGED <<counted, oon, chip_isdone, lock, faults>>
  /\ UNCHANGED <<delayed, chipId, chip_enable, isDone, jobs, gn, exhausted, history>>

\* Plausible slips of RunNextJob, used to test the properties below: two jobs
\* for an OON, as the work loops of the other tests queue, and none.
RunTwoJobs ==
  /\ pc["worker"] = "OON_RUN"
  /\ Queue(i + 1, 2)
  /\ StepScan("OON_SCAN") /\ lock' = "none"
  /\ UNCHANGED <<delayed, chipId, chip_enable, chip_isdone, isDone, counted,
                 gn, oon, exhausted, faults, history>>

RunNoJob ==
  /\ pc["worker"] = "OON_RUN"
  /\ StepScan("OON_SCAN") /\ lock' = "none"
  /\ UNCHANGED <<delayed, chipId, chip_enable, chip_isdone, isDone, counted,
                 chain, faults, history>>

\* The job that replaces the one that ran out.
RunNextJob ==
  /\ pc["worker"] = "OON_RUN"
  /\ \E ok \in Outcome("RUN_JOB") :
       /\ IF ok THEN Queue(i + 1, 1) ELSE jobs' = jobs
       /\ CountFault(~ok)
  /\ StepScan("OON_SCAN") /\ lock' = "none"
  /\ UNCHANGED <<delayed, chipId, chip_enable, chip_isdone, isDone, counted,
                 gn, oon, exhausted, history>>

-----------------------------------------------------------------------------
Command == (\E c \in Chips : Start(c) \/ Enable(c) \/ Disable(c)) \/ Start2 \/ Stop

Set(t) == SetCheck(t) \/ SetFlags(t) \/ SetRun(t)

Worker ==
  \/ InitReset \/ InitFlags \/ TakeLock \/ NextChip \/ Set("worker")
  \/ CheckGN \/ Scan("GN_SCAN", "GN") \/ HandleGN
  \/ CheckOON \/ Scan("OON_SCAN", "OON") \/ HandleOON \/ RunNextJob

Next == Command \/ Set("shell") \/ SetIsDone \/ Join \/ Worker
        \/ \E c \in Chips : Exhaust(c) \/ FindNonce(c)

\* The user types what he likes.  Threads that can go on do; the shell gets the
\* lock at some time, as the worker yields the processor in every pass.
Fairness == WF_vars(Worker) /\ WF_vars(Set("shell")) /\ SF_vars(SetIsDone) /\ WF_vars(Join)

Spec     == Init /\ [][Next]_vars
FairSpec == Spec /\ Fairness

-----------------------------------------------------------------------------
SetLabels == {"SET", "FLAGS", "RUN1", "RUN2"}

TypeOK ==
  /\ pc \in [Threads -> SetLabels \cup
       {"IDLE", "CMD", "STOP", "JOIN", "OUT", "CRASHED", "INIT", "INIT_FLAGS", "LOCK",
        "NEXT_CHIP", "LOOP", "GN_SCAN", "GN", "OON_PIN", "OON_SCAN", "OON",
        "OON_RUN", "END"}]
  /\ i \in 0 .. NumChips - 1
  /\ delayed \in BOOLEAN /\ isDone \in BOOLEAN /\ overlap \in BOOLEAN
  /\ chipId \in Chips
  /\ chip_enable \in [Chips -> BOOLEAN] /\ chip_isdone \in [Chips -> BOOLEAN]
  /\ gn \in [Chips -> BOOLEAN] /\ oon \in [Chips -> BOOLEAN]
  /\ counted \in Nat /\ exhausted \in Nat
  /\ lock \in Threads \cup {"none"}
  /\ jobs \in [Chips -> 0 .. FifoDepth]
  /\ faults \in 0 .. MaxFaults
  /\ enables \in [Chips -> Nat]
  /\ wanted \subseteq Chips

\* Whatever order nonces and out-of-nonces are served in, and however many of
\* them fall together, the loop reports no more jobs than the chips worked on:
\* the exhausted ones, one running job per chip marked done, and one that every
\* repeated enable of a chip may count again (it forgets that the chip is done).
Done      == { c \in Chips : enables[c] > 0 /\ chip_isdone[c] }
Repeated  == EnablesFrom(2)
CountedOnce == faults = 0 => counted <= exhausted + Cardinality(Done) + Cardinality(Repeated)

\* A job is sent to a full FIFO, where it is lost, only on the third enable of a
\* chip: disable leaves two jobs in the FIFO and every enable adds two.
Sends(t, c) ==
  /\ pc'[t] # pc[t]
  /\ \/ pc[t] \in {"RUN1", "RUN2"} /\ chipId = c
     \/ pc[t] = "OON_RUN" /\ i + 1 = c
NoJobLost ==
  [][\A t \in Threads, c \in Chips :
       Sends(t, c) /\ faults' = 0 /\ ~overlap /\ 2 * enables[c] <= FifoDepth =>
         jobs[c] < FifoDepth]_vars

\* An enabled chip is never forgotten: it has a job, or an OON the worker will
\* answer with one, or is being given one.  (Not so when enable is typed while
\* the worker is still setting up: both then use chipId.)
BeingServed(c) ==
  \/ pc["worker"] = "OON_RUN" /\ i + 1 = c
  \/ \E t \in Threads : pc[t] \in {"RUN1", "RUN2"} /\ chipId = c
NotStarved ==
  faults = 0 /\ ~overlap =>
    \A c \in Chips : chip_enable[c] => jobs[c] > 0 \/ oon[c] \/ BeingServed(c)

\* "enable <chipId> : Enable chip" (SingleCommand.c:88), and start the same: once
\* the worker is in its loop and no command is under way, the chips the user
\* started or enabled, and did not disable since, are enabled.
InLoop == pc["worker"] \in {"LOOP", "GN_SCAN", "GN", "OON_PIN", "OON_SCAN", "OON", "OON_RUN"}
EnableHolds ==
  InLoop /\ pc["shell"] = "CMD" => \A c \in wanted : chip_enable[c]

\* stop always returns: the worker leaves its loop, also after an error, and has
\* given back the lock.
StopReturns == pc["shell"] = "STOP" ~> pc["shell"] = "OUT"
=============================================================================
