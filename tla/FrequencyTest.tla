---------------------------- MODULE FrequencyTest ----------------------------
(***************************************************************************)
(* The "Frequency Test" of SingleCommand.c: the shell SingleCommandLoop_freq *)
(* and the worker TestWorkLoop_freq it creates.  They share the handle of   *)
(* the board and struct BTC08_INFO.  A driver command fills the one txBuf   *)
(* of the handle, transfers it, and collects its answer from the one rxBuf: *)
(* three steps.  The worker takes the lock of BTC08_INFO for the GN scan    *)
(* and for CLEAR_OON and RUN_JOB, the shell for SetPllFreq; READ_JOB_ID of  *)
(* the OON check and READ_FEATURE of the freq command are outside it.       *)
(*                                                                          *)
(* The bring-up of the board, Sequences 1 to 14 of the worker, is one step; *)
(* module Bringup has its commands.  Jobs are broadcast and differ by their *)
(* number only.  Chips run in the order the code counts on: "OON occures on *)
(* chip#1 > chip#2 > chip#3".                                               *)
(***************************************************************************)
EXTENDS Integers, Sequences

CONSTANTS
  NumChips,    \* handle->numChips
  FifoDepth,   \* MAX_JOB_FIFO_NUM
  Golden,      \* bound on the chips that find golden nonces
  Freqs,       \* frequencies of the PLL table that are asked for
  Unknown,     \* a frequency the table does not have
  Unreliable,  \* commands whose transfer may fail
  MaxFaults    \* bound on failed transfers in a session

Chips   == 1 .. NumChips
Threads == {"shell", "worker"}
Commands == {"READ_JOB_ID", "READ_HASH", "READ_RESULT", "CLEAR_OON", "RUN_JOB",
             "READ_FEATURE", "PLL_OFF", "SET_PLL", "PLL_ON"}

ASSUME FrequencyTestAssumption ==
  /\ NumChips \in Nat \ {0} /\ FifoDepth \in Nat \ {0} /\ MaxFaults \in Nat
  /\ Unreliable \subseteq Commands
  /\ Unknown \notin Freqs /\ Golden \subseteq Chips

VARIABLES
  pc,       \* where each thread is
  phase,    \* progress of its command: "FILL", "TRANSFER", "COLLECT" or "FAILED"
  chip,     \* its loop counter over chips
  step,     \* its position in a fixed series of commands
  chipId, match,     \* locals of the worker: chip that answered, result of handleGN
  txBuf, rxBuf,      \* buffers of the handle
  session,  \* btc08_info # NULL
  created,  \* pthread_create succeeded
  isDone, lock,      \* of BTC08_INFO
  freed,    \* the handle is destroyed
  pll_freq, \* of BTC08_INFO: the frequency of the start-up
  asked,    \* argument of the last freq command
  jobs, gn, oon,     \* FIFO and interrupt flags of each chip
  pll,      \* PLL of each chip: frequency, and whether it gives a clock
  faults,   \* failed transfers of this session
  stolen,   \* history: a thread sent or collected a frame of the other
  gaveUp,   \* history: the worker left without a stop
  dropped   \* history: a job was sent to a full FIFO

buffers == <<txBuf, rxBuf>>
info    == <<session, created, isDone, freed, pll_freq, asked>>
chain   == <<jobs, gn, oon, pll>>
history == <<faults, stolen, gaveUp, dropped>>
locals  == <<chip, step, chipId, match>>
vars    == <<pc, phase, locals, buffers, info, lock, chain, history>>

NoFrame  == [cmd |-> "NONE", to |-> 0]
NoAnswer == [chip |-> 0, gn |-> FALSE, oon |-> FALSE]
NoReply  == [cmd |-> "NONE", from |-> "nobody", answer |-> NoAnswer]
Off      == [freq |-> Unknown, out |-> FALSE]
All(x)   == [c \in Chips |-> x]
Both(x)  == [t \in Threads |-> x]

Init ==
  /\ pc = [t \in Threads |-> IF t = "shell" THEN "IDLE" ELSE "NONE"]
  /\ phase = Both("FILL") /\ chip = Both(1) /\ step = Both(1)
  /\ chipId = 0 /\ match = TRUE
  /\ txBuf = NoFrame /\ rxBuf = NoReply
  /\ session = FALSE /\ created = FALSE /\ isDone = FALSE /\ freed = FALSE
  /\ lock = "none"
  /\ pll_freq = Unknown /\ asked = Unknown
  /\ jobs = All(0) /\ gn = All(FALSE) /\ oon = All(FALSE) /\ pll = All(Off)
  /\ faults = 0 /\ stolen = FALSE /\ gaveUp = FALSE /\ dropped = FALSE

Goto(t, label) == pc' = [pc EXCEPT ![t] = label]

InLoop == pc["worker"] \notin {"NONE", "INIT", "EXIT", "ENDED"}

-----------------------------------------------------------------------------
(* The chips.                                                               *)

Exhaust(c) ==
  /\ jobs[c] > 0 /\ pll[c].out
  /\ c > 1 => jobs[c - 1] < jobs[c]
  /\ jobs' = [jobs EXCEPT ![c] = jobs[c] - 1]
  /\ oon' = [oon EXCEPT ![c] = TRUE]
  /\ UNCHANGED <<pc, phase, locals, buffers, info, lock, gn, pll, history>>

FindNonce(c) ==
  /\ c \in Golden /\ jobs[c] > 0 /\ pll[c].out /\ ~gn[c]
  /\ gn' = [gn EXCEPT ![c] = TRUE]
  /\ UNCHANGED <<pc, phase, locals, buffers, info, lock, jobs, oon, pll, history>>

\* What a frame does to the chain.  A full FIFO ignores the job.
Effect(frame) ==
  LET c == frame.to IN
  /\ jobs' = IF frame.cmd = "RUN_JOB"
               THEN [d \in Chips |-> IF jobs[d] < FifoDepth THEN jobs[d] + 1 ELSE jobs[d]]
               ELSE jobs
  /\ dropped' = (dropped \/ (frame.cmd = "RUN_JOB" /\ \E d \in Chips : jobs[d] = FifoDepth))
  /\ oon' = IF frame.cmd = "CLEAR_OON" THEN [d \in Chips |-> FALSE] ELSE oon
  /\ gn' = IF frame.cmd = "READ_RESULT" /\ c \in Chips THEN [gn EXCEPT ![c] = FALSE] ELSE gn
  /\ pll' = CASE frame.cmd = "PLL_OFF" -> [pll EXCEPT ![c].out = FALSE]
              [] frame.cmd = "SET_PLL" -> [pll EXCEPT ![c].freq = asked]
              [] frame.cmd = "PLL_ON"  -> [pll EXCEPT ![c].out = TRUE]
              [] OTHER -> pll

\* Plausible slips, used to test the properties below: the job is sent before
\* the OON is cleared, two jobs are sent for one OON, a loop over the chips
\* goes one too far, an exit keeps the lock, the lock is not taken.
OonSwapped == <<"RUN_JOB", "CLEAR_OON">>
OonTwice   == <<"CLEAR_OON", "RUN_JOB", "RUN_JOB">>

MorePast(c) == c <= NumChips

GiveUpLocked ==
  /\ gaveUp' = TRUE /\ lock' = lock
  /\ Goto("worker", "EXIT")

FreeAlways == TRUE

\* There is a chip after c.
More(c) == c < NumChips

\* The worker leaves its loop by itself.
GiveUp ==
  /\ gaveUp' = TRUE /\ lock' = "none"
  /\ Goto("worker", "EXIT")

\* pthread_mutex_lock need not wait.
Free == lock = "none"

-----------------------------------------------------------------------------
(* The driver.                                                              *)

\* The commands of an answered OON, and of SetPllConfigByIdx for one chip:
\* the output and RESETB are switched off and on together here.
OonSeries == <<"CLEAR_OON", "RUN_JOB">>

PllSeries == <<"PLL_OFF", "SET_PLL", "PLL_ON">>

\* The frame of the command a thread is at.
Frame(t) ==
  CASE pc[t] = "GN_JOB_ID"  -> [cmd |-> "READ_JOB_ID", to |-> chip[t]]
    [] pc[t] = "GN_HASH"    -> [cmd |-> "READ_HASH", to |-> chipId]
    [] pc[t] = "GN_RESULT"  -> [cmd |-> "READ_RESULT", to |-> chipId]
    [] pc[t] = "OON_JOB_ID" -> [cmd |-> "READ_JOB_ID", to |-> NumChips]
    [] pc[t] = "OON"        -> [cmd |-> OonSeries[step[t]], to |-> 0]
    [] pc[t] = "FEATURE"    -> [cmd |-> "READ_FEATURE", to |-> 0]
    [] pc[t] = "PLL"        -> [cmd |-> PllSeries[step[t]], to |-> chip[t]]
    [] OTHER                -> NoFrame

InCommand(t) == Frame(t) # NoFrame

\* A command on a destroyed handle ends the program.
Fill(t) ==
  /\ InCommand(t) /\ phase[t] = "FILL"
  /\ IF freed
       THEN Goto(t, "CRASHED") /\ UNCHANGED <<phase, txBuf>>
       ELSE /\ txBuf' = Frame(t)
            /\ phase' = [phase EXCEPT ![t] = "TRANSFER"]
            /\ pc' = pc
  /\ UNCHANGED <<locals, rxBuf, info, lock, chain, history>>

Reply(t) ==
  LET c == txBuf.to IN
  [cmd |-> txBuf.cmd, from |-> t,
   answer |-> IF txBuf.cmd = "READ_JOB_ID" THEN [chip |-> c, gn |-> gn[c], oon |-> oon[c]] ELSE NoAnswer]

Transfer(t) ==
  /\ InCommand(t) /\ phase[t] = "TRANSFER"
  /\ \/ /\ ~freed
        /\ Effect(txBuf) /\ rxBuf' = Reply(t)
        /\ stolen' = (stolen \/ txBuf # Frame(t))
        /\ phase' = [phase EXCEPT ![t] = "COLLECT"]
        /\ UNCHANGED <<pc, faults>>
     \/ /\ ~freed /\ txBuf.cmd \in Unreliable /\ faults < MaxFaults
        /\ faults' = faults + 1
        /\ phase' = [phase EXCEPT ![t] = "FAILED"]
        /\ UNCHANGED <<pc, rxBuf, stolen, chain, dropped>>
     \/ /\ freed /\ Goto(t, "CRASHED")
        /\ UNCHANGED <<phase, rxBuf, chain, dropped, faults, stolen>>
  /\ UNCHANGED <<locals, txBuf, info, lock, gaveUp>>

\* Conjunct of every step that goes on after a command.  What a thread then
\* reads in rxBuf may be the answer to a command of the other.  Bytes that
\* nobody is going to send or to read are forgotten.
Collect(t) ==
  /\ phase[t] \in {"COLLECT", "FAILED"}
  /\ phase' = [phase EXCEPT ![t] = "FILL"]
  /\ txBuf' = IF \E u \in Threads : phase[u] = "TRANSFER" THEN txBuf ELSE NoFrame
  /\ rxBuf' = IF \E u \in Threads \ {t} : phase[u] = "COLLECT" THEN rxBuf ELSE NoReply
  /\ stolen' = (stolen \/ (phase[t] = "COLLECT" /\ rxBuf.from # t))

Own(t) == phase[t] = "COLLECT" /\ rxBuf.cmd = Frame(t).cmd

\* What READ_JOB_ID puts into res.  The bytes of an answer to another command
\* may look like anything; so may res after a failed transfer, which leaves
\* there what an earlier answer did.
Answers ==
  IF Own("worker") THEN {rxBuf.answer} ELSE [chip : 0 .. NumChips, gn : BOOLEAN, oon : BOOLEAN]

-----------------------------------------------------------------------------
(* The shell.                                                               *)

\* start, the first one typed for the user.  The thread may not be created;
\* the first thing it does is to reset the board.
Start ==
  /\ pc["shell"] = "IDLE" /\ ~session
  /\ session' = TRUE /\ isDone' = FALSE /\ freed' = FALSE
  /\ created' \in BOOLEAN
  /\ pll_freq' \in Freqs \cup {Unknown} /\ asked' = Unknown
  /\ Goto("worker", IF created' THEN "INIT" ELSE "NONE")
  /\ faults' = 0 /\ stolen' = FALSE /\ gaveUp' = FALSE /\ dropped' = FALSE
  /\ jobs' = All(0) /\ gn' = All(FALSE) /\ oon' = All(FALSE) /\ pll' = All(Off)
  /\ UNCHANGED <<phase, locals, buffers, lock>>

\* freq, TestWork_Change_freq.  The user waits for the end of the start-up,
\* and types no more of them once the threads have mixed their frames.
Freq ==
  /\ pc["shell"] = "IDLE" /\ session /\ ~isDone /\ pc["worker"] # "INIT" /\ ~stolen
  /\ asked' \in Freqs \cup {Unknown}
  /\ Goto("shell", "FEATURE")
  /\ UNCHANGED <<phase, locals, buffers, session, created, isDone, freed, pll_freq, lock,
                 chain, faults, stolen, gaveUp, dropped>>

\* get_board_type: only the right answer says that the PLL is to be set.
BoardType ==
  /\ pc["shell"] = "FEATURE"
  /\ Collect("shell")
  /\ \/ Goto("shell", "PLL_LOCK") /\ phase["shell"] = "COLLECT"
     \/ Goto("shell", "IDLE") /\ ~Own("shell")
  /\ UNCHANGED <<locals, info, lock, chain, faults, gaveUp, dropped>>

\* Without a worker the handle knows no chips.
LockPll ==
  /\ pc["shell"] = "PLL_LOCK" /\ Free
  /\ lock' = "shell"
  /\ chip' = [chip EXCEPT !["shell"] = 1]
  /\ step' = [step EXCEPT !["shell"] = 1]
  /\ Goto("shell", IF asked = Unknown \/ ~created THEN "PLL_UNLOCK" ELSE "PLL")
  /\ UNCHANGED <<phase, chipId, match, buffers, info, chain, history>>

SetPll ==
  /\ pc["shell"] = "PLL"
  /\ Collect("shell")
  /\ LET last == step["shell"] = Len(PllSeries) IN
     /\ step' = [step EXCEPT !["shell"] = IF last THEN 1 ELSE step["shell"] + 1]
     /\ chip' = [chip EXCEPT !["shell"] = IF ~last THEN chip["shell"]
                                           ELSE IF More(chip["shell"]) THEN chip["shell"] + 1
                                           ELSE 1]
     /\ Goto("shell", IF last /\ ~More(chip["shell"]) THEN "PLL_UNLOCK" ELSE "PLL")
  /\ UNCHANGED <<chipId, match, info, lock, chain, faults, gaveUp, dropped>>

UnlockPll ==
  /\ pc["shell"] = "PLL_UNLOCK"
  /\ lock' = "none"
  /\ Goto("shell", "SET")
  /\ UNCHANGED <<phase, locals, buffers, info, chain, history>>

\* The prompt after a freq command that set the PLL.
Prompt ==
  /\ pc["shell"] = "SET"
  /\ Goto("shell", "IDLE")
  /\ asked' = Unknown
  /\ UNCHANGED <<phase, locals, buffers, session, created, isDone, freed, pll_freq, lock, chain,
                 faults, stolen, gaveUp, dropped>>

\* stop, and q, which leaves the loop afterwards.
Stop ==
  /\ pc["shell"] = "IDLE" /\ session
  /\ Goto("shell", "STOP_LOCK")
  /\ UNCHANGED <<phase, locals, buffers, info, lock, chain, history>>

SetIsDone ==
  /\ pc["shell"] = "STOP_LOCK" /\ Free
  /\ isDone' = TRUE
  /\ Goto("shell", "JOIN")
  /\ UNCHANGED <<phase, locals, buffers, session, created, freed, pll_freq, asked, lock, chain, history>>

\* There is no thread to join when pthread_create failed.
Join ==
  /\ pc["shell"] = "JOIN" /\ pc["worker"] \in {"NONE", "ENDED"}
  /\ IF created
       THEN /\ session' = FALSE /\ created' = FALSE
            /\ pc' = [t \in Threads |-> IF t = "shell" THEN "IDLE" ELSE "NONE"]
       ELSE Goto("shell", "CRASHED") /\ UNCHANGED <<session, created>>
  /\ UNCHANGED <<phase, locals, buffers, isDone, freed, pll_freq, asked, lock, chain, history>>

Quit ==
  /\ pc["shell"] = "IDLE" /\ ~session
  /\ Goto("shell", "QUIT")
  /\ UNCHANGED <<phase, locals, buffers, info, lock, chain, history>>

-----------------------------------------------------------------------------
(* The worker.                                                              *)

\* Sequences 1 to 14.
Bringup ==
  /\ pc["worker"] = "INIT" /\ pll_freq # Unknown
  /\ jobs' = All(FifoDepth)
  /\ pll' = All([freq |-> pll_freq, out |-> TRUE])
  /\ Goto("worker", "LOOP")
  /\ UNCHANGED <<phase, locals, buffers, info, lock, gn, oon, history>>

\* An unknown frequency, or cores missing in the BIST: only the second exit
\* sets isDone.
BringupFailed ==
  /\ pc["worker"] = "INIT"
  /\ isDone' \in IF pll_freq = Unknown THEN {isDone} ELSE {TRUE}
  /\ gaveUp' = TRUE
  /\ Goto("worker", "EXIT")
  /\ UNCHANGED <<phase, locals, buffers, session, created, freed, pll_freq, asked, lock, chain,
                 faults, stolen, dropped>>

\* The test of the while loop, and the GN pin.
CheckGN ==
  /\ pc["worker"] = "LOOP"
  /\ chip' = [chip EXCEPT !["worker"] = 1]
  /\ Goto("worker", IF isDone THEN "EXIT"
                    ELSE IF \E c \in Chips : gn[c] THEN "GN_LOCK" ELSE "OON_PIN")
  /\ UNCHANGED <<phase, step, chipId, match, buffers, info, lock, chain, history>>

LockGN ==
  /\ pc["worker"] = "GN_LOCK" /\ Free
  /\ lock' = "worker"
  /\ Goto("worker", "GN_JOB_ID")
  /\ UNCHANGED <<phase, locals, buffers, info, chain, history>>

ReadGN ==
  /\ pc["worker"] = "GN_JOB_ID"
  /\ Collect("worker")
  /\ \E res \in Answers :
       IF res.gn THEN chipId' = res.chip /\ Goto("worker", "GN_HASH")
                 ELSE chipId' = chipId /\ Goto("worker", "GN_UNLOCK")
  /\ UNCHANGED <<chip, step, match, info, lock, chain, faults, gaveUp, dropped>>

\* handleGN: both commands are sent, whatever the first one answers.
HandleHash ==
  /\ pc["worker"] = "GN_HASH"
  /\ Collect("worker")
  /\ match' = Own("worker")
  /\ Goto("worker", "GN_RESULT")
  /\ UNCHANGED <<chip, step, chipId, info, lock, chain, faults, gaveUp, dropped>>

HandleResult ==
  /\ pc["worker"] = "GN_RESULT"
  /\ Collect("worker")
  /\ IF match /\ Own("worker")
       THEN Goto("worker", "GN_UNLOCK") /\ UNCHANGED <<lock, isDone, gaveUp>>
       ELSE isDone' = TRUE /\ GiveUp
  /\ match' = TRUE /\ chipId' = 0
  /\ UNCHANGED <<chip, step, session, created, freed, pll_freq, asked, chain, faults, dropped>>

UnlockGN ==
  /\ pc["worker"] = "GN_UNLOCK"
  /\ lock' = "none"
  /\ IF More(chip["worker"])
       THEN chip' = [chip EXCEPT !["worker"] = chip["worker"] + 1] /\ Goto("worker", "GN_LOCK")
       ELSE chip' = [chip EXCEPT !["worker"] = 1] /\ Goto("worker", "OON_PIN")
  /\ UNCHANGED <<phase, step, chipId, match, buffers, info, chain, history>>

CheckOON ==
  /\ pc["worker"] = "OON_PIN"
  /\ Goto("worker", IF \E c \in Chips : oon[c] THEN "OON_JOB_ID" ELSE "LOOP")
  /\ UNCHANGED <<phase, locals, buffers, info, lock, chain, history>>

\* Not under the lock.  Only an OON of the last chip is answered.
ReadOON ==
  /\ pc["worker"] = "OON_JOB_ID"
  /\ Collect("worker")
  /\ \E res \in Answers :
       Goto("worker", IF res.oon /\ res.chip = NumChips THEN "OON_LOCK" ELSE "LOOP")
  /\ UNCHANGED <<locals, info, lock, chain, faults, gaveUp, dropped>>

LockOON ==
  /\ pc["worker"] = "OON_LOCK" /\ Free
  /\ lock' = "worker"
  /\ step' = [step EXCEPT !["worker"] = 1]
  /\ Goto("worker", "OON")
  /\ UNCHANGED <<phase, chip, chipId, match, buffers, info, chain, history>>

HandleOON ==
  /\ pc["worker"] = "OON"
  /\ Collect("worker")
  /\ LET more == step["worker"] < Len(OonSeries) IN
     /\ step' = [step EXCEPT !["worker"] = IF more THEN step["worker"] + 1 ELSE 1]
     /\ Goto("worker", IF more THEN "OON" ELSE "KEY")
  /\ UNCHANGED <<chip, chipId, match, info, lock, chain, faults, gaveUp, dropped>>

\* KEY0 may be pressed: the worker leaves, and isDone is not set.
CheckKey ==
  /\ pc["worker"] = "KEY"
  /\ \/ GiveUp
     \/ Goto("worker", "LOOP") /\ lock' = "none" /\ gaveUp' = gaveUp
  /\ UNCHANGED <<phase, locals, buffers, info, chain, faults, stolen, dropped>>

\* DestroyBtc08.
Exit ==
  /\ pc["worker"] = "EXIT"
  /\ freed' = TRUE
  /\ Goto("worker", "ENDED")
  /\ UNCHANGED <<phase, locals, buffers, session, created, isDone, pll_freq, asked, lock, chain, history>>

-----------------------------------------------------------------------------

Driver(t) == Fill(t) \/ Transfer(t)

Worker ==
  \/ Driver("worker")
  \/ Bringup \/ BringupFailed \/ CheckGN \/ LockGN \/ ReadGN \/ HandleHash \/ HandleResult
  \/ UnlockGN \/ CheckOON \/ ReadOON \/ LockOON \/ HandleOON \/ CheckKey \/ Exit

User == Start \/ Freq \/ Stop \/ Quit

Shell ==
  \/ Driver("shell")
  \/ BoardType \/ LockPll \/ SetPll \/ UnlockPll \/ Prompt \/ SetIsDone \/ Join

Chain == \E c \in Chips : Exhaust(c) \/ FindNonce(c)

Next == pc["shell"] # "CRASHED" /\ (User \/ Shell \/ Worker \/ Chain)

\* Both threads are scheduled and the chips work.  The worker yields in every
\* pass, so a shell that wants to set isDone gets the lock; so does the worker,
\* as the shell gives it back before it prompts.
Fairness ==
  /\ WF_vars(Worker) /\ WF_vars(Shell)
  /\ SF_vars(SetIsDone) /\ SF_vars(LockGN \/ LockOON)
  /\ WF_vars(\E c \in Chips : Exhaust(c))

Spec == Init /\ [][Next]_vars /\ Fairness

-----------------------------------------------------------------------------
(* Properties.                                                              *)

TypeOK ==
  /\ \A t \in Threads : InCommand(t) => phase[t] \in {"FILL", "TRANSFER", "COLLECT", "FAILED"}
  /\ chip \in [Threads -> Chips] /\ step \in [Threads -> 1 .. Len(PllSeries)]
  /\ chipId \in 0 .. NumChips
  /\ lock \in Threads \cup {"none"}
  /\ jobs \in [Chips -> 0 .. FifoDepth]
  /\ gn \in [Chips -> BOOLEAN] /\ oon \in [Chips -> BOOLEAN]
  /\ pll \in [Chips -> [freq : Freqs \cup {Unknown}, out : BOOLEAN]]
  /\ faults \in 0 .. MaxFaults

\* The jobs that answer the OONs of the last chip never overflow a FIFO,
\* whatever the chips do between READ_JOB_ID, CLEAR_OON and RUN_JOB, as long
\* as every thread sends its own frames and no transfer fails.
NoJobDropped == stolen \/ faults > 0 \/ ~dropped

\* The lock keeps the buffers to one thread from the first byte of a command
\* to its answer, except for the two commands that are not under it.
UsesBuffers(t) == InCommand(t) /\ phase[t] # "FILL"

LockKeepsBuffers ==
  UsesBuffers("shell") /\ UsesBuffers("worker") =>
    pc["shell"] = "FEATURE" \/ pc["worker"] = "OON_JOB_ID"

\* The chips go on mining until the session is stopped: an OON that comes
\* between two commands of the worker is never lost.
KeepsMining ==
  []<>(jobs[NumChips] > 0 \/ ~InLoop \/ stolen \/ faults > 0 \/ pc["shell"] = "CRASHED")

\* A stop comes back to the prompt: no exit of the worker keeps the lock.
StopReturns == pc["shell"] = "STOP_LOCK" ~> pc["shell"] \in {"IDLE", "CRASHED"}

\* "freq [pll_freq] : Set PLL Frequency": when a freq command typed after
\* the start-up of a healthy session has set the PLL, every chip runs at it.
FreqSet ==
  pc["shell"] = "SET" /\ asked # Unknown /\ created /\ faults = 0 /\ ~gaveUp =>
    \A c \in Chips : pll[c].out /\ pll[c].freq = asked
=============================================================================
