------------------------ MODULE FrequencyTestProofs ------------------------
(***************************************************************************)
(* Proofs about FrequencyTest, for any number of chips, any FIFO depth and  *)
(* any frequencies.  The lock is at whoever is in a section that needs it;  *)
(* the rest is an account of the last chip: a job it ended is one place in  *)
(* its FIFO until the RUN_JOB of the OON fills it, and the chips before it  *)
(* have no more jobs than it has.                                           *)
(***************************************************************************)
EXTENDS FrequencyTest, TLAPS

ShellLabels  == {"IDLE", "FEATURE", "PLL_LOCK", "PLL", "PLL_UNLOCK", "SET", "STOP_LOCK", "JOIN",
                 "QUIT", "CRASHED"}
WorkerLabels == {"NONE", "INIT", "LOOP", "GN_LOCK", "GN_JOB_ID", "GN_HASH", "GN_RESULT",
                 "GN_UNLOCK", "OON_PIN", "OON_JOB_ID", "OON_LOCK", "OON", "KEY", "EXIT", "ENDED"}
ShellCommands  == {"FEATURE", "PLL"}
WorkerCommands == {"GN_JOB_ID", "GN_HASH", "GN_RESULT", "OON_JOB_ID", "OON"}

Phases  == {"FILL", "TRANSFER", "COLLECT", "FAILED"}
Asked   == Freqs \cup {Unknown}
Answer  == [chip : 0 .. NumChips, gn : BOOLEAN, oon : BOOLEAN]
Pll     == [freq : Asked, out : BOOLEAN]

ToOneChip == {"READ_JOB_ID", "PLL_OFF", "SET_PLL", "PLL_ON"}

\* The types.  TypeOK leaves out what only the proof needs: where each thread can be, and
\* that a frame for one chip is for a chip of the chain.
PcTyped ==
  /\ pc \in [Threads -> ShellLabels \cup WorkerLabels]
  /\ pc["shell"] \in ShellLabels /\ pc["worker"] \in WorkerLabels

LocalsTyped ==
  /\ chip \in [Threads -> Chips] /\ step \in [Threads -> 1 .. 3] /\ step["worker"] \in 1 .. 2
  /\ chipId \in 0 .. NumChips /\ match \in BOOLEAN

BuffersTyped ==
  /\ phase \in [Threads -> Phases]
  /\ txBuf \in [cmd : Commands \cup {"NONE"}, to : 0 .. NumChips]
  /\ txBuf.cmd \in ToOneChip => txBuf.to \in Chips
  /\ rxBuf \in [cmd : Commands \cup {"NONE"}, from : Threads \cup {"nobody"}, answer : Answer]
  /\ stolen \in BOOLEAN

InfoTyped ==
  /\ session \in BOOLEAN /\ created \in BOOLEAN /\ isDone \in BOOLEAN /\ freed \in BOOLEAN
  /\ lock \in Threads \cup {"none"}
  /\ pll_freq \in Asked /\ asked \in Asked
  /\ gaveUp \in BOOLEAN

ChainTyped ==
  /\ jobs \in [Chips -> 0 .. FifoDepth]
  /\ gn \in [Chips -> BOOLEAN] /\ oon \in [Chips -> BOOLEAN]
  /\ pll \in [Chips -> Pll]
  /\ faults \in 0 .. MaxFaults /\ dropped \in BOOLEAN

Typed == PcTyped /\ LocalsTyped /\ BuffersTyped /\ InfoTyped /\ ChainTyped

\* A thread that is in no command has no frame half done; no session, no worker.
InStep ==
  /\ pc["shell"] \notin ShellCommands \cup {"CRASHED"} => phase["shell"] = "FILL"
  /\ pc["worker"] \notin WorkerCommands => phase["worker"] = "FILL"
  /\ \A t \in Threads : phase[t] = "FAILED" => faults > 0
  /\ ~session => pc["worker"] = "NONE"
  /\ freed => pc["worker"] \in {"NONE", "ENDED"}
  /\ pc["worker"] = "INIT" => pc["shell"] \in {"IDLE", "STOP_LOCK", "JOIN"}

\* The sections under the lock of BTC08_INFO.
LockHeld ==
  /\ pc["shell"] \in {"PLL", "PLL_UNLOCK"} => lock = "shell"
  /\ pc["worker"] \in {"GN_JOB_ID", "GN_HASH", "GN_RESULT", "GN_UNLOCK", "OON", "KEY"} =>
       lock = "worker"

\* The chips run dry in order.
InOrder == \A c, d \in Chips : c < d => jobs[c] <= jobs[d]

\* The last chip has ended a job that is not replaced yet: the flag the worker
\* has read, and the OON it answers until its RUN_JOB is sent.
Owed ==
  \/ /\ pc["worker"] = "OON_JOB_ID" /\ phase["worker"] = "COLLECT"
     /\ rxBuf.from = "worker" /\ rxBuf.answer.oon
  \/ pc["worker"] = "OON_LOCK"
  \/ pc["worker"] = "OON" /\ (step["worker"] = 1 \/ phase["worker"] \in {"FILL", "TRANSFER"})

\* Its OON is cleared and its RUN_JOB not sent: a flag set now is another job.
Cleared ==
  /\ pc["worker"] = "OON"
  /\ \/ step["worker"] = 1 /\ phase["worker"] = "COLLECT"
     \/ step["worker"] = 2 /\ phase["worker"] \in {"FILL", "TRANSFER"}

\* What the worker collects for READ_JOB_ID is the answer to it.
OwnReply ==
  pc["worker"] = "OON_JOB_ID" /\ phase["worker"] = "COLLECT" /\ rxBuf.from = "worker" =>
    rxBuf.cmd = "READ_JOB_ID"

\* Each job the last chip has ended and that is not replaced yet is a free place.
Account ==
  /\ ~dropped
  /\ InOrder
  /\ pc["worker"] = "INIT" => \A c \in Chips : jobs[c] = 0 /\ ~oon[c]
  /\ OwnReply
  /\ Owed => jobs[NumChips] < FifoDepth
  /\ oon[NumChips] => jobs[NumChips] + (IF Cleared THEN 1 ELSE 0) < FifoDepth

IInv ==
  /\ Typed /\ InStep /\ LockHeld
  /\ ~stolen /\ faults = 0 => Account

-----------------------------------------------------------------------------
(* Types.                                                                   *)

LEMMA GotoTyped ==
  ASSUME PcTyped, NEW t \in Threads, NEW label, Goto(t, label),
         t = "shell" => label \in ShellLabels,
         t = "worker" => label \in WorkerLabels
  PROVE  PcTyped'
  BY DEF PcTyped, Goto, Threads

LEMMA CollectTyped ==
  ASSUME BuffersTyped, NEW t \in Threads, Collect(t)
  PROVE  BuffersTyped'
  <1>1. phase' \in [Threads -> Phases] /\ stolen' \in BOOLEAN
    BY DEF BuffersTyped, Collect, Phases
  <1>2. /\ txBuf' \in [cmd : Commands \cup {"NONE"}, to : 0 .. NumChips]
        /\ txBuf'.cmd \in ToOneChip => txBuf'.to \in Chips
    BY FrequencyTestAssumption DEF BuffersTyped, Collect, NoFrame, ToOneChip
  <1>3. rxBuf' \in [cmd : Commands \cup {"NONE"}, from : Threads \cup {"nobody"}, answer : Answer]
    BY FrequencyTestAssumption DEF BuffersTyped, Collect, NoReply, NoAnswer, Answer
  <1>4. QED
    BY <1>1, <1>2, <1>3 DEF BuffersTyped

LEMMA AnswersTyped ==
  ASSUME BuffersTyped, NEW res \in Answers
  PROVE  res \in Answer
  BY DEF BuffersTyped, Answers, Answer

LEMMA OffTyped == Off \in Pll
  BY DEF Off, Pll, Asked

\* Where a thread is inside a command, and with which frame.
LEMMA FrameAt ==
  ASSUME Typed
  PROVE  /\ pc["shell"] = "FEATURE" => Frame("shell") = [cmd |-> "READ_FEATURE", to |-> 0]
         /\ pc["shell"] = "PLL" =>
              Frame("shell") = [cmd |-> PllSeries[step["shell"]], to |-> chip["shell"]]
         /\ pc["shell"] \notin ShellCommands => ~InCommand("shell")
         /\ pc["worker"] = "GN_JOB_ID" =>
              Frame("worker") = [cmd |-> "READ_JOB_ID", to |-> chip["worker"]]
         /\ pc["worker"] = "GN_HASH" => Frame("worker") = [cmd |-> "READ_HASH", to |-> chipId]
         /\ pc["worker"] = "GN_RESULT" => Frame("worker") = [cmd |-> "READ_RESULT", to |-> chipId]
         /\ pc["worker"] = "OON_JOB_ID" =>
              Frame("worker") = [cmd |-> "READ_JOB_ID", to |-> NumChips]
         /\ pc["worker"] = "OON" => Frame("worker") = [cmd |-> OonSeries[step["worker"]], to |-> 0]
         /\ pc["worker"] \notin WorkerCommands => ~InCommand("worker")
  <1>1. /\ pc["shell"] = "FEATURE" => Frame("shell") = [cmd |-> "READ_FEATURE", to |-> 0]
        /\ pc["shell"] = "PLL" =>
             Frame("shell") = [cmd |-> PllSeries[step["shell"]], to |-> chip["shell"]]
        /\ pc["shell"] \notin ShellCommands => ~InCommand("shell")
    BY DEF Typed, PcTyped, Frame, InCommand, ShellLabels, ShellCommands
  <1>2. /\ pc["worker"] = "GN_JOB_ID" =>
             Frame("worker") = [cmd |-> "READ_JOB_ID", to |-> chip["worker"]]
        /\ pc["worker"] = "GN_HASH" => Frame("worker") = [cmd |-> "READ_HASH", to |-> chipId]
        /\ pc["worker"] = "GN_RESULT" => Frame("worker") = [cmd |-> "READ_RESULT", to |-> chipId]
        /\ pc["worker"] = "OON_JOB_ID" => Frame("worker") = [cmd |-> "READ_JOB_ID", to |-> NumChips]
        /\ pc["worker"] = "OON" => Frame("worker") = [cmd |-> OonSeries[step["worker"]], to |-> 0]
        /\ pc["worker"] \notin WorkerCommands => ~InCommand("worker")
    BY DEF Typed, PcTyped, Frame, InCommand, WorkerLabels, WorkerCommands
  <1>3. QED
    BY <1>1, <1>2

LEMMA FrameTyped ==
  ASSUME Typed, NEW t \in Threads
  PROVE  /\ Frame(t) \in [cmd : Commands \cup {"NONE"}, to : 0 .. NumChips]
         /\ Frame(t).cmd \in ToOneChip => Frame(t).to \in Chips
  <1> USE FrequencyTestAssumption DEF Typed, PcTyped, LocalsTyped
  <1>1. CASE ~InCommand(t)
    BY <1>1 DEF InCommand, NoFrame, ToOneChip
  <1>2. CASE InCommand(t) /\ t = "shell"
    <2>1. step["shell"] \in 1 .. 3 /\ chip["shell"] \in Chips
      BY DEF Threads
    <2>2. PllSeries[step["shell"]] \in {"PLL_OFF", "SET_PLL", "PLL_ON"}
      BY <2>1 DEF PllSeries
    <2>3. QED
      BY <1>2, <2>2, FrameAt DEF Commands, ToOneChip, Chips, ShellCommands
  <1>3. CASE InCommand(t) /\ t = "worker"
    <2>1. chip["worker"] \in Chips /\ NumChips \in Chips
      BY DEF Threads, Chips
    <2>2. OonSeries[step["worker"]] \in {"CLEAR_OON", "RUN_JOB"}
      BY DEF OonSeries
    <2>3. QED
      BY <1>3, <2>2, FrameAt DEF Commands, ToOneChip, Chips, WorkerCommands
  <1>4. QED
    BY <1>1, <1>2, <1>3 DEF Threads

LEMMA ReplyTyped ==
  ASSUME Typed, NEW t \in Threads
  PROVE  Reply(t) \in
           [cmd : Commands \cup {"NONE"}, from : Threads \cup {"nobody"}, answer : Answer]
  <1>1. CASE txBuf.cmd = "READ_JOB_ID"
    <2>1. txBuf.to \in Chips
      BY <1>1 DEF Typed, BuffersTyped, ToOneChip
    <2>2. [chip |-> txBuf.to, gn |-> gn[txBuf.to], oon |-> oon[txBuf.to]] \in Answer
      BY <2>1 DEF Typed, ChainTyped, Answer, Chips
    <2>3. QED
      BY <1>1, <2>2 DEF Reply, Typed, BuffersTyped
  <1>2. CASE txBuf.cmd # "READ_JOB_ID"
    <2>1. NoAnswer \in Answer
      BY FrequencyTestAssumption DEF NoAnswer, Answer
    <2>2. QED
      BY <1>2, <2>1 DEF Reply, Typed, BuffersTyped
  <1>3. QED
    BY <1>1, <1>2

LEMMA EffectTyped ==
  ASSUME Typed, Effect(txBuf)
  PROVE  /\ jobs' \in [Chips -> 0 .. FifoDepth]
         /\ gn' \in [Chips -> BOOLEAN] /\ oon' \in [Chips -> BOOLEAN]
         /\ pll' \in [Chips -> Pll]
         /\ dropped' \in BOOLEAN
  <1>1. jobs' \in [Chips -> 0 .. FifoDepth]
    BY FrequencyTestAssumption DEF Typed, ChainTyped, Effect
  <1>2. gn' \in [Chips -> BOOLEAN] /\ oon' \in [Chips -> BOOLEAN] /\ dropped' \in BOOLEAN
    BY DEF Typed, ChainTyped, Effect
  <1>3. pll' \in [Chips -> Pll]
    <2>1. txBuf.cmd \in {"PLL_OFF", "SET_PLL", "PLL_ON"} => txBuf.to \in Chips
      BY DEF Typed, BuffersTyped, ToOneChip
    <2>2. \A p \in Pll : /\ [p EXCEPT !.out = FALSE] \in Pll
                         /\ [p EXCEPT !.freq = asked] \in Pll
                         /\ [p EXCEPT !.out = TRUE] \in Pll
      BY DEF Pll, Typed, InfoTyped
    <2>3. /\ txBuf.cmd = "PLL_OFF" => pll' = [pll EXCEPT ![txBuf.to] = [@ EXCEPT !.out = FALSE]]
          /\ txBuf.cmd = "SET_PLL" => pll' = [pll EXCEPT ![txBuf.to] = [@ EXCEPT !.freq = asked]]
          /\ txBuf.cmd = "PLL_ON" => pll' = [pll EXCEPT ![txBuf.to] = [@ EXCEPT !.out = TRUE]]
          /\ txBuf.cmd \notin {"PLL_OFF", "SET_PLL", "PLL_ON"} => pll' = pll
      BY DEF Effect
    <2>4. QED
      BY <2>2, <2>3 DEF Typed, ChainTyped
  <1>4. QED
    BY <1>1, <1>2, <1>3

\* The worker destroys the handle when it has sent its last command.
LEMMA OnlyShellCrashes ==
  ASSUME Typed, InStep, freed
  PROVE  ~InCommand("worker")
  BY FrameAt DEF InStep, WorkerCommands

LEMMA TypedInit == Init => Typed
  <1> SUFFICES ASSUME Init PROVE Typed
    OBVIOUS
  <1> USE FrequencyTestAssumption DEF Init
  <1>1. PcTyped
    BY DEF PcTyped, ShellLabels, WorkerLabels, Threads
  <1>2. LocalsTyped
    BY DEF LocalsTyped, Chips, Both, Threads
  <1>3. BuffersTyped
    <2>1. phase \in [Threads -> Phases]
      BY DEF Both, Phases
    <2>2. txBuf \in [cmd : Commands \cup {"NONE"}, to : 0 .. NumChips] /\ txBuf.cmd \notin ToOneChip
      BY DEF NoFrame, ToOneChip
    <2>3. rxBuf \in [cmd : Commands \cup {"NONE"}, from : Threads \cup {"nobody"}, answer : Answer]
      BY DEF NoReply, NoAnswer, Answer
    <2>4. QED
      BY <2>1, <2>2, <2>3 DEF BuffersTyped
  <1>4. InfoTyped
    BY DEF InfoTyped, Asked
  <1>5. ChainTyped
    <2>1. jobs \in [Chips -> 0 .. FifoDepth] /\ faults \in 0 .. MaxFaults
      BY DEF All
    <2>2. gn \in [Chips -> BOOLEAN] /\ oon \in [Chips -> BOOLEAN] /\ dropped \in BOOLEAN
      BY DEF All
    <2>3. pll \in [Chips -> Pll]
      BY OffTyped DEF All
    <2>4. QED
      BY <2>1, <2>2, <2>3 DEF ChainTyped
  <1>6. QED
    BY <1>1, <1>2, <1>3, <1>4, <1>5 DEF Typed

LEMMA TypedStep == Typed /\ InStep /\ [Next]_vars => Typed'
  <1> SUFFICES ASSUME Typed, InStep, [Next]_vars PROVE Typed'
    OBVIOUS
  <1> USE FrequencyTestAssumption DEF Typed
  <1>1. CASE Start
    <2>1. PcTyped'
      BY <1>1 DEF Start, PcTyped, WorkerLabels, Threads, Goto
    <2>2. InfoTyped'
      BY <1>1 DEF Start, InfoTyped, Asked
    <2>3. ChainTyped'
      <3>1. jobs' \in [Chips -> 0 .. FifoDepth] /\ faults' \in 0 .. MaxFaults
        BY <1>1 DEF Start, All
      <3>2. gn' \in [Chips -> BOOLEAN] /\ oon' \in [Chips -> BOOLEAN] /\ dropped' \in BOOLEAN
        BY <1>1 DEF Start, All
      <3>3. pll' \in [Chips -> Pll]
        BY <1>1, OffTyped DEF Start, All
      <3>4. QED
        BY <3>1, <3>2, <3>3 DEF ChainTyped
    <2>4. QED
      BY <1>1, <2>1, <2>2, <2>3 DEF Start, LocalsTyped, BuffersTyped, locals, buffers
  <1>2. CASE Freq
    <2>1. PcTyped'
      BY <1>2 DEF Freq, PcTyped, ShellLabels, Threads, Goto
    <2>2. InfoTyped'
      BY <1>2 DEF Freq, InfoTyped, Asked
    <2>3. QED
      BY <1>2, <2>1, <2>2 DEF Freq, LocalsTyped, BuffersTyped, ChainTyped, locals, buffers, chain
  <1>3. CASE BoardType
    <2>1. PcTyped'
      BY <1>3 DEF BoardType, PcTyped, ShellLabels, Threads, Goto
    <2>2. BuffersTyped'
      BY <1>3, CollectTyped DEF BoardType, Threads
    <2>3. QED
      BY <1>3, <2>1, <2>2 DEF BoardType, LocalsTyped, InfoTyped, ChainTyped, locals, info, chain
  <1>4. CASE LockPll
    <2>1. PcTyped'
      BY <1>4 DEF LockPll, PcTyped, ShellLabels, Threads, Goto
    <2>2. LocalsTyped'
      BY <1>4 DEF LockPll, LocalsTyped, Threads, Chips
    <2>3. InfoTyped'
      BY <1>4 DEF LockPll, InfoTyped, info, history, Threads
    <2>4. QED
      BY <1>4, <2>1, <2>2, <2>3 DEF LockPll, BuffersTyped, ChainTyped, buffers, chain, history
  <1>5. CASE SetPll
    <2>1. PcTyped'
      BY <1>5 DEF SetPll, PcTyped, ShellLabels, Threads, Goto
    <2>2. LocalsTyped'
      BY <1>5 DEF SetPll, LocalsTyped, Threads, Chips, More, PllSeries
    <2>3. BuffersTyped'
      BY <1>5, CollectTyped DEF SetPll, Threads
    <2>4. QED
      BY <1>5, <2>1, <2>2, <2>3 DEF SetPll, InfoTyped, ChainTyped, info, chain
  <1>6. CASE UnlockPll
    <2>1. PcTyped'
      BY <1>6 DEF UnlockPll, PcTyped, ShellLabels, Threads, Goto
    <2>2. InfoTyped'
      BY <1>6 DEF UnlockPll, InfoTyped, info, history
    <2>3. QED
      BY <1>6, <2>1, <2>2 DEF UnlockPll, LocalsTyped, BuffersTyped, ChainTyped, locals, buffers,
         chain, history
  <1>7. CASE Prompt
    <2>1. PcTyped'
      BY <1>7 DEF Prompt, PcTyped, ShellLabels, Threads, Goto
    <2>2. InfoTyped'
      BY <1>7 DEF Prompt, InfoTyped, Asked
    <2>3. QED
      BY <1>7, <2>1, <2>2 DEF Prompt, LocalsTyped, BuffersTyped, ChainTyped, locals, buffers,
         chain
  <1>8. CASE Stop
    <2>1. PcTyped'
      BY <1>8 DEF Stop, PcTyped, ShellLabels, Threads, Goto
    <2>2. QED
      BY <1>8, <2>1 DEF Stop, LocalsTyped, BuffersTyped, InfoTyped, ChainTyped, locals, buffers,
         info, chain, history
  <1>9. CASE SetIsDone
    <2>1. PcTyped'
      BY <1>9 DEF SetIsDone, PcTyped, ShellLabels, Threads, Goto
    <2>2. InfoTyped'
      BY <1>9 DEF SetIsDone, InfoTyped, history
    <2>3. QED
      BY <1>9, <2>1, <2>2 DEF SetIsDone, LocalsTyped, BuffersTyped, ChainTyped, locals, buffers,
         chain, history
  <1>10. CASE Join
    <2>1. PcTyped'
      BY <1>10 DEF Join, PcTyped, ShellLabels, WorkerLabels, Threads, Goto
    <2>2. InfoTyped'
      BY <1>10 DEF Join, InfoTyped, history
    <2>3. QED
      BY <1>10, <2>1, <2>2 DEF Join, LocalsTyped, BuffersTyped, ChainTyped, locals, buffers,
         chain, history
  <1>11. CASE Quit
    <2>1. PcTyped'
      BY <1>11 DEF Quit, PcTyped, ShellLabels, Threads, Goto
    <2>2. QED
      BY <1>11, <2>1 DEF Quit, LocalsTyped, BuffersTyped, InfoTyped, ChainTyped, locals, buffers,
         info, chain, history
  <1>12. CASE Bringup
    <2>1. PcTyped'
      BY <1>12 DEF Bringup, PcTyped, WorkerLabels, Threads, Goto
    <2>2. ChainTyped'
      BY <1>12 DEF Bringup, ChainTyped, InfoTyped, All, Pll, history
    <2>3. QED
      BY <1>12, <2>1, <2>2 DEF Bringup, LocalsTyped, BuffersTyped, InfoTyped, locals, buffers,
         info, history
  <1>13. CASE BringupFailed
    <2>1. PcTyped'
      BY <1>13 DEF BringupFailed, PcTyped, WorkerLabels, Threads, Goto
    <2>2. InfoTyped'
      BY <1>13 DEF BringupFailed, InfoTyped
    <2>3. QED
      BY <1>13, <2>1, <2>2 DEF BringupFailed, LocalsTyped, BuffersTyped, ChainTyped, locals,
         buffers, chain
  <1>14. CASE CheckGN
    <2>1. PcTyped'
      BY <1>14 DEF CheckGN, PcTyped, WorkerLabels, Threads, Goto
    <2>2. LocalsTyped'
      BY <1>14 DEF CheckGN, LocalsTyped, Threads, Chips
    <2>3. QED
      BY <1>14, <2>1, <2>2 DEF CheckGN, BuffersTyped, InfoTyped, ChainTyped, buffers, info, chain,
         history
  <1>15. CASE LockGN
    <2>1. PcTyped'
      BY <1>15 DEF LockGN, PcTyped, WorkerLabels, Threads, Goto
    <2>2. InfoTyped'
      BY <1>15 DEF LockGN, InfoTyped, info, history, Threads
    <2>3. QED
      BY <1>15, <2>1, <2>2 DEF LockGN, LocalsTyped, BuffersTyped, ChainTyped, locals, buffers,
         chain, history
  <1>16. CASE ReadGN
    <2>1. PcTyped'
      BY <1>16 DEF ReadGN, PcTyped, WorkerLabels, Threads, Goto
    <2>2. LocalsTyped'
      BY <1>16, AnswersTyped DEF ReadGN, LocalsTyped, Answer
    <2>3. BuffersTyped'
      BY <1>16, CollectTyped DEF ReadGN, Threads
    <2>4. QED
      BY <1>16, <2>1, <2>2, <2>3 DEF ReadGN, InfoTyped, ChainTyped, info, chain
  <1>17. CASE HandleHash
    <2>1. PcTyped'
      BY <1>17 DEF HandleHash, PcTyped, WorkerLabels, Threads, Goto
    <2>2. LocalsTyped'
      BY <1>17 DEF HandleHash, LocalsTyped, Own
    <2>3. BuffersTyped'
      BY <1>17, CollectTyped DEF HandleHash, Threads
    <2>4. QED
      BY <1>17, <2>1, <2>2, <2>3 DEF HandleHash, InfoTyped, ChainTyped, info, chain
  <1>18. CASE HandleResult
    <2>1. PcTyped'
      BY <1>18 DEF HandleResult, GiveUp, PcTyped, WorkerLabels, Threads, Goto
    <2>2. LocalsTyped'
      BY <1>18 DEF HandleResult, LocalsTyped
    <2>3. BuffersTyped'
      BY <1>18, CollectTyped DEF HandleResult, Threads
    <2>4. InfoTyped'
      BY <1>18 DEF HandleResult, GiveUp, InfoTyped
    <2>5. QED
      BY <1>18, <2>1, <2>2, <2>3, <2>4 DEF HandleResult, ChainTyped, chain
  <1>19. CASE UnlockGN
    <2>1. PcTyped'
      BY <1>19 DEF UnlockGN, PcTyped, WorkerLabels, Threads, Goto
    <2>2. LocalsTyped'
      BY <1>19 DEF UnlockGN, LocalsTyped, Chips, More
    <2>3. InfoTyped'
      BY <1>19 DEF UnlockGN, InfoTyped, info, history
    <2>4. QED
      BY <1>19, <2>1, <2>2, <2>3 DEF UnlockGN, BuffersTyped, ChainTyped, buffers, chain, history
  <1>20. CASE CheckOON
    <2>1. PcTyped'
      BY <1>20 DEF CheckOON, PcTyped, WorkerLabels, Threads, Goto
    <2>2. QED
      BY <1>20, <2>1 DEF CheckOON, LocalsTyped, BuffersTyped, InfoTyped, ChainTyped, locals,
         buffers, info, chain, history
  <1>21. CASE ReadOON
    <2>1. PcTyped'
      BY <1>21 DEF ReadOON, PcTyped, WorkerLabels, Threads, Goto
    <2>2. BuffersTyped'
      BY <1>21, CollectTyped DEF ReadOON, Threads
    <2>3. QED
      BY <1>21, <2>1, <2>2 DEF ReadOON, LocalsTyped, InfoTyped, ChainTyped, locals, info, chain
  <1>22. CASE LockOON
    <2>1. PcTyped'
      BY <1>22 DEF LockOON, PcTyped, WorkerLabels, Threads, Goto
    <2>2. LocalsTyped'
      BY <1>22 DEF LockOON, LocalsTyped, Threads
    <2>3. InfoTyped'
      BY <1>22 DEF LockOON, InfoTyped, info, history, Threads
    <2>4. QED
      BY <1>22, <2>1, <2>2, <2>3 DEF LockOON, BuffersTyped, ChainTyped, buffers, chain, history
  <1>23. CASE HandleOON
    <2>1. PcTyped'
      BY <1>23 DEF HandleOON, PcTyped, WorkerLabels, Threads, Goto
    <2>2. LocalsTyped'
      BY <1>23 DEF HandleOON, LocalsTyped, Threads, OonSeries
    <2>3. BuffersTyped'
      BY <1>23, CollectTyped DEF HandleOON, Threads
    <2>4. QED
      BY <1>23, <2>1, <2>2, <2>3 DEF HandleOON, InfoTyped, ChainTyped, info, chain
  <1>24. CASE CheckKey
    <2>1. PcTyped'
      BY <1>24 DEF CheckKey, GiveUp, PcTyped, WorkerLabels, Threads, Goto
    <2>2. InfoTyped'
      BY <1>24 DEF CheckKey, GiveUp, InfoTyped, info
    <2>3. QED
      BY <1>24, <2>1, <2>2 DEF CheckKey, LocalsTyped, BuffersTyped, ChainTyped, locals, buffers,
         chain
  <1>25. CASE Exit
    <2>1. PcTyped'
      BY <1>25 DEF Exit, PcTyped, WorkerLabels, Threads, Goto
    <2>2. InfoTyped'
      BY <1>25 DEF Exit, InfoTyped, history
    <2>3. QED
      BY <1>25, <2>1, <2>2 DEF Exit, LocalsTyped, BuffersTyped, ChainTyped, locals, buffers,
         chain, history
  <1>26. ASSUME NEW t \in Threads, Fill(t) PROVE Typed'
    <2>1. PcTyped'
      BY <1>26, OnlyShellCrashes DEF Fill, PcTyped, Threads, ShellLabels, Goto
    <2>2. BuffersTyped'
      <3>1. txBuf' \in [cmd : Commands \cup {"NONE"}, to : 0 .. NumChips]
            /\ (txBuf'.cmd \in ToOneChip => txBuf'.to \in Chips)
        BY <1>26, FrameTyped DEF Fill, BuffersTyped
      <3>2. phase' \in [Threads -> Phases] /\ rxBuf' = rxBuf /\ stolen' = stolen
        BY <1>26 DEF Fill, BuffersTyped, Phases, history
      <3>3. QED
        BY <3>1, <3>2 DEF BuffersTyped
    <2>3. QED
      BY <1>26, <2>1, <2>2 DEF Fill, LocalsTyped, InfoTyped, ChainTyped, locals, info, chain,
         history
  <1>27. ASSUME NEW t \in Threads, Transfer(t) PROVE Typed'
    <2>1. PcTyped'
      BY <1>27, OnlyShellCrashes DEF Transfer, PcTyped, Threads, ShellLabels, Goto
    <2>2. BuffersTyped'
      <3>1. rxBuf' \in
              [cmd : Commands \cup {"NONE"}, from : Threads \cup {"nobody"}, answer : Answer]
        BY <1>27, ReplyTyped DEF Transfer, BuffersTyped
      <3>2. phase' \in [Threads -> Phases] /\ txBuf' = txBuf /\ stolen' \in BOOLEAN
        BY <1>27 DEF Transfer, BuffersTyped, Phases
      <3>3. QED
        BY <3>1, <3>2 DEF BuffersTyped
    <2>3. ChainTyped'
      <3>1. CASE Effect(txBuf) /\ faults' = faults
        BY <3>1, EffectTyped DEF ChainTyped
      <3>2. CASE /\ UNCHANGED <<jobs, gn, oon, pll, dropped>>
                 /\ \/ faults' = faults
                    \/ faults < MaxFaults /\ faults' = faults + 1
        BY <3>2 DEF ChainTyped
      <3>3. \/ Effect(txBuf) /\ faults' = faults
            \/ /\ UNCHANGED <<jobs, gn, oon, pll, dropped>>
               /\ \/ faults' = faults
                  \/ faults < MaxFaults /\ faults' = faults + 1
        BY <1>27 DEF Transfer, chain
      <3>4. QED
        BY <3>1, <3>2, <3>3
    <2>4. QED
      BY <1>27, <2>1, <2>2, <2>3 DEF Transfer, LocalsTyped, InfoTyped, locals, info
  <1>28. ASSUME NEW c \in Chips, Exhaust(c) \/ FindNonce(c) PROVE Typed'
    <2>1. jobs' \in [Chips -> 0 .. FifoDepth]
      BY <1>28 DEF Exhaust, FindNonce, ChainTyped, Chips
    <2>2. gn' \in [Chips -> BOOLEAN] /\ oon' \in [Chips -> BOOLEAN]
      BY <1>28 DEF Exhaust, FindNonce, ChainTyped
    <2>3. ChainTyped'
      BY <1>28, <2>2 DEF Exhaust, FindNonce, ChainTyped, history
    <2>4. QED
      BY <1>28, <2>3 DEF Exhaust, FindNonce, PcTyped, LocalsTyped, BuffersTyped, InfoTyped,
         locals, buffers, info, history
  <1>29. CASE UNCHANGED vars
    BY <1>29 DEF PcTyped, LocalsTyped, BuffersTyped, InfoTyped, ChainTyped,
       vars, locals, buffers, info, chain, history
  <1>30. QED
    BY <1>1, <1>2, <1>3, <1>4, <1>5, <1>6, <1>7, <1>8, <1>9, <1>10, <1>11, <1>12, <1>13, <1>14,
       <1>15, <1>16, <1>17, <1>18, <1>19, <1>20, <1>21, <1>22, <1>23, <1>24, <1>25, <1>26, <1>27,
       <1>28, <1>29 DEF Next, User, Shell, Worker, Driver, Chain, Threads

-----------------------------------------------------------------------------
(* The steps of a thread and of its command.                                *)

LEMMA InStepInit == Init => InStep
  BY DEF Init, InStep, Both, Threads

LEMMA InStepStep == Typed /\ InStep /\ [Next]_vars => InStep'
  <1> SUFFICES ASSUME Typed, InStep, [Next]_vars PROVE InStep'
    OBVIOUS
  <1> USE FrequencyTestAssumption DEF Typed, PcTyped, Goto, Threads, ShellCommands, WorkerCommands
  <1>1. CASE Start
    BY <1>1 DEF Start, InStep
  <1>2. CASE Freq
    BY <1>2 DEF Freq, InStep
  <1>3. CASE BoardType
    BY <1>3 DEF BoardType, InStep, BuffersTyped, info, Collect
  <1>4. CASE LockPll
    BY <1>4 DEF LockPll, InStep, info, history
  <1>5. CASE SetPll
    BY <1>5 DEF SetPll, InStep, BuffersTyped, info, Collect
  <1>6. CASE UnlockPll
    BY <1>6 DEF UnlockPll, InStep, info, history
  <1>7. CASE Prompt
    BY <1>7 DEF Prompt, InStep
  <1>8. CASE Stop
    BY <1>8 DEF Stop, InStep, info, history
  <1>9. CASE SetIsDone
    BY <1>9 DEF SetIsDone, InStep, history
  <1>10. CASE Join
    BY <1>10 DEF Join, InStep
  <1>11. CASE Quit
    BY <1>11 DEF Quit, InStep
  <1>12. CASE Bringup
    BY <1>12 DEF Bringup, InStep, info
  <1>13. CASE BringupFailed
    BY <1>13 DEF BringupFailed, InStep
  <1>14. CASE CheckGN
    BY <1>14 DEF CheckGN, InStep, info, history
  <1>15. CASE LockGN
    BY <1>15 DEF LockGN, InStep, info, history
  <1>16. CASE ReadGN
    BY <1>16 DEF ReadGN, InStep, BuffersTyped, info, Collect
  <1>17. CASE HandleHash
    BY <1>17 DEF HandleHash, InStep, info, Collect
  <1>18. CASE HandleResult
    BY <1>18 DEF HandleResult, InStep, BuffersTyped, Collect, GiveUp
  <1>19. CASE UnlockGN
    BY <1>19 DEF UnlockGN, InStep, info, history
  <1>20. CASE CheckOON
    BY <1>20 DEF CheckOON, InStep, info, history
  <1>21. CASE ReadOON
    BY <1>21 DEF ReadOON, InStep, BuffersTyped, info, Collect
  <1>22. CASE LockOON
    BY <1>22 DEF LockOON, InStep, info, history
  <1>23. CASE HandleOON
    BY <1>23 DEF HandleOON, InStep, BuffersTyped, info, Collect
  <1>24. CASE CheckKey
    BY <1>24 DEF CheckKey, InStep, info, GiveUp
  <1>25. CASE Exit
    BY <1>25 DEF Exit, InStep, history
  <1>26. ASSUME NEW t \in Threads, Fill(t) PROVE InStep'
    BY <1>26, FrameAt DEF Fill, InStep, BuffersTyped, info, history
  <1>27. ASSUME NEW t \in Threads, Transfer(t) PROVE InStep'
    BY <1>27 DEF Transfer, InStep, BuffersTyped, ChainTyped, info
  <1>28. ASSUME NEW c \in Chips, Exhaust(c) \/ FindNonce(c) PROVE InStep'
    BY <1>28 DEF Exhaust, FindNonce, InStep, info, history
  <1>29. CASE UNCHANGED vars
    BY <1>29 DEF InStep, vars, info, history
  <1>30. QED
    BY <1>1, <1>2, <1>3, <1>4, <1>5, <1>6, <1>7, <1>8, <1>9, <1>10, <1>11, <1>12, <1>13, <1>14,
       <1>15, <1>16, <1>17, <1>18, <1>19, <1>20, <1>21, <1>22, <1>23, <1>24, <1>25, <1>26, <1>27,
       <1>28, <1>29 DEF Next, User, Shell, Worker, Driver, Chain, Threads

-----------------------------------------------------------------------------
(* The lock.                                                                *)

LEMMA LockStep == Typed /\ InStep /\ LockHeld /\ [Next]_vars => LockHeld'
  <1> SUFFICES ASSUME Typed, InStep, LockHeld, [Next]_vars PROVE LockHeld'
    OBVIOUS
  <1> USE DEF Typed, PcTyped, LockHeld, Goto, Threads
  <1>1. CASE Start
    BY <1>1 DEF Start, InStep
  <1>2. CASE Freq
    BY <1>2 DEF Freq
  <1>3. CASE BoardType
    BY <1>3 DEF BoardType
  <1>4. CASE LockPll
    BY <1>4 DEF LockPll, Free
  <1>5. CASE SetPll
    BY <1>5 DEF SetPll
  <1>6. CASE UnlockPll
    BY <1>6 DEF UnlockPll
  <1>7. CASE Prompt
    BY <1>7 DEF Prompt
  <1>8. CASE Stop
    BY <1>8 DEF Stop
  <1>9. CASE SetIsDone
    BY <1>9 DEF SetIsDone, Free
  <1>10. CASE Join
    BY <1>10 DEF Join
  <1>11. CASE Quit
    BY <1>11 DEF Quit
  <1>12. CASE Bringup
    BY <1>12 DEF Bringup
  <1>13. CASE BringupFailed
    BY <1>13 DEF BringupFailed
  <1>14. CASE CheckGN
    BY <1>14 DEF CheckGN
  <1>15. CASE LockGN
    BY <1>15 DEF LockGN, Free
  <1>16. CASE ReadGN
    BY <1>16 DEF ReadGN
  <1>17. CASE HandleHash
    BY <1>17 DEF HandleHash
  <1>18. CASE HandleResult
    BY <1>18 DEF HandleResult, GiveUp
  <1>19. CASE UnlockGN
    BY <1>19 DEF UnlockGN
  <1>20. CASE CheckOON
    BY <1>20 DEF CheckOON
  <1>21. CASE ReadOON
    BY <1>21 DEF ReadOON
  <1>22. CASE LockOON
    BY <1>22 DEF LockOON, Free
  <1>23. CASE HandleOON
    BY <1>23 DEF HandleOON
  <1>24. CASE CheckKey
    BY <1>24 DEF CheckKey, GiveUp
  <1>25. CASE Exit
    BY <1>25 DEF Exit
  <1>26. ASSUME NEW t \in Threads, Fill(t) PROVE LockHeld'
    BY <1>26 DEF Fill
  <1>27. ASSUME NEW t \in Threads, Transfer(t) PROVE LockHeld'
    BY <1>27 DEF Transfer
  <1>28. ASSUME NEW c \in Chips, Exhaust(c) \/ FindNonce(c) PROVE LockHeld'
    BY <1>28 DEF Exhaust, FindNonce
  <1>29. CASE UNCHANGED vars
    BY <1>29 DEF vars
  <1>30. QED
    BY <1>1, <1>2, <1>3, <1>4, <1>5, <1>6, <1>7, <1>8, <1>9, <1>10, <1>11, <1>12, <1>13, <1>14,
       <1>15, <1>16, <1>17, <1>18, <1>19, <1>20, <1>21, <1>22, <1>23, <1>24, <1>25, <1>26, <1>27,
       <1>28, <1>29 DEF Next, User, Shell, Worker, Driver, Chain, Threads

-----------------------------------------------------------------------------
(* The account of jobs and OONs of the last chip.                           *)

\* Only start forgets a frame of the other thread or a failed transfer.
LEMMA HistoryStep ==
  ASSUME Typed, [Next]_vars, ~Start, ~stolen', faults' = 0
  PROVE  ~stolen /\ faults = 0
  <1> USE DEF Typed, BuffersTyped, ChainTyped, history, Collect
  <1>1. CASE Freq
    BY <1>1 DEF Freq
  <1>2. CASE BoardType
    BY <1>2 DEF BoardType
  <1>3. CASE LockPll
    BY <1>3 DEF LockPll
  <1>4. CASE SetPll
    BY <1>4 DEF SetPll
  <1>5. CASE UnlockPll
    BY <1>5 DEF UnlockPll
  <1>6. CASE Prompt
    BY <1>6 DEF Prompt
  <1>7. CASE Stop
    BY <1>7 DEF Stop
  <1>8. CASE SetIsDone
    BY <1>8 DEF SetIsDone
  <1>9. CASE Join
    BY <1>9 DEF Join
  <1>10. CASE Quit
    BY <1>10 DEF Quit
  <1>11. CASE Bringup
    BY <1>11 DEF Bringup
  <1>12. CASE BringupFailed
    BY <1>12 DEF BringupFailed
  <1>13. CASE CheckGN
    BY <1>13 DEF CheckGN
  <1>14. CASE LockGN
    BY <1>14 DEF LockGN
  <1>15. CASE ReadGN
    BY <1>15 DEF ReadGN
  <1>16. CASE HandleHash
    BY <1>16 DEF HandleHash
  <1>17. CASE HandleResult
    BY <1>17 DEF HandleResult, GiveUp
  <1>18. CASE UnlockGN
    BY <1>18 DEF UnlockGN
  <1>19. CASE CheckOON
    BY <1>19 DEF CheckOON
  <1>20. CASE ReadOON
    BY <1>20 DEF ReadOON
  <1>21. CASE LockOON
    BY <1>21 DEF LockOON
  <1>22. CASE HandleOON
    BY <1>22 DEF HandleOON
  <1>23. CASE CheckKey
    BY <1>23 DEF CheckKey, GiveUp
  <1>24. CASE Exit
    BY <1>24 DEF Exit
  <1>25. ASSUME NEW t \in Threads, Fill(t) PROVE ~stolen /\ faults = 0
    BY <1>25 DEF Fill
  <1>26. ASSUME NEW t \in Threads, Transfer(t) PROVE ~stolen /\ faults = 0
    BY <1>26 DEF Transfer
  <1>27. ASSUME NEW c \in Chips, Exhaust(c) \/ FindNonce(c) PROVE ~stolen /\ faults = 0
    BY <1>27 DEF Exhaust, FindNonce
  <1>28. CASE UNCHANGED vars
    BY <1>28 DEF vars
  <1>29. QED
    BY <1>1, <1>2, <1>3, <1>4, <1>5, <1>6, <1>7, <1>8, <1>9, <1>10, <1>11, <1>12, <1>13, <1>14,
       <1>15, <1>16, <1>17, <1>18, <1>19, <1>20, <1>21, <1>22, <1>23, <1>24, <1>25, <1>26, <1>27,
       <1>28 DEF Next, User, Shell, Worker, Driver, Chain, Threads

LEMMA AccountInit == Init => Account
  BY FrequencyTestAssumption DEF Init, Account, InOrder, OwnReply, All, Chips, NoReply

LEMMA LastIsChip == NumChips \in Chips
  BY FrequencyTestAssumption DEF Chips

\* What a frame does to the jobs and the OONs.
LEMMA EffectOnJobs ==
  ASSUME NEW frame, Effect(frame), dropped \in BOOLEAN
  PROVE  /\ frame.cmd \notin {"RUN_JOB", "CLEAR_OON"} => UNCHANGED <<jobs, oon, dropped>>
         /\ frame.cmd = "CLEAR_OON" => UNCHANGED <<jobs, dropped>> /\ oon' = [c \in Chips |-> FALSE]
         /\ frame.cmd = "RUN_JOB" =>
              /\ oon' = oon
              /\ jobs' = [c \in Chips |-> IF jobs[c] < FifoDepth THEN jobs[c] + 1 ELSE jobs[c]]
              /\ dropped' => dropped \/ \E c \in Chips : jobs[c] = FifoDepth
  <1>1. /\ jobs' = IF frame.cmd = "RUN_JOB"
                     THEN [c \in Chips |-> IF jobs[c] < FifoDepth THEN jobs[c] + 1 ELSE jobs[c]]
                     ELSE jobs
        /\ oon' = IF frame.cmd = "CLEAR_OON" THEN [c \in Chips |-> FALSE] ELSE oon
    BY DEF Effect
  <1>2. dropped' = (dropped \/ (frame.cmd = "RUN_JOB" /\ \E c \in Chips : jobs[c] = FifoDepth))
    BY DEF Effect
  <1>3. frame.cmd # "RUN_JOB" => dropped' = dropped
    BY <1>2
  <1>4. dropped' => dropped \/ \E c \in Chips : jobs[c] = FifoDepth
    BY <1>2
  <1>5. QED
    BY <1>1, <1>3, <1>4

\* A healthy Transfer sends the thread's own frame.
LEMMA OwnTransfer ==
  ASSUME Typed, NEW t \in Threads, Transfer(t), ~freed, faults = 0, faults' = 0, ~stolen'
  PROVE  /\ Effect(txBuf) /\ rxBuf' = Reply(t) /\ txBuf = Frame(t) /\ InCommand(t)
         /\ phase[t] = "TRANSFER" /\ phase' = [phase EXCEPT ![t] = "COLLECT"]
         /\ UNCHANGED <<pc, step>>
  <1>1. /\ InCommand(t) /\ phase[t] = "TRANSFER" /\ UNCHANGED <<pc, step>>
        /\ Effect(txBuf) /\ rxBuf' = Reply(t)
        /\ stolen' = (stolen \/ txBuf # Frame(t))
        /\ phase' = [phase EXCEPT ![t] = "COLLECT"]
    BY DEF Transfer, locals
  <1>2. txBuf = Frame(t)
    BY <1>1
  <1>3. QED
    BY <1>1, <1>2

LEMMA AccountStep ==
  Typed /\ InStep /\ (~stolen /\ faults = 0 => Account) /\ [Next]_vars
    => (~stolen' /\ faults' = 0 => Account')
  <1> SUFFICES ASSUME Typed, InStep, ~stolen /\ faults = 0 => Account,
                      [Next]_vars, ~stolen', faults' = 0
               PROVE  Account'
    OBVIOUS
  <1>1. CASE Start
    BY <1>1, FrequencyTestAssumption DEF Start, Account, InOrder, OwnReply, All, Goto, Typed,
       PcTyped, Threads, Chips
  <1> SUFFICES ASSUME ~Start PROVE Account'
    BY <1>1
  <1>2. ~stolen /\ faults = 0 /\ Account
    BY HistoryStep
  <1> USE <1>2, FrequencyTestAssumption DEF Account, Typed, PcTyped, Threads, Goto
  <1>3. CASE Freq
    BY <1>3 DEF Freq, InOrder, Owed, Cleared, OwnReply, locals, buffers, chain
  <1>4. CASE BoardType
    BY <1>4 DEF BoardType, InOrder, Owed, Cleared, OwnReply, locals, chain, Collect
  <1>5. CASE LockPll
    BY <1>5 DEF LockPll, InOrder, Owed, Cleared, OwnReply, buffers, chain, history
  <1>6. CASE SetPll
    BY <1>6 DEF SetPll, InOrder, Owed, Cleared, OwnReply, chain, Collect
  <1>7. CASE UnlockPll
    BY <1>7 DEF UnlockPll, InOrder, Owed, Cleared, OwnReply, locals, buffers, chain, history
  <1>8. CASE Prompt
    BY <1>8 DEF Prompt, InOrder, Owed, Cleared, OwnReply, locals, buffers, chain
  <1>9. CASE Stop
    BY <1>9 DEF Stop, InOrder, Owed, Cleared, OwnReply, locals, buffers, chain, history
  <1>10. CASE SetIsDone
    BY <1>10 DEF SetIsDone, InOrder, Owed, Cleared, OwnReply, locals, buffers, chain, history
  <1>11. CASE Join
    BY <1>11 DEF Join, InOrder, Owed, Cleared, OwnReply, chain, history
  <1>12. CASE Quit
    BY <1>12 DEF Quit, InOrder, Owed, Cleared, OwnReply, locals, buffers, chain, history
  <1>13. CASE Bringup
    BY <1>13, LastIsChip DEF Bringup, InOrder, Owed, OwnReply, All, history
  <1>14. CASE BringupFailed
    BY <1>14 DEF BringupFailed, InOrder, Owed, Cleared, OwnReply, chain
  <1>15. CASE CheckGN
    BY <1>15 DEF CheckGN, InOrder, Owed, Cleared, OwnReply, chain, history
  <1>16. CASE LockGN
    BY <1>16 DEF LockGN, InOrder, Owed, Cleared, OwnReply, chain, history
  <1>17. CASE ReadGN
    BY <1>17 DEF ReadGN, InOrder, Owed, Cleared, OwnReply, chain
  <1>18. CASE HandleHash
    BY <1>18 DEF HandleHash, InOrder, Owed, Cleared, OwnReply, chain
  <1>19. CASE HandleResult
    BY <1>19 DEF HandleResult, InOrder, Owed, Cleared, OwnReply, chain, GiveUp
  <1>20. CASE UnlockGN
    BY <1>20 DEF UnlockGN, InOrder, Owed, Cleared, OwnReply, chain, history
  <1>21. CASE CheckOON
    BY <1>21 DEF CheckOON, InOrder, Owed, Cleared, OwnReply, InStep, WorkerCommands, chain,
       history
  <1>22. CASE ReadOON
    <2>1. phase["worker"] = "COLLECT" /\ rxBuf.from = "worker"
      <3>1. Collect("worker")
        BY <1>22 DEF ReadOON
      <3>2. phase["worker"] = "COLLECT"
        BY <3>1 DEF Collect, InStep
      <3>3. stolen' = (stolen \/ (phase["worker"] = "COLLECT" /\ rxBuf.from # "worker"))
        BY <3>1 DEF Collect
      <3>4. QED
        BY <3>2, <3>3
    <2>2. Own("worker")
      BY <1>22, <2>1, FrameAt DEF ReadOON, Own, OwnReply
    <2>3. pc'["worker"] = "OON_LOCK" => Owed
      BY <1>22, <2>1, <2>2 DEF ReadOON, Answers, Owed
    <2>4. pc'["worker"] \in {"OON_LOCK", "LOOP"}
      BY <1>22 DEF ReadOON
    <2>5. UNCHANGED <<jobs, oon, dropped>>
      BY <1>22 DEF ReadOON, chain
    <2>6. ~Cleared
      BY <1>22 DEF ReadOON, Cleared
    <2>7. QED
      BY <2>3, <2>4, <2>5, <2>6 DEF InOrder, Owed, Cleared, OwnReply
  <1>23. CASE LockOON
    <2>1. phase["worker"] = "FILL" /\ phase' = phase
      BY <1>23 DEF LockOON, InStep, WorkerCommands
    <2>2. pc'["worker"] = "OON" /\ step'["worker"] = 1 /\ UNCHANGED <<jobs, oon, dropped>>
      BY <1>23 DEF LockOON, LocalsTyped, chain, history
    <2>3. Owed /\ ~Cleared
      BY <1>23 DEF LockOON, Owed, Cleared
    <2>4. QED
      BY <2>1, <2>2, <2>3 DEF InOrder, Cleared, OwnReply
  <1>24. CASE HandleOON
    <2>1. phase["worker"] = "COLLECT" /\ phase'["worker"] = "FILL"
      BY <1>24 DEF HandleOON, Collect, InStep, BuffersTyped
    <2>2. UNCHANGED <<jobs, oon, dropped>>
      BY <1>24 DEF HandleOON, chain
    <2>3. \/ step["worker"] = 1 /\ step'["worker"] = 2 /\ pc'["worker"] = "OON"
          \/ step["worker"] = 2 /\ pc'["worker"] = "KEY"
      BY <1>24 DEF HandleOON, LocalsTyped, OonSeries
    <2>4. pc["worker"] = "OON"
      BY <1>24 DEF HandleOON
    <2>5. QED
      BY <2>1, <2>2, <2>3, <2>4 DEF InOrder, Owed, Cleared, OwnReply
  <1>25. CASE CheckKey
    BY <1>25 DEF CheckKey, InOrder, Owed, Cleared, OwnReply, chain, GiveUp
  <1>26. CASE Exit
    BY <1>26 DEF Exit, InOrder, Owed, Cleared, OwnReply, chain, history
  <1>27. ASSUME NEW t \in Threads, Fill(t) PROVE Account'
    <2>1. UNCHANGED <<step, rxBuf, jobs, oon, dropped>>
      BY <1>27 DEF Fill, locals, chain, history
    <2>2. CASE t = "shell"
      <3>1. pc'["worker"] = pc["worker"] /\ phase'["worker"] = phase["worker"]
        BY <1>27, <2>2 DEF Fill, BuffersTyped
      <3>2. QED
        BY <2>1, <3>1 DEF InOrder, Owed, Cleared, OwnReply
    <2>3. CASE t = "worker"
      <3>1. pc' = pc /\ phase["worker"] = "FILL" /\ phase'["worker"] = "TRANSFER"
        BY <1>27, <2>3, OnlyShellCrashes DEF Fill, BuffersTyped
      <3>2. QED
        BY <2>1, <3>1 DEF InOrder, Owed, Cleared, OwnReply
    <2>4. QED
      BY <2>2, <2>3
  <1>28. ASSUME Transfer("shell") PROVE Account'
    <2>1. UNCHANGED step /\ pc'["worker"] = pc["worker"] /\ phase'["worker"] = phase["worker"]
      BY <1>28 DEF Transfer, BuffersTyped, locals
    <2>2. CASE freed
      <3>1. UNCHANGED <<rxBuf, jobs, oon, dropped>>
        BY <1>28, <2>2 DEF Transfer, chain
      <3>2. QED
        BY <2>1, <3>1 DEF InOrder, Owed, Cleared, OwnReply
    <2>3. CASE ~freed
      <3>1. Effect(txBuf) /\ rxBuf' = Reply("shell") /\ txBuf = Frame("shell") /\ InCommand("shell")
        BY <1>28, <2>3, OwnTransfer
      <3>2. txBuf.cmd \notin {"RUN_JOB", "CLEAR_OON"}
        BY <3>1, FrameAt DEF ShellCommands, LocalsTyped, PllSeries
      <3>3. UNCHANGED <<jobs, oon, dropped>> /\ rxBuf'.from = "shell"
        BY <3>1, <3>2, EffectOnJobs DEF Reply, ChainTyped
      <3>4. QED
        BY <2>1, <3>3 DEF InOrder, Owed, Cleared, OwnReply
    <2>4. QED
      BY <2>2, <2>3
  <1>29. ASSUME Transfer("worker") PROVE Account'
    <2>1. /\ Effect(txBuf) /\ rxBuf' = Reply("worker") /\ txBuf = Frame("worker")
          /\ InCommand("worker") /\ phase["worker"] = "TRANSFER" /\ phase'["worker"] = "COLLECT"
          /\ UNCHANGED <<pc, step>>
      <3>1. ~freed
        BY <1>29, OnlyShellCrashes DEF Transfer
      <3>2. QED
        BY <1>29, <3>1, OwnTransfer DEF BuffersTyped
    <2>2. CASE pc["worker"] # "OON"
      <3>1. txBuf.cmd \notin {"RUN_JOB", "CLEAR_OON"}
        BY <2>1, <2>2, FrameAt DEF WorkerCommands
      <3>2. UNCHANGED <<jobs, oon, dropped>>
        BY <2>1, <3>1, EffectOnJobs DEF ChainTyped
      <3>3. pc["worker"] = "OON_JOB_ID" =>
              rxBuf'.cmd = "READ_JOB_ID" /\ rxBuf'.answer.oon = oon[NumChips]
        BY <2>1, FrameAt DEF Reply
      <3>4. QED
        BY <2>1, <2>2, <3>2, <3>3, LastIsChip DEF InOrder, Owed, Cleared, OwnReply, ChainTyped
    <2>3. CASE pc["worker"] = "OON" /\ step["worker"] = 1
      <3>1. txBuf.cmd = "CLEAR_OON"
        BY <2>1, <2>3, FrameAt DEF OonSeries
      <3>2. UNCHANGED <<jobs, dropped>> /\ ~oon'[NumChips]
        BY <2>1, <3>1, LastIsChip, EffectOnJobs DEF ChainTyped
      <3>3. QED
        BY <2>1, <2>3, <3>2 DEF InOrder, Owed, OwnReply
    <2>4. CASE pc["worker"] = "OON" /\ step["worker"] = 2
      <3>1. txBuf.cmd = "RUN_JOB"
        BY <2>1, <2>4, FrameAt DEF OonSeries
      <3>2. jobs[NumChips] < FifoDepth /\ (oon[NumChips] => jobs[NumChips] + 1 < FifoDepth)
        BY <2>1, <2>4 DEF Owed, Cleared
      <3>3. \A c \in Chips : jobs[c] \in 0 .. FifoDepth /\ jobs[c] <= jobs[NumChips]
        BY LastIsChip DEF InOrder, ChainTyped, Chips
      <3>4. \A c \in Chips : jobs[c] < FifoDepth
        BY <3>2, <3>3, LastIsChip
      <3>5. ~dropped' /\ oon' = oon /\ jobs' = [c \in Chips |-> jobs[c] + 1]
        <4>1. /\ oon' = oon
              /\ jobs' = [c \in Chips |-> IF jobs[c] < FifoDepth THEN jobs[c] + 1 ELSE jobs[c]]
              /\ dropped' => dropped \/ \E c \in Chips : jobs[c] = FifoDepth
          BY <2>1, <3>1, EffectOnJobs DEF ChainTyped
        <4>2. QED
          BY <4>1, <3>3, <3>4
      <3>6. InOrder'
        BY <3>3, <3>5 DEF InOrder
      <3>7. ~Owed' /\ ~Cleared' /\ OwnReply' /\ pc'["worker"] # "INIT"
        BY <2>1, <2>4 DEF Owed, Cleared, OwnReply
      <3>8. oon'[NumChips] => jobs'[NumChips] < FifoDepth
        BY <3>2, <3>5, LastIsChip
      <3>9. jobs'[NumChips] \in Int
        BY <3>3, <3>5, LastIsChip
      <3>10. QED
        BY <3>5, <3>6, <3>7, <3>8, <3>9
    <2>5. QED
      BY <2>2, <2>3, <2>4 DEF LocalsTyped
  <1>30. ASSUME NEW c \in Chips, Exhaust(c) PROVE Account'
    <2>1. UNCHANGED <<pc, step, phase, rxBuf, dropped>>
      BY <1>30 DEF Exhaust, locals, buffers, history
    <2>2. /\ \A d \in Chips : jobs[d] \in 0 .. FifoDepth
          /\ jobs[c] > 0
          /\ jobs' = [jobs EXCEPT ![c] = jobs[c] - 1]
          /\ oon' = [oon EXCEPT ![c] = TRUE]
      BY <1>30 DEF Exhaust, ChainTyped
    <2>3. InOrder'
      <3>1. \A b \in Chips : b < c => jobs[b] <= jobs[c] - 1
        <4> TAKE b \in Chips
        <4> HAVE b < c
        <4>1. c - 1 \in Chips /\ jobs[c - 1] < jobs[c]
          BY <1>30 DEF Exhaust, Chips
        <4>2. jobs[b] <= jobs[c - 1]
          BY <4>1, <2>2 DEF InOrder, Chips
        <4>3. QED
          BY <4>1, <4>2, <2>2
      <3>2. \A b, d \in Chips : b < d => jobs'[b] <= jobs'[d]
        BY <3>1, <2>2 DEF InOrder
      <3>3. QED
        BY <3>2 DEF InOrder
    <2>4. pc["worker"] # "INIT"
      BY <2>2
    <2>5. /\ jobs'[NumChips] <= jobs[NumChips] /\ jobs'[NumChips] \in Int
          /\ NumChips = c => jobs'[NumChips] = jobs[NumChips] - 1
          /\ NumChips # c => jobs'[NumChips] = jobs[NumChips]
      BY <2>2, LastIsChip DEF ChainTyped
    <2>6. (Owed' <=> Owed) /\ (Cleared' <=> Cleared) /\ (OwnReply' <=> OwnReply)
      BY <2>1 DEF Owed, Cleared, OwnReply
    <2>7. Cleared => Owed
      BY DEF Cleared, Owed
    <2>8. jobs[NumChips] \in 0 .. FifoDepth
      BY <2>2, LastIsChip
    <2>9. Owed' => jobs'[NumChips] < FifoDepth
      BY <2>5, <2>6, <2>8
    <2>10. oon'[NumChips] => jobs'[NumChips] + (IF Cleared THEN 1 ELSE 0) < FifoDepth
      <3>1. CASE NumChips = c
        BY <3>1, <2>5, <2>7, <2>8
      <3>2. CASE NumChips # c
        <4>1. oon'[NumChips] = oon[NumChips]
          BY <3>2, <2>2, LastIsChip DEF ChainTyped
        <4>2. QED
          BY <3>2, <4>1, <2>5, <2>8
      <3>3. QED
        BY <3>1, <3>2
    <2>11. QED
      BY <2>1, <2>3, <2>4, <2>6, <2>9, <2>10
  <1>31. ASSUME NEW c \in Chips, FindNonce(c) PROVE Account'
    BY <1>31 DEF FindNonce, InOrder, Owed, Cleared, OwnReply, locals, buffers, history
  <1>32. CASE UNCHANGED vars
    BY <1>32 DEF InOrder, Owed, Cleared, OwnReply, vars, locals, buffers, chain, history
  <1>33. QED
    BY <1>3, <1>4, <1>5, <1>6, <1>7, <1>8, <1>9, <1>10, <1>11, <1>12, <1>13, <1>14, <1>15, <1>16,
       <1>17, <1>18, <1>19, <1>20, <1>21, <1>22, <1>23, <1>24, <1>25, <1>26, <1>27, <1>28, <1>29,
       <1>30, <1>31, <1>32
       DEF Next, User, Shell, Worker, Driver, Chain

-----------------------------------------------------------------------------
LEMMA IInvInit == Init => IInv
  <1> SUFFICES ASSUME Init PROVE IInv
    OBVIOUS
  <1>1. Typed /\ InStep /\ Account
    BY TypedInit, InStepInit, AccountInit
  <1>2. LockHeld
    BY DEF Init, LockHeld, Threads
  <1>3. QED
    BY <1>1, <1>2 DEF IInv

LEMMA IInvStep == IInv /\ [Next]_vars => IInv'
  BY TypedStep, InStepStep, LockStep, AccountStep DEF IInv

\* The invariant: values of the right types, a thread that is nowhere but in a command
\* with a frame half done, a lock whose holder knows it, and an account of the jobs of
\* the last chip that balances while no frame was stolen and no transfer failed.
THEOREM Inductive == Spec => []IInv
  <1>1. QED
    BY IInvInit, IInvStep, PTL DEF Spec

\* The variables keep their types, and a thread inside a command is at one of its steps.
THEOREM TypeCorrect == Spec => []TypeOK
  <1>1. IInv => TypeOK
    <2> SUFFICES ASSUME IInv PROVE TypeOK
      OBVIOUS
    <2> USE DEF IInv, Typed
    <2>1. \A t \in Threads : phase[t] \in Phases
      BY DEF BuffersTyped
    <2>2. step \in [Threads -> 1 .. Len(PllSeries)]
      BY DEF LocalsTyped, PllSeries
    <2>3. pll \in [Chips -> [freq : Freqs \cup {Unknown}, out : BOOLEAN]]
      BY DEF ChainTyped, Pll, Asked
    <2>4. QED
      BY <2>1, <2>2, <2>3 DEF TypeOK, Phases, LocalsTyped, InfoTyped, ChainTyped
  <1>2. QED
    BY <1>1, Inductive, PTL

\* The lock of BTC08_INFO keeps the buffers of the handle to one thread from the first
\* byte of a command to its answer, except for READ_FEATURE of the freq command and
\* READ_JOB_ID of the OON check, which SingleCommand.c sends without it.
THEOREM BuffersKept == Spec => []LockKeepsBuffers
  <1>1. IInv => LockKeepsBuffers
    <2> SUFFICES ASSUME IInv, UsesBuffers("shell"), UsesBuffers("worker")
                 PROVE  pc["shell"] = "FEATURE" \/ pc["worker"] = "OON_JOB_ID"
      BY DEF LockKeepsBuffers
    <2>1. pc["shell"] \in ShellCommands /\ pc["worker"] \in WorkerCommands
      BY FrameAt DEF IInv, UsesBuffers
    <2>2. QED
      BY <2>1 DEF IInv, LockHeld, ShellCommands, WorkerCommands
  <1>2. QED
    BY <1>1, Inductive, PTL

\* The jobs that answer the OONs of the last chip never overflow a FIFO, for any number
\* of chips and any depth, as long as every thread sends its own frames and no transfer
\* fails.
THEOREM NoJobIsDropped == Spec => []NoJobDropped
  <1>1. IInv => NoJobDropped
    BY DEF IInv, Typed, ChainTyped, Account, NoJobDropped
  <1>2. QED
    BY <1>1, Inductive, PTL
=============================================================================
