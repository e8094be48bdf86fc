-------------------------- MODULE EnableChipProofs --------------------------
(***************************************************************************)
(* Proofs about EnableChip, for any number of chips, any FIFO depth and any *)
(* number of enables and failing calls.  Every enable is worth two jobs of  *)
(* its chip, and every OON one more for the one that ended: jobs queued,    *)
(* jobs on their way and OONs without an answer are counted against that.   *)
(* The chip the worker starts next is not enabled yet, so neither thread    *)
(* starts a chip the other one is starting.                                 *)
(***************************************************************************)
EXTENDS EnableChip, FiniteSetTheorems, TLAPS

ShellLabels  == SetLabels \cup {"IDLE", "CMD", "STOP", "JOIN", "OUT", "CRASHED"}
WorkerLabels == SetLabels \cup {"IDLE", "INIT", "INIT_FLAGS", "LOCK", "NEXT_CHIP", "LOOP",
                                "GN_SCAN",
                                "GN", "OON_PIN", "OON_SCAN", "OON", "OON_RUN", "END"}

\* The worker has marked all chips as done, and works on them.
Marked == pc["worker"] \notin {"IDLE", "INIT", "INIT_FLAGS", "END"}

\* While the worker goes through its first chips, it adds one to i and to chipId together.
Starting == {"SET", "FLAGS", "RUN1", "RUN2", "NEXT_CHIP"}

\* The type invariant in three parts, with the labels of each thread.
LocalsTyped ==
  /\ pc \in [Threads -> ShellLabels \cup WorkerLabels]
  /\ pc["shell"] \in ShellLabels /\ pc["worker"] \in WorkerLabels
  /\ i \in 0 .. NumChips - 1 /\ chipId \in Chips
  /\ pc["worker"] = "NEXT_CHIP" => i + 1 < NumChips

InfoTyped ==
  /\ delayed \in BOOLEAN /\ isDone \in BOOLEAN /\ overlap \in BOOLEAN
  /\ chip_enable \in [Chips -> BOOLEAN] /\ chip_isdone \in [Chips -> BOOLEAN]
  /\ counted \in Nat /\ enables \in [Chips -> Nat]
  /\ lock \in Threads \cup {"none"} /\ wanted \subseteq Chips

ChainTyped ==
  /\ gn \in [Chips -> BOOLEAN] /\ oon \in [Chips -> BOOLEAN]
  /\ jobs \in [Chips -> 0 .. FifoDepth]
  /\ exhausted \in Nat /\ faults \in 0 .. MaxFaults

Typed == LocalsTyped /\ InfoTyped /\ ChainTyped

\* A chip that is enabled, scanned or not marked done was enabled by somebody.
Known(c) == enables[c] > 0
EnabledKnown ==
  /\ \A c \in Chips : chip_enable[c] => Known(c)
  /\ pc["worker"] \in {"GN", "OON", "OON_RUN"} => Known(i + 1)
  /\ Marked => \A c \in Chips : ~chip_isdone[c] => Known(c)

\* Every OON flag is a job that was exhausted, and is not counted yet.
Oons == { c \in Chips : oon[c] }
Counts ==
  /\ IsFiniteSet(Repeated)
  /\ Cardinality(Oons) <= exhausted
  /\ faults = 0 =>
       Cardinality(Oons) + counted <= exhausted + Cardinality(Done) + Cardinality(Repeated)

\* Chips the worker has not come to yet are not enabled.
InTurn ==
  /\ pc["shell"] = "IDLE" <=> pc["worker"] = "IDLE"
  /\ pc["worker"] = "NEXT_CHIP" => delayed
  /\ pc["worker"] \in {"IDLE", "INIT", "INIT_FLAGS", "LOCK"} =>
       \A c \in Chips : enables[c] = 0
  /\ pc["worker"] \in Starting /\ delayed => chipId = i + 1
  /\ pc["worker"] \in {"SET", "FLAGS"} =>
       \A c \in Chips : chip_enable[c] => delayed /\ c <= i
  /\ pc["worker"] \in {"RUN1", "RUN2", "NEXT_CHIP"} /\ delayed =>
       \A c \in Chips : chip_enable[c] => c <= i + 1
  /\ pc["shell"] \in SetLabels => InLoop
  /\ isDone => pc["shell"] \in {"JOIN", "OUT"}
  /\ pc["worker"] = "END" => isDone

\* Jobs that thread t is about to send to chip c.
Pending(t, c) ==
  IF chipId # c THEN 0
  ELSE IF pc[t] = "RUN1" THEN 2
  ELSE IF pc[t] = "RUN2" THEN 1 ELSE 0

\* OONs of chip c that are not answered with a job yet.
Unanswered(c) ==
  (IF oon[c] THEN 1 ELSE 0) + (IF pc["worker"] = "OON_RUN" /\ i + 1 = c THEN 1 ELSE 0)

\* A chip is given two jobs for every enable, and one for every one it ended.
Account ==
  \A c \in Chips :
    jobs[c] + Pending("shell", c) + Pending("worker", c) + Unanswered(c) <= 2 * enables[c]

Served ==
  \A c \in Chips : chip_enable[c] => jobs[c] > 0 \/ oon[c] \/ BeingServed(c)

\* No transfer failed, and no enable met a worker that was still starting.
Undisturbed == faults = 0 /\ ~overlap

IInv ==
  /\ Typed /\ EnabledKnown /\ Counts
  /\ Undisturbed => InTurn /\ Account /\ Served

-----------------------------------------------------------------------------
(* Types.                                                                   *)

LEMMA OutcomeType ==
  ASSUME NEW cmd, NEW ok \in Outcome(cmd)
  PROVE  ok \in BOOLEAN /\ (~ok => faults < MaxFaults)
  BY DEF Outcome

LEMMA FaultType ==
  ASSUME faults \in 0 .. MaxFaults, NEW cmd, NEW ok \in Outcome(cmd), CountFault(~ok)
  PROVE  /\ faults' \in 0 .. MaxFaults
         /\ faults' = 0 => ok /\ faults = 0
  <1>1. ok \in BOOLEAN /\ (~ok => faults < MaxFaults)
    BY OutcomeType
  <1>2. CASE ok
    BY <1>2 DEF CountFault
  <1>3. CASE ~ok
    BY <1>1, <1>3, EnableChipAssumption DEF CountFault
  <1>4. QED
    BY <1>2, <1>3

LEMMA QueueType ==
  ASSUME jobs \in [Chips -> 0 .. FifoDepth], NEW c \in Chips, Queue(c, 1)
  PROVE  /\ jobs' \in [Chips -> 0 .. FifoDepth]
         /\ jobs'[c] > 0 /\ jobs'[c] <= jobs[c] + 1
         /\ \A d \in Chips : d # c => jobs'[d] = jobs[d]
  BY EnableChipAssumption DEF Queue, Chips

LEMMA StepScanType ==
  ASSUME LocalsTyped, NEW scan \in {"GN_SCAN", "OON_SCAN"}, StepScan(scan), chipId' = chipId
  PROVE  /\ LocalsTyped'
         /\ pc'["worker"] \in {"GN_SCAN", "OON_SCAN", "OON_PIN", "LOOP"}
         /\ pc'["shell"] = pc["shell"]
  <1>1. pc'["worker"] \in {"GN_SCAN", "OON_SCAN", "OON_PIN", "LOOP"} /\ pc'["shell"] = pc["shell"]
        /\ pc' \in [Threads -> ShellLabels \cup WorkerLabels]
    BY DEF LocalsTyped, StepScan, NextOfScan, Goto, Threads, WorkerLabels
  <1>2. i' \in 0 .. NumChips - 1
    BY EnableChipAssumption DEF LocalsTyped, StepScan
  <1>3. QED
    BY <1>1, <1>2 DEF LocalsTyped, WorkerLabels

LEMMA TypedInit == Init => Typed
  <1> SUFFICES ASSUME Init PROVE Typed
    OBVIOUS
  <1> USE EnableChipAssumption DEF Init
  <1>1. LocalsTyped
    BY DEF LocalsTyped, ShellLabels, WorkerLabels, Threads
  <1>2. InfoTyped
    BY DEF InfoTyped
  <1>3. ChainTyped
    BY DEF ChainTyped
  <1>4. QED
    BY <1>1, <1>2, <1>3 DEF Typed

LEMMA TypedStep == Typed /\ [Next]_vars => Typed'
  <1> SUFFICES ASSUME Typed, [Next]_vars PROVE Typed'
    OBVIOUS
  <1> USE EnableChipAssumption DEF Typed
  <1>1. ASSUME NEW c \in Chips, Start(c) PROVE Typed'
    <2>1. LocalsTyped'
      BY <1>1 DEF Start, LocalsTyped, ShellLabels, WorkerLabels, Threads
    <2>2. InfoTyped'
      BY <1>1 DEF Start, InfoTyped
    <2>3. QED
      BY <1>1, <2>1, <2>2 DEF Start, ChainTyped, chain
  <1>2. CASE Start2
    <2>1. LocalsTyped'
      BY <1>2 DEF Start2, LocalsTyped, ShellLabels, WorkerLabels, Threads
    <2>2. InfoTyped'
      BY <1>2 DEF Start2, InfoTyped
    <2>3. QED
      BY <1>2, <2>1, <2>2 DEF Start2, ChainTyped, chain
  <1>3. ASSUME NEW c \in Chips, Enable(c) PROVE Typed'
    <2>1. LocalsTyped'
      BY <1>3 DEF Enable, LocalsTyped, ShellLabels, SetLabels, Threads, Goto
    <2>2. InfoTyped'
      BY <1>3 DEF Enable, InfoTyped
    <2>3. QED
      BY <1>3, <2>1, <2>2 DEF Enable, ChainTyped, chain
  <1>4. ASSUME NEW c \in Chips, Disable(c) PROVE Typed'
    <2>1. InfoTyped'
      BY <1>4 DEF Disable, InfoTyped
    <2>2. QED
      BY <1>4, <2>1 DEF Disable, LocalsTyped, ChainTyped, chain
  <1>5. CASE Stop
    <2>1. LocalsTyped'
      BY <1>5 DEF Stop, LocalsTyped, ShellLabels, Threads, Goto, info
    <2>2. QED
      BY <1>5, <2>1 DEF Stop, InfoTyped, ChainTyped, info, chain, history
  <1>6. ASSUME NEW t \in Threads, SetCheck(t) PROVE Typed'
    <2>1. LocalsTyped'
      BY <1>6 DEF SetCheck, LocalsTyped, ShellLabels, WorkerLabels, SetLabels, Threads, Goto
    <2>2. InfoTyped'
      BY <1>6 DEF SetCheck, InfoTyped, history
    <2>3. QED
      BY <1>6, <2>1, <2>2 DEF SetCheck, ChainTyped, chain
  <1>7. ASSUME NEW t \in Threads, SetFlags(t) PROVE Typed'
    <2>1. LocalsTyped'
      BY <1>7 DEF SetFlags, LocalsTyped, ShellLabels, WorkerLabels, SetLabels, Goto
    <2>2. InfoTyped'
      BY <1>7 DEF SetFlags, LocalsTyped, InfoTyped
    <2>3. QED
      BY <1>7, <2>1, <2>2 DEF SetFlags, ChainTyped, chain
  <1>8. ASSUME NEW t \in Threads, SetRun(t) PROVE Typed'
    <2>1. LocalsTyped'
      BY <1>8 DEF SetRun, AfterSet, LocalsTyped, ShellLabels, WorkerLabels, SetLabels, Threads, Goto
    <2>2. InfoTyped'
      BY <1>8 DEF SetRun, InfoTyped, history
    <2>3. ChainTyped'
      <3>1. PICK ok \in Outcome("RUN_JOB") :
              /\ IF ok /\ pc["worker"] # "END" THEN Queue(chipId, 1) ELSE jobs' = jobs
              /\ CountFault(~ok)
        BY <1>8 DEF SetRun
      <3>2. jobs' \in [Chips -> 0 .. FifoDepth]
        BY <3>1, QueueType DEF LocalsTyped, ChainTyped
      <3>3. faults' \in 0 .. MaxFaults
        BY <3>1, FaultType DEF ChainTyped
      <3>4. QED
        BY <1>8, <3>2, <3>3 DEF SetRun, ChainTyped
    <2>4. QED
      BY <2>1, <2>2, <2>3
  <1>9. CASE SetIsDone
    <2>1. LocalsTyped'
      BY <1>9 DEF SetIsDone, LocalsTyped, ShellLabels, Threads, Goto
    <2>2. InfoTyped'
      BY <1>9 DEF SetIsDone, InfoTyped, history
    <2>3. QED
      BY <1>9, <2>1, <2>2 DEF SetIsDone, ChainTyped, chain
  <1>10. CASE Join
    <2>1. LocalsTyped'
      BY <1>10 DEF Join, LocalsTyped, ShellLabels, Threads, Goto, info
    <2>2. QED
      BY <1>10, <2>1 DEF Join, InfoTyped, ChainTyped, info, chain, history
  <1>11. CASE InitReset
    <2>1. LocalsTyped'
      BY <1>11 DEF InitReset, LocalsTyped, WorkerLabels, Threads, Goto, info
    <2>2. ChainTyped'
      BY <1>11 DEF InitReset, ChainTyped
    <2>3. QED
      BY <1>11, <2>1, <2>2 DEF InitReset, InfoTyped, info, history
  <1>12. CASE InitFlags
    <2>1. LocalsTyped'
      BY <1>12 DEF InitFlags, LocalsTyped, WorkerLabels, Threads, Goto
    <2>2. InfoTyped'
      <3>1. \/ /\ chip_enable' = [c \in Chips |-> FALSE] /\ chip_isdone' = [c \in Chips |-> TRUE]
               /\ counted' = 0
            \/ UNCHANGED <<chip_enable, chip_isdone, counted>>
        BY <1>12 DEF InitFlags
      <3>2. chip_enable' \in [Chips -> BOOLEAN] /\ chip_isdone' \in [Chips -> BOOLEAN]
        BY <3>1, Zenon DEF InfoTyped
      <3>3. counted' \in Nat
        BY <3>1 DEF InfoTyped
      <3>4. QED
        BY <1>12, <3>3 DEF InitFlags, InfoTyped, history
    <2>3. ChainTyped'
      <3>1. PICK ok \in Outcome("INIT") : CountFault(~ok)
        BY <1>12 DEF InitFlags
      <3>2. faults' \in 0 .. MaxFaults
        BY <3>1, FaultType DEF ChainTyped
      <3>3. QED
        BY <1>12, <3>2 DEF InitFlags, ChainTyped, chain
    <2>4. QED
      BY <2>1, <2>2, <2>3
  <1>13. CASE TakeLock
    <2>1. LocalsTyped'
      BY <1>13 DEF TakeLock, LocalsTyped, WorkerLabels, SetLabels, Threads, Goto, Chips
    <2>2. InfoTyped'
      BY <1>13 DEF TakeLock, InfoTyped, history, Threads
    <2>3. QED
      BY <1>13, <2>1, <2>2 DEF TakeLock, ChainTyped, chain
  <1>14. CASE NextChip
    <2>1. LocalsTyped'
      BY <1>14 DEF NextChip, LocalsTyped, WorkerLabels, SetLabels, Threads, Goto, Chips
    <2>2. QED
      BY <1>14, <2>1 DEF NextChip, InfoTyped, ChainTyped, chain, history
  <1>15. CASE CheckGN
    <2>1. LocalsTyped'
      BY <1>15 DEF CheckGN, LocalsTyped, WorkerLabels, Threads, Goto, info
    <2>2. QED
      BY <1>15, <2>1 DEF CheckGN, InfoTyped, ChainTyped, info, chain, history
  <1>16. CASE CheckOON
    <2>1. LocalsTyped'
      BY <1>16 DEF CheckOON, LocalsTyped, WorkerLabels, Threads, Goto, info
    <2>2. QED
      BY <1>16, <2>1 DEF CheckOON, InfoTyped, ChainTyped, info, chain, history
  <1>17. CASE Scan("GN_SCAN", "GN")
    <2>1. LocalsTyped'
      <3>1. CASE chip_enable[i + 1]
        BY <1>17, <3>1 DEF Scan, LocalsTyped, WorkerLabels, Threads, Goto, info
      <3>2. CASE ~chip_enable[i + 1]
        BY <1>17, <3>2, StepScanType DEF Scan, info
      <3>3. QED
        BY <3>1, <3>2
    <2>2. QED
      BY <1>17, <2>1 DEF Scan, InfoTyped, ChainTyped, info, chain, history
  <1>18. CASE Scan("OON_SCAN", "OON")
    <2>1. LocalsTyped'
      <3>1. CASE chip_enable[i + 1]
        BY <1>18, <3>1 DEF Scan, LocalsTyped, WorkerLabels, Threads, Goto, info
      <3>2. CASE ~chip_enable[i + 1]
        BY <1>18, <3>2, StepScanType DEF Scan, info
      <3>3. QED
        BY <3>1, <3>2
    <2>2. QED
      BY <1>18, <2>1 DEF Scan, InfoTyped, ChainTyped, info, chain, history
  <1>19. CASE HandleGN
    <2>1. LocalsTyped'
      <3>1. CASE StepScan("GN_SCAN")
        BY <1>19, <3>1, StepScanType DEF HandleGN
      <3>2. CASE i' = i /\ Goto("worker", "END")
        BY <1>19, <3>2 DEF HandleGN, LocalsTyped, WorkerLabels, Threads, Goto
      <3>3. QED
        BY <1>19, <3>1, <3>2 DEF HandleGN
    <2>2. InfoTyped'
      <3>1. /\ chip_isdone' = chip_isdone \/ chip_isdone' = [chip_isdone EXCEPT ![i + 1] = TRUE]
            /\ counted' = counted \/ counted' = counted + 1
            /\ isDone' \in BOOLEAN
        BY <1>19 DEF HandleGN, InfoTyped
      <3>2. chip_isdone' \in [Chips -> BOOLEAN]
        BY <3>1, Zenon DEF InfoTyped
      <3>3. counted' \in Nat
        BY <3>1 DEF InfoTyped
      <3>4. QED
        BY <1>19, <3>3 DEF HandleGN, InfoTyped, history
    <2>3. ChainTyped'
      <3>1. CASE gn[i + 1] /\ ~chip_isdone[i + 1]
        <4>1. PICK ok \in Outcome("READ_RESULT") :
                gn' = [gn EXCEPT ![i + 1] = ~ok] /\ CountFault(~ok)
          BY <1>19, <3>1 DEF HandleGN
        <4>2. gn' \in [Chips -> BOOLEAN] /\ faults' \in 0 .. MaxFaults
          BY <4>1, FaultType DEF ChainTyped
        <4>3. QED
          BY <1>19, <4>2 DEF HandleGN, ChainTyped
      <3>2. CASE ~(gn[i + 1] /\ ~chip_isdone[i + 1])
        BY <1>19, <3>2 DEF HandleGN, ChainTyped
      <3>3. QED
        BY <3>1, <3>2
    <2>4. QED
      BY <2>1, <2>2, <2>3
  <1>20. CASE HandleOON
    <2>1. LocalsTyped'
      <3>1. CASE StepScan("OON_SCAN")
        BY <1>20, <3>1, StepScanType DEF HandleOON
      <3>2. CASE i' = i /\ Goto("worker", "OON_RUN")
        BY <1>20, <3>2 DEF HandleOON, LocalsTyped, WorkerLabels, Threads, Goto
      <3>3. QED
        BY <1>20, <3>1, <3>2 DEF HandleOON
    <2>2. InfoTyped'
      <3>1. /\ chip_isdone' = chip_isdone \/ chip_isdone' = [chip_isdone EXCEPT ![i + 1] = FALSE]
            /\ counted' = counted \/ counted' = counted + 1
            /\ lock' = lock \/ lock' = "worker"
        BY <1>20 DEF HandleOON
      <3>2. chip_isdone' \in [Chips -> BOOLEAN]
        BY <3>1, Zenon DEF InfoTyped
      <3>3. counted' \in Nat
        BY <3>1 DEF InfoTyped
      <3>4. QED
        BY <1>20, <3>3 DEF HandleOON, InfoTyped, history, Threads
    <2>3. ChainTyped'
      <3>1. CASE oon[i + 1]
        <4>1. PICK ok \in Outcome("CLEAR_OON") :
                oon' = [oon EXCEPT ![i + 1] = ~ok] /\ CountFault(~ok)
          BY <1>20, <3>1 DEF HandleOON
        <4>2. oon' \in [Chips -> BOOLEAN] /\ faults' \in 0 .. MaxFaults
          BY <4>1, FaultType DEF ChainTyped
        <4>3. QED
          BY <1>20, <4>2 DEF HandleOON, ChainTyped
      <3>2. CASE ~oon[i + 1]
        BY <1>20, <3>2 DEF HandleOON, ChainTyped
      <3>3. QED
        BY <3>1, <3>2
    <2>4. QED
      BY <2>1, <2>2, <2>3
  <1>21. CASE RunNextJob
    <2>1. LocalsTyped'
      BY <1>21, StepScanType DEF RunNextJob
    <2>2. InfoTyped'
      BY <1>21 DEF RunNextJob, InfoTyped, history
    <2>3. ChainTyped'
      <3>1. PICK ok \in Outcome("RUN_JOB") :
              /\ IF ok THEN Queue(i + 1, 1) ELSE jobs' = jobs
              /\ CountFault(~ok)
        BY <1>21 DEF RunNextJob
      <3>2. i + 1 \in Chips
        BY DEF LocalsTyped, Chips
      <3>3. jobs' \in [Chips -> 0 .. FifoDepth]
        BY <3>1, <3>2, QueueType DEF ChainTyped
      <3>4. faults' \in 0 .. MaxFaults
        BY <3>1, FaultType DEF ChainTyped
      <3>5. QED
        BY <1>21, <3>3, <3>4 DEF RunNextJob, ChainTyped
    <2>4. QED
      BY <2>1, <2>2, <2>3
  <1>22. ASSUME NEW c \in Chips, Exhaust(c) PROVE Typed'
    <2>1. ChainTyped'
      BY <1>22 DEF Exhaust, ChainTyped, Chips
    <2>2. QED
      BY <1>22, <2>1 DEF Exhaust, LocalsTyped, InfoTyped, info, history
  <1>23. ASSUME NEW c \in Chips, FindNonce(c) PROVE Typed'
    <2>1. ChainTyped'
      BY <1>23 DEF FindNonce, ChainTyped
    <2>2. QED
      BY <1>23, <2>1 DEF FindNonce, LocalsTyped, InfoTyped, info, history
  <1>24. CASE UNCHANGED vars
    BY <1>24 DEF LocalsTyped, InfoTyped, ChainTyped, vars, info, chain, history
  <1>25. QED
    BY <1>1, <1>2, <1>3, <1>4, <1>5, <1>6, <1>7, <1>8, <1>9, <1>10, <1>11, <1>12, <1>13, <1>14,
       <1>15, <1>16, <1>17, <1>18, <1>19, <1>20, <1>21, <1>22, <1>23, <1>24 DEF Next, Command,
       Set, Worker, Threads

-----------------------------------------------------------------------------
(* What is enabled, scanned or not marked done was enabled by somebody.     *)

LEMMA EnabledKnownStep == Typed /\ EnabledKnown /\ [Next]_vars => EnabledKnown'
  <1> SUFFICES ASSUME Typed, EnabledKnown, [Next]_vars PROVE EnabledKnown'
    OBVIOUS
  <1> USE DEF Typed, Known, Marked, Goto
  <1>1. ASSUME NEW c \in Chips, Start(c) PROVE EnabledKnown'
    BY <1>1 DEF Start, EnabledKnown
  <1>2. CASE Start2
    BY <1>2 DEF Start2, EnabledKnown
  <1>3. ASSUME NEW c \in Chips, Enable(c) PROVE EnabledKnown'
    BY <1>3 DEF Enable, EnabledKnown
  <1>4. ASSUME NEW c \in Chips, Disable(c) PROVE EnabledKnown'
    BY <1>4 DEF Disable, EnabledKnown, InfoTyped
  <1>5. CASE Stop
    BY <1>5 DEF Stop, info, history, EnabledKnown
  <1>6. ASSUME NEW t \in Threads, SetCheck(t) PROVE EnabledKnown'
    BY <1>6 DEF SetCheck, history, EnabledKnown, LocalsTyped, Threads
  <1>7. ASSUME NEW t \in Threads, SetFlags(t) PROVE EnabledKnown'
    <2>1. /\ chip_enable' = [chip_enable EXCEPT ![chipId] = TRUE]
          /\ chip_isdone' = [chip_isdone EXCEPT ![chipId] = FALSE]
          /\ enables' = [enables EXCEPT ![chipId] = enables[chipId] + 1]
          /\ i' = i
      BY <1>7 DEF SetFlags
    <2>2. \A c \in Chips : Known(c) \/ c = chipId => Known(c)'
      BY <2>1 DEF LocalsTyped, InfoTyped
    <2>3. \A c \in Chips : c # chipId =>
            chip_enable'[c] = chip_enable[c] /\ chip_isdone'[c] = chip_isdone[c]
      BY <2>1 DEF LocalsTyped, InfoTyped
    <2>4. /\ pc'["worker"] \in {pc["worker"], "RUN1"}
          /\ (pc'["worker"] = "RUN1" /\ pc["worker"] # "RUN1" => Marked)
      BY <1>7 DEF SetFlags, LocalsTyped, Threads
    <2>5. i + 1 \in Chips
      BY EnableChipAssumption DEF LocalsTyped, Chips
    <2>6. QED
      BY <2>1, <2>2, <2>4, <2>5 DEF EnabledKnown
  <1>8. ASSUME NEW t \in Threads, SetRun(t) PROVE EnabledKnown'
    BY <1>8 DEF SetRun, AfterSet, history, EnabledKnown, LocalsTyped, Threads
  <1>9. CASE SetIsDone
    BY <1>9 DEF SetIsDone, history, EnabledKnown
  <1>10. CASE Join
    BY <1>10 DEF Join, info, history, EnabledKnown
  <1>11. CASE InitReset
    BY <1>11 DEF InitReset, info, history, EnabledKnown
  <1>12. CASE InitFlags
    BY <1>12 DEF InitFlags, history, EnabledKnown, LocalsTyped
  <1>13. CASE TakeLock
    BY <1>13 DEF TakeLock, history, EnabledKnown
  <1>14. CASE NextChip
    BY <1>14 DEF NextChip, history, EnabledKnown
  <1>15. CASE CheckGN
    BY <1>15 DEF CheckGN, info, history, EnabledKnown
  <1>16. CASE CheckOON
    BY <1>16 DEF CheckOON, info, history, EnabledKnown
  <1>17. CASE Scan("GN_SCAN", "GN")
    <2>1. UNCHANGED <<chip_enable, chip_isdone, enables>> /\ Marked
      BY <1>17 DEF Scan, info, history
    <2>2. CASE chip_enable[i + 1]
      <3>1. i' = i /\ i + 1 \in Chips
        BY <1>17, <2>2, EnableChipAssumption DEF Scan, LocalsTyped, Chips
      <3>2. QED
        BY <2>1, <2>2, <3>1 DEF EnabledKnown
    <2>3. CASE ~chip_enable[i + 1]
      BY <1>17, <2>1, <2>3, StepScanType DEF Scan, info, EnabledKnown
    <2>4. QED
      BY <2>2, <2>3
  <1>18. CASE Scan("OON_SCAN", "OON")
    <2>1. UNCHANGED <<chip_enable, chip_isdone, enables>> /\ Marked
      BY <1>18 DEF Scan, info, history
    <2>2. CASE chip_enable[i + 1]
      <3>1. i' = i /\ i + 1 \in Chips
        BY <1>18, <2>2, EnableChipAssumption DEF Scan, LocalsTyped, Chips
      <3>2. QED
        BY <2>1, <2>2, <3>1 DEF EnabledKnown
    <2>3. CASE ~chip_enable[i + 1]
      BY <1>18, <2>1, <2>3, StepScanType DEF Scan, info, EnabledKnown
    <2>4. QED
      BY <2>2, <2>3
  <1>19. CASE HandleGN
    <2>1. /\ chip_isdone' = chip_isdone \/ chip_isdone' = [chip_isdone EXCEPT ![i + 1] = TRUE]
          /\ UNCHANGED <<chip_enable, enables>> /\ Marked
      BY <1>19 DEF HandleGN, history
    <2>2. \A c \in Chips : ~chip_isdone'[c] => ~chip_isdone[c]
      BY <2>1 DEF InfoTyped
    <2>3. pc'["worker"] \notin {"GN", "OON", "OON_RUN"}
      BY <1>19, StepScanType DEF HandleGN, LocalsTyped, Threads
    <2>4. QED
      BY <2>1, <2>2, <2>3 DEF EnabledKnown
  <1>20. CASE HandleOON
    <2>1. /\ chip_isdone' = chip_isdone \/ chip_isdone' = [chip_isdone EXCEPT ![i + 1] = FALSE]
          /\ UNCHANGED <<chip_enable, enables>> /\ Marked /\ Known(i + 1)
      BY <1>20 DEF HandleOON, history, EnabledKnown
    <2>2. \A c \in Chips : ~chip_isdone'[c] => Known(c)
      BY <2>1 DEF InfoTyped, EnabledKnown
    <2>3. \/ pc'["worker"] = "OON_RUN" /\ i' = i
          \/ pc'["worker"] \notin {"GN", "OON", "OON_RUN"}
      BY <1>20, StepScanType DEF HandleOON, LocalsTyped, Threads
    <2>4. QED
      BY <2>1, <2>2, <2>3 DEF EnabledKnown
  <1>21. CASE RunNextJob
    <2>1. UNCHANGED <<chip_enable, chip_isdone, enables>> /\ Marked
      BY <1>21 DEF RunNextJob, history
    <2>2. pc'["worker"] \notin {"GN", "OON", "OON_RUN"}
      BY <1>21, StepScanType DEF RunNextJob
    <2>3. QED
      BY <2>1, <2>2 DEF EnabledKnown
  <1>22. ASSUME NEW c \in Chips, Exhaust(c) PROVE EnabledKnown'
    BY <1>22 DEF Exhaust, EnabledKnown, info, history
  <1>23. ASSUME NEW c \in Chips, FindNonce(c) PROVE EnabledKnown'
    BY <1>23 DEF FindNonce, EnabledKnown, info, history
  <1>24. CASE UNCHANGED vars
    BY <1>24 DEF EnabledKnown, vars, info, history
  <1>25. QED
    BY <1>1, <1>2, <1>3, <1>4, <1>5, <1>6, <1>7, <1>8, <1>9, <1>10, <1>11, <1>12, <1>13, <1>14,
       <1>15, <1>16, <1>17, <1>18, <1>19, <1>20, <1>21, <1>22, <1>23, <1>24 DEF Next, Command,
       Set, Worker, Threads

-----------------------------------------------------------------------------
(* The account of the jobs that are counted.                                *)

LEMMA ChipSets ==
  ASSUME NEW S \in SUBSET Chips
  PROVE  IsFiniteSet(S) /\ Cardinality(S) \in Nat
  <1>1. IsFiniteSet(Chips)
    BY FS_Interval, EnableChipAssumption DEF Chips
  <1>2. IsFiniteSet(S)
    BY <1>1, FS_Subset
  <1>3. QED
    BY <1>2, FS_CardinalityType

\* A set of chips that differs in c only.
LEMMA OneChip ==
  ASSUME NEW S \in SUBSET Chips, NEW R \in SUBSET Chips, NEW c \in Chips,
         \A d \in Chips : d # c => (d \in S <=> d \in R)
  PROVE  /\ c \in S /\ c \notin R => Cardinality(S) = Cardinality(R) + 1
         /\ c \notin S /\ c \in R => Cardinality(R) = Cardinality(S) + 1
         /\ (c \in S <=> c \in R) => Cardinality(S) = Cardinality(R)
  <1>1. CASE c \in S /\ c \notin R
    <2>1. S = R \cup {c}
      BY <1>1
    <2>2. QED
      BY <1>1, <2>1, ChipSets, FS_AddElement
  <1>2. CASE c \notin S /\ c \in R
    <2>1. R = S \cup {c}
      BY <1>2
    <2>2. QED
      BY <1>2, <2>1, ChipSets, FS_AddElement
  <1>3. CASE c \in S <=> c \in R
    <2>1. S = R
      BY <1>3
    <2>2. QED
      BY <1>3, <2>1
  <1>4. QED
    BY <1>1, <1>2, <1>3

LEMMA InRepeated ==
  /\ \A c, k : <<c, k>> \in Repeated <=> c \in Chips /\ k \in 2 .. enables[c]
  /\ \A p \in Repeated : p = <<p[1], p[2]>>
  BY DEF Repeated, EnablesFrom

\* One more enable of a chip is a repeated one, unless it is the first.
LEMMA RepeatedStep ==
  ASSUME Typed, IsFiniteSet(Repeated), NEW c \in Chips,
         enables' = [enables EXCEPT ![c] = enables[c] + 1]
  PROVE  /\ IsFiniteSet(Repeated')
         /\ Cardinality(Repeated') =
              Cardinality(Repeated) + (IF enables[c] > 0 THEN 1 ELSE 0)
  <1> DEFINE p == <<c, enables[c] + 1>>
  <1>1. /\ enables \in [Chips -> Nat] /\ enables'[c] = enables[c] + 1
        /\ \A d \in Chips : d # c => enables'[d] = enables[d]
    BY DEF Typed, InfoTyped
  <1>2. /\ \A d, k : <<d, k>> \in Repeated' <=> d \in Chips /\ k \in 2 .. enables'[d]
        /\ \A q \in Repeated' : q = <<q[1], q[2]>>
    BY DEF Repeated, EnablesFrom
  <1>3. CASE enables[c] = 0
    <2>1. \A d \in Chips : \A k : k \in 2 .. enables'[d] <=> k \in 2 .. enables[d]
      BY <1>1, <1>3
    <2>2. Repeated' = Repeated
      BY <1>2, <2>1, InRepeated
    <2>3. QED
      BY <1>3, <2>2, FS_CardinalityType
  <1>4. CASE enables[c] > 0
    <2>1. \A d \in Chips : \A k :
            k \in 2 .. enables'[d] <=> k \in 2 .. enables[d] \/ (d = c /\ k = enables[c] + 1)
      BY <1>1, <1>4
    <2>2. p \notin Repeated
      BY <1>1, InRepeated
    <2>3. \A d, k : <<d, k>> \in Repeated' <=> <<d, k>> \in Repeated \cup {p}
      BY <1>2, <2>1, InRepeated
    <2>4. Repeated' = Repeated \cup {p}
      BY <1>2, <2>3, InRepeated
    <2>5. QED
      BY <1>4, <2>2, <2>4, FS_AddElement
  <1>5. QED
    BY <1>1, <1>3, <1>4

LEMMA CountTypes ==
  ASSUME Typed
  PROVE  /\ Oons \in SUBSET Chips /\ Cardinality(Oons) \in Nat
         /\ Done \in SUBSET Chips /\ Cardinality(Done) \in Nat
         /\ IsFiniteSet(Repeated) => Cardinality(Repeated) \in Nat
         /\ counted \in Nat /\ exhausted \in Nat /\ faults \in Nat
  BY ChipSets, FS_CardinalityType DEF Oons, Done, Typed, InfoTyped, ChainTyped

LEMMA CountsInit == Init => Counts
  <1> SUFFICES ASSUME Init PROVE Counts
    OBVIOUS
  <1>1. Oons = {} /\ Done = {}
    BY DEF Init, Oons, Done
  <1>2. Repeated = {}
    BY DEF Init, Repeated, EnablesFrom
  <1>3. QED
    BY <1>1, <1>2, FS_EmptySet DEF Init, Counts

\* Steps that count nothing.
LEMMA CountsSame ==
  ASSUME Counts, UNCHANGED <<oon, exhausted, counted, enables, chip_isdone>>,
         faults' = 0 => faults = 0
  PROVE  Counts'
  <1>1. Oons' = Oons /\ Done' = Done /\ Repeated' = Repeated
    BY DEF Oons, Done, Repeated, EnablesFrom
  <1>2. QED
    BY <1>1 DEF Counts

LEMMA CountsStep == Typed /\ EnabledKnown /\ Counts /\ [Next]_vars => Counts'
  <1> SUFFICES ASSUME Typed, EnabledKnown, Counts, [Next]_vars PROVE Counts'
    OBVIOUS
  <1>1. ASSUME NEW c \in Chips, Start(c) PROVE Counts'
    BY <1>1, CountsSame DEF Start, chain
  <1>2. CASE Start2
    BY <1>2, CountsSame DEF Start2, chain
  <1>3. ASSUME NEW c \in Chips, Enable(c) PROVE Counts'
    BY <1>3, CountsSame DEF Enable, chain
  <1>4. CASE Stop
    BY <1>4, CountsSame DEF Stop, info, chain, history
  <1>5. ASSUME NEW t \in Threads, SetCheck(t) PROVE Counts'
    BY <1>5, CountsSame DEF SetCheck, chain, history
  <1>6. CASE SetIsDone
    BY <1>6, CountsSame DEF SetIsDone, chain, history
  <1>7. CASE Join
    BY <1>7, CountsSame DEF Join, info, chain, history
  <1>8. CASE TakeLock
    BY <1>8, CountsSame DEF TakeLock, chain, history
  <1>9. CASE NextChip
    BY <1>9, CountsSame DEF NextChip, chain, history
  <1>10. CASE CheckGN
    BY <1>10, CountsSame DEF CheckGN, info, chain, history
  <1>11. CASE CheckOON
    BY <1>11, CountsSame DEF CheckOON, info, chain, history
  <1>12. CASE Scan("GN_SCAN", "GN")
    BY <1>12, CountsSame DEF Scan, info, chain, history
  <1>13. CASE Scan("OON_SCAN", "OON")
    BY <1>13, CountsSame DEF Scan, info, chain, history
  <1>14. ASSUME NEW c \in Chips, FindNonce(c) PROVE Counts'
    BY <1>14, CountsSame DEF FindNonce, info, history
  <1>15. CASE UNCHANGED vars
    BY <1>15, CountsSame DEF vars, info, chain, history
  <1>16. ASSUME NEW t \in Threads, SetRun(t) PROVE Counts'
    BY <1>16, CountsSame, FaultType DEF SetRun, history, Typed, ChainTyped
  <1>17. CASE RunNextJob
    BY <1>17, CountsSame, FaultType DEF RunNextJob, history, Typed, ChainTyped
  <1>18. ASSUME NEW c \in Chips, Disable(c) PROVE Counts'
    <2>1. /\ UNCHANGED <<oon, exhausted, counted, enables, faults>>
          /\ chip_isdone' = [chip_isdone EXCEPT ![c] = TRUE]
      BY <1>18 DEF Disable, chain
    <2>2. Oons' = Oons /\ Repeated' = Repeated
      BY <2>1 DEF Oons, Repeated, EnablesFrom
    <2>3. Done \subseteq Done' /\ Done' \in SUBSET Chips
      BY <2>1 DEF Done, Typed, InfoTyped
    <2>4. Cardinality(Done) <= Cardinality(Done') /\ Cardinality(Done') \in Nat
      BY <2>3, ChipSets, FS_Subset
    <2>5. QED
      BY <2>1, <2>2, <2>4, CountTypes DEF Counts
  <1>19. ASSUME NEW t \in Threads, SetFlags(t) PROVE Counts'
    <2>1. /\ UNCHANGED <<oon, exhausted, counted, faults>>
          /\ chip_isdone' = [chip_isdone EXCEPT ![chipId] = FALSE]
          /\ enables' = [enables EXCEPT ![chipId] = enables[chipId] + 1]
      BY <1>19 DEF SetFlags, chain
    <2>2. Oons' = Oons /\ chipId \in Chips
      BY <2>1 DEF Oons, Typed, LocalsTyped
    <2>3. /\ IsFiniteSet(Repeated')
          /\ Cardinality(Repeated') = Cardinality(Repeated) + (IF enables[chipId] > 0 THEN 1 ELSE 0)
      BY <2>1, <2>2, RepeatedStep DEF Counts
    <2>4. /\ Done' \in SUBSET Chips /\ chipId \notin Done'
          /\ \A d \in Chips : d # chipId => (d \in Done <=> d \in Done')
          /\ chipId \in Done => enables[chipId] > 0
      BY <2>1 DEF Done, Typed, InfoTyped
    <2>5. \/ Cardinality(Done') = Cardinality(Done)
          \/ enables[chipId] > 0 /\ Cardinality(Done) = Cardinality(Done') + 1
      BY <2>2, <2>4, CountTypes, OneChip
    <2>6. Cardinality(Done') \in Nat
      BY <2>4, ChipSets
    <2>7. QED
      BY <2>1, <2>2, <2>3, <2>5, <2>6, CountTypes DEF Counts
  <1>20. CASE InitReset
    <2>1. /\ UNCHANGED <<exhausted, counted, faults, enables, chip_isdone>>
          /\ oon' = [c \in Chips |-> FALSE]
      BY <1>20 DEF InitReset, info, history
    <2>2. Oons' = {} /\ Done' = Done /\ Repeated' = Repeated
      BY <2>1 DEF Oons, Done, Repeated, EnablesFrom
    <2>3. QED
      BY <2>1, <2>2, FS_EmptySet, CountTypes DEF Counts
  <1>21. CASE InitFlags
    <2>1. UNCHANGED <<oon, exhausted, enables>> /\ (faults' = 0 => faults = 0)
      BY <1>21, FaultType DEF InitFlags, chain, history, Typed, ChainTyped
    <2>2. CASE UNCHANGED <<chip_isdone, counted>>
      BY <2>1, <2>2, CountsSame
    <2>3. CASE chip_isdone' = [c \in Chips |-> TRUE] /\ counted' = 0
      <3>1. Oons' = Oons /\ Repeated' = Repeated
        BY <2>1 DEF Oons, Repeated, EnablesFrom
      <3>2. Cardinality(Done') \in Nat
        BY ChipSets DEF Done
      <3>3. QED
        BY <2>1, <2>3, <3>1, <3>2, CountTypes DEF Counts
    <2>4. QED
      BY <1>21, <2>2, <2>3 DEF InitFlags
  <1>22. CASE HandleGN
    <2>1. UNCHANGED <<oon, exhausted, enables>> /\ (faults' = 0 => faults = 0) /\ i + 1 \in Chips
      BY <1>22, FaultType, EnableChipAssumption DEF HandleGN, history, Typed, ChainTyped,
         LocalsTyped, Chips
    <2>2. CASE UNCHANGED <<chip_isdone, counted>>
      BY <2>1, <2>2, CountsSame
    <2>3. CASE /\ ~chip_isdone[i + 1] /\ chip_isdone' = [chip_isdone EXCEPT ![i + 1] = TRUE]
               /\ counted' = counted + 1
      <3>1. Oons' = Oons /\ Repeated' = Repeated
        BY <2>1 DEF Oons, Repeated, EnablesFrom
      <3>2. enables[i + 1] > 0
        BY <1>22 DEF HandleGN, EnabledKnown, Known
      <3>3. /\ Done' \in SUBSET Chips /\ i + 1 \in Done' /\ i + 1 \notin Done
            /\ \A d \in Chips : d # i + 1 => (d \in Done <=> d \in Done')
        BY <2>1, <2>3, <3>2 DEF Done, Typed, InfoTyped
      <3>4. Cardinality(Done') = Cardinality(Done) + 1
        BY <2>1, <3>3, CountTypes, OneChip
      <3>5. QED
        BY <2>1, <2>3, <3>1, <3>4, CountTypes DEF Counts
    <2>4. QED
      BY <1>22, <2>2, <2>3 DEF HandleGN
  <1>23. CASE HandleOON
    <2>1. UNCHANGED <<exhausted, enables>> /\ (faults' = 0 => faults = 0) /\ i + 1 \in Chips
      BY <1>23, FaultType, EnableChipAssumption DEF HandleOON, history, Typed, ChainTyped,
         LocalsTyped, Chips
    <2>2. CASE ~oon[i + 1]
      <3>1. UNCHANGED <<oon, chip_isdone, counted>>
        BY <1>23, <2>2 DEF HandleOON
      <3>2. QED
        BY <2>1, <3>1, CountsSame
    <2>3. CASE oon[i + 1]
      <3>1. PICK ok \in Outcome("CLEAR_OON") : oon' = [oon EXCEPT ![i + 1] = ~ok] /\ CountFault(~ok)
        BY <1>23, <2>3 DEF HandleOON
      <3>2. /\ chip_isdone' = [chip_isdone EXCEPT ![i + 1] = FALSE]
            /\ counted' = IF chip_isdone[i + 1] THEN counted ELSE counted + 1
        BY <1>23, <2>3 DEF HandleOON
      <3>3. Repeated' = Repeated
        BY <2>1 DEF Repeated, EnablesFrom
      <3>4. faults' = 0 => ok
        BY <3>1, FaultType DEF Typed, ChainTyped
      <3>5. /\ Oons' \in SUBSET Chips /\ i + 1 \in Oons /\ (ok => i + 1 \notin Oons')
            /\ \A d \in Chips : d # i + 1 => (d \in Oons <=> d \in Oons')
        BY <2>1, <2>3, <3>1 DEF Oons, Typed, ChainTyped
      <3>6. /\ ok => Cardinality(Oons) = Cardinality(Oons') + 1
            /\ Cardinality(Oons') <= Cardinality(Oons) /\ Cardinality(Oons') \in Nat
        BY <3>5, CountTypes, OneChip, ChipSets
      <3>7. enables[i + 1] > 0
        BY <1>23 DEF HandleOON, EnabledKnown, Known
      <3>8. /\ Done' \in SUBSET Chips /\ i + 1 \notin Done'
            /\ (i + 1 \in Done <=> chip_isdone[i + 1])
            /\ \A d \in Chips : d # i + 1 => (d \in Done <=> d \in Done')
        BY <2>1, <3>2, <3>7 DEF Done, Typed, InfoTyped
      <3>9. /\ Cardinality(Done) = Cardinality(Done') + (IF chip_isdone[i + 1] THEN 1 ELSE 0)
            /\ Cardinality(Done') \in Nat
        BY <3>8, CountTypes, OneChip, ChipSets
      <3>10. QED
        BY <2>1, <3>2, <3>3, <3>4, <3>6, <3>9, CountTypes DEF Counts
    <2>4. QED
      BY <2>2, <2>3
  <1>24. ASSUME NEW c \in Chips, Exhaust(c) PROVE Counts'
    <2>1. /\ UNCHANGED <<counted, enables, chip_isdone, faults>>
          /\ exhausted' = exhausted + 1 /\ oon' = [oon EXCEPT ![c] = TRUE]
      BY <1>24 DEF Exhaust, info, history
    <2>2. Done' = Done /\ Repeated' = Repeated
      BY <2>1 DEF Done, Repeated, EnablesFrom
    <2>3. /\ Oons' \in SUBSET Chips /\ c \in Oons'
          /\ \A d \in Chips : d # c => (d \in Oons <=> d \in Oons')
      BY <2>1 DEF Oons, Typed, ChainTyped
    <2>4. Cardinality(Oons') <= Cardinality(Oons) + 1 /\ Cardinality(Oons') \in Nat
      BY <2>3, CountTypes, OneChip, ChipSets
    <2>5. QED
      BY <2>1, <2>2, <2>4, CountTypes DEF Counts
  <1>25. QED
    BY <1>1, <1>2, <1>3, <1>4, <1>5, <1>6, <1>7, <1>8, <1>9, <1>10, <1>11, <1>12, <1>13, <1>14,
       <1>15, <1>16, <1>17, <1>18, <1>19, <1>20, <1>21, <1>22, <1>23, <1>24 DEF Next, Command,
       Set, Worker, Threads

-----------------------------------------------------------------------------
(* A session in which nothing went wrong.                                   *)

LEMMA FaultsStep == Typed /\ [Next]_vars => (faults' = 0 => faults = 0) /\ (overlap => overlap')
  <1> DEFINE Monotone == (faults' = 0 => faults = 0) /\ (overlap => overlap')
  <1> SUFFICES ASSUME Typed, [Next]_vars PROVE Monotone
    OBVIOUS
  <1>1. ASSUME NEW c \in Chips, Start(c) PROVE Monotone
    BY <1>1 DEF Start, chain
  <1>2. CASE Start2
    BY <1>2 DEF Start2, chain
  <1>3. ASSUME NEW c \in Chips, Enable(c) PROVE Monotone
    BY <1>3 DEF Enable, Typed, InfoTyped
  <1>4. ASSUME NEW c \in Chips, Disable(c) PROVE Monotone
    BY <1>4 DEF Disable, chain
  <1>5. CASE Stop
    BY <1>5 DEF Stop, history
  <1>6. ASSUME NEW t \in Threads, SetCheck(t) PROVE Monotone
    BY <1>6 DEF SetCheck, chain, history
  <1>7. ASSUME NEW t \in Threads, SetFlags(t) PROVE Monotone
    BY <1>7 DEF SetFlags, chain
  <1>8. ASSUME NEW t \in Threads, SetRun(t) PROVE Monotone
    BY <1>8, FaultType DEF SetRun, history, Typed, ChainTyped
  <1>9. CASE SetIsDone
    BY <1>9 DEF SetIsDone, chain, history
  <1>10. CASE Join
    BY <1>10 DEF Join, history
  <1>11. CASE InitReset
    BY <1>11 DEF InitReset, info, history
  <1>12. CASE InitFlags
    BY <1>12, FaultType DEF InitFlags, history, Typed, ChainTyped
  <1>13. CASE TakeLock
    BY <1>13 DEF TakeLock, chain, history
  <1>14. CASE NextChip
    BY <1>14 DEF NextChip, chain, history
  <1>15. CASE CheckGN
    BY <1>15 DEF CheckGN, history
  <1>16. CASE CheckOON
    BY <1>16 DEF CheckOON, history
  <1>17. CASE Scan("GN_SCAN", "GN")
    BY <1>17 DEF Scan, history
  <1>18. CASE Scan("OON_SCAN", "OON")
    BY <1>18 DEF Scan, history
  <1>19. CASE HandleGN
    BY <1>19, FaultType DEF HandleGN, history, Typed, ChainTyped
  <1>20. CASE HandleOON
    BY <1>20, FaultType DEF HandleOON, history, Typed, ChainTyped
  <1>21. CASE RunNextJob
    BY <1>21, FaultType DEF RunNextJob, history, Typed, ChainTyped
  <1>22. ASSUME NEW c \in Chips, Exhaust(c) PROVE Monotone
    BY <1>22 DEF Exhaust, info, history
  <1>23. ASSUME NEW c \in Chips, FindNonce(c) PROVE Monotone
    BY <1>23 DEF FindNonce, info, history
  <1>24. CASE UNCHANGED vars
    BY <1>24 DEF vars, history
  <1>25. QED
    BY <1>1, <1>2, <1>3, <1>4, <1>5, <1>6, <1>7, <1>8, <1>9, <1>10, <1>11, <1>12, <1>13, <1>14,
       <1>15, <1>16, <1>17, <1>18, <1>19, <1>20, <1>21, <1>22, <1>23, <1>24 DEF Next, Command,
       Set, Worker, Threads

LEMMA UndisturbedStep == Typed /\ [Next]_vars /\ Undisturbed' => Undisturbed
  BY FaultsStep DEF Undisturbed

LEMMA InTurnInit == Init => EnabledKnown /\ InTurn /\ Account /\ Served
  BY DEF Init, EnabledKnown, Marked, InTurn, SetLabels, Account, Pending, Unanswered, Served,
     Threads

LEMMA InTurnStep ==
  Typed /\ EnabledKnown /\ InTurn /\ Undisturbed' /\ [Next]_vars => InTurn'
  <1> SUFFICES ASSUME Typed, EnabledKnown, InTurn, Undisturbed', Undisturbed, [Next]_vars
               PROVE  InTurn'
    BY UndisturbedStep
  <1> USE DEF Typed, LocalsTyped, InTurn, Starting, InLoop, SetLabels, Goto, Threads, Undisturbed
  <1>1. ASSUME NEW c \in Chips, Start(c) PROVE InTurn'
    BY <1>1 DEF Start, chain
  <1>2. CASE Start2
    BY <1>2 DEF Start2, chain
  <1>3. ASSUME NEW c \in Chips, Enable(c) PROVE InTurn'
    BY <1>3 DEF Enable, WorkerStarting, WorkerLabels
  <1>4. ASSUME NEW c \in Chips, Disable(c) PROVE InTurn'
    BY <1>4 DEF Disable, chain
  <1>5. CASE Stop
    BY <1>5 DEF Stop, info, history
  <1>6. ASSUME NEW t \in Threads, SetCheck(t) PROVE InTurn'
    BY <1>6 DEF SetCheck, chain, history
  <1>7. ASSUME NEW t \in Threads, SetFlags(t) PROVE InTurn'
    <2>1. CASE t = "shell"
      BY <1>7, <2>1 DEF SetFlags
    <2>2. CASE t = "worker"
      <3>1. \A c \in Chips : chip_enable'[c] => chip_enable[c] \/ c = chipId
        BY <1>7 DEF SetFlags, InfoTyped
      <3>2. delayed => \A c \in Chips : chip_enable'[c] => c <= i + 1
        BY <1>7, <2>2 DEF SetFlags, Chips
      <3>3. QED
        BY <1>7, <2>2, <3>2 DEF SetFlags
    <2>3. QED
      BY <2>1, <2>2
  <1>8. ASSUME NEW t \in Threads, SetRun(t) PROVE InTurn'
    BY <1>8 DEF SetRun, AfterSet, history
  <1>9. CASE SetIsDone
    BY <1>9 DEF SetIsDone, chain, history
  <1>10. CASE Join
    BY <1>10 DEF Join, info
  <1>11. CASE InitReset
    BY <1>11 DEF InitReset, info, history
  <1>12. CASE InitFlags
    <2>1. PICK ok \in Outcome("INIT") :
            /\ IF ok THEN Goto("worker", "LOCK") ELSE Goto("worker", "END")
            /\ CountFault(~ok)
      BY <1>12 DEF InitFlags
    <2>2. ok
      BY <2>1, FaultType DEF ChainTyped
    <2>3. QED
      BY <1>12, <2>1, <2>2 DEF InitFlags, history
  <1>13. CASE TakeLock
    <2>1. \A c \in Chips : ~chip_enable[c]
      BY <1>13 DEF TakeLock, EnabledKnown, Known
    <2>2. QED
      BY <1>13, <2>1 DEF TakeLock
  <1>14. CASE NextChip
    BY <1>14 DEF NextChip, chain, history
  <1>15. CASE CheckGN
    BY <1>15 DEF CheckGN, info
  <1>16. CASE CheckOON
    BY <1>16 DEF CheckOON, info
  <1>17. CASE Scan("GN_SCAN", "GN")
    BY <1>17, StepScanType DEF Scan, info
  <1>18. CASE Scan("OON_SCAN", "OON")
    BY <1>18, StepScanType DEF Scan, info
  <1>19. CASE HandleGN
    <2>1. StepScan("GN_SCAN") /\ isDone' = isDone
      <3>1. CASE gn[i + 1] /\ ~chip_isdone[i + 1]
        <4>1. PICK ok \in Outcome("READ_RESULT") :
                /\ isDone' = (isDone \/ ~ok)
                /\ IF ok THEN StepScan("GN_SCAN") ELSE i' = i /\ Goto("worker", "END")
                /\ CountFault(~ok)
          BY <1>19, <3>1 DEF HandleGN
        <4>2. ok = TRUE
          BY <4>1, FaultType, OutcomeType DEF ChainTyped
        <4>3. QED
          BY <4>1, <4>2 DEF InfoTyped
      <3>2. CASE ~(gn[i + 1] /\ ~chip_isdone[i + 1])
        BY <1>19, <3>2 DEF HandleGN
      <3>3. QED
        BY <3>1, <3>2
    <2>2. QED
      BY <1>19, <2>1, StepScanType DEF HandleGN
  <1>20. CASE HandleOON
    BY <1>20, StepScanType DEF HandleOON, history
  <1>21. CASE RunNextJob
    BY <1>21, StepScanType DEF RunNextJob, history
  <1>22. ASSUME NEW c \in Chips, Exhaust(c) PROVE InTurn'
    BY <1>22 DEF Exhaust, info, history
  <1>23. ASSUME NEW c \in Chips, FindNonce(c) PROVE InTurn'
    BY <1>23 DEF FindNonce, info, history
  <1>24. CASE UNCHANGED vars
    BY <1>24 DEF vars, info, history
  <1>25. QED
    BY <1>1, <1>2, <1>3, <1>4, <1>5, <1>6, <1>7, <1>8, <1>9, <1>10, <1>11, <1>12, <1>13, <1>14,
       <1>15, <1>16, <1>17, <1>18, <1>19, <1>20, <1>21, <1>22, <1>23, <1>24 DEF Next, Command,
       Set, Worker, Threads

-----------------------------------------------------------------------------
(* The jobs of a chip.                                                      *)

Runs == {"RUN1", "RUN2"}

\* Steps that neither send nor end a job.
LEMMA JobsSame ==
  ASSUME Account, Served, UNCHANGED <<jobs, oon, enables>>,
         \A c \in Chips : chip_enable'[c] => chip_enable[c],
         \A t \in Threads : \/ pc'[t] = pc[t] /\ chipId' = chipId
                            \/ pc[t] \notin Runs /\ pc'[t] \notin Runs,
         \/ pc'["worker"] = pc["worker"] /\ i' = i
         \/ pc["worker"] # "OON_RUN" /\ pc'["worker"] # "OON_RUN"
  PROVE  Account' /\ Served'
  <1>1. \A t \in Threads, c \in Chips : Pending(t, c)' = Pending(t, c)
    BY DEF Pending, Runs
  <1>2. \A c \in Chips : Unanswered(c)' = Unanswered(c)
    BY DEF Unanswered
  <1>3. \A c \in Chips : BeingServed(c) => BeingServed(c)'
    BY DEF BeingServed, Runs
  <1>4. QED
    BY <1>1, <1>2, <1>3 DEF Account, Served, Threads

LEMMA JobsStep ==
  Typed /\ EnabledKnown /\ InTurn /\ Account /\ Served /\ Undisturbed' /\ [Next]_vars =>
    Account' /\ Served'
  <1> SUFFICES ASSUME Typed, EnabledKnown, InTurn, Account, Served, Undisturbed', Undisturbed,
                      [Next]_vars
               PROVE  Account' /\ Served'
    BY UndisturbedStep
  <1> USE DEF Typed, Goto, Threads
  <1>1. ASSUME NEW c \in Chips, Start(c) PROVE Account' /\ Served'
    BY <1>1, JobsSame DEF Start, chain, InTurn, Runs
  <1>2. CASE Start2
    BY <1>2, JobsSame DEF Start2, chain, InTurn, Runs
  <1>3. ASSUME NEW c \in Chips, Enable(c) PROVE Account' /\ Served'
    BY <1>3, JobsSame DEF Enable, WorkerStarting, LocalsTyped, Runs, Undisturbed, chain
  <1>4. ASSUME NEW c \in Chips, Disable(c) PROVE Account' /\ Served'
    BY <1>4, JobsSame DEF Disable, chain
  <1>5. CASE Stop
    BY <1>5, JobsSame DEF Stop, info, chain, history, Runs
  <1>6. ASSUME NEW t \in Threads, SetCheck(t) PROVE Account' /\ Served'
    BY <1>6, JobsSame DEF SetCheck, chain, history, LocalsTyped, Runs
  <1>7. ASSUME NEW t \in Threads, SetFlags(t) PROVE Account' /\ Served'
    <2>1. /\ UNCHANGED <<jobs, oon, chipId, i>> /\ chipId \in Chips
          /\ pc[t] = "FLAGS" /\ pc' = [pc EXCEPT ![t] = "RUN1"]
          /\ enables' = [enables EXCEPT ![chipId] = enables[chipId] + 1]
      BY <1>7 DEF SetFlags, chain, LocalsTyped
    <2>2. ASSUME NEW c \in Chips
          PROVE  jobs'[c] + Pending("shell", c)' + Pending("worker", c)' + Unanswered(c)'
                   <= 2 * enables'[c]
      <3>1. jobs[c] \in Nat /\ enables[c] \in Nat
        BY EnableChipAssumption DEF ChainTyped, InfoTyped
      <3>2. Unanswered(c)' = Unanswered(c) /\ Unanswered(c) \in 0 .. 2
        BY <2>1 DEF Unanswered, LocalsTyped
      <3>3. \A u \in Threads : /\ Pending(u, c) \in Nat
                               /\ u # t \/ c # chipId => Pending(u, c)' = Pending(u, c)
                               /\ u = t /\ c = chipId => Pending(u, c)' = 2 /\ Pending(u, c) = 0
        BY <2>1 DEF Pending, LocalsTyped
      <3>4. enables'[c] = enables[c] + (IF c = chipId THEN 1 ELSE 0)
        BY <2>1 DEF InfoTyped
      <3>5. jobs[c] + Pending("shell", c) + Pending("worker", c) + Unanswered(c) <= 2 * enables[c]
        BY DEF Account
      <3>6. CASE c = chipId
        <4>1. \/ /\ Pending("shell", c)' = Pending("shell", c) + 2
                 /\ Pending("worker", c)' = Pending("worker", c)
              \/ /\ Pending("worker", c)' = Pending("worker", c) + 2
                 /\ Pending("shell", c)' = Pending("shell", c)
          BY <3>3, <3>6
        <4>2. QED
          BY <2>1, <3>1, <3>2, <3>3, <3>4, <3>5
      <3>7. CASE c # chipId
        BY <2>1, <3>2, <3>3, <3>5, <3>7
      <3>8. QED
        BY <3>6, <3>7
    <2>3. Account'
      BY <2>2 DEF Account
    <2>4. \A c \in Chips : BeingServed(c) \/ c = chipId => BeingServed(c)'
      BY <2>1 DEF BeingServed, LocalsTyped
    <2>5. Served'
      BY <1>7, <2>1, <2>4 DEF SetFlags, Served
    <2>6. QED
      BY <2>3, <2>5
  <1>8. ASSUME NEW t \in Threads, SetRun(t) PROVE Account' /\ Served'
    <2>1. PICK ok \in Outcome("RUN_JOB") :
            /\ IF ok /\ pc["worker"] # "END" THEN Queue(chipId, 1) ELSE jobs' = jobs
            /\ CountFault(~ok)
      BY <1>8 DEF SetRun
    <2>2. ok = TRUE /\ pc["worker"] # "END"
      BY <1>8, <2>1, FaultType DEF SetRun, Undisturbed, ChainTyped, InTurn
    <2>3. /\ jobs' \in [Chips -> 0 .. FifoDepth] /\ jobs'[chipId] > 0
          /\ jobs'[chipId] <= jobs[chipId] + 1
          /\ \A d \in Chips : d # chipId => jobs'[d] = jobs[d]
      BY <2>1, <2>2, QueueType DEF ChainTyped, LocalsTyped
    <2>4. /\ UNCHANGED <<oon, chipId, i, enables, chip_enable>> /\ chipId \in Chips
          /\ \A u \in Threads : u # t => pc'[u] = pc[u]
          /\ \/ pc[t] = "RUN1" /\ pc'[t] = "RUN2"
             \/ pc[t] = "RUN2" /\ pc'[t] \notin Runs \cup {"OON_RUN"}
      BY <1>8 DEF SetRun, AfterSet, history, LocalsTyped, Runs
    <2>5. ASSUME NEW c \in Chips
          PROVE  jobs'[c] + Pending("shell", c)' + Pending("worker", c)' + Unanswered(c)'
                   <= 2 * enables'[c]
      <3>1. jobs[c] \in Nat /\ jobs'[c] \in Nat /\ enables[c] \in Nat
        BY <2>3, EnableChipAssumption DEF ChainTyped, InfoTyped
      <3>2. Unanswered(c)' <= Unanswered(c) /\ Unanswered(c) \in 0 .. 2 /\ Unanswered(c)' \in 0 .. 2
        BY <2>4 DEF Unanswered, LocalsTyped
      <3>3. \A u \in Threads : /\ Pending(u, c) \in Nat
                               /\ u # t \/ c # chipId => Pending(u, c)' = Pending(u, c)
                               /\ u = t /\ c = chipId => /\ Pending(u, c) = Pending(u, c)' + 1
                                                         /\ Pending(u, c)' \in Nat
        BY <2>4 DEF Pending, LocalsTyped, Runs
      <3>4. jobs[c] + Pending("shell", c) + Pending("worker", c) + Unanswered(c) <= 2 * enables[c]
        BY DEF Account
      <3>5. CASE c = chipId
        <4>1. \/ /\ Pending("shell", c) = Pending("shell", c)' + 1
                 /\ Pending("worker", c)' = Pending("worker", c)
              \/ /\ Pending("worker", c) = Pending("worker", c)' + 1
                 /\ Pending("shell", c)' = Pending("shell", c)
          BY <3>3, <3>5
        <4>2. Pending("shell", c)' \in Nat /\ Pending("worker", c)' \in Nat
          BY DEF Pending
        <4>3. QED
          BY <2>3, <2>4, <3>1, <3>2, <3>4, <4>1, <4>2
      <3>6. CASE c # chipId
        BY <2>3, <2>4, <3>1, <3>2, <3>3, <3>4
      <3>7. QED
        BY <3>5, <3>6
    <2>6. Account'
      BY <2>5 DEF Account
    <2>7. \A c \in Chips : c # chipId /\ BeingServed(c) => BeingServed(c)'
      BY <2>4 DEF BeingServed, Runs
    <2>8. Served'
      BY <2>3, <2>4, <2>7 DEF Served
    <2>9. QED
      BY <2>6, <2>8
  <1>9. CASE SetIsDone
    BY <1>9, JobsSame DEF SetIsDone, chain, history, Runs
  <1>10. CASE Join
    BY <1>10, JobsSame DEF Join, info, chain, history, Runs
  <1>11. CASE InitReset
    <2>1. \A c \in Chips : enables[c] = 0 /\ ~chip_enable[c] /\ pc["shell"] \notin Runs
      BY <1>11 DEF InitReset, InTurn, InLoop, SetLabels, EnabledKnown, Known, Runs
    <2>2. pc'["shell"] \notin Runs /\ pc'["worker"] \notin Runs \cup {"OON_RUN"}
      BY <1>11, <2>1, EnableChipAssumption DEF InitReset, Runs, Chips
    <2>3. Account'
      BY <1>11, <2>1 DEF InitReset, Account, Pending, Unanswered, Runs, history
    <2>4. Served'
      BY <1>11, <2>1 DEF InitReset, Served, info
    <2>5. QED
      BY <2>3, <2>4
  <1>12. CASE InitFlags
    BY <1>12, JobsSame DEF InitFlags, chain, history, LocalsTyped, Runs
  <1>13. CASE TakeLock
    BY <1>13, JobsSame DEF TakeLock, Runs, InTurn, InLoop, SetLabels, chain, history
  <1>14. CASE NextChip
    BY <1>14, JobsSame DEF NextChip, Runs, InTurn, InLoop, SetLabels, chain, history
  <1>15. CASE CheckGN
    BY <1>15, JobsSame DEF CheckGN, info, chain, history, Runs
  <1>16. CASE CheckOON
    BY <1>16, JobsSame DEF CheckOON, info, chain, history, Runs
  <1>17. CASE Scan("GN_SCAN", "GN")
    <2>1. \/ i' = i /\ pc'["worker"] \in {"GN", "OON"} /\ pc'["shell"] = pc["shell"]
          \/ StepScan("GN_SCAN") \/ StepScan("OON_SCAN")
      BY <1>17 DEF Scan, LocalsTyped
    <2>2. /\ pc'["worker"] \notin {"OON_RUN", "RUN1", "RUN2"}
          /\ pc'["shell"] = pc["shell"]
          /\ pc["worker"] \notin {"OON_RUN", "RUN1", "RUN2"}
      BY <1>17, <2>1, StepScanType DEF Scan, info
    <2>3. QED
      BY <1>17, <2>2, JobsSame DEF Scan, info, chain, history, Runs
  <1>18. CASE Scan("OON_SCAN", "OON")
    <2>1. \/ i' = i /\ pc'["worker"] \in {"GN", "OON"} /\ pc'["shell"] = pc["shell"]
          \/ StepScan("GN_SCAN") \/ StepScan("OON_SCAN")
      BY <1>18 DEF Scan, LocalsTyped
    <2>2. /\ pc'["worker"] \notin {"OON_RUN", "RUN1", "RUN2"}
          /\ pc'["shell"] = pc["shell"]
          /\ pc["worker"] \notin {"OON_RUN", "RUN1", "RUN2"}
      BY <1>18, <2>1, StepScanType DEF Scan, info
    <2>3. QED
      BY <1>18, <2>2, JobsSame DEF Scan, info, chain, history, Runs
  <1>19. CASE HandleGN
    <2>1. pc'["worker"] \notin {"OON_RUN", "RUN1", "RUN2"} /\ pc'["shell"] = pc["shell"]
      BY <1>19, StepScanType DEF HandleGN, LocalsTyped
    <2>2. QED
      BY <1>19, <2>1, JobsSame DEF HandleGN, history, Runs
  <1>20. CASE HandleOON
    <2>1. i + 1 \in Chips /\ UNCHANGED <<jobs, enables, chipId, chip_enable>>
      BY <1>20, EnableChipAssumption DEF HandleOON, history, LocalsTyped, Chips
    <2>2. CASE ~oon[i + 1]
      <3>1. /\ pc'["worker"] \notin {"OON_RUN", "RUN1", "RUN2"}
            /\ pc'["shell"] = pc["shell"] /\ UNCHANGED oon
        BY <1>20, <2>2, StepScanType DEF HandleOON
      <3>2. QED
        BY <1>20, <2>1, <3>1, JobsSame DEF HandleOON, Runs
    <2>3. CASE oon[i + 1]
      <3>1. PICK ok \in Outcome("CLEAR_OON") : oon' = [oon EXCEPT ![i + 1] = ~ok] /\ CountFault(~ok)
        BY <1>20, <2>3 DEF HandleOON
      <3>2. ok = TRUE
        BY <3>1, FaultType DEF Undisturbed, ChainTyped
      <3>3. ~oon'[i + 1] /\ \A d \in Chips : d # i + 1 => oon'[d] = oon[d]
        BY <2>1, <3>1, <3>2 DEF ChainTyped
      <3>4. /\ pc["worker"] = "OON" /\ pc'["worker"] = "OON_RUN"
            /\ pc'["shell"] = pc["shell"] /\ i' = i
        BY <1>20, <2>3 DEF HandleOON, LocalsTyped
      <3>5. \A c \in Chips : Unanswered(c)' = Unanswered(c)
        BY <2>3, <3>3, <3>4 DEF Unanswered
      <3>6. \A t \in Threads, c \in Chips : Pending(t, c)' = Pending(t, c)
        BY <2>1, <3>4 DEF Pending
      <3>7. Account'
        BY <2>1, <3>5, <3>6 DEF Account
      <3>8. \A c \in Chips : BeingServed(c) \/ c = i + 1 => BeingServed(c)'
        BY <2>1, <3>4 DEF BeingServed
      <3>9. Served'
        BY <2>1, <3>3, <3>8 DEF Served
      <3>10. QED
        BY <3>7, <3>9
    <2>4. QED
      BY <2>2, <2>3
  <1>21. CASE RunNextJob
    <2>1. /\ i + 1 \in Chips
          /\ UNCHANGED <<oon, enables, chipId, chip_enable>>
          /\ pc["worker"] = "OON_RUN"
      BY <1>21, EnableChipAssumption DEF RunNextJob, history, LocalsTyped, Chips
    <2>2. PICK ok \in Outcome("RUN_JOB") :
            /\ IF ok THEN Queue(i + 1, 1) ELSE jobs' = jobs
            /\ CountFault(~ok)
      BY <1>21 DEF RunNextJob
    <2>3. ok
      BY <2>2, FaultType DEF Undisturbed, ChainTyped
    <2>4. /\ jobs' \in [Chips -> 0 .. FifoDepth] /\ jobs'[i + 1] > 0
          /\ jobs'[i + 1] <= jobs[i + 1] + 1
          /\ \A d \in Chips : d # i + 1 => jobs'[d] = jobs[d]
      BY <2>1, <2>2, <2>3, QueueType DEF ChainTyped
    <2>5. pc'["worker"] \notin {"OON_RUN", "RUN1", "RUN2"} /\ pc'["shell"] = pc["shell"]
      BY <1>21, StepScanType DEF RunNextJob
    <2>6. ASSUME NEW c \in Chips
          PROVE  jobs'[c] + Pending("shell", c)' + Pending("worker", c)' + Unanswered(c)'
                   <= 2 * enables'[c]
      <3>1. jobs[c] \in Nat /\ jobs'[c] \in Nat /\ enables[c] \in Nat
        BY <2>4, EnableChipAssumption DEF ChainTyped, InfoTyped
      <3>2. /\ Unanswered(c) = Unanswered(c)' + (IF c = i + 1 THEN 1 ELSE 0)
            /\ Unanswered(c)' \in 0 .. 2
        BY <2>1, <2>5 DEF Unanswered, LocalsTyped
      <3>3. \A t \in Threads : Pending(t, c)' = Pending(t, c) /\ Pending(t, c) \in Nat
        BY <2>1, <2>5 DEF Pending, LocalsTyped
      <3>4. jobs[c] + Pending("shell", c) + Pending("worker", c) + Unanswered(c) <= 2 * enables[c]
        BY DEF Account
      <3>5. QED
        BY <2>1, <2>4, <3>1, <3>2, <3>3, <3>4
    <2>7. Account'
      BY <2>6 DEF Account
    <2>8. \A c \in Chips : c # i + 1 /\ BeingServed(c) => BeingServed(c)'
      BY <2>1, <2>5 DEF BeingServed
    <2>9. Served'
      BY <2>1, <2>4, <2>8 DEF Served
    <2>10. QED
      BY <2>7, <2>9
  <1>22. ASSUME NEW c \in Chips, Exhaust(c) PROVE Account' /\ Served'
    <2>1. /\ UNCHANGED <<enables, chipId, chip_enable, pc, i>>
          /\ jobs[c] > 0 /\ jobs' = [jobs EXCEPT ![c] = jobs[c] - 1]
          /\ oon' = [oon EXCEPT ![c] = TRUE]
      BY <1>22 DEF Exhaust, info, history
    <2>2. ASSUME NEW d \in Chips
          PROVE  jobs'[d] + Pending("shell", d)' + Pending("worker", d)' + Unanswered(d)'
                   <= 2 * enables'[d]
      <3>1. jobs[d] \in Nat /\ enables[d] \in Nat /\ jobs'[d] = jobs[d] - (IF d = c THEN 1 ELSE 0)
        BY <2>1, EnableChipAssumption DEF ChainTyped, InfoTyped
      <3>2. /\ Unanswered(d)' <= Unanswered(d) + (IF d = c THEN 1 ELSE 0)
            /\ Unanswered(d) \in 0 .. 2 /\ Unanswered(d)' \in 0 .. 2
        BY <2>1 DEF Unanswered, ChainTyped
      <3>3. \A t \in Threads : Pending(t, d)' = Pending(t, d) /\ Pending(t, d) \in Nat
        BY <2>1 DEF Pending
      <3>4. jobs[d] + Pending("shell", d) + Pending("worker", d) + Unanswered(d) <= 2 * enables[d]
        BY DEF Account
      <3>5. QED
        BY <2>1, <3>1, <3>2, <3>3, <3>4
    <2>3. Account'
      BY <2>2 DEF Account
    <2>4. \A d \in Chips : BeingServed(d) => BeingServed(d)'
      BY <2>1 DEF BeingServed
    <2>5. Served'
      BY <2>1, <2>4 DEF Served, ChainTyped
    <2>6. QED
      BY <2>3, <2>5
  <1>23. ASSUME NEW c \in Chips, FindNonce(c) PROVE Account' /\ Served'
    BY <1>23, JobsSame DEF FindNonce, info, history
  <1>24. CASE UNCHANGED vars
    BY <1>24, JobsSame DEF vars, info, chain, history
  <1>25. QED
    BY <1>1, <1>2, <1>3, <1>4, <1>5, <1>6, <1>7, <1>8, <1>9, <1>10, <1>11, <1>12, <1>13, <1>14,
       <1>15, <1>16, <1>17, <1>18, <1>19, <1>20, <1>21, <1>22, <1>23, <1>24 DEF Next, Command,
       Set, Worker, Threads

-----------------------------------------------------------------------------
(* The theorems.                                                            *)

LEMMA IInvInit == Init => IInv
  BY TypedInit, CountsInit, InTurnInit DEF IInv

LEMMA IInvStep == IInv /\ [Next]_vars => IInv'
  <1> SUFFICES ASSUME IInv, [Next]_vars PROVE IInv'
    OBVIOUS
  <1>1. Typed' /\ EnabledKnown' /\ Counts'
    BY TypedStep, EnabledKnownStep, CountsStep DEF IInv
  <1>2. ASSUME Undisturbed' PROVE InTurn' /\ Account' /\ Served'
    BY <1>2, UndisturbedStep, InTurnStep, JobsStep DEF IInv
  <1>3. QED
    BY <1>1, <1>2 DEF IInv

\* The inductive invariant: types; a chip is only served after somebody enabled it;
\* the account of the jobs that are counted; and, while nothing goes wrong, the order
\* in which the worker starts the chips, and the jobs each chip has and is owed.
THEOREM Inductive == Spec => []IInv
  BY IInvInit, IInvStep, PTL DEF Spec

\* The type invariant of the session, for every chain, FIFO and number of enables.
THEOREM TypeCorrect == Spec => []TypeOK
  <1>1. IInv => TypeOK
    <2> SUFFICES ASSUME IInv PROVE TypeOK
      OBVIOUS
    <2>1. pc \in [Threads -> ShellLabels \cup WorkerLabels]
      BY DEF IInv, Typed, LocalsTyped
    <2>2. ShellLabels \cup WorkerLabels = SetLabels \cup
            {"IDLE", "CMD", "STOP", "JOIN", "OUT", "CRASHED", "INIT", "INIT_FLAGS", "LOCK",
             "NEXT_CHIP", "LOOP", "GN_SCAN", "GN", "OON_PIN", "OON_SCAN", "OON",
             "OON_RUN", "END"}
      BY DEF ShellLabels, WorkerLabels
    <2>3. QED
      BY <2>2 DEF IInv, Typed, LocalsTyped, InfoTyped, ChainTyped, TypeOK
  <1>2. QED
    BY <1>1, Inductive, PTL

\* However nonces, out-of-nonces and enable commands fall together, the loop reports
\* no more jobs than the chips worked on and the repeated enables count again.
THEOREM NothingCountedTwice == Spec => []CountedOnce
  <1>1. IInv => CountedOnce
    <2> SUFFICES ASSUME IInv, faults = 0
                 PROVE  counted <= exhausted + Cardinality(Done) + Cardinality(Repeated)
      BY DEF CountedOnce
    <2>1. Cardinality(Oons) + counted <= exhausted + Cardinality(Done) + Cardinality(Repeated)
      BY DEF IInv, Counts
    <2>2. /\ Cardinality(Oons) \in Nat /\ Cardinality(Done) \in Nat
          /\ Cardinality(Repeated) \in Nat /\ counted \in Nat /\ exhausted \in Nat
      BY CountTypes DEF IInv, Counts
    <2>3. QED
      BY <2>1, <2>2
  <1>2. QED
    BY <1>1, Inductive, PTL

\* An enabled chip has a job, or an OON that will be answered with one, or is being
\* given one, unless a transfer failed or enable was typed too early.
THEOREM NoChipIsForgotten == Spec => []NotStarved
  <1>1. IInv => NotStarved
    BY DEF IInv, Undisturbed, Served, NotStarved
  <1>2. QED
    BY <1>1, Inductive, PTL

\* A job is sent to a full FIFO only after a chip was enabled more often than its
\* FIFO has places for the two jobs of every enable.
THEOREM JobsFitTheFifo == Spec => NoJobLost
  <1>1. ASSUME IInv, [Next]_vars, faults' = 0, ~overlap,
               NEW t \in Threads, NEW c \in Chips, Sends(t, c), 2 * enables[c] <= FifoDepth
        PROVE  jobs[c] < FifoDepth
    <2>1. Typed /\ Account
      <3>1. faults = 0
        BY <1>1, FaultsStep DEF IInv
      <3>2. QED
        BY <1>1, <3>1 DEF IInv, Undisturbed
    <2>2. jobs[c] \in Nat /\ enables[c] \in Nat
      BY <2>1 DEF Typed, ChainTyped, InfoTyped
    <2>3. /\ Pending("shell", c) \in 0 .. 2
          /\ Pending("worker", c) \in 0 .. 2 /\ Unanswered(c) \in 0 .. 2
          /\ \/ Pending("shell", c) > 0
             \/ Pending("worker", c) > 0
             \/ Unanswered(c) > 0
      <3>1. /\ Pending("shell", c) \in 0 .. 2 /\ Pending("worker", c) \in 0 .. 2
            /\ Unanswered(c) \in 0 .. 2
        BY DEF Pending, Unanswered
      <3>2. CASE pc[t] \in {"RUN1", "RUN2"} /\ chipId = c
        <4>1. Pending(t, c) > 0
          BY <3>2 DEF Pending
        <4>2. QED
          BY <3>1, <4>1 DEF Threads
      <3>3. CASE pc[t] = "OON_RUN" /\ i + 1 = c
        <4>1. t = "worker"
          BY <2>1, <3>3 DEF Typed, LocalsTyped, ShellLabels, SetLabels, Threads
        <4>2. Unanswered(c) > 0
          BY <3>3, <4>1 DEF Unanswered
        <4>3. QED
          BY <3>1, <4>2
      <3>4. QED
        BY <1>1, <3>2, <3>3 DEF Sends
    <2>4. jobs[c] + Pending("shell", c) + Pending("worker", c) + Unanswered(c) <= 2 * enables[c]
      BY <2>1 DEF Account
    <2>5. QED
      BY <1>1, <2>2, <2>3, <2>4, EnableChipAssumption
  <1>2. IInv /\ [Next]_vars =>
          [\A t \in Threads, c \in Chips :
             Sends(t, c) /\ faults' = 0 /\ ~overlap /\ 2 * enables[c] <= FifoDepth =>
               jobs[c] < FifoDepth]_vars
    BY <1>1
  <1>3. QED
    BY <1>2, Inductive, PTL DEF Spec, NoJobLost
=============================================================================
