-------------------------- MODULE MiningServiceProofs --------------------------
(***************************************************************************)
(* Proofs about the mining service, for any number of services and failing  *)
(* calls, and about DistributionNonce, by which the service and the tests   *)
(* divide the nonces, for every width of a nonce, number of chips and       *)
(* number of cores.  Neither shares a variable with the other.              *)
(*                                                                          *)
(* MiningService: the flags of a service are only set by its own threads,   *)
(* by StopService in progress and by a StartService that then frees the     *)
(* service; so StopService skips the join of the worker only after one of   *)
(* the threads ended the service, and never skips that of the monitor.      *)
(*                                                                          *)
(* DistributionNonce: as long as the last chip has room, the first nonce    *)
(* not given away is a sum that never passes end, so the additions modulo   *)
(* 2^32 never wrap, and the nonces given away so far are exactly those      *)
(* before it.                                                               *)
(***************************************************************************)
EXTENDS MiningService, DistributionNonce, FiniteSetTheorems, TLAPS

Stops == {"JOIN_WORKER", "STOP_MONITOR", "JOIN_MONITOR", "FREE"}

\* Nothing is known of a service that was not allocated yet.
Fresh ==
  \A s \in Services : s > started =>
    /\ worker[s] = "NONE" /\ monitor[s] = "NONE"
    /\ s \notin bExitWorkLoop /\ s \notin bExitMonitorLoop

\* While the menu works on a service it has one, that was not freed.
Pointer ==
  /\ hService <= started
  /\ menu \in Stops \cup {"START"} => hService > 0 /\ hService \notin freed
  /\ menu = "START" => worker[hService] = "NONE"

\* Who may have set the flags of a service.
Flags ==
  \A s \in Services :
    /\ s \in bExitWorkLoop => s \in selfExit \cup freed \/ (s = hService /\ menu \in Stops)
    /\ s \in bExitMonitorLoop => s \in freed \/ (s = hService /\ menu \in {"JOIN_MONITOR", "FREE"})

\* What StopService has waited for.
Joined ==
  /\ menu \in Stops \ {"JOIN_WORKER"} => worker[hService] = "DEAD" \/ hService \in selfExit
  /\ menu = "FREE" => monitor[hService] = "DEAD"

\* An orderly run: only the service of the menu has threads, which write to an
\* open log.
OneService ==
  Orderly =>
    /\ "service" \notin misuse
    /\ hService \notin freed
    /\ menu = "MAIN" => hService = 0
    /\ \A s \in Services : s # hService => worker[s] \in {"NONE", "DEAD"} /\ monitor[s] \in {"NONE", "DEAD"}
    /\ hService # 0 => mining_log = "OPEN"

IInv == TypeOK /\ Fresh /\ Pointer /\ Flags /\ Joined /\ FreeAfterJoin /\ OneService

\* What every step of a thread of service s has in common.
ThreadStep(s) ==
  /\ UNCHANGED <<menu, hService, mining_log, started, freed, bExitMonitorLoop>>
  /\ \/ /\ worker[s] \notin {"NONE", "DEAD"}
        /\ worker' = [worker EXCEPT ![s] = worker'[s]]
        /\ monitor' = monitor
     \/ /\ monitor[s] \notin {"NONE", "DEAD"}
        /\ monitor' = [monitor EXCEPT ![s] = monitor'[s]]
        /\ worker' = worker
  /\ selfExit \subseteq selfExit'
  /\ bExitWorkLoop' \subseteq bExitWorkLoop \cup (selfExit' \cap {s})
  /\ s \notin freed /\ "service" \notin misuse => "service" \notin misuse'
  /\ Orderly' => Orderly

-----------------------------------------------------------------------------
LEMMA OutcomeType ==
  ASSUME NEW call, NEW ok \in Outcome(call)
  PROVE  ok \in BOOLEAN /\ (~ok => faults < MaxFaults)
  BY DEF Outcome

LEMMA CountFaultType ==
  ASSUME TypeOK, NEW call, NEW ok \in Outcome(call), CountFault(~ok)
  PROVE  ok \in BOOLEAN /\ faults' \in 0 .. MaxFaults /\ (faults' = 0 => faults = 0 /\ ok)
  <1>1. ok \in BOOLEAN /\ (~ok => faults < MaxFaults)
    BY OutcomeType
  <1>2. CASE ok
    BY <1>2 DEF CountFault, TypeOK
  <1>3. CASE ~ok
    BY <1>1, <1>3, MiningServiceAssumption DEF CountFault, TypeOK
  <1>4. QED
    BY <1>1, <1>2, <1>3

LEMMA UsesType ==
  ASSUME NEW s, NEW log \in BOOLEAN, misuse \subseteq {"service", "log"}, Uses(s, log)
  PROVE  /\ misuse' \subseteq {"service", "log"}
         /\ s \notin freed /\ "service" \notin misuse => "service" \notin misuse'
  BY DEF Uses

LEMMA Bounds ==
  ASSUME TypeOK
  PROVE  /\ MaxServices \in Nat /\ started \in Nat /\ hService \in Nat
         /\ started <= MaxServices /\ hService <= MaxServices
         /\ 1 .. started \subseteq Services
         /\ freed \subseteq Services
         /\ Services \subseteq Nat
  BY MiningServiceAssumption DEF TypeOK, Services

LEMMA InitInv == Init => IInv
  <1> SUFFICES ASSUME Init PROVE IInv
    OBVIOUS
  <1>1. TypeOK
    BY MiningServiceAssumption DEF Init, TypeOK, Services
  <1>2. Fresh /\ Pointer /\ Flags /\ Joined /\ FreeAfterJoin /\ OneService
    BY DEF Init, Fresh, Pointer, Flags, Joined, FreeAfterJoin, OneService, Services, Stops
  <1>3. QED
    BY <1>1, <1>2 DEF IInv

-----------------------------------------------------------------------------
(* The threads.                                                             *)

LEMMA MonitorType ==
  ASSUME IInv, NEW s \in Services, Monitor(s)
  PROVE  TypeOK' /\ ThreadStep(s)
  <1> USE DEF IInv
  <1>1. CASE MonitorCheck(s)
    <2>1. /\ misuse' \subseteq {"service", "log"}
          /\ s \notin freed /\ "service" \notin misuse => "service" \notin misuse'
      BY <1>1, UsesType DEF MonitorCheck, TypeOK
    <2>2. PICK exit \in Reads(s, bExitMonitorLoop), hot \in BOOLEAN :
            /\ monitor' = [monitor EXCEPT ![s] = IF exit THEN "DEAD" ELSE IF hot THEN "REPORT" ELSE "SLEEP"]
            /\ IF ~exit /\ hot
                 THEN bExitWorkLoop' = bExitWorkLoop \cup {s} /\ selfExit' = selfExit \cup {s}
                 ELSE UNCHANGED <<bExitWorkLoop, selfExit>>
      BY <1>1 DEF MonitorCheck
    <2>3. TypeOK'
      BY <1>1, <2>1, <2>2 DEF MonitorCheck, TypeOK
    <2>4. ThreadStep(s)
      BY <1>1, <2>1, <2>2 DEF MonitorCheck, TypeOK, ThreadStep, Orderly
    <2>5. QED
      BY <2>3, <2>4
  <1>2. CASE MonitorSleep(s)
    BY <1>2 DEF MonitorSleep, TypeOK, ThreadStep, shared, history, Orderly
  <1>3. CASE MonitorReport(s)
    <2>1. /\ misuse' \subseteq {"service", "log"}
          /\ s \notin freed /\ "service" \notin misuse => "service" \notin misuse'
      BY <1>3, UsesType DEF MonitorReport, TypeOK
    <2>2. QED
      BY <1>3, <2>1 DEF MonitorReport, TypeOK, ThreadStep, shared, Orderly
  <1>4. QED
    BY <1>1, <1>2, <1>3 DEF Monitor

LEMMA WorkerType ==
  ASSUME IInv, NEW s \in Services, Worker(s)
  PROVE  TypeOK' /\ ThreadStep(s)
  <1> USE DEF IInv
  <1>1. CASE WorkerInit(s)
    <2>1. /\ misuse' \subseteq {"service", "log"}
          /\ s \notin freed /\ "service" \notin misuse => "service" \notin misuse'
      BY <1>1, UsesType DEF WorkerInit, TypeOK
    <2>2. PICK ok \in Outcome("InitializeMiningkLoop") :
            /\ WorkerGoto(s, IF ok THEN "LOOP" ELSE "FAILURE")
            /\ CountFault(~ok)
            /\ \E created \in {ok, TRUE} :
                 handle' = [handle EXCEPT ![s] = IF created THEN "LIVE" ELSE "NULL"]
      BY <1>1 DEF WorkerInit
    <2>3. faults' \in 0 .. MaxFaults /\ (faults' = 0 => faults = 0)
      BY <2>2, CountFaultType
    <2>4. handle' \in [Services -> {"NULL", "LIVE", "DESTROYED"}]
      BY <2>2 DEF TypeOK
    <2>5. QED
      BY <1>1, <2>1, <2>2, <2>3, <2>4 DEF WorkerInit, WorkerGoto, TypeOK, ThreadStep, shared, Orderly
  <1>2. CASE WorkerLoop(s)
    <2>1. /\ misuse' \subseteq {"service", "log"}
          /\ s \notin freed /\ "service" \notin misuse => "service" \notin misuse'
      BY <1>2, UsesType DEF WorkerLoop, TypeOK
    <2>2. QED
      BY <1>2, <2>1 DEF WorkerLoop, WorkerGoto, TypeOK, ThreadStep, shared, Orderly
  <1>3. CASE WorkerBody(s)
    <2>1. PICK valid \in Outcome("submit_nonce"), oon \in BOOLEAN :
            /\ Uses(s, oon)
            /\ IF valid
                 THEN UNCHANGED <<bExitWorkLoop, selfExit>>
                 ELSE bExitWorkLoop' = bExitWorkLoop \cup {s} /\ selfExit' = selfExit \cup {s}
            /\ CountFault(~valid)
      BY <1>3 DEF WorkerBody
    <2>2. /\ misuse' \subseteq {"service", "log"}
          /\ s \notin freed /\ "service" \notin misuse => "service" \notin misuse'
      BY <2>1, UsesType DEF TypeOK
    <2>3. faults' \in 0 .. MaxFaults /\ (faults' = 0 => faults = 0)
      BY <2>1, CountFaultType
    <2>4. QED
      BY <1>3, <2>1, <2>2, <2>3 DEF WorkerBody, WorkerGoto, TypeOK, ThreadStep, Orderly
  <1>4. CASE WorkerExit(s)
    <2>1. /\ misuse' \subseteq {"service", "log"}
          /\ s \notin freed /\ "service" \notin misuse => "service" \notin misuse'
      BY <1>4, UsesType DEF WorkerExit, TypeOK
    <2>2. QED
      BY <1>4, <2>1 DEF WorkerExit, WorkerGoto, TypeOK, ThreadStep, shared, Orderly
  <1>5. CASE WorkerFailure(s)
    <2>1. /\ misuse' \subseteq {"service", "log"}
          /\ s \notin freed /\ "service" \notin misuse => "service" \notin misuse'
      BY <1>5, UsesType DEF WorkerFailure, TypeOK
    <2>2. QED
      BY <1>5, <2>1 DEF WorkerFailure, WorkerGoto, TypeOK, ThreadStep, Orderly
  <1>6. CASE WorkerCleanup(s)
    <2>1. /\ misuse' \subseteq {"service", "log"}
          /\ s \notin freed /\ "service" \notin misuse => "service" \notin misuse'
      BY <1>6, UsesType DEF WorkerCleanup, TypeOK
    <2>2. QED
      BY <1>6, <2>1 DEF WorkerCleanup, WorkerGoto, TypeOK, ThreadStep, shared, Orderly
  <1>7. QED
    BY <1>1, <1>2, <1>3, <1>4, <1>5, <1>6 DEF Worker

\* A thread of a service disturbs nothing the menu relies on.
LEMMA ThreadInv ==
  ASSUME IInv, NEW s \in Services, TypeOK', ThreadStep(s)
  PROVE  IInv'
  <1> USE DEF IInv
  <1>1. s <= started
    BY DEF Fresh, ThreadStep, TypeOK, Services
  <1>2. Fresh'
    BY <1>1 DEF Fresh, ThreadStep, TypeOK, Services
  <1>3. Pointer'
    BY DEF Pointer, ThreadStep, TypeOK, Services
  <1>4. Flags'
    BY DEF Flags, ThreadStep
  <1>5. Joined'
    <2>1. hService > 0 => hService \in Services
      BY MiningServiceAssumption DEF TypeOK, Services
    <2>2. menu \in Stops => hService \in Services
      BY <2>1 DEF Pointer
    <2>3. QED
      BY <2>2 DEF Joined, ThreadStep, TypeOK, Stops
  <1>6. FreeAfterJoin'
    <2>1. freed \subseteq Services
      BY MiningServiceAssumption DEF TypeOK, Services
    <2>2. QED
      BY <2>1 DEF FreeAfterJoin, ThreadStep, TypeOK
  <1>7. OneService'
    BY DEF OneService, ThreadStep, TypeOK
  <1>8. QED
    BY <1>2, <1>3, <1>4, <1>5, <1>6, <1>7

-----------------------------------------------------------------------------
(* The menu.                                                                *)

LEMMA StartMonitorInv == IInv /\ StartMonitor => IInv'
  <1> SUFFICES ASSUME IInv, StartMonitor PROVE IInv'
    OBVIOUS
  <1> USE DEF IInv
  <1>1. CASE hService # 0
    <2>1. TypeOK'
      BY <1>1 DEF StartMonitor, TypeOK, history
    <2>2. Fresh' /\ Pointer' /\ Flags' /\ Joined' /\ FreeAfterJoin'
      BY <1>1 DEF StartMonitor, history, Fresh, Pointer, Flags, Joined, FreeAfterJoin
    <2>3. OneService'
      BY <1>1 DEF StartMonitor, history, OneService, Orderly
    <2>4. QED
      BY <2>1, <2>2, <2>3
  <1>2. CASE hService = 0
    <2>1. started \in Nat /\ started' = started + 1 /\ started' \in Services
      <3>1. started < MaxServices /\ started' = started + 1
        BY <1>2 DEF StartMonitor
      <3>2. QED
        BY <3>1, Bounds DEF Services
    <2>2. /\ worker[started'] = "NONE" /\ monitor[started'] = "NONE"
          /\ started' \notin freed
          /\ started' \notin bExitWorkLoop /\ started' \notin bExitMonitorLoop
      BY <2>1 DEF Fresh, TypeOK
    <2>3. /\ menu = "MENU" /\ mining_log' = "OPEN" /\ hService' = started'
          /\ UNCHANGED <<bExitWorkLoop, bExitMonitorLoop, worker, handle, selfExit, abandoned, misuse>>
      BY <1>2 DEF StartMonitor, history
    <2>4. PICK ok \in Outcome("create_monitor") :
            /\ monitor' = [monitor EXCEPT ![started'] = IF ok THEN "CHECK" ELSE "NONE"]
            /\ freed' = IF ok THEN freed ELSE freed \cup {started'}
            /\ menu' = IF ok THEN "START" ELSE "MENU"
            /\ CountFault(~ok)
      BY <1>2 DEF StartMonitor
    <2>5. ok \in BOOLEAN /\ faults' \in 0 .. MaxFaults /\ (faults' = 0 => faults = 0 /\ ok)
      BY <2>4, CountFaultType
    <2>6. TypeOK'
      <3>1. started' \in 0 .. MaxServices
        BY <2>1, Bounds DEF Services
      <3>2. freed' \subseteq 1 .. started'
        <4>1. freed \subseteq 1 .. started' /\ started' \in 1 .. started'
          BY <2>1, Bounds DEF TypeOK
        <4>2. QED
          BY <2>4, <2>5, <4>1
      <3>3. hService' \in 0 .. MaxServices
        BY <2>3, <3>1
      <3>4. monitor' \in [Services -> {"NONE", "CHECK", "SLEEP", "REPORT", "DEAD"}]
        BY <2>4, <2>5 DEF TypeOK
      <3>5. menu' \in {"MENU", "START"}
        BY <2>4, <2>5
      <3>6. QED
        BY <2>3, <2>5, <3>1, <3>2, <3>3, <3>4, <3>5 DEF TypeOK
    <2>7. Fresh'
      BY <2>1, <2>3, <2>4, <2>5, Bounds DEF Fresh, TypeOK
    <2>8. Pointer'
      BY <2>1, <2>2, <2>3, <2>4, <2>5 DEF Pointer, Stops
    <2>9. Flags'
      BY <2>2, <2>3, <2>4 DEF Flags, Stops
    <2>10. Joined'
      BY <2>4 DEF Joined, Stops
    <2>11. FreeAfterJoin'
      BY <2>1, <2>2, <2>3, <2>4, <2>5, Bounds DEF FreeAfterJoin, TypeOK
    <2>12. OneService'
      <3>1. SUFFICES ASSUME Orderly'
                     PROVE  /\ "service" \notin misuse'
                            /\ hService' \notin freed'
                            /\ menu' = "MAIN" => hService' = 0
                            /\ \A s \in Services : s # hService' =>
                                 worker'[s] \in {"NONE", "DEAD"} /\ monitor'[s] \in {"NONE", "DEAD"}
                            /\ hService' # 0 => mining_log' = "OPEN"
        BY DEF OneService
      <3>2. ok /\ Orderly
        BY <2>3, <2>5, <3>1 DEF Orderly
      <3>3. menu' = "START" /\ freed' = freed /\ "service" \notin misuse'
        BY <2>3, <2>4, <3>2 DEF OneService
      <3>4. \A s \in Services : s # hService =>
              worker[s] \in {"NONE", "DEAD"} /\ monitor[s] \in {"NONE", "DEAD"}
        BY <3>2 DEF OneService
      <3>5. ASSUME NEW s \in Services, s # started'
            PROVE  worker'[s] \in {"NONE", "DEAD"} /\ monitor'[s] \in {"NONE", "DEAD"}
        <4>1. s # hService
          BY <1>2, Bounds DEF Services
        <4>2. monitor'[s] = monitor[s]
          BY <2>4, <3>5 DEF TypeOK
        <4>3. QED
          BY <2>3, <3>4, <4>1, <4>2
      <3>6. QED
        BY <2>2, <2>3, <3>3, <3>5
    <2>13. QED
      BY <2>6, <2>7, <2>8, <2>9, <2>10, <2>11, <2>12
  <1>3. QED
    BY <1>1, <1>2

LEMMA StartWorkerInv == IInv /\ StartWorker => IInv'
  <1> SUFFICES ASSUME IInv, StartWorker PROVE IInv'
    OBVIOUS
  <1> USE DEF IInv
  <1>1. /\ menu = "START" /\ menu' = "MENU" /\ hService \in Services /\ hService \in 1 .. started
        /\ hService \notin freed /\ worker[hService] = "NONE"
    <2>1. menu = "START" /\ menu' = "MENU"
      BY DEF StartWorker
    <2>2. hService > 0 /\ hService <= started
      BY <2>1 DEF Pointer
    <2>3. QED
      BY <2>1, <2>2, Bounds DEF Pointer, Services
  <1>2. UNCHANGED <<hService, mining_log, started, monitor, handle, selfExit, abandoned, misuse>>
    BY DEF StartWorker, history
  <1>3. PICK ok \in Outcome("create_worker") :
          /\ IF ok
               THEN /\ worker' = [worker EXCEPT ![hService] = "INIT"]
                    /\ UNCHANGED <<freed, bExitWorkLoop, bExitMonitorLoop>>
               ELSE /\ bExitWorkLoop' = bExitWorkLoop \cup {hService}
                    /\ bExitMonitorLoop' = bExitMonitorLoop \cup {hService}
                    /\ freed' = freed \cup {hService}
                    /\ UNCHANGED worker
          /\ CountFault(~ok)
    BY DEF StartWorker
  <1>4. ok \in BOOLEAN /\ faults' \in 0 .. MaxFaults /\ (faults' = 0 => faults = 0 /\ ok)
    BY <1>3, CountFaultType
  <1>5. TypeOK'
    BY <1>1, <1>2, <1>3, <1>4 DEF TypeOK
  <1>6. Fresh'
    BY <1>1, <1>2, <1>3, <1>4, Bounds DEF Fresh, TypeOK
  <1>7. Pointer' /\ Joined'
    BY <1>1, <1>2 DEF Pointer, Joined, Stops
  <1>8. Flags'
    BY <1>1, <1>2, <1>3 DEF Flags, Stops
  <1>9. FreeAfterJoin'
    <2>1. CASE ok
      <3>1. freed' = freed /\ worker' = [worker EXCEPT ![hService] = "INIT"]
        BY <1>3, <2>1
      <3>2. \A s \in freed : s \in Services /\ worker'[s] = worker[s]
        BY <1>1, <3>1, Bounds DEF TypeOK
      <3>3. QED
        BY <1>2, <3>1, <3>2 DEF FreeAfterJoin
    <2>2. CASE ~ok
      <3>1. freed' = freed \cup {hService} /\ worker' = worker
        BY <1>3, <2>2
      <3>2. QED
        BY <1>1, <1>2, <3>1 DEF FreeAfterJoin
    <2>3. QED
      BY <1>4, <2>1, <2>2
  <1>10. OneService'
    BY <1>1, <1>2, <1>3, <1>4 DEF OneService, Orderly, TypeOK
  <1>11. QED
    BY <1>5, <1>6, <1>7, <1>8, <1>9, <1>10

\* Leaving and entering the menu.
LEMMA LeaveInv == IInv /\ (Quit \/ Enter) => IInv'
  <1> SUFFICES ASSUME IInv, Quit \/ Enter PROVE IInv'
    OBVIOUS
  <1> USE DEF IInv
  <1>1. CASE Quit
    <2>1. /\ menu = "MENU" /\ menu' = "MAIN"
          /\ mining_log' \in {"NULL", "CLOSED"}
          /\ misuse' \subseteq {"service", "log"}
          /\ "service" \notin misuse => "service" \notin misuse'
      BY <1>1 DEF Quit, CloseLog, TypeOK
    <2>2. /\ abandoned' = IF hService = 0 THEN abandoned ELSE abandoned \cup {hService}
          /\ UNCHANGED <<hService, started, freed, bExitWorkLoop, bExitMonitorLoop, worker,
                         monitor, handle, faults, selfExit>>
      BY <1>1 DEF Quit, shared, threads
    <2>3. TypeOK'
      BY <2>1, <2>2, MiningServiceAssumption DEF TypeOK, Services
    <2>4. Fresh' /\ Pointer' /\ Flags' /\ Joined' /\ FreeAfterJoin'
      BY <2>1, <2>2 DEF Fresh, Pointer, Flags, Joined, FreeAfterJoin, Stops
    <2>5. OneService'
      BY <2>1, <2>2 DEF OneService, Orderly
    <2>6. QED
      BY <2>3, <2>4, <2>5
  <1>2. CASE Enter
    <2>1. /\ menu = "MAIN" /\ menu' = "MENU" /\ hService' = 0
          /\ UNCHANGED <<mining_log, started, freed, bExitWorkLoop, bExitMonitorLoop, worker,
                         monitor, handle, faults, selfExit, abandoned, misuse>>
      BY <1>2 DEF Enter, shared, threads, history
    <2>2. TypeOK'
      BY <2>1, MiningServiceAssumption DEF TypeOK
    <2>3. Fresh' /\ Pointer' /\ Flags' /\ Joined' /\ FreeAfterJoin'
      BY <2>1 DEF TypeOK, Fresh, Pointer, Flags, Joined, FreeAfterJoin, Stops
    <2>4. OneService'
      BY <2>1 DEF OneService, Orderly
    <2>5. QED
      BY <2>2, <2>3, <2>4
  <1>3. QED
    BY <1>1, <1>2

LEMMA StopWorkerInv == IInv /\ StopWorker => IInv'
  <1> SUFFICES ASSUME IInv, StopWorker PROVE IInv'
    OBVIOUS
  <1> USE DEF IInv
  <1>1. /\ menu = "MENU" /\ hService \in Services /\ hService \in 1 .. started
        /\ UNCHANGED <<hService, mining_log, started, freed, bExitMonitorLoop, worker, monitor,
                       handle, faults, selfExit, abandoned>>
    BY DEF StopWorker, threads, Pointer, TypeOK, Services
  <1>2. CASE hService \in freed
    <2>1. menu' = "CRASHED" /\ misuse' = misuse \cup {"service"} /\ UNCHANGED bExitWorkLoop
      BY <1>2 DEF StopWorker
    <2>2. TypeOK'
      BY <1>1, <2>1 DEF TypeOK
    <2>3. Fresh' /\ Pointer' /\ Flags' /\ Joined' /\ FreeAfterJoin'
      BY <1>1, <2>1 DEF Fresh, Pointer, Flags, Joined, FreeAfterJoin, Stops
    <2>4. OneService'
      BY <1>1, <1>2, <2>1 DEF OneService, Orderly
    <2>5. QED
      BY <2>2, <2>3, <2>4
  <1>3. CASE hService \notin freed
    <2>1. /\ menu' = IF hService \in bExitWorkLoop THEN "STOP_MONITOR" ELSE "JOIN_WORKER"
          /\ bExitWorkLoop' = bExitWorkLoop \cup {hService}
          /\ UNCHANGED misuse
      BY <1>3 DEF StopWorker
    <2>2. hService \in bExitWorkLoop => hService \in selfExit
      BY <1>1, <1>3 DEF Flags, Stops
    <2>3. TypeOK'
      BY <1>1, <2>1 DEF TypeOK
    <2>4. Fresh'
      BY <1>1, <2>1 DEF Fresh, TypeOK, Services
    <2>5. Pointer' /\ Joined'
      BY <1>1, <1>3, <2>1, <2>2 DEF Pointer, Joined, Stops
    <2>6. Flags'
      BY <1>1, <2>1 DEF Flags, Stops
    <2>7. FreeAfterJoin' /\ OneService'
      BY <1>1, <2>1 DEF FreeAfterJoin, OneService, Orderly
    <2>8. QED
      BY <2>3, <2>4, <2>5, <2>6, <2>7
  <1>4. QED
    BY <1>2, <1>3

\* Of StopService after the flag of the worker, up to the free.
LEMMA JoinInv == IInv /\ (JoinWorker \/ StopMonitor \/ JoinMonitor) => IInv'
  <1> SUFFICES ASSUME IInv, JoinWorker \/ StopMonitor \/ JoinMonitor PROVE IInv'
    OBVIOUS
  <1> USE DEF IInv
  <1>1. /\ menu \in Stops /\ hService \in Services /\ hService \in 1 .. started
        /\ hService \notin freed
    BY DEF JoinWorker, StopMonitor, JoinMonitor, Pointer, Stops, TypeOK, Services
  <1>2. CASE JoinWorker
    <2>1. /\ menu' = "STOP_MONITOR" /\ menu = "JOIN_WORKER" /\ worker[hService] = "DEAD"
          /\ UNCHANGED <<hService, mining_log, started, freed, bExitWorkLoop, bExitMonitorLoop,
                         worker, monitor, handle, faults, selfExit, abandoned, misuse>>
      BY <1>2 DEF JoinWorker, shared, threads, history
    <2>2. TypeOK'
      BY <2>1 DEF TypeOK
    <2>3. QED
      BY <1>1, <2>1, <2>2 DEF Fresh, Pointer, Flags, Joined, FreeAfterJoin, OneService, Orderly, Stops
  <1>3. CASE StopMonitor
    <2>1. hService \notin bExitMonitorLoop
      BY <1>1, <1>3 DEF StopMonitor, Flags
    <2>2. /\ menu = "STOP_MONITOR" /\ menu' = "JOIN_MONITOR"
          /\ bExitMonitorLoop' = bExitMonitorLoop \cup {hService}
          /\ UNCHANGED <<hService, mining_log, started, freed, bExitWorkLoop,
                         worker, monitor, handle, faults, selfExit, abandoned, misuse>>
      BY <1>3, <2>1 DEF StopMonitor, threads, history
    <2>3. TypeOK'
      BY <1>1, <2>2 DEF TypeOK
    <2>4. Fresh'
      BY <1>1, <2>2 DEF Fresh, TypeOK, Services
    <2>5. QED
      BY <1>1, <2>2, <2>3, <2>4 DEF Pointer, Flags, Joined, FreeAfterJoin, OneService, Orderly, Stops
  <1>4. CASE JoinMonitor
    <2>1. /\ menu' = "FREE" /\ menu = "JOIN_MONITOR" /\ monitor[hService] = "DEAD"
          /\ UNCHANGED <<hService, mining_log, started, freed, bExitWorkLoop, bExitMonitorLoop,
                         worker, monitor, handle, faults, selfExit, abandoned, misuse>>
      BY <1>4 DEF JoinMonitor, shared, threads, history
    <2>2. TypeOK'
      BY <2>1 DEF TypeOK
    <2>3. QED
      BY <1>1, <2>1, <2>2 DEF Fresh, Pointer, Flags, Joined, FreeAfterJoin, OneService, Orderly, Stops
  <1>5. QED
    BY <1>2, <1>3, <1>4

LEMMA FreeInv == IInv /\ FreeService => IInv'
  <1> SUFFICES ASSUME IInv, FreeService PROVE IInv'
    OBVIOUS
  <1> USE DEF IInv
  <1>1. /\ menu = "FREE" /\ menu' = "MAIN" /\ hService' = 0 /\ hService \in 1 .. started
        /\ hService \in Services
        /\ freed' = freed \cup {hService}
        /\ UNCHANGED <<started, bExitWorkLoop, bExitMonitorLoop, worker, monitor, handle, faults,
                       selfExit, abandoned>>
    BY DEF FreeService, CloseLog, threads, Pointer, Stops, TypeOK, Services
  <1>2. /\ mining_log' \in {"NULL", "CLOSED"}
        /\ misuse' \subseteq {"service", "log"}
        /\ "service" \notin misuse => "service" \notin misuse'
    BY DEF FreeService, CloseLog, TypeOK
  <1>3. monitor[hService] = "DEAD" /\ (worker[hService] = "DEAD" \/ hService \in selfExit)
    BY <1>1 DEF Joined, Stops
  <1>4. TypeOK'
    BY <1>1, <1>2, MiningServiceAssumption DEF TypeOK
  <1>5. Fresh' /\ Pointer' /\ Joined'
    BY <1>1 DEF Fresh, Pointer, Joined, Stops, TypeOK
  <1>6. Flags'
    BY <1>1 DEF Flags
  <1>7. FreeAfterJoin'
    BY <1>1, <1>3 DEF FreeAfterJoin
  <1>8. OneService'
    BY <1>1, <1>2, <1>3 DEF OneService, Orderly, TypeOK
  <1>9. QED
    BY <1>4, <1>5, <1>6, <1>7, <1>8

-----------------------------------------------------------------------------
LEMMA NextInv == IInv /\ [Next]_vars => IInv'
  <1> SUFFICES ASSUME IInv, [Next]_vars PROVE IInv'
    OBVIOUS
  <1>1. CASE StartMonitor \/ StartWorker
    BY <1>1, StartMonitorInv, StartWorkerInv
  <1>2. CASE Quit \/ Enter \/ StopWorker
    BY <1>2, LeaveInv, StopWorkerInv
  <1>3. CASE Stopping
    BY <1>3, JoinInv, FreeInv DEF Stopping
  <1>4. ASSUME NEW s \in Services, Monitor(s) \/ Worker(s) PROVE IInv'
    BY <1>4, MonitorType, WorkerType, ThreadInv
  <1>5. CASE UNCHANGED vars
    BY <1>5 DEF vars, shared, threads, history, IInv, TypeOK, Fresh, Pointer, Flags, Joined,
                FreeAfterJoin, OneService, Orderly
  <1>6. QED
    BY <1>1, <1>2, <1>3, <1>4, <1>5 DEF Next

LEMMA Invariance == Spec => []IInv
  BY InitInv, NextInv, PTL DEF Spec

\* The types of the state, for any number of services and failing calls.
THEOREM TypeCorrect == Spec => []TypeOK
  <1>1. IInv => TypeOK
    BY DEF IInv
  <1>2. QED
    BY <1>1, Invariance, PTL

\* StopService frees a service after its monitor, and after its worker unless
\* one of the two ended the service itself.
THEOREM FreeCorrect == Spec => []FreeAfterJoin
  <1>1. IInv => FreeAfterJoin
    BY DEF IInv
  <1>2. QED
    BY <1>1, Invariance, PTL

\* In an orderly run the workers that mine all belong to the one service of the
\* menu, which is not freed.
THEOREM OneMinerCorrect == Spec => []OneMiner
  <1>1. IInv => OneMiner
    <2> SUFFICES ASSUME IInv, Orderly
                 PROVE  /\ Cardinality({ s \in Services : Mining(s) }) <= 1
                        /\ "service" \notin misuse
      BY DEF OneMiner
    <2>1. { s \in Services : Mining(s) } \subseteq {hService}
      BY DEF IInv, OneService, Mining
    <2>2. IsFiniteSet({hService}) /\ Cardinality({hService}) = 1
      BY FS_Singleton
    <2>3. Cardinality({ s \in Services : Mining(s) }) <= 1
      BY <2>1, <2>2, FS_Subset
    <2>4. QED
      BY <2>3 DEF IInv, OneService
  <1>2. QED
    BY <1>1, Invariance, PTL

\* In an orderly run the log is open while a thread may write to it.
THEOREM LogCorrect == Spec => []LogOpen
  <1>1. IInv => LogOpen
    BY DEF IInv, TypeOK, OneService, LogOpen, Mining, Services
  <1>2. QED
    BY <1>1, Invariance, PTL

-----------------------------------------------------------------------------
(* DistributionNonce.                                                       *)

Cores(i) == IF Skipped(i) THEN 0 ELSE numCores[i]

\* The first loop leaves the partial sums of the cores, which grow.
Counted(n) ==
  /\ before[0] = 0
  /\ \A k \in 0 .. n - 1 : before[k + 1] = before[k] + Cores(k)
  /\ \A k, m \in 0 .. n : k <= m => before[k] <= before[m]

\* The nonces the shares of the chips before n add up to.
Share(n) == noncePerCore * before[n]

\* Given, with the ranges passed as an argument.
GivenIn(r, i, x) == ~(fault /\ i = 0 /\ numChips > 1) /\ r[i].first <= x /\ x <= r[i].last

GivenUpTo(n) ==
  /\ startNonce = start + Share(n) + Working(n)
  /\ \A x \in Nonces : x \in start .. startNonce - 1 <=> \E i \in 0 .. n - 1 : GivenIn(range, i, x)
  /\ \A x \in Nonces : \A i, j \in 0 .. n - 1 :
       GivenIn(range, i, x) /\ GivenIn(range, j, x) => i = j

CountInv == pc = "COUNT" => Counted(ii) /\ totalCores = before[ii] /\ startNonce = start
SplitInv == pc = "SPLIT" /\ numChips > 0 =>
              Counted(numChips) /\ ii <= numChips - 1 /\ (LastHasRoom => GivenUpTo(ii))
NonceIInv == NonceTypeOK /\ CountInv /\ SplitInv /\ Partition

-----------------------------------------------------------------------------
LEMMA ProductOfSum ==
  ASSUME NEW n \in Nat, NEW a \in Nat, NEW b \in Nat
  PROVE  n * (a + b) = n * a + n * b /\ n * a \in Nat
  OBVIOUS

LEMMA ProductOfZero ==
  ASSUME NEW n \in Nat
  PROVE  n * 0 = 0
  OBVIOUS

LEMMA ProductGrows ==
  ASSUME NEW n \in Nat, NEW a \in Nat, NEW b \in Nat, a <= b
  PROVE  n * a <= n * b
  <1> DEFINE d == b - a
  <1>1. d \in Nat /\ b = a + d
    OBVIOUS
  <1>2. n * b = n * a + n * d /\ n * d \in Nat /\ n * a \in Nat
    BY <1>1, ProductOfSum
  <1>3. QED
    BY <1>2

LEMMA NoWrap ==
  ASSUME NEW n \in Nonces
  PROVE  Uint32(n) = n
  BY NonceAssumption DEF Nonces, Uint32

LEMMA UintType ==
  ASSUME NEW n \in Nat
  PROVE  Uint32(n) \in Nonces
  BY NonceAssumption DEF Nonces, Uint32

LEMMA QuotientType ==
  ASSUME NEW n \in Nat, NEW d \in Nat \ {0}
  PROVE  n \div d \in Nat
  OBVIOUS

-----------------------------------------------------------------------------
LEMMA TypeInit == NonceInit => NonceTypeOK
  <1> SUFFICES ASSUME NonceInit PROVE NonceTypeOK
    OBVIOUS
  <1>1. range \in [Chips -> Ranges] /\ before \in [0 .. MaxChips -> Nat]
    BY NonceAssumption DEF NonceInit, Ranges, Nonces
  <1>2. QED
    BY <1>1, NonceAssumption DEF NonceInit, NonceTypeOK, Nonces

LEMMA TypeStep == NonceTypeOK /\ [NonceNext]_nonceVars => NonceTypeOK'
  <1> SUFFICES ASSUME NonceTypeOK, [NonceNext]_nonceVars PROVE NonceTypeOK'
    OBVIOUS
  <1>1. CASE Count
    <2>1. ii \in Chips /\ ii + 1 \in 0 .. MaxChips /\ ii + 1 \in 0 .. numChips
      BY <1>1, NonceAssumption DEF Count, NonceTypeOK, Chips
    <2>2. totalCores' \in Nat
      BY <1>1, <2>1, NonceAssumption DEF Count, NonceTypeOK
    <2>3. before' \in [0 .. MaxChips -> Nat]
      BY <1>1, <2>1, <2>2 DEF Count, NonceTypeOK
    <2>4. QED
      BY <1>1, <2>1, <2>2, <2>3 DEF Count, NonceTypeOK, input
  <1>2. CASE Divide
    <2>1. end - start \in Nat
      BY DEF NonceTypeOK, Nonces
    <2>2. noncePerCore' \in Nat
      BY <1>2, <2>1, QuotientType DEF Divide, NonceTypeOK
    <2>3. QED
      BY <1>2, <2>2 DEF Divide, NonceTypeOK, input
  <1>3. CASE Split
    <2>1. ii \in Chips /\ ii + 1 \in 0 .. numChips
      <3>1. ii < numChips - 1
        BY <1>3 DEF Split
      <3>2. numChips \in 0 .. MaxChips /\ ii \in 0 .. numChips
        BY DEF NonceTypeOK
      <3>3. QED
        BY <3>1, <3>2, NonceAssumption DEF Chips
    <2> DEFINE t == Uint32(startNonce + noncePerCore * numCores[ii])
    <2>2. t \in Nonces /\ Uint32(t + 1) \in Nonces
      <3>1. startNonce \in Nat /\ numCores[ii] \in Nat /\ noncePerCore \in Nat
        BY <2>1 DEF NonceTypeOK, Nonces
      <3>2. noncePerCore * numCores[ii] \in Nat
        BY <3>1, ProductOfSum
      <3>3. t \in Nonces
        BY <3>1, <3>2, UintType
      <3>4. t + 1 \in Nat
        BY <3>3 DEF Nonces
      <3>5. QED
        BY <3>3, <3>4, UintType
    <2>3. [first |-> startNonce, last |-> t] \in Ranges
      BY <2>2 DEF NonceTypeOK, Ranges
    <2>4. range' \in [Chips -> Ranges] /\ startNonce' \in Nonces
      <3>1. CASE Skipped(ii)
        BY <1>3, <3>1 DEF Split, NonceTypeOK
      <3>2. CASE ~Skipped(ii)
        <4>1. range' = [range EXCEPT ![ii] = [first |-> startNonce, last |-> t]]
              /\ startNonce' = Uint32(t + 1)
          BY <1>3, <3>2 DEF Split
        <4> HIDE DEF t
        <4>2. QED
          BY <2>2, <2>3, <4>1 DEF NonceTypeOK
      <3>3. QED
        BY <3>1, <3>2
    <2>5. QED
      BY <1>3, <2>1, <2>4 DEF Split, NonceTypeOK, input
  <1>4. CASE Rest
    <2>1. [first |-> startNonce, last |-> end] \in Ranges
      BY DEF NonceTypeOK, Ranges
    <2>2. range' \in [Chips -> Ranges]
      BY <1>4, <2>1 DEF Rest, NonceTypeOK
    <2>3. QED
      BY <1>4, <2>2 DEF Rest, NonceTypeOK, input
  <1>5. CASE UNCHANGED nonceVars
    BY <1>5 DEF nonceVars, input, NonceTypeOK
  <1>6. QED
    BY <1>1, <1>2, <1>3, <1>4, <1>5 DEF NonceNext

\* The counters stay in range and no addition leaves uint32_t.
THEOREM NonceTypeCorrect == NonceSpec => []NonceTypeOK
  BY TypeInit, TypeStep, PTL DEF NonceSpec

-----------------------------------------------------------------------------
LEMMA NonceIInvInit == NonceInit => NonceIInv
  <1> SUFFICES ASSUME NonceInit PROVE NonceIInv
    OBVIOUS
  <1>1. CountInv
    <2>1. before[0] = 0
      BY NonceAssumption DEF NonceInit
    <2>2. QED
      BY <2>1 DEF NonceInit, CountInv, Counted
  <1>2. QED
    BY <1>1, TypeInit DEF NonceInit, NonceIInv, SplitInv, Partition

LEMMA CountStep ==
  ASSUME NonceIInv, NonceTypeOK', Count
  PROVE  NonceIInv'
  <1>1. /\ pc = "COUNT" /\ pc' = "COUNT" /\ ii' = ii + 1 /\ ii < numChips
        /\ ii \in Nat /\ ii \in Chips /\ numChips \in 0 .. MaxChips
        /\ UNCHANGED <<input, startNonce>>
    BY NonceAssumption DEF NonceIInv, NonceTypeOK, Count, Chips, input
  <1>2. Cores(ii) \in Nat /\ before[ii] \in Nat
    BY <1>1, NonceAssumption DEF Cores, NonceIInv, NonceTypeOK
  <1>3. totalCores' = before[ii] + Cores(ii)
    BY <1>1, <1>2 DEF Count, Cores, NonceIInv, CountInv, NonceTypeOK
  <1>4. /\ before'[ii + 1] = before[ii] + Cores(ii)
        /\ \A k \in 0 .. ii : before'[k] = before[k] /\ before[k] \in Nat
    <2>1. before \in [0 .. MaxChips -> Nat] /\ ii + 1 \in 0 .. MaxChips
      BY <1>1, NonceAssumption DEF NonceIInv, NonceTypeOK
    <2>2. before' = [before EXCEPT ![ii + 1] = before[ii] + Cores(ii)]
      BY <1>3 DEF Count
    <2>3. \A k \in 0 .. ii : k \in 0 .. MaxChips /\ k # ii + 1
      BY <1>1, NonceAssumption
    <2>4. QED
      BY <2>1, <2>2, <2>3
  <1>5. \A k \in 0 .. ii : Cores(k)' = Cores(k)
    BY <1>1 DEF Cores, Skipped, input
  <1>6. Counted(ii)
    BY <1>1 DEF NonceIInv, CountInv
  <1>7. Counted(ii)'
    <2>1. before'[0] = 0
      BY <1>1, <1>4, <1>6 DEF Counted
    <2>2. ASSUME NEW k \in 0 .. ii PROVE before'[k + 1] = before'[k] + Cores(k)'
      <3>1. CASE k = ii
        BY <1>1, <1>4, <1>5, <3>1
      <3>2. CASE k # ii
        <4>1. k \in 0 .. ii - 1 /\ k + 1 \in 0 .. ii
          BY <1>1, <3>2
        <4>2. QED
          BY <1>4, <1>5, <1>6, <4>1 DEF Counted
      <3>3. QED
        BY <3>1, <3>2
    <2>3. ASSUME NEW k \in 0 .. ii + 1, NEW m \in 0 .. ii + 1, k <= m
          PROVE  before'[k] <= before'[m]
      <3>1. CASE m \in 0 .. ii
        <4>1. k \in 0 .. ii
          BY <1>1, <2>3, <3>1
        <4>2. before[k] <= before[m]
          BY <1>6, <2>3, <3>1, <4>1 DEF Counted
        <4>3. QED
          BY <1>4, <3>1, <4>1, <4>2
      <3>2. CASE m = ii + 1 /\ k \in 0 .. ii
        <4>1. before[k] <= before[ii] /\ before[k] \in Nat
          BY <1>1, <1>4, <1>6, <3>2 DEF Counted
        <4>2. before[k] <= before[ii] + Cores(ii)
          BY <1>2, <4>1
        <4>3. QED
          BY <1>4, <3>2, <4>2
      <3>3. CASE m = ii + 1 /\ k = ii + 1
        BY <1>2, <1>4, <3>3
      <3>4. QED
        BY <1>1, <2>3, <3>1, <3>2, <3>3
    <2>4. QED
      BY <1>1, <2>1, <2>2, <2>3 DEF Counted
  <1>8. CountInv'
    BY <1>1, <1>3, <1>4, <1>7 DEF NonceIInv, CountInv, input
  <1>9. QED
    BY <1>1, <1>8 DEF NonceIInv, SplitInv, Partition

LEMMA DivideStep ==
  ASSUME NonceIInv, NonceTypeOK', Divide
  PROVE  NonceIInv'
  <1>1. /\ pc = "COUNT" /\ pc' \in {"SPLIT", "CRASHED"} /\ ii = numChips /\ ii' = 0
        /\ UNCHANGED <<input, before, startNonce>>
        /\ numChips \in Nat
    BY DEF NonceIInv, NonceTypeOK, Divide
  <1>2. Counted(numChips)' /\ startNonce = start /\ before[0] = 0
    BY <1>1 DEF NonceIInv, CountInv, Counted, Cores, Skipped, input
  <1>3. GivenUpTo(0)'
    <2>1. Share(0)' = 0
      BY <1>1, <1>2, ProductOfZero DEF NonceTypeOK, Share
    <2>2. Working(0)' = 0
      BY DEF Working
    <2>3. startNonce' = start' + Share(0)' + Working(0)'
      BY <1>1, <1>2, <2>1, <2>2 DEF NonceTypeOK, Nonces, input
    <2>4. \A x \in Nonces : x \notin start' .. startNonce' - 1
      BY <1>1, <1>2 DEF NonceTypeOK, Nonces, input
    <2>5. 0 .. 0 - 1 = {}
      OBVIOUS
    <2>6. QED
      BY <2>3, <2>4, <2>5 DEF GivenUpTo
  <1>4. SplitInv'
    BY <1>1, <1>2, <1>3 DEF SplitInv, input
  <1>5. QED
    BY <1>1, <1>4 DEF NonceIInv, CountInv, Partition

\* What a pass of the second loop, or the assignment after it, adds: the range
\* of chip n begins where the nonces given so far end.
LEMMA OneMoreRange ==
  ASSUME NonceTypeOK, GivenUpTo(ii), ii \in 0 .. numChips - 1, NEW last \in Nonces,
         fault' = fault, numChips' = numChips, start' = start,
         range' = [range EXCEPT ![ii] = [first |-> startNonce, last |-> last]],
         startNonce <= last + 1, start <= startNonce, numChips > 1 => ~Skipped(ii)
  PROVE  /\ \A x \in Nonces : x \in start .. last <=> \E i \in 0 .. ii : GivenIn(range', i, x)
         /\ \A x \in Nonces : \A i, j \in 0 .. ii : GivenIn(range', i, x) /\ GivenIn(range', j, x) => i = j
  <1>1. ii \in Chips /\ \A i \in 0 .. ii - 1 : i \in Chips /\ i # ii
    BY NonceAssumption DEF NonceTypeOK, Chips
  <1>2. range'[ii].first = startNonce /\ range'[ii].last = last
    BY <1>1 DEF NonceTypeOK
  <1>3. \A i \in 0 .. ii - 1 : range'[i] = range[i]
    BY <1>1 DEF NonceTypeOK
  <1>4. \A x \in Nonces : GivenIn(range', ii, x) <=> startNonce <= x /\ x <= last
    BY <1>2 DEF GivenIn, Skipped
  <1>5. \A x \in Nonces : \A i \in 0 .. ii - 1 : GivenIn(range', i, x) <=> GivenIn(range, i, x)
    BY <1>3 DEF GivenIn
  <1>6. \A x \in Nonces :
          x \in start .. startNonce - 1 <=> \E i \in 0 .. ii - 1 : GivenIn(range, i, x)
    BY DEF GivenUpTo
  <1>7. /\ ii \in Nat /\ startNonce \in Nat /\ start \in Nat /\ last \in Nat
        /\ Nonces \subseteq Nat
    BY <1>1 DEF NonceTypeOK, Nonces, Chips
  <1>8. \A i \in 0 .. ii : i = ii \/ i \in 0 .. ii - 1
    BY <1>7
  <1>9. ii \in 0 .. ii /\ \A i \in 0 .. ii - 1 : i \in 0 .. ii
    BY <1>7
  <1>10. ASSUME NEW x \in Nonces
         PROVE  x \in start .. last <=> \E i \in 0 .. ii : GivenIn(range', i, x)
    <2>1. x \in start .. last <=> x \in start .. startNonce - 1 \/ (startNonce <= x /\ x <= last)
      BY <1>7
    <2>2. x \in start .. startNonce - 1 <=> \E i \in 0 .. ii - 1 : GivenIn(range', i, x)
      BY <1>5, <1>6
    <2>3. (\E i \in 0 .. ii : GivenIn(range', i, x)) <=> (\E i \in 0 .. ii - 1 : GivenIn(range', i, x)) \/ GivenIn(range', ii, x)
      BY <1>8, <1>9
    <2>4. QED
      BY <1>4, <2>1, <2>2, <2>3
  <1>11. ASSUME NEW x \in Nonces, NEW i \in 0 .. ii, NEW j \in 0 .. ii,
                GivenIn(range', i, x), GivenIn(range', j, x)
         PROVE  i = j
    <2>1. ASSUME NEW k \in 0 .. ii - 1, GivenIn(range', k, x) PROVE ~GivenIn(range', ii, x)
      <3>1. x \in start .. startNonce - 1
        BY <1>5, <1>6, <2>1
      <3>2. x \in Nat /\ ~(startNonce <= x)
        BY <1>7, <3>1
      <3>3. GivenIn(range', ii, x) => startNonce <= x
        BY <1>4
      <3>4. QED
        BY <3>2, <3>3
    <2>2. CASE i \in 0 .. ii - 1 /\ j \in 0 .. ii - 1
      <3>1. GivenIn(range, i, x) /\ GivenIn(range, j, x)
        BY <1>5, <1>11, <2>2
      <3>2. QED
        BY <2>2, <3>1 DEF GivenUpTo
    <2>3. QED
      BY <1>8, <1>11, <2>1, <2>2
  <1>12. QED
    BY <1>10, <1>11

\* The sums of the first loop bound the nonces given away.
LEMMA RoomLeft ==
  ASSUME NonceTypeOK, Counted(numChips), LastHasRoom, NEW n \in 0 .. numChips - 1
  PROVE  /\ Share(n) \in Nat /\ Working(n) \in Nat
         /\ start + Share(n) + Working(n) <= end
  <1>1. /\ noncePerCore \in Nat /\ before[n] \in Nat /\ before[numChips - 1] \in Nat
        /\ before[n] <= before[numChips - 1] /\ numChips \in Nat \ {0}
    BY NonceAssumption DEF NonceTypeOK, Counted
  <1>2. /\ Share(n) \in Nat /\ Share(numChips - 1) \in Nat
        /\ Share(n) <= Share(numChips - 1)
    BY <1>1, ProductOfSum, ProductGrows DEF Share
  <1>3. /\ Working(n) \in Nat /\ Working(numChips - 1) \in Nat
        /\ Working(n) <= Working(numChips - 1)
    BY <1>1 DEF Working, NonceTypeOK
  <1>4. Working(numChips - 1) <= (end - start) - Share(numChips - 1)
    BY DEF LastHasRoom, LeftForLast, Share
  <1>5. start \in Nat /\ end \in Nat
    BY DEF NonceTypeOK, Nonces
  <1>6. QED
    BY <1>2, <1>3, <1>4, <1>5

\* One more working chip moves the first free nonce past its share and one.
LEMMA NextFirst ==
  ASSUME NEW s \in Nat, NEW p \in Nat, NEW q \in Nat, NEW w \in Nat,
         NEW e \in Nonces, s + (p + q) + (w + 1) <= e
  PROVE  /\ (s + p + w + q) + 1 = s + (p + q) + (w + 1)
         /\ s + p + w + q \in Nonces /\ (s + p + w + q) + 1 \in Nonces
         /\ s <= s + p + w /\ s + p + w <= (s + p + w + q) + 1
  BY NonceAssumption DEF Nonces

LEMMA SplitStep ==
  ASSUME NonceIInv, NonceTypeOK', Split
  PROVE  NonceIInv'
  <1>1. /\ pc = "SPLIT" /\ pc' = "SPLIT" /\ ii < numChips - 1 /\ ii' = ii + 1
        /\ ii \in Nat /\ numChips \in 0 .. MaxChips /\ ii \in Chips
        /\ UNCHANGED <<input, noncePerCore, before>>
    BY NonceAssumption DEF NonceIInv, NonceTypeOK, Split, Chips
  <1>2. Counted(numChips) /\ Counted(numChips)' /\ (LastHasRoom' <=> LastHasRoom)
    BY <1>1 DEF NonceIInv, SplitInv, Counted, Cores, Skipped, LastHasRoom, LeftForLast, Working, input
  <1>3. start \in Nat /\ end \in Nonces /\ start' = start
    BY <1>1 DEF NonceIInv, NonceTypeOK, Nonces, input
  <1>4. Share(ii)' = Share(ii + 1) /\ Working(ii)' = Working(ii + 1)
    BY <1>1 DEF Share, Working, input
  <1>5. ASSUME NEW x, NEW i PROVE GivenIn(range, i, x)' <=> GivenIn(range', i, x)
    BY <1>1 DEF GivenIn, input
  <1>6. ASSUME LastHasRoom PROVE GivenUpTo(ii)'
    <2>1. GivenUpTo(ii)
      BY <1>1, <1>6 DEF NonceIInv, SplitInv
    <2>2. before[ii + 1] = before[ii] + Cores(ii)
      BY <1>1, <1>2 DEF Counted
    <2>3. before[ii] \in Nat /\ Cores(ii) \in Nat /\ noncePerCore \in Nat
      BY <1>1, NonceAssumption DEF NonceIInv, NonceTypeOK, Cores
    <2>4. /\ Share(ii + 1) = Share(ii) + noncePerCore * Cores(ii)
          /\ Share(ii) \in Nat /\ noncePerCore * Cores(ii) \in Nat
      BY <2>2, <2>3, ProductOfSum DEF Share
    <2>5. CASE Skipped(ii)
      <3>1. ii = 0 /\ fault /\ UNCHANGED <<startNonce, range>> /\ Cores(ii) = 0
        BY <1>1, <2>5 DEF Split, Skipped, Cores
      <3>2. Share(ii + 1) = Share(ii)
        BY <2>3, <2>4, <3>1, ProductOfZero
      <3>3. Working(ii) = 0 /\ Working(ii + 1) = 0
        BY <3>1 DEF Working
      <3>4. startNonce' = start' + Share(ii)' + Working(ii)'
        BY <1>3, <1>4, <2>1, <3>1, <3>2, <3>3 DEF GivenUpTo
      <3>5. \A x \in Nonces : ~GivenIn(range', 0, x)
        BY <1>1, <3>1 DEF GivenIn
      <3>6. \A x \in Nonces : x \notin start .. startNonce - 1
        <4>1. 0 .. ii - 1 = {}
          BY <3>1
        <4>2. QED
          BY <2>1, <4>1 DEF GivenUpTo
      <3>7. 0 .. ii' - 1 = {0}
        BY <1>1, <3>1
      <3>8. \A x \in Nonces : x \in start' .. startNonce' - 1 <=>
              \E i \in 0 .. ii' - 1 : GivenIn(range, i, x)'
        BY <1>3, <1>5, <3>1, <3>5, <3>6, <3>7
      <3>9. \A x \in Nonces : \A i, j \in 0 .. ii' - 1 :
              GivenIn(range, i, x)' /\ GivenIn(range, j, x)' => i = j
        BY <3>7
      <3>10. QED
        BY <3>4, <3>8, <3>9 DEF GivenUpTo
    <2>6. CASE ~Skipped(ii)
      <3> DEFINE q    == noncePerCore * numCores[ii]
                 last == startNonce + q
      <3>1. /\ range' = [range EXCEPT ![ii] = [first |-> startNonce, last |-> Uint32(last)]]
            /\ startNonce' = Uint32(Uint32(last) + 1)
        BY <2>6 DEF Split
      <3>2. Cores(ii) = numCores[ii]
        BY <2>6 DEF Cores
      <3>3. Working(ii) \in Nat /\ Working(ii + 1) = Working(ii) + 1
        BY <1>1, <2>6 DEF Skipped, Working, NonceIInv, NonceTypeOK
      <3>4. q \in Nat /\ Share(ii + 1) = Share(ii) + q
        BY <2>4, <3>2
      <3> HIDE DEF q
      <3>5. start + (Share(ii) + q) + (Working(ii) + 1) <= end
        <4>1. ii + 1 \in 0 .. numChips - 1
          BY <1>1
        <4>2. start + Share(ii + 1) + Working(ii + 1) <= end
          BY <1>2, <1>6, <4>1, RoomLeft DEF NonceIInv
        <4>3. QED
          BY <3>3, <3>4, <4>2
      <3>6. startNonce = start + Share(ii) + Working(ii)
        BY <2>1 DEF GivenUpTo
      <3>7. /\ last + 1 = start + (Share(ii) + q) + (Working(ii) + 1)
            /\ last \in Nonces /\ last + 1 \in Nonces
            /\ start <= startNonce /\ startNonce <= last + 1
        BY <1>3, <2>4, <3>3, <3>4, <3>5, <3>6, NextFirst
      <3> HIDE DEF last
      <3>8. /\ range' = [range EXCEPT ![ii] = [first |-> startNonce, last |-> last]]
            /\ startNonce' = last + 1
        BY <3>1, <3>7, NoWrap
      <3>9. ii \in 0 .. numChips - 1
        BY <1>1
      <3>10. /\ \A x \in Nonces : x \in start .. last <=> \E i \in 0 .. ii : GivenIn(range', i, x)
             /\ \A x \in Nonces : \A i, j \in 0 .. ii :
                  GivenIn(range', i, x) /\ GivenIn(range', j, x) => i = j
        BY <1>1, <2>1, <2>6, <3>7, <3>8, <3>9, OneMoreRange DEF NonceIInv, input
      <3>11. startNonce' - 1 = last /\ ii' - 1 = ii
        BY <1>1, <3>7, <3>8 DEF Nonces
      <3>12. startNonce' = start' + Share(ii)' + Working(ii)'
        BY <1>3, <1>4, <3>3, <3>4, <3>7, <3>8
      <3>13. \A x \in Nonces : x \in start' .. startNonce' - 1 <=>
              \E i \in 0 .. ii' - 1 : GivenIn(range, i, x)'
        BY <1>3, <1>5, <3>10, <3>11
      <3>14. \A x \in Nonces : \A i, j \in 0 .. ii' - 1 :
              GivenIn(range, i, x)' /\ GivenIn(range, j, x)' => i = j
        BY <1>5, <3>10, <3>11
      <3>15. QED
        BY <3>12, <3>13, <3>14 DEF GivenUpTo
    <2>7. QED
      BY <2>5, <2>6
  <1>7. SplitInv'
    BY <1>1, <1>2, <1>6 DEF SplitInv, input
  <1>8. QED
    BY <1>1, <1>7 DEF NonceIInv, CountInv, Partition

LEMMA RestStep ==
  ASSUME NonceIInv, NonceTypeOK', Rest
  PROVE  NonceIInv'
  <1>1. /\ pc = "SPLIT" /\ pc' = "DONE" /\ ii >= numChips - 1 /\ ii' = ii
        /\ UNCHANGED <<input, noncePerCore, before>>
        /\ range' = [range EXCEPT ![ii] = [first |-> startNonce, last |-> end]]
    BY DEF Rest
  <1>2. ASSUME numChips > 0, LastHasRoom'
        PROVE  /\ \A n \in Nonces :
                    n \in start .. end <=> \E i \in 0 .. numChips - 1 : GivenIn(range', i, n)
               /\ \A n \in Nonces : \A i, j \in 0 .. numChips - 1 :
                    GivenIn(range', i, n) /\ GivenIn(range', j, n) => i = j
    <2>1. LastHasRoom /\ ii = numChips - 1 /\ ii \in 0 .. numChips - 1
      BY <1>1, <1>2 DEF LastHasRoom, LeftForLast, Working, NonceIInv, SplitInv, NonceTypeOK, input
    <2>2. GivenUpTo(ii) /\ Counted(numChips)
      BY <1>1, <1>2, <2>1 DEF NonceIInv, SplitInv
    <2>3. /\ Share(ii) \in Nat /\ Working(ii) \in Nat
          /\ start + Share(ii) + Working(ii) <= end
      BY <2>1, <2>2, RoomLeft DEF NonceIInv
    <2>4. startNonce = start + Share(ii) + Working(ii) /\ start \in Nat /\ end \in Nonces /\ end \in Nat
      BY <2>2 DEF GivenUpTo, NonceIInv, NonceTypeOK, Nonces
    <2>5. start <= startNonce /\ startNonce <= end + 1
      BY <2>3, <2>4
    <2>6. numChips > 1 => ~Skipped(ii)
      BY <2>1 DEF Skipped
    <2>7. QED
      BY <1>1, <2>1, <2>2, <2>4, <2>5, <2>6, OneMoreRange DEF NonceIInv, input
  <1>3. Partition'
    BY <1>1, <1>2 DEF Partition, Given, GivenIn, input
  <1>4. QED
    BY <1>1, <1>3 DEF NonceIInv, CountInv, SplitInv

LEMMA NonceIInvStep == NonceIInv /\ [NonceNext]_nonceVars => NonceIInv'
  <1> SUFFICES ASSUME NonceIInv, [NonceNext]_nonceVars PROVE NonceIInv'
    OBVIOUS
  <1>1. NonceTypeOK'
    BY TypeStep DEF NonceIInv
  <1>2. CASE UNCHANGED nonceVars
    BY <1>1, <1>2 DEF nonceVars, input, NonceIInv, CountInv, SplitInv, Partition, Counted, Cores,
      Skipped, GivenUpTo, Given, GivenIn, Share, LastHasRoom, LeftForLast, Working
  <1>3. QED
    BY <1>1, <1>2, CountStep, DivideStep, SplitStep, RestStep DEF NonceNext

\* For every width of a nonce, number of chips and cores per chip: when the last
\* chip has room, each nonce of the work is hashed by exactly one chip.
THEOREM PartitionCorrect == NonceSpec => []Partition
  <1>1. NonceIInv => Partition
    BY DEF NonceIInv
  <1>2. QED
    BY NonceIInvInit, NonceIInvStep, <1>1, PTL DEF NonceSpec

=============================================================================
