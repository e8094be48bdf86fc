----------------------------- MODULE MiningService -----------------------------
(***************************************************************************)
(* The life of the mining service of ScenarioTest.c: the menu of            *)
(* ScenarioTestLoop starts and stops it, MonitorLoop watches the            *)
(* temperature and WorkLoop mines.  The threads share a SERVICE_INFO on the *)
(* heap, which StopService frees, and the file mining_log, which the menu   *)
(* closes when it is left.  StopService joins the worker only when it finds *)
(* bExitWorkLoop clear, but the worker and the monitor set that flag too.   *)
(*                                                                          *)
(* Mining itself (jobs, results) is that of InfiniteWorkLoop; here a pass   *)
(* of the loop is what it reads and writes of the shared objects.           *)
(* hServiceLock is only taken by the menu and orders nothing.               *)
(***************************************************************************)
EXTENDS Naturals, FiniteSets

CONSTANTS
  MaxServices,  \* bound on the services started
  Unreliable,   \* calls that may fail
  MaxFaults     \* bound on the calls that fail

Services == 1 .. MaxServices
Calls    == {"create_monitor", "create_worker", "InitializeMiningkLoop",
             "submit_nonce"}

ASSUME MiningServiceAssumption ==
  MaxServices \in Nat /\ MaxFaults \in Nat /\ Unreliable \subseteq Calls

VARIABLES
  menu,              \* where the menu thread is
  hService,          \* its local variable, 0 for NULL
  mining_log,        \* "NULL", "OPEN" or "CLOSED": a pointer to a closed file
  started,           \* SERVICE_INFOs allocated so far
  freed,             \* those that were freed
  bExitWorkLoop, bExitMonitorLoop,
  worker, monitor,   \* where the threads of each service are
  handle,            \* hService->hBtc08: "NULL", "LIVE" or "DESTROYED"
  faults,            \* calls that failed so far
  selfExit,          \* history: services whose own threads set bExitWorkLoop
  abandoned,         \* history: services left running by "q"
  misuse             \* history: freed services and closed logs that were used

shared  == <<started, freed, bExitWorkLoop, bExitMonitorLoop>>
threads == <<worker, monitor, handle>>
history == <<selfExit, abandoned, misuse>>
vars    == <<menu, hService, mining_log, shared, threads, faults, history>>

Init ==
  /\ menu = "MENU" /\ hService = 0 /\ mining_log = "NULL"
  /\ started = 0 /\ freed = {}
  /\ bExitWorkLoop = {} /\ bExitMonitorLoop = {}
  /\ worker = [s \in Services |-> "NONE"]
  /\ monitor = [s \in Services |-> "NONE"]
  /\ handle = [s \in Services |-> "NULL"]
  /\ faults = 0
  /\ selfExit = {} /\ abandoned = {} /\ misuse = {}

Outcome(call) == IF call \in Unreliable /\ faults < MaxFaults THEN BOOLEAN ELSE {TRUE}

CountFault(failed) == faults' = IF failed THEN faults + 1 ELSE faults

\* What a thread of service s uses: its SERVICE_INFO, and the log when it writes.
Uses(s, log) ==
  misuse' = misuse \cup (IF s \in freed THEN {"service"} ELSE {})
                   \cup (IF log /\ mining_log # "OPEN" THEN {"log"} ELSE {})

\* A freed SERVICE_INFO may read as anything.
Reads(s, flag) == IF s \in freed THEN BOOLEAN ELSE {s \in flag}

-----------------------------------------------------------------------------
(* The menu.                                                                *)

\* "1": the log is opened anew, also when a service is running (fopen is assumed to
\* work); StartService allocates and creates the monitor.
StartMonitor ==
  /\ menu = "MENU"
  /\ mining_log' = "OPEN"
  /\ IF hService # 0
       THEN UNCHANGED <<menu, hService, started, freed, monitor, faults>>
       ELSE /\ started < MaxServices
            /\ started' = started + 1
            /\ hService' = started'
            /\ \E ok \in Outcome("create_monitor") :
                 /\ monitor' = [monitor EXCEPT ![started'] = IF ok THEN "CHECK" ELSE "NONE"]
                 /\ freed' = IF ok THEN freed ELSE freed \cup {started'}
                 /\ menu' = IF ok THEN "START" ELSE "MENU"
                 /\ CountFault(~ok)
  /\ UNCHANGED <<bExitWorkLoop, bExitMonitorLoop, worker, handle, history>>

\* The worker is created; on failure the service is freed, with the monitor
\* told to exit but not joined, and the pointer to it is returned all the same.
StartWorker ==
  /\ menu = "START"
  /\ \E ok \in Outcome("create_worker") :
       /\ IF ok
            THEN /\ worker' = [worker EXCEPT ![hService] = "INIT"]
                 /\ UNCHANGED <<freed, bExitWorkLoop, bExitMonitorLoop>>
            ELSE /\ bExitWorkLoop' = bExitWorkLoop \cup {hService}
                 /\ bExitMonitorLoop' = bExitMonitorLoop \cup {hService}
                 /\ freed' = freed \cup {hService}
                 /\ UNCHANGED worker
       /\ CountFault(~ok)
  /\ menu' = "MENU"
  /\ UNCHANGED <<hService, mining_log, started, monitor, handle, history>>

\* Leaving the menu closes the log, whether or not it is open.
CloseLog ==
  /\ mining_log' = IF mining_log = "NULL" THEN "NULL" ELSE "CLOSED"
  /\ misuse' = IF mining_log = "CLOSED" THEN misuse \cup {"log"} ELSE misuse
  /\ menu' = "MAIN"

\* Plausible slip: "q" frees the service without asking whether there is one.
\* Used to test TypeOK.
QuitFreesService ==
  /\ menu = "MENU"
  /\ CloseLog
  /\ freed' = freed \cup {hService}
  /\ UNCHANGED <<hService, started, bExitWorkLoop, bExitMonitorLoop, threads, faults, selfExit,
                 abandoned>>

\* "q", and "2" without a service.
Quit ==
  /\ menu = "MENU"
  /\ CloseLog
  /\ abandoned' = IF hService = 0 THEN abandoned ELSE abandoned \cup {hService}
  /\ UNCHANGED <<hService, shared, threads, faults, selfExit>>

\* ScenarioTestLoop is called again.
Enter ==
  /\ menu = "MAIN"
  /\ menu' = "MENU" /\ hService' = 0
  /\ UNCHANGED <<mining_log, shared, threads, faults, history>>

\* Plausible slip: the worker is not waited for.  Used to test OneMiner.
StopWorkerNoJoin ==
  /\ menu = "MENU" /\ hService # 0 /\ hService \notin freed
  /\ menu' = "STOP_MONITOR"
  /\ bExitWorkLoop' = bExitWorkLoop \cup {hService}
  /\ UNCHANGED <<hService, mining_log, started, freed, bExitMonitorLoop, threads, faults, history>>

\* Plausible slip: the log is closed before the threads are waited for.  Used to
\* test LogOpen.
StopWorkerClosesLog ==
  /\ menu = "MENU" /\ hService # 0 /\ hService \notin freed
  /\ menu' = IF hService \in bExitWorkLoop THEN "STOP_MONITOR" ELSE "JOIN_WORKER"
  /\ bExitWorkLoop' = bExitWorkLoop \cup {hService}
  /\ mining_log' = "CLOSED"
  /\ UNCHANGED <<hService, started, freed, bExitMonitorLoop, threads, faults, history>>

\* "2": StopService.  With a dangling pointer the free of a freed block aborts.
StopWorker ==
  /\ menu = "MENU" /\ hService # 0
  /\ IF hService \in freed
       THEN /\ menu' = "CRASHED" /\ misuse' = misuse \cup {"service"}
            /\ UNCHANGED bExitWorkLoop
       ELSE /\ menu' = IF hService \in bExitWorkLoop THEN "STOP_MONITOR" ELSE "JOIN_WORKER"
            /\ bExitWorkLoop' = bExitWorkLoop \cup {hService}
            /\ UNCHANGED misuse
  /\ UNCHANGED <<hService, mining_log, started, freed, bExitMonitorLoop, threads, faults,
                 selfExit, abandoned>>

JoinWorker ==
  /\ menu = "JOIN_WORKER" /\ worker[hService] = "DEAD"
  /\ menu' = "STOP_MONITOR"
  /\ UNCHANGED <<hService, mining_log, shared, threads, faults, history>>

\* Plausible slips: the monitor is not waited for, or not told to exit.  Used to
\* test FreeAfterJoin and StopReturns.
StopMonitorNoJoin ==
  /\ menu = "STOP_MONITOR"
  /\ menu' = "FREE"
  /\ bExitMonitorLoop' = bExitMonitorLoop \cup {hService}
  /\ UNCHANGED <<hService, mining_log, started, freed, bExitWorkLoop, threads, faults, history>>

StopMonitorNoFlag ==
  /\ menu = "STOP_MONITOR"
  /\ menu' = IF hService \in bExitMonitorLoop THEN "FREE" ELSE "JOIN_MONITOR"
  /\ UNCHANGED <<hService, mining_log, shared, threads, faults, history>>

StopMonitor ==
  /\ menu = "STOP_MONITOR"
  /\ menu' = IF hService \in bExitMonitorLoop THEN "FREE" ELSE "JOIN_MONITOR"
  /\ bExitMonitorLoop' = bExitMonitorLoop \cup {hService}
  /\ UNCHANGED <<hService, mining_log, started, freed, bExitWorkLoop, threads, faults, history>>

JoinMonitor ==
  /\ menu = "JOIN_MONITOR" /\ monitor[hService] = "DEAD"
  /\ menu' = "FREE"
  /\ UNCHANGED <<hService, mining_log, shared, threads, faults, history>>

\* The service is freed and the menu left.
FreeService ==
  /\ menu = "FREE"
  /\ freed' = freed \cup {hService}
  /\ hService' = 0
  /\ CloseLog
  /\ UNCHANGED <<started, bExitWorkLoop, bExitMonitorLoop, threads, faults, selfExit, abandoned>>

-----------------------------------------------------------------------------
(* MonitorLoop.                                                             *)

\* Plausible slip: the alert is only reported.  Used to test HotStops.
MonitorAlertIgnored(s) ==
  /\ monitor[s] = "CHECK"
  /\ Uses(s, FALSE)
  /\ \E exit \in Reads(s, bExitMonitorLoop), hot \in BOOLEAN :
       /\ monitor' = [monitor EXCEPT ![s] = IF exit THEN "DEAD" ELSE IF hot THEN "REPORT" ELSE "SLEEP"]
       /\ selfExit' = IF ~exit /\ hot THEN selfExit \cup {s} ELSE selfExit
  /\ UNCHANGED <<menu, hService, mining_log, shared, worker, handle, faults, abandoned>>

\* One pass: the exit flag, the temperature, and DeinitializeWorkLoop when it
\* is above the alert value.
MonitorCheck(s) ==
  /\ monitor[s] = "CHECK"
  /\ Uses(s, FALSE)
  /\ \E exit \in Reads(s, bExitMonitorLoop), hot \in BOOLEAN :
       /\ monitor' = [monitor EXCEPT ![s] = IF exit THEN "DEAD" ELSE IF hot THEN "REPORT" ELSE "SLEEP"]
       /\ IF ~exit /\ hot
            THEN bExitWorkLoop' = bExitWorkLoop \cup {s} /\ selfExit' = selfExit \cup {s}
            ELSE UNCHANGED <<bExitWorkLoop, selfExit>>
  /\ UNCHANGED <<menu, hService, mining_log, started, freed, bExitMonitorLoop, worker, handle,
                 faults, abandoned>>

\* usleep(1000 * 1000)
MonitorSleep(s) ==
  /\ monitor[s] = "SLEEP"
  /\ monitor' = [monitor EXCEPT ![s] = "CHECK"]
  /\ UNCHANGED <<menu, hService, mining_log, shared, worker, handle, faults, history>>

\* The reason is written to the log and the monitor ends.
MonitorReport(s) ==
  /\ monitor[s] = "REPORT"
  /\ Uses(s, TRUE)
  /\ monitor' = [monitor EXCEPT ![s] = "DEAD"]
  /\ UNCHANGED <<menu, hService, mining_log, shared, worker, handle, faults, selfExit, abandoned>>

-----------------------------------------------------------------------------
(* WorkLoop.                                                                *)

WorkerGoto(s, label) == worker' = [worker EXCEPT ![s] = label]

\* InitializeMiningkLoop and the checks of the chips after it.
WorkerInit(s) ==
  /\ worker[s] = "INIT"
  /\ Uses(s, FALSE)
  /\ \E ok \in Outcome("InitializeMiningkLoop") :
       /\ WorkerGoto(s, IF ok THEN "LOOP" ELSE "FAILURE")
       /\ CountFault(~ok)
       /\ \E created \in {ok, TRUE} :
            handle' = [handle EXCEPT ![s] = IF created THEN "LIVE" ELSE "NULL"]
  /\ UNCHANGED <<menu, hService, mining_log, shared, monitor, selfExit, abandoned>>

\* The loop condition.
WorkerLoop(s) ==
  /\ worker[s] = "LOOP"
  /\ Uses(s, FALSE)
  /\ \E exit \in Reads(s, bExitWorkLoop) : WorkerGoto(s, IF exit THEN "EXIT" ELSE "BODY")
  /\ UNCHANGED <<menu, hService, mining_log, shared, monitor, handle, faults, selfExit, abandoned>>

\* A pass of the loop.  An invalid nonce sets the exit flag, an OON is reported
\* in the log with the temperature and frequency of the service.
WorkerBody(s) ==
  /\ worker[s] = "BODY"
  /\ \E valid \in Outcome("submit_nonce"), oon \in BOOLEAN :
       /\ Uses(s, oon)
       /\ IF valid
            THEN UNCHANGED <<bExitWorkLoop, selfExit>>
            ELSE bExitWorkLoop' = bExitWorkLoop \cup {s} /\ selfExit' = selfExit \cup {s}
       /\ CountFault(~valid)
  /\ WorkerGoto(s, "LOOP")
  /\ UNCHANGED <<menu, hService, mining_log, started, freed, bExitMonitorLoop, monitor, handle,
                 abandoned>>

\* The chips are held in reset.  The handle is not destroyed.
WorkerExit(s) ==
  /\ worker[s] = "EXIT"
  /\ Uses(s, FALSE)
  /\ WorkerGoto(s, "DEAD")
  /\ UNCHANGED <<menu, hService, mining_log, shared, monitor, handle, faults, selfExit, abandoned>>

\* The label failure: the exit flag first, then the log and the handle.
WorkerFailure(s) ==
  /\ worker[s] = "FAILURE"
  /\ Uses(s, FALSE)
  /\ bExitWorkLoop' = bExitWorkLoop \cup {s}
  /\ selfExit' = selfExit \cup {s}
  /\ WorkerGoto(s, "CLEANUP")
  /\ UNCHANGED <<menu, hService, mining_log, started, freed, bExitMonitorLoop, monitor, handle,
                 faults, abandoned>>

WorkerCleanup(s) ==
  /\ worker[s] = "CLEANUP"
  /\ Uses(s, TRUE)
  /\ handle' = [handle EXCEPT ![s] = IF handle[s] = "NULL" THEN "NULL" ELSE "DESTROYED"]
  /\ WorkerGoto(s, "DEAD")
  /\ UNCHANGED <<menu, hService, mining_log, shared, monitor, faults, selfExit, abandoned>>

-----------------------------------------------------------------------------
Stopping   == JoinWorker \/ StopMonitor \/ JoinMonitor \/ FreeService
Monitor(s) == MonitorCheck(s) \/ MonitorSleep(s) \/ MonitorReport(s)
Worker(s)  == WorkerInit(s) \/ WorkerLoop(s) \/ WorkerBody(s) \/ WorkerExit(s)
              \/ WorkerFailure(s) \/ WorkerCleanup(s)

Next == StartMonitor \/ StartWorker \/ Quit \/ Enter \/ StopWorker \/ Stopping
        \/ \E s \in Services : Monitor(s) \/ Worker(s)

\* Threads run; the user types what he likes.
Fairness == WF_vars(StartWorker) /\ WF_vars(Stopping)
            /\ \A s \in Services : WF_vars(Monitor(s)) /\ WF_vars(Worker(s))

Spec     == Init /\ [][Next]_vars
FairSpec == Spec /\ Fairness

-----------------------------------------------------------------------------
TypeOK ==
  /\ menu \in {"MENU", "START", "JOIN_WORKER", "STOP_MONITOR", "JOIN_MONITOR", "FREE",
               "MAIN", "CRASHED"}
  /\ hService \in 0 .. MaxServices
  /\ mining_log \in {"NULL", "OPEN", "CLOSED"}
  /\ started \in 0 .. MaxServices
  /\ freed \subseteq 1 .. started
  /\ bExitWorkLoop \subseteq Services /\ bExitMonitorLoop \subseteq Services
  /\ worker \in [Services -> {"NONE", "INIT", "LOOP", "BODY", "EXIT", "FAILURE", "CLEANUP", "DEAD"}]
  /\ monitor \in [Services -> {"NONE", "CHECK", "SLEEP", "REPORT", "DEAD"}]
  /\ handle \in [Services -> {"NULL", "LIVE", "DESTROYED"}]
  /\ faults \in 0 .. MaxFaults
  /\ selfExit \subseteq Services /\ abandoned \subseteq Services
  /\ misuse \subseteq {"service", "log"}

\* StopService frees a service only after its monitor has ended, and after its
\* worker has ended too unless one of the two threads had set bExitWorkLoop
\* before StopService came, the one case in which the worker is not joined.
FreeAfterJoin ==
  \A s \in freed : worker[s] # "NONE" =>
    /\ monitor[s] = "DEAD"
    /\ worker[s] = "DEAD" \/ s \in selfExit

\* The user stopped every service he started, and none ended by itself.
Orderly == selfExit = {} /\ abandoned = {} /\ faults = 0

\* Only one worker at a time drives the chips and no thread uses a freed service,
\* as long as services are stopped before they are left and none ends by itself.
Mining(s) == worker[s] \in {"INIT", "LOOP", "BODY"}
OneMiner == Orderly => /\ Cardinality({ s \in Services : Mining(s) }) <= 1
                       /\ "service" \notin misuse

\* No thread writes to a log that was closed, under the same condition; the menu
\* itself closes it twice when it is entered again and left without "1".
LogOpen ==
  Orderly => \A s \in Services :
    Mining(s) \/ monitor[s] \in {"CHECK", "SLEEP", "REPORT"} => mining_log = "OPEN"

\* A service whose monitor or worker raised bExitWorkLoop, too hot or a wrong
\* nonce, stops mining for good, unless it is freed before the worker saw the
\* flag: then the worker reads freed memory.
HotStops ==
  \A s \in Services : s \in selfExit ~> worker[s] \in {"NONE", "DEAD"} \/ s \in freed

\* stop always comes back: both threads see their flag.
StopReturns ==
  menu \in {"JOIN_WORKER", "STOP_MONITOR", "JOIN_MONITOR", "FREE"} ~> menu = "MAIN"
=============================================================================
