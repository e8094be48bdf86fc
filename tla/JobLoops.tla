------------------------------- MODULE JobLoops -------------------------------
(***************************************************************************)
(* The loops that follow the first jobs of a test: TestWork, TestWorkLoop   *)
(* and TestWorkLoop_RandomVector of SimpleWork.c, RunJob in both its modes,  *)
(* Run1Job and TestAsic of SingleCommand.c.  Each polls the GN and the OON   *)
(* pin, reads the flags with READ_JOB_ID, and answers.  They differ in whom  *)
(* they ask, in what they send for an OON, and in how they know the end.     *)
(*                                                                          *)
(* Each chip has a job FIFO, an OON flag with the id of the job it ended     *)
(* last, and one unread golden nonce.  Left out: the data of the jobs, the   *)
(* hash rate, the commands before the first RUN_JOB (module Bringup).        *)
(***************************************************************************)
EXTENDS Integers, Sequences

CONSTANTS
  NumChips,    \* handle->numChips
  FifoDepth,   \* MAX_JOB_FIFO_NUM, numWorks of RunJob as well
  IdRange,     \* a job id has eight bits: 256
  Works,       \* values of numWorks typed for TestWorkLoop
  Unreliable,  \* commands whose transfer may fail
  MaxFaults    \* bound on failed transfers, in one run all of one command

Chips    == 1 .. NumChips
Ids      == 0 .. IdRange - 1
Commands == {"READ_JOB_ID", "READ_HASH", "READ_RESULT", "READ_ID", "CLEAR_OON", "RUN_JOB"}

ASSUME JobLoopsAssumption ==
  /\ NumChips \in Nat \ {0} /\ FifoDepth \in Nat \ {0} /\ MaxFaults \in Nat
  /\ IdRange \in Nat /\ FifoDepth + 1 < IdRange
  /\ Works \subseteq Nat /\ Unreliable \subseteq Commands

VARIABLES
  test,        \* its name, its number of works, the chips that find wrong nonces
  pc,          \* where the host is in the loop
  series,      \* commands it has still to send before it goes on
  chip,        \* counter of its loops over the chips
  res,         \* what READ_JOB_ID left in the local array
  jobId, jobcnt, oon_job_id, oon_cnt, gn_cnt, hashdone_chip, ishashdone,  \* its locals
  jobs,        \* FIFO of each chip, the head is running
  oon, oonId,  \* OON flag of each chip, and the job it ended last
  gn,          \* its unread nonce: "none", "right" or "wrong"
  found,       \* it has reported the golden nonce of the running job
  faults, lost,    \* number of failed transfers, and the command it was
  mismatch,    \* history: a nonce was not the golden one
  dropped,     \* history: a job was sent to a full FIFO
  worked, nonces   \* history: jobs and right nonces of each chip, in a test that ends

locals  == <<jobId, jobcnt, oon_job_id, oon_cnt, gn_cnt, hashdone_chip, ishashdone>>
chain   == <<jobs, oon, oonId, gn, found, worked, nonces>>
history == <<faults, lost, mismatch, dropped>>
vars    == <<test, pc, series, chip, res, locals, chain, history>>

Is(names)  == test.name \in names
OneWork    == {"TestWork", "Run1Job", "TestAsic"}
Endless    == Is({"RunJobInfinite", "TestWorkLoop_RandomVector"})
SimpleWork == Is({"TestWork", "TestWorkLoop", "TestWorkLoop_RandomVector"})

Tests ==
  LET T(names, works, bad) == [name : names, works : works, bad : bad]
      Bad == {{}, {NumChips}}
  IN  T(OneWork, {1}, Bad) \cup T({"TestWorkLoop"}, Works, Bad) \cup T({"RunJob"}, {FifoDepth}, Bad)
      \cup T({"RunJobInfinite", "TestWorkLoop_RandomVector"}, {FifoDepth}, {{}})

Times(n, cmd) == [k \in 1 .. n |-> cmd]

\* The first jobs.  TestWorkLoop queues one although it has more to do; the other branch
\* of CHECK_LAST_OON, a slip here, fills the FIFO.
FirstJobsFull == Times(IF Is(OneWork) THEN 1 ELSE FifoDepth, "RUN_JOB")

FirstJobs == Times(IF Is(OneWork \cup {"TestWorkLoop"}) THEN 1 ELSE FifoDepth, "RUN_JOB")

Init ==
  /\ test \in Tests
  /\ pc = "SEND" /\ series = FirstJobs /\ chip = 1
  /\ res = [gn |-> FALSE, oon |-> FALSE, id |-> 0, chip |-> 0]
  /\ jobId = 1 /\ jobcnt = 0 /\ oon_job_id = 0 /\ oon_cnt = 0 /\ gn_cnt = 0
  /\ hashdone_chip = {} /\ ishashdone = FALSE
  /\ jobs = [c \in Chips |-> <<>>]
  /\ oon = [c \in Chips |-> FALSE] /\ oonId = [c \in Chips |-> 0]
  /\ gn = [c \in Chips |-> "none"] /\ found = [c \in Chips |-> FALSE]
  /\ faults = 0 /\ lost = {} /\ mismatch = FALSE /\ dropped = FALSE
  /\ worked = [c \in Chips |-> 0] /\ nonces = [c \in Chips |-> 0]

-----------------------------------------------------------------------------
(* The chips.                                                               *)

\* A job takes seconds, a poll milliseconds: a loop that counts OONs sees one before the
\* chip ends its next job, unless it leaves the OON of a full FIFO.  Those that ask the
\* last chip alone rely on the order "OON occures on chip#1 > chip#2 > chip#3".
Exhaust(c) ==
  /\ jobs[c] # <<>> /\ pc # "END"
  /\ Endless \/ ~oon[c] \/ Len(jobs[c]) = FifoDepth
  /\ (Is({"TestWork", "TestWorkLoop"}) /\ c > 1) => Len(jobs[c - 1]) < Len(jobs[c])
  /\ jobs' = [jobs EXCEPT ![c] = Tail(@)]
  /\ oon' = [oon EXCEPT ![c] = TRUE] /\ oonId' = [oonId EXCEPT ![c] = Head(jobs[c])]
  /\ found' = [found EXCEPT ![c] = FALSE]
  /\ worked' = IF Endless THEN worked ELSE [worked EXCEPT ![c] = @ + 1]
  /\ UNCHANGED <<test, pc, series, chip, res, locals, gn, nonces, history>>

FindNonce(c) ==
  /\ jobs[c] # <<>> /\ pc # "END" /\ ~found[c] /\ gn[c] = "none"
  /\ gn' = [gn EXCEPT ![c] = IF c \in test.bad THEN "wrong" ELSE "right"]
  /\ found' = [found EXCEPT ![c] = TRUE]
  /\ nonces' = IF Endless \/ c \in test.bad THEN nonces ELSE [nonces EXCEPT ![c] = @ + 1]
  /\ UNCHANGED <<test, pc, series, chip, res, locals, jobs, oon, oonId, worked, history>>

-----------------------------------------------------------------------------
(* The driver.                                                              *)

\* What a transfer of cmd may come to: TRUE when it gets through.
Outcome(cmd) ==
  IF cmd \in Unreliable /\ faults < MaxFaults /\ lost \subseteq {cmd} THEN BOOLEAN ELSE {TRUE}

\* failed is the set of commands of a step that did not get through.
Count(failed) ==
  /\ faults' = IF failed = {} THEN faults ELSE faults + 1
  /\ lost' = lost \cup failed

\* A chip answers a READ_JOB_ID sent to it, a broadcast one if it has set the pin.  A
\* failed transfer leaves the array as it is.
ReadJobId(asked) ==
  \E ok \in Outcome("READ_JOB_ID") :
    /\ Count(IF ok THEN {} ELSE {"READ_JOB_ID"})
    /\ IF ok THEN \E c \in asked : res' = [gn |-> gn[c] # "none", oon |-> oon[c],
                                           id |-> oonId[c], chip |-> c]
             ELSE res' = res

-----------------------------------------------------------------------------
(* The parts of the loops, with plausible slips that test the properties    *)
(* below.                                                                   *)

NextIdUnwrapped(id) == id + 1

\* jobId++ on eight bits.  An endless loop has no use for the ids, they are all the same.
NextId(id) == IF Endless THEN id ELSE (id + 1) % IdRange

EndOfPass(done) == IF done THEN "END" ELSE "GN"

ScansGN == Is({"TestWorkLoop", "Run1Job"})

CheckGN ==
  /\ pc = "GN"
  /\ pc' = IF \E c \in Chips : gn[c] # "none" THEN "GN_READ" ELSE "OON"
  /\ chip' = 1
  /\ UNCHANGED <<test, series, res, locals, chain, history>>

NextOfScan == IF ScansGN /\ chip < NumChips
                THEN pc' = "GN_READ" /\ chip' = chip + 1
                ELSE pc' = "OON" /\ chip' = 1

ReadGN ==
  /\ pc = "GN_READ"
  /\ ReadJobId(IF ScansGN THEN {chip} ELSE {c \in Chips : gn[c] # "none"})
  /\ IF res'.gn THEN pc' = "RESULT" /\ UNCHANGED chip ELSE NextOfScan
  /\ UNCHANGED <<test, series, locals, chain, mismatch, dropped>>

MatchesAnything(c, okHash, okResult) == okHash /\ okResult

\* handleGN compares both answers with the golden ones; one that did not come is zero.
Matches(c, okHash, okResult) == okHash /\ okResult /\ gn[c] = "right"

\* On a mismatch most loops end at once, those that scan the chips after the OON part,
\* and TestWorkLoop_RandomVector goes on.
HandleGN ==
  /\ pc = "RESULT"
  /\ \E okHash \in Outcome("READ_HASH"), okResult \in Outcome("READ_RESULT") :
       LET ok == Matches(res.chip, okHash, okResult) IN
       /\ gn' = IF okResult THEN [gn EXCEPT ![res.chip] = "none"] ELSE gn
       /\ Count({cmd \in {"READ_HASH"} : ~okHash} \cup {cmd \in {"READ_RESULT"} : ~okResult})
       /\ mismatch' = (mismatch \/ ~(ok \/ Is({"TestWorkLoop_RandomVector"})))
       /\ IF ok \/ Is({"TestWorkLoop_RandomVector"})
            THEN NextOfScan /\ UNCHANGED ishashdone
            ELSE /\ ishashdone' = ScansGN
                 /\ pc' = IF ScansGN THEN "OON" ELSE "END"
                 /\ chip' = 1
  /\ gn_cnt' = IF Is({"RunJob"}) THEN gn_cnt + 1 ELSE gn_cnt
  /\ UNCHANGED <<test, series, res, jobId, jobcnt, oon_job_id, oon_cnt, hashdone_chip,
                 jobs, oon, oonId, found, worked, nonces, dropped>>

AnswerSwapped ==
  IF Is({"RunJobInfinite"}) THEN Times(2, "RUN_JOB") \o <<"CLEAR_OON">>
  ELSE IF Is({"TestWorkLoop_RandomVector"}) THEN <<"CLEAR_OON", "RUN_JOB">>
  ELSE <<"CLEAR_OON">>

\* What is sent for an OON; TestWorkLoop decides on its next job afterwards.
Answer ==
  IF Is({"RunJobInfinite"}) THEN <<"CLEAR_OON", "RUN_JOB", "RUN_JOB">>
  ELSE IF Is({"TestWorkLoop_RandomVector"}) THEN <<"CLEAR_OON", "RUN_JOB">>
  ELSE <<"CLEAR_OON">>

\* RunJob in its endless mode does not read the flags.
CheckOON ==
  /\ pc = "OON"
  /\ IF \A c \in Chips : ~oon[c]
       THEN pc' = EndOfPass(ishashdone) /\ UNCHANGED series
       ELSE IF Is({"RunJobInfinite"}) THEN pc' = "SEND" /\ series' = Answer
       ELSE pc' = "OON_READ" /\ UNCHANGED series
  /\ UNCHANGED <<test, chip, res, locals, chain, history>>

AskedFirst == IF Is({"TestWork", "TestWorkLoop"}) THEN {1}
              ELSE IF Is({"TestAsic"}) THEN {chip} ELSE {c \in Chips : oon[c]}

\* The last chip, the chips one by one, or all of them.
Asked == IF Is({"TestWork", "TestWorkLoop"}) THEN {NumChips}
         ELSE IF Is({"TestAsic"}) THEN {chip} ELSE {c \in Chips : oon[c]}

NextChip == IF Is({"TestAsic"}) /\ chip < NumChips
              THEN pc' = "OON_READ" /\ chip' = chip + 1
              ELSE pc' = EndOfPass(ishashdone) /\ chip' = 1

\* CHECK_LAST_OON: the chip that answers has to be the last one.
ReadOON ==
  /\ pc = "OON_READ"
  /\ ReadJobId(Asked)
  /\ oon_job_id' = res'.id
  /\ IF res'.oon /\ (Is({"TestWork", "TestWorkLoop"}) => res'.chip \in Asked)
       THEN /\ pc' = IF SimpleWork THEN "FIFO" ELSE "SEND"
            /\ series' = IF SimpleWork THEN <<>> ELSE Answer
            /\ hashdone_chip' = IF Is({"TestAsic"}) /\ NextId(res'.id) = jobId
                                  THEN hashdone_chip \cup {res'.chip} ELSE hashdone_chip
            /\ UNCHANGED chip
       ELSE NextChip /\ UNCHANGED <<series, hashdone_chip>>
  /\ UNCHANGED <<test, jobId, jobcnt, oon_cnt, gn_cnt, ishashdone, chain, mismatch, dropped>>

MoreWorksThanAsked == test.works >= jobcnt

MoreWorks == test.works > jobcnt

\* What a loop does when handleOON came back with ret = 0 (ok) or -1.
AfterOON(ok) ==
  /\ series' = IF Is({"TestWorkLoop_RandomVector"}) \/ (Is({"TestWorkLoop"}) /\ ok /\ MoreWorks)
                 THEN <<"RUN_JOB">> ELSE <<>>
  /\ \/ /\ series' # <<>>
        /\ pc' = "SEND" /\ UNCHANGED <<chip, ishashdone, oon_cnt>>
     \/ /\ Is({"TestWork"})
        /\ pc' = "END" /\ ishashdone' = TRUE /\ UNCHANGED <<chip, oon_cnt>>
     \/ /\ Is({"RunJob"})
        /\ oon_cnt' = oon_cnt + 1
        /\ ishashdone' = (ishashdone \/ oon_cnt' = test.works)
        /\ pc' = EndOfPass(ishashdone') /\ UNCHANGED chip
     \/ /\ Is({"Run1Job"})
        /\ ishashdone' = (ishashdone \/ oon_job_id = test.works)
        /\ pc' = EndOfPass(ishashdone') /\ UNCHANGED <<chip, oon_cnt>>
     \/ /\ Is({"TestAsic"})
        /\ ishashdone' = (NextId(oon_job_id) = jobId /\ hashdone_chip = Chips)
        /\ IF ishashdone' THEN pc' = "END" /\ UNCHANGED chip ELSE NextChip
        /\ UNCHANGED oon_cnt
     \/ /\ Is({"TestWorkLoop"}) /\ series' = <<>>
        /\ pc' = EndOfPass(ishashdone \/ oon_job_id = test.works)
        /\ UNCHANGED <<chip, ishashdone, oon_cnt>>

\* handleOON of SimpleWork.c: the FIFO of chip 1 stands for all.  With a full one the OON
\* is left, and without an answer as well, but then as if all was well.
CheckFifo ==
  /\ pc = "FIFO"
  /\ \E ok \in Outcome("READ_ID") :
       /\ Count(IF ok THEN {} ELSE {"READ_ID"})
       /\ IF ok /\ Len(jobs[1]) < FifoDepth
            THEN pc' = "SEND" /\ series' = Answer /\ UNCHANGED <<chip, ishashdone, oon_cnt>>
            ELSE AfterOON(~ok)
  /\ UNCHANGED <<test, res, jobId, jobcnt, oon_job_id, gn_cnt, hashdone_chip, chain,
                 mismatch, dropped>>

ClearOON ==
  /\ pc = "SEND" /\ Head(series) = "CLEAR_OON"
  /\ \E ok \in Outcome("CLEAR_OON") :
       /\ Count(IF ok THEN {} ELSE {"CLEAR_OON"})
       /\ oon' = IF ~ok THEN oon
                 ELSE IF Is({"TestAsic"}) THEN [oon EXCEPT ![chip] = FALSE]
                 ELSE [c \in Chips |-> FALSE]
  /\ IF Len(series) > 1
       THEN series' = Tail(series) /\ UNCHANGED <<pc, chip, ishashdone, oon_cnt>>
       ELSE AfterOON(TRUE)
  /\ UNCHANGED <<test, res, jobId, jobcnt, oon_job_id, gn_cnt, hashdone_chip,
                 jobs, oonId, gn, found, worked, nonces, mismatch, dropped>>

\* A job goes to all chips; those with a full FIFO ignore it.
RunJob ==
  /\ pc = "SEND" /\ Head(series) = "RUN_JOB"
  /\ \E ok \in Outcome("RUN_JOB") :
       /\ Count(IF ok THEN {} ELSE {"RUN_JOB"})
       /\ jobs' = [c \in Chips |-> IF ok /\ Len(jobs[c]) < FifoDepth
                                     THEN Append(jobs[c], jobId) ELSE jobs[c]]
       /\ dropped' = (dropped \/ (ok /\ \E c \in Chips : Len(jobs[c]) = FifoDepth))
  /\ jobId' = NextId(jobId)
  /\ jobcnt' = IF Is({"TestWorkLoop"}) THEN jobcnt + 1 ELSE jobcnt
  /\ series' = Tail(series)
  /\ pc' = IF Len(series) > 1 THEN "SEND" ELSE EndOfPass(ishashdone)
  /\ UNCHANGED <<test, chip, res, oon_job_id, oon_cnt, gn_cnt, hashdone_chip, ishashdone,
                 oon, oonId, gn, found, worked, nonces, mismatch>>

\* "=== Test Succeed!!!", of the tests that come to a verdict.
Succeeds ==
  /\ pc = "END"
  /\ \/ Is({"TestWorkLoop", "Run1Job"}) /\ oon_job_id = test.works
     \/ Is({"RunJob"}) /\ oon_cnt = test.works /\ gn_cnt = test.works * NumChips

-----------------------------------------------------------------------------
Host == CheckGN \/ ReadGN \/ HandleGN \/ CheckOON \/ ReadOON \/ CheckFifo \/ ClearOON \/ RunJob

Next == Host \/ \E c \in Chips : Exhaust(c) \/ FindNonce(c)

\* The host polls and the chips work.
Fairness == WF_vars(Host) /\ \A c \in Chips : WF_vars(Exhaust(c))

Spec == Init /\ [][Next]_vars /\ Fairness

-----------------------------------------------------------------------------
(* Properties.                                                              *)

TypeOK ==
  /\ test \in Tests
  /\ pc \in {"GN", "GN_READ", "RESULT", "OON", "OON_READ", "FIFO", "SEND", "END"}
  /\ series \in Seq({"CLEAR_OON", "RUN_JOB"})
  /\ pc = "SEND" <=> series # <<>>
  /\ chip \in Chips
  /\ res \in [gn : BOOLEAN, oon : BOOLEAN, id : Ids, chip : 0 .. NumChips]
  /\ jobId \in Ids /\ oon_job_id \in Ids /\ hashdone_chip \subseteq Chips
  /\ \A c \in Chips : jobs[c] \in Seq(Ids) /\ Len(jobs[c]) <= FifoDepth
  /\ gn \in [Chips -> {"none", "right", "wrong"}]
  /\ faults \in 0 .. MaxFaults

\* TestWorkLoop, which answers an OON again when CLEAR_OON was lost, never sends a job to
\* a full FIFO, unless as many commands were lost as the FIFO takes jobs: then the FIFO
\* of chip 1 that handleOON asks for is not that of all chips (SimpleWork.c:164).
NoJobDropped == Is({"TestWorkLoop"}) /\ dropped => faults >= FifoDepth

\* A test whose nonces match ends when all chips have done all of its jobs, although
\* TestWork and TestWorkLoop ask one chip and TestAsic may read the flags of one in
\* place of another's.  (A job that met a full FIFO is skipped: TestWorkLoop waits for
\* the id of its last job and does not count.)
AllDone ==
  /\ pc = "END" /\ ~mismatch /\ ~dropped /\ "RUN_JOB" \notin lost
  /\ Is({"TestWork", "TestWorkLoop", "TestAsic"})
  => \A c \in Chips : worked[c] >= test.works

\* When RunJob says that it succeeded every chip has found the golden nonce of every job,
\* whatever was lost and whichever flags were read twice (SingleCommand.c:407).
VerdictSound ==
  Is({"RunJob"}) /\ Succeeds => ~mismatch /\ \A c \in Chips : nonces[c] = test.works

\* A test that has an end comes to it, if its number of works is a job id.
Ends ==
  ~Endless /\ test.works \in 1 .. IdRange - 1
    ~> pc = "END" \/ dropped \/ lost \cap {"RUN_JOB", "READ_JOB_ID"} # {}

\* In an endless loop no chip is left without a job for good, whatever chip an OON came
\* from and whoever cleared it.
KeepsMining ==
  \A c \in Chips : []<>(~Endless \/ jobs[c] # <<>> \/ pc = "END" \/ "RUN_JOB" \in lost)
=============================================================================
