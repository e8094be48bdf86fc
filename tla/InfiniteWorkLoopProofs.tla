------------------------ MODULE InfiniteWorkLoopProofs ------------------------
(***************************************************************************)
(* Proofs about InfiniteWorkLoop, for any number of chips, any FIFO depth   *)
(* and any ring.  The argument counts, for a job id j, how many works were  *)
(* queued after the job that uses j: Since(last_queued_id, j).  A slot is   *)
(* reused when that count reaches RingSize - 1.  The jobs of the FIFO and   *)
(* the jobs of unread results sit at counts that the FIFO depth and the     *)
(* polling slack keep below it.                                             *)
(***************************************************************************)
EXTENDS InfiniteWorkLoop, TLAPS

\* The transfers whose failure the loop does not notice have to be reliable.
Tolerated == {"RUN_JOB", "READ_HASH", "READ_RESULT"}

\* Works queued since the one with job id j, when slot l is the next to fill.
Since(l, j) == IF l >= j THEN l - j ELSE l + RingSize - j

\* Ring w has the work of the job in the slot its id leads to.
Holds(w, job) == w[job.id - 1] = job.param /\ w[job.id - 1] = job.target

FifoInOrder ==
  \A i \in 1 .. Len(fifo) :
    /\ Since(last_queued_id, fifo[i].id) = Len(fifo) - i
    /\ Holds(work, fifo[i])

ResultsFresh ==
  \A c \in Chips : gn[c] # NoNonce =>
    /\ Since(last_queued_id, gn[c].job.id) = Len(fifo) + gn[c].age - 1
    /\ Holds(work, gn[c].job)

\* Jobs in the chain, jobs on their way to it and jobs an OON will ask for.
FifoRoom ==
  /\ pc = "QUEUE" <=> toQueue > 0
  /\ Len(fifo) + sinceOon + toQueue + (IF oon THEN 2 ELSE 0) <= FifoDepth

HostInStep ==
  /\ pc = "RESULT" => /\ res.chip \in Chips
                      /\ gn[res.chip] # NoNonce
                      /\ gn[res.chip].job.id = res.id
  /\ ~isErr

IInv == TypeOK /\ FifoInOrder /\ ResultsFresh /\ FifoRoom /\ HostInStep

-----------------------------------------------------------------------------
LEMMA SinceStep ==
  ASSUME NEW l \in Slots, NEW j \in JobIds
  PROVE  /\ NextSlot(l) \in Slots
         /\ l + 1 \in JobIds
         /\ Since(l, j) \in 0 .. RingSize - 1
         /\ Since(NextSlot(l), l + 1) = 0
         /\ Since(l, j) # RingSize - 1 =>
              j # l + 1 /\ Since(NextSlot(l), j) = Since(l, j) + 1
  BY WorkLoopAssumption DEF Slots, JobIds, NextSlot, Since

\* A work queued, or a job exhausted, keeps the count of a result in step.
LEMMA CountArithmetic ==
  ASSUME NEW n \in Nat, NEW a \in Nat
  PROVE  /\ (n + a - 1) + 1 = (n + 1) + a - 1
         /\ n + a - 1 = (n - 1) + (a + 1) - 1
  OBVIOUS

LEMMA OutcomeType ==
  ASSUME NEW cmd, NEW ok \in Outcome(cmd)
  PROVE  ok \in BOOLEAN /\ (cmd \notin Unreliable => ok)
  BY DEF Outcome

LEMMA CountFaultType ==
  ASSUME faults \in 0 .. MaxFaults, NEW failed \in BOOLEAN,
         failed => faults < MaxFaults, CountFault(failed)
  PROVE  faults' \in 0 .. MaxFaults
  BY WorkLoopAssumption DEF CountFault

LEMMA FailedOutcome ==
  ASSUME NEW cmd, NEW ok \in Outcome(cmd), ~ok
  PROVE  faults < MaxFaults
  BY DEF Outcome

-----------------------------------------------------------------------------
LEMMA TypeInit == Init => TypeOK
  <1> SUFFICES ASSUME Init PROVE TypeOK
    OBVIOUS
  <1>1. index \in Vectors /\ last_queued_id \in Slots
    BY WorkLoopAssumption DEF Init, Vectors, Slots
  <1>2. /\ res \in [irq : BOOLEAN, id : JobIds \cup {0}, chip : Chips \cup {0}]
        /\ res.irq => res.id # 0 /\ res.chip # 0
    BY DEF Init
  <1>3. fifo \in Seq(Job)
    BY DEF Init
  <1>4. /\ sinceOon \in 0 .. OonPeriod - 1
        /\ toQueue \in Nat /\ toQueue > 0
        /\ faults \in 0 .. MaxFaults
    BY WorkLoopAssumption DEF Init
  <1>5. QED
    BY <1>1, <1>2, <1>3, <1>4 DEF Init, TypeOK

LEMMA TypeStep == TypeOK /\ [Next]_vars => TypeOK'
  <1> SUFFICES ASSUME TypeOK, [Next]_vars PROVE TypeOK'
    OBVIOUS
  <1>1. CASE SetWork
    <2>1. PICK okParam \in Outcome("WRITE_PARAM"), okTarget \in Outcome("WRITE_TARGET"),
               okRun \in Outcome("RUN_JOB") :
            /\ param' = IF okParam THEN index ELSE param
            /\ target' = IF okTarget THEN index ELSE target
            /\ IF okRun
                 THEN /\ fifo' = IF Len(fifo) < FifoDepth
                                   THEN Append(fifo, [id |-> last_queued_id + 1,
                                                      param |-> param', target |-> target'])
                                   ELSE fifo
                      /\ work' = [work EXCEPT ![last_queued_id] = index]
                      /\ last_queued_id' = NextSlot(last_queued_id)
                 ELSE UNCHANGED <<fifo, work, last_queued_id>>
            /\ CountFault(~(okParam /\ okTarget /\ okRun))
      BY <1>1 DEF SetWork
    <2>2. param' \in Vectors \cup {NoVector} /\ target' \in Vectors \cup {NoVector}
      BY <2>1 DEF TypeOK
    <2>3. last_queued_id + 1 \in JobIds /\ NextSlot(last_queued_id) \in Slots
      BY WorkLoopAssumption DEF TypeOK, Slots, JobIds, NextSlot
    <2>4. [id |-> last_queued_id + 1, param |-> param', target |-> target'] \in Job
      BY <2>2, <2>3 DEF Job
    <2>5. fifo' \in Seq(Job) /\ last_queued_id' \in Slots
      <3> DEFINE job == [id |-> last_queued_id + 1, param |-> param', target |-> target']
      <3>1. job \in Job
        BY <2>4
      <3>2. Append(fifo, job) \in Seq(Job) /\ fifo \in Seq(Job)
        BY <3>1 DEF TypeOK
      <3> HIDE DEF job
      <3>3. CASE okRun
        BY <2>1, <2>3, <3>2, <3>3 DEF job
      <3>4. CASE ~okRun
        BY <2>1, <3>2, <3>4 DEF TypeOK
      <3>5. QED
        BY <3>3, <3>4
    <2>6. work' \in [Slots -> Vectors \cup {NoVector}]
      BY <2>1 DEF TypeOK
    <2>7. faults' \in 0 .. MaxFaults
      BY <2>1, CountFaultType, FailedOutcome, OutcomeType DEF TypeOK
    <2>8. index' \in Vectors
      BY <1>1, WorkLoopAssumption DEF SetWork, TypeOK, Vectors
    <2>9. toQueue' \in Nat /\ (pc' = "QUEUE" <=> toQueue' > 0)
      BY <1>1 DEF SetWork, TypeOK, EndOfIteration
    <2>10. QED
      BY <1>1, <2>2, <2>5, <2>6, <2>7, <2>8, <2>9 DEF SetWork, TypeOK, EndOfIteration
  <1>2. CASE CheckGN
    BY <1>2 DEF CheckGN, TypeOK, chainVars
  <1>3. ASSUME NEW c \in Chips, ReadJobId(c) PROVE TypeOK'
    <2>1. PICK ok \in Outcome("READ_JOB_ID") :
            /\ res' = IF ok THEN [irq |-> TRUE, id |-> gn[c].job.id, chip |-> c] ELSE res
            /\ CountFault(~ok)
      BY <1>3 DEF ReadJobId
    <2>2. gn[c].job.id \in JobIds /\ gn[c].job.id # 0 /\ c # 0
      BY <1>3 DEF ReadJobId, TypeOK, Result, Job, JobIds, Chips
    <2>3. /\ res' \in [irq : BOOLEAN, id : JobIds \cup {0}, chip : Chips \cup {0}]
          /\ res'.irq => res'.id # 0 /\ res'.chip # 0
      BY <2>1, <2>2 DEF TypeOK
    <2>4. faults' \in 0 .. MaxFaults
      BY <2>1, CountFaultType, FailedOutcome, OutcomeType DEF TypeOK
    <2>5. QED
      BY <1>3, <2>3, <2>4 DEF ReadJobId, TypeOK, chainVars
  <1>4. CASE HandleGN
    <2>1. PICK okHash \in Outcome("READ_HASH"), okResult \in Outcome("READ_RESULT") :
            /\ IF okHash /\ okResult
                 THEN /\ gn' = [gn EXCEPT ![res.chip] = NoNonce]
                      /\ isErr' = ~ValidNonce(gn[res.chip])
                 ELSE UNCHANGED <<gn, isErr>>
            /\ CountFault(~(okHash /\ okResult))
      BY <1>4 DEF HandleGN
    <2>2. gn' \in [Chips -> Result \cup {NoNonce}]
      BY <2>1 DEF TypeOK
    <2>3. isErr' \in BOOLEAN
      BY <2>1, Zenon DEF TypeOK, ValidNonce
    <2>4. faults' \in 0 .. MaxFaults
      BY <2>1, CountFaultType, FailedOutcome, OutcomeType DEF TypeOK
    <2>5. QED
      BY <1>4, <2>2, <2>3, <2>4 DEF HandleGN, TypeOK
  <1>5. CASE CheckOON
    <2>1. faults' \in 0 .. MaxFaults
      BY <1>5, CountFaultType, FailedOutcome, OutcomeType DEF CheckOON, TypeOK
    <2>2. oon' \in BOOLEAN
      BY <1>5, Zenon DEF CheckOON, TypeOK
    <2>3. toQueue' \in Nat /\ (pc' = "QUEUE" <=> toQueue' > 0)
      BY <1>5 DEF CheckOON, TypeOK, EndOfIteration
    <2>4. QED
      BY <1>5, <2>1, <2>2, <2>3 DEF CheckOON, TypeOK, EndOfIteration
  <1>6. CASE Exhaust
    <2>1. fifo' \in Seq(Job)
      BY <1>6 DEF Exhaust, TypeOK
    <2>2. gn' \in [Chips -> Result \cup {NoNonce}]
      <3> SUFFICES ASSUME NEW c \in Chips, gn[c] # NoNonce
                   PROVE  [gn[c] EXCEPT !.age = gn[c].age + 1] \in Result
        BY <1>6 DEF Exhaust
      <3>1. gn[c] \in Result /\ gn[c].age < GnSlack
        BY <1>6 DEF Exhaust, TypeOK
      <3>2. gn[c].age + 1 \in 0 .. GnSlack
        BY <3>1, WorkLoopAssumption DEF Result
      <3>3. QED
        BY <3>1, <3>2 DEF Result
    <2>3. sinceOon' \in 0 .. OonPeriod - 1 /\ oon' \in BOOLEAN
      BY SMTT(30), <1>6, WorkLoopAssumption DEF Exhaust, TypeOK
    <2>4. QED
      BY <1>6, <2>1, <2>2, <2>3 DEF Exhaust, TypeOK, hostVars
  <1>7. ASSUME NEW c \in Chips, FindNonce(c) PROVE TypeOK'
    <2>1. Head(fifo) \in Job
      BY <1>7 DEF FindNonce, TypeOK
    <2>2. [job |-> Head(fifo), age |-> 0] \in Result
      BY <2>1, WorkLoopAssumption DEF Result
    <2>3. QED
      BY <1>7, <2>2 DEF FindNonce, TypeOK, hostVars
  <1>8. CASE UNCHANGED vars
    BY <1>8 DEF vars, hostVars, chainVars, TypeOK
  <1>9. QED
    BY <1>1, <1>2, <1>3, <1>4, <1>5, <1>6, <1>7, <1>8 DEF Next, Host

\* Every reachable state is well typed: slots, job ids and registers stay in
\* range, and no result ever waits longer than the slack allows.
THEOREM TypeCorrect == Spec => []TypeOK
  BY TypeInit, TypeStep, PTL DEF Spec

-----------------------------------------------------------------------------
LEMMA IInvInit == Init => IInv
  <1> SUFFICES ASSUME Init PROVE IInv
    OBVIOUS
  <1>1. fifo = <<>> /\ Len(fifo) = 0
    BY DEF Init
  <1>2. FifoInOrder
    BY <1>1 DEF FifoInOrder
  <1>3. ResultsFresh /\ HostInStep
    BY DEF Init, ResultsFresh, HostInStep
  <1>4. FifoRoom
    BY <1>1, WorkLoopAssumption DEF Init, FifoRoom
  <1>5. QED
    BY <1>2, <1>3, <1>4, TypeInit DEF IInv

\* Queueing a work: the new job enters at count 0, every other count grows by
\* one, and the slot that is overwritten is one no job or result refers to.
LEMMA SetWorkStep ==
  ASSUME IInv, TypeOK', SetWork, Unreliable \subseteq Tolerated
  PROVE  IInv' /\ (last_queued_id' # last_queued_id => Len(fifo) < FifoDepth)
  <1> DEFINE l == last_queued_id
             job == [id |-> l + 1, param |-> index, target |-> index]
  <1>1. PICK okRun \in Outcome("RUN_JOB") :
          IF okRun
            THEN /\ fifo' = IF Len(fifo) < FifoDepth THEN Append(fifo, job) ELSE fifo
                 /\ work' = [work EXCEPT ![l] = index]
                 /\ last_queued_id' = NextSlot(l)
            ELSE UNCHANGED <<fifo, work, last_queued_id>>
    BY OutcomeType DEF SetWork, Tolerated
  <1>2. /\ l \in Slots /\ index \in Vectors /\ fifo \in Seq(Job)
        /\ Len(fifo) \in Nat /\ sinceOon \in Nat /\ toQueue \in Nat /\ toQueue > 0
    BY DEF IInv, TypeOK, SetWork
  <1>3. Len(fifo) < FifoDepth
    BY <1>2, WorkLoopAssumption DEF IInv, FifoRoom
  <1>4. /\ toQueue' = toQueue - 1 /\ UNCHANGED <<res, isErr, sinceOon, oon, gn>>
        /\ pc' = IF toQueue = 1 THEN EndOfIteration ELSE "QUEUE"
    BY DEF SetWork
  <1>5. HostInStep'
    BY <1>4, <1>2 DEF IInv, HostInStep, EndOfIteration
  <1>6. CASE ~okRun
    <2>1. FifoInOrder' /\ ResultsFresh'
      BY <1>1, <1>4, <1>6 DEF IInv, FifoInOrder, ResultsFresh, Holds
    <2>2. FifoRoom'
      BY <1>1, <1>2, <1>4, <1>6, WorkLoopAssumption
      DEF IInv, FifoRoom, EndOfIteration
    <2>3. QED
      BY <1>1, <1>3, <1>5, <2>1, <2>2 DEF IInv
  <1>7. CASE okRun
    <2>1. /\ fifo' = Append(fifo, job)
          /\ work' = [work EXCEPT ![l] = index]
          /\ last_queued_id' = NextSlot(l)
      BY <1>1, <1>3, <1>7
    <2>2. /\ l + 1 \in JobIds /\ NextSlot(l) \in Slots
          /\ Since(NextSlot(l), l + 1) = 0
      <3>1. l + 1 \in JobIds
        BY <1>2, WorkLoopAssumption DEF Slots, JobIds
      <3>2. QED
        BY <1>2, <3>1, SinceStep
    <2>3. ASSUME NEW old \in Job, Since(l, old.id) # RingSize - 1, Holds(work, old)
          PROVE  /\ Since(NextSlot(l), old.id) = Since(l, old.id) + 1
                 /\ Holds(work', old)
      <3>1. old.id \in JobIds
        BY DEF Job
      <3>2. old.id # l + 1 /\ Since(NextSlot(l), old.id) = Since(l, old.id) + 1
        BY <1>2, <2>3, <3>1, SinceStep
      <3>3. old.id - 1 \in Slots /\ old.id - 1 # l
        BY <1>2, <3>1, <3>2, WorkLoopAssumption DEF JobIds, Slots
      <3>4. work'[old.id - 1] = work[old.id - 1]
        BY <2>1, <3>3 DEF IInv, TypeOK
      <3>5. QED
        BY <2>3, <3>2, <3>4 DEF Holds
    <2>4. job \in Job /\ Holds(work', job)
      <3>1. job \in Job
        BY <1>2, <2>2 DEF Job
      <3>2. work'[l] = index /\ job.id - 1 = l
        BY <1>2, <2>1, WorkLoopAssumption DEF IInv, TypeOK, Slots
      <3>3. QED
        BY <3>1, <3>2 DEF Holds
    <2> HIDE DEF job
    <2>5. /\ Len(fifo') = Len(fifo) + 1
          /\ \A i \in 1 .. Len(fifo) : fifo'[i] = fifo[i] /\ fifo[i] \in Job
          /\ fifo'[Len(fifo) + 1] = job
      BY <1>2, <2>1, <2>4
    <2>6. FifoInOrder'
      <3> SUFFICES ASSUME NEW i \in 1 .. Len(fifo')
                   PROVE  /\ Since(NextSlot(l), fifo'[i].id) = Len(fifo') - i
                          /\ Holds(work', fifo'[i])
        BY <2>1 DEF FifoInOrder, Holds
      <3>1. CASE i \in 1 .. Len(fifo)
        <4>1. /\ Since(l, fifo[i].id) = Len(fifo) - i /\ Holds(work, fifo[i])
              /\ fifo'[i] = fifo[i] /\ fifo[i] \in Job
          BY <2>5, <3>1 DEF IInv, FifoInOrder
        <4>2. Since(l, fifo[i].id) # RingSize - 1
          BY <1>2, <1>3, <3>1, <4>1, WorkLoopAssumption
        <4>3. Since(NextSlot(l), fifo[i].id) = Since(l, fifo[i].id) + 1 /\ Holds(work', fifo[i])
          BY <2>3, <4>1, <4>2
        <4>4. Holds(work', fifo'[i])
          BY <4>1, <4>3 DEF Holds
        <4>5. QED
          BY <1>2, <2>5, <3>1, <4>1, <4>3, <4>4
      <3>2. CASE i = Len(fifo) + 1
        <4>1. fifo'[i] = job /\ job.id = l + 1
          BY <2>5, <3>2 DEF job
        <4>2. Holds(work', fifo'[i])
          BY <2>4, <4>1 DEF Holds
        <4>3. QED
          BY <1>2, <2>2, <2>5, <3>2, <4>1, <4>2
      <3>3. QED
        BY <1>2, <2>5, <3>1, <3>2
    <2>7. ResultsFresh'
      <3> SUFFICES ASSUME NEW c \in Chips, gn[c] # NoNonce
                   PROVE  /\ Since(NextSlot(l), gn[c].job.id) = Len(fifo') + gn[c].age - 1
                          /\ Holds(work', gn[c].job)
        BY <1>4, <2>1 DEF ResultsFresh, Holds
      <3>1. gn[c].job \in Job /\ gn[c].age \in 0 .. GnSlack
        BY DEF IInv, TypeOK, Result
      <3>2. Since(l, gn[c].job.id) = Len(fifo) + gn[c].age - 1 /\ Holds(work, gn[c].job)
        BY DEF IInv, ResultsFresh
      <3>3. Since(l, gn[c].job.id) # RingSize - 1
        BY <1>2, <1>3, <3>1, <3>2, WorkLoopAssumption
      <3>4. Since(NextSlot(l), gn[c].job.id) = Since(l, gn[c].job.id) + 1 /\ Holds(work', gn[c].job)
        BY <2>3, <3>1, <3>2, <3>3
      <3>5. gn[c].age \in Nat
        BY <3>1
      <3>6. (Len(fifo) + gn[c].age - 1) + 1 = (Len(fifo) + 1) + gn[c].age - 1
        BY <1>2, <3>5, CountArithmetic
      <3>7. Since(NextSlot(l), gn[c].job.id) = (Len(fifo) + gn[c].age - 1) + 1
        BY <3>2, <3>4
      <3>8. QED
        BY <2>5, <3>4, <3>6, <3>7
    <2>8. FifoRoom'
      BY <1>2, <1>4, <2>5, WorkLoopAssumption DEF IInv, FifoRoom, EndOfIteration
    <2>9. QED
      BY <1>3, <1>5, <2>6, <2>7, <2>8 DEF IInv
  <1>8. QED
    BY <1>6, <1>7

\* A job leaves the FIFO: the counts of the jobs behind it do not change, and
\* the results it produced age by one.
LEMMA ExhaustStep ==
  ASSUME IInv, TypeOK', Exhaust
  PROVE  IInv'
  <1>1. /\ fifo \in Seq(Job) /\ fifo # <<>> /\ fifo' = Tail(fifo)
        /\ sinceOon \in 0 .. OonPeriod - 1 /\ toQueue \in Nat
        /\ UNCHANGED <<hostVars, param, target>>
    BY DEF IInv, TypeOK, Exhaust
  <1>2. /\ Len(fifo) \in Nat \ {0} /\ Len(fifo') = Len(fifo) - 1
        /\ \A i \in 1 .. Len(fifo') : fifo'[i] = fifo[i + 1]
    BY <1>1
  <1>3. FifoInOrder'
    <2> SUFFICES ASSUME NEW i \in 1 .. Len(fifo')
                 PROVE  /\ Since(last_queued_id, fifo'[i].id) = Len(fifo') - i
                        /\ Holds(work, fifo'[i])
      BY <1>1 DEF FifoInOrder, hostVars
    <2>1. i + 1 \in 1 .. Len(fifo) /\ fifo'[i] = fifo[i + 1]
      BY <1>2
    <2>2. QED
      BY <1>2, <2>1 DEF IInv, FifoInOrder
  <1>4. ResultsFresh'
    <2> SUFFICES ASSUME NEW c \in Chips, gn'[c] # NoNonce
                 PROVE  /\ Since(last_queued_id, gn'[c].job.id) = Len(fifo') + gn'[c].age - 1
                        /\ Holds(work, gn'[c].job)
      BY <1>1 DEF ResultsFresh, Holds, hostVars
    <2>1. gn[c] # NoNonce /\ gn'[c] = [gn[c] EXCEPT !.age = gn[c].age + 1]
      BY DEF Exhaust
    <2>2. gn[c] \in Result
      BY <2>1 DEF IInv, TypeOK
    <2>3. gn'[c].job = gn[c].job /\ gn'[c].age = gn[c].age + 1 /\ gn[c].age \in Nat
      BY <2>1, <2>2 DEF Result
    <2>4. Since(last_queued_id, gn[c].job.id) = Len(fifo) + gn[c].age - 1 /\ Holds(work, gn[c].job)
      BY <2>1 DEF IInv, ResultsFresh
    <2>5. Len(fifo) + gn[c].age - 1 = (Len(fifo) - 1) + (gn[c].age + 1) - 1
      BY <1>2, <2>3, CountArithmetic
    <2>6. Holds(work, gn'[c].job)
      BY <2>3, <2>4 DEF Holds
    <2>7. QED
      BY <1>2, <2>3, <2>4, <2>5, <2>6
  <1>5. FifoRoom'
    <2>1. /\ sinceOon' = IF sinceOon + 1 = OonPeriod THEN 0 ELSE sinceOon + 1
          /\ oon' = (oon \/ sinceOon + 1 = OonPeriod)
      BY DEF Exhaust
    <2>2. Len(fifo') + sinceOon' + toQueue + (IF oon' THEN 2 ELSE 0) <= FifoDepth
      <3>1. CASE sinceOon + 1 = OonPeriod
        BY <1>1, <1>2, <2>1, <3>1, WorkLoopAssumption DEF IInv, FifoRoom
      <3>2. CASE sinceOon + 1 # OonPeriod
        BY <1>1, <1>2, <2>1, <3>2, WorkLoopAssumption DEF IInv, FifoRoom, TypeOK
      <3>3. QED
        BY <3>1, <3>2
    <2>3. QED
      BY <1>1, <2>2 DEF IInv, FifoRoom, hostVars
  <1>6. HostInStep'
    <2>1. ASSUME NEW c \in Chips, gn[c] # NoNonce
          PROVE  gn'[c].job = gn[c].job /\ gn'[c] # NoNonce
      <3>1. gn[c] \in Result /\ gn'[c] = [gn[c] EXCEPT !.age = gn[c].age + 1]
        BY <2>1 DEF IInv, TypeOK, Exhaust
      <3>2. gn'[c].job = gn[c].job /\ gn'[c].age = gn[c].age + 1
        BY <3>1 DEF Result
      <3>3. gn'[c] # NoNonce
        <4>1. gn[c].age + 1 \in 0 .. GnSlack
          BY <2>1, <3>1, WorkLoopAssumption DEF Exhaust, Result
        <4>2. [gn[c] EXCEPT !.age = gn[c].age + 1] \in Result
          BY <3>1, <4>1 DEF Result
        <4>3. QED
          BY <3>1, <4>2, WorkLoopAssumption
      <3>4. QED
        BY <3>2, <3>3
    <2>2. QED
      BY <1>1, <2>1 DEF IInv, HostInStep, hostVars
  <1>7. QED
    BY <1>3, <1>4, <1>5, <1>6 DEF IInv

\* A golden nonce is found: its result starts with the count of the running job.
LEMMA FindNonceStep ==
  ASSUME IInv, TypeOK', NEW c \in Chips, FindNonce(c)
  PROVE  IInv'
  <1>1. /\ fifo \in Seq(Job) /\ fifo # <<>> /\ Len(fifo) \in Nat \ {0} /\ gn[c] = NoNonce
        /\ gn' = [gn EXCEPT ![c] = [job |-> fifo[1], age |-> 0]]
        /\ UNCHANGED <<hostVars, fifo, sinceOon, oon>>
    BY DEF IInv, TypeOK, FindNonce
  <1>2. FifoInOrder' /\ FifoRoom'
    BY <1>1 DEF IInv, FifoInOrder, FifoRoom, Holds, hostVars
  <1>3. ResultsFresh'
    <2> SUFFICES ASSUME NEW d \in Chips, gn'[d] # NoNonce
                 PROVE  /\ Since(last_queued_id, gn'[d].job.id) = Len(fifo) + gn'[d].age - 1
                        /\ Holds(work, gn'[d].job)
      BY <1>1 DEF ResultsFresh, Holds, hostVars
    <2>1. CASE d = c
      <3>1. gn'[d].job = fifo[1] /\ gn'[d].age = 0
        BY <1>1, <2>1 DEF IInv, TypeOK
      <3>2. Since(last_queued_id, fifo[1].id) = Len(fifo) - 1 /\ Holds(work, fifo[1])
        BY <1>1 DEF IInv, FifoInOrder
      <3>3. Len(fifo) - 1 = Len(fifo) + 0 - 1
        BY <1>1
      <3>4. Holds(work, gn'[d].job)
        BY <3>1, <3>2 DEF Holds
      <3>5. QED
        BY <3>1, <3>2, <3>3, <3>4
    <2>2. CASE d # c
      <3>1. gn'[d] = gn[d] /\ gn[d] # NoNonce
        BY <1>1, <2>2 DEF IInv, TypeOK
      <3>2. QED
        BY <3>1 DEF IInv, ResultsFresh, Holds
    <2>3. QED
      BY <2>1, <2>2
  <1>4. HostInStep'
    <2>1. ASSUME pc = "RESULT" PROVE gn'[res.chip] = gn[res.chip]
      <3>1. res.chip \in Chips /\ res.chip # c
        BY <1>1, <2>1 DEF IInv, HostInStep
      <3>2. QED
        BY <1>1, <3>1 DEF IInv, TypeOK
    <2>2. QED
      BY <1>1, <2>1 DEF IInv, HostInStep, hostVars
  <1>5. QED
    BY <1>2, <1>3, <1>4 DEF IInv

\* The job id read from a chip is that of the result the chip still holds:
\* READ_JOB_ID is reliable, so the bytes are those of this iteration.
LEMMA ReadJobIdStep ==
  ASSUME IInv, TypeOK', NEW c \in Chips, ReadJobId(c), Unreliable \subseteq Tolerated
  PROVE  IInv'
  <1>1. /\ res' = [irq |-> TRUE, id |-> gn[c].job.id, chip |-> c]
        /\ pc = "GN" /\ pc' \in {"RESULT", "OON"} /\ gn[c] # NoNonce
        /\ UNCHANGED <<toQueue, work, last_queued_id, isErr, chainVars>>
    BY OutcomeType DEF ReadJobId, Tolerated
  <1>2. FifoInOrder' /\ ResultsFresh'
    BY <1>1 DEF IInv, FifoInOrder, ResultsFresh, Holds, chainVars
  <1>3. FifoRoom'
    BY <1>1 DEF IInv, FifoRoom, chainVars
  <1>4. HostInStep'
    BY <1>1 DEF IInv, HostInStep, chainVars
  <1>5. QED
    BY <1>2, <1>3, <1>4 DEF IInv

\* The nonce submitted is valid, and nothing but the result read is removed.
LEMMA HandleGNStep ==
  ASSUME IInv, TypeOK', HandleGN
  PROVE  IInv'
  <1>1. PICK okHash \in Outcome("READ_HASH"), okResult \in Outcome("READ_RESULT") :
          IF okHash /\ okResult
            THEN /\ gn' = [gn EXCEPT ![res.chip] = NoNonce]
                 /\ isErr' = ~ValidNonce(gn[res.chip])
            ELSE UNCHANGED <<gn, isErr>>
    BY DEF HandleGN
  <1>2. /\ pc = "RESULT" /\ pc' = "OON"
        /\ UNCHANGED <<toQueue, work, last_queued_id, res, fifo, sinceOon, oon>>
    BY DEF HandleGN
  <1>3. \A c \in Chips : gn'[c] # NoNonce => gn'[c] = gn[c]
    BY <1>1 DEF IInv, TypeOK
  <1>4. FifoInOrder' /\ FifoRoom'
    BY <1>2 DEF IInv, FifoInOrder, FifoRoom, Holds
  <1>5. ResultsFresh'
    BY <1>2, <1>3 DEF IInv, ResultsFresh, Holds
  <1>6. ~isErr'
    <2>1. /\ res.chip \in Chips /\ gn[res.chip] # NoNonce
          /\ gn[res.chip].job.id = res.id
      BY <1>2 DEF IInv, HostInStep
    <2>2. Holds(work, gn[res.chip].job)
      BY <2>1 DEF IInv, ResultsFresh
    <2>3. ValidNonce(gn[res.chip])
      BY <2>1, <2>2 DEF ValidNonce, Holds
    <2>4. QED
      BY <1>1, <2>3, Zenon DEF IInv, HostInStep
  <1>7. QED
    BY <1>2, <1>4, <1>5, <1>6 DEF IInv, HostInStep

\* An OON turns the two places it freed into two works to queue.
LEMMA CheckOONStep ==
  ASSUME IInv, TypeOK', CheckOON, Unreliable \subseteq Tolerated
  PROVE  IInv'
  <1>1. /\ IF oon THEN oon' = FALSE /\ toQueue' = 2 /\ pc' = "QUEUE"
                  ELSE oon' = oon /\ toQueue' = toQueue /\ pc' = EndOfIteration
        /\ pc = "OON"
        /\ UNCHANGED <<work, last_queued_id, res, isErr, fifo, sinceOon, gn>>
    <2>1. PICK ok \in Outcome("CLEAR_OON") :
            IF oon THEN oon' = ~ok /\ toQueue' = 2 /\ pc' = "QUEUE"
                   ELSE pc' = EndOfIteration /\ UNCHANGED <<oon, toQueue>>
      BY DEF CheckOON
    <2>2. ok
      BY <2>1, OutcomeType DEF Tolerated
    <2>3. QED
      BY <2>1, <2>2, Zenon DEF CheckOON
  <1>2. FifoInOrder' /\ ResultsFresh'
    BY <1>1 DEF IInv, FifoInOrder, ResultsFresh, Holds
  <1>3. toQueue = 0 /\ Len(fifo) \in Nat /\ sinceOon \in Nat
    BY <1>1 DEF IInv, TypeOK, FifoRoom
  <1>4. FifoRoom'
    <2>1. CASE oon
      BY <1>1, <1>3, <2>1, WorkLoopAssumption DEF IInv, FifoRoom
    <2>2. CASE ~oon
      BY <1>1, <1>3, <2>2 DEF IInv, FifoRoom, EndOfIteration
    <2>3. QED
      BY <2>1, <2>2
  <1>5. HostInStep'
    BY <1>1 DEF IInv, HostInStep, EndOfIteration
  <1>6. QED
    BY <1>2, <1>4, <1>5 DEF IInv

\* The strengthening is inductive.
LEMMA IInvStep ==
  ASSUME IInv, [Next]_vars, Unreliable \subseteq Tolerated
  PROVE  IInv'
  <1>1. TypeOK'
    BY TypeStep DEF IInv
  <1>2. CASE SetWork
    BY <1>1, <1>2, SetWorkStep
  <1>3. CASE CheckGN
    BY <1>1, <1>3
    DEF CheckGN, chainVars, IInv, FifoInOrder, ResultsFresh, FifoRoom, HostInStep, Holds
  <1>4. CASE \E c \in Chips : ReadJobId(c)
    BY <1>1, <1>4, ReadJobIdStep
  <1>5. CASE HandleGN
    BY <1>1, <1>5, HandleGNStep
  <1>6. CASE CheckOON
    BY <1>1, <1>6, CheckOONStep
  <1>7. CASE Exhaust
    BY <1>1, <1>7, ExhaustStep
  <1>8. CASE \E c \in Chips : FindNonce(c)
    BY <1>1, <1>8, FindNonceStep
  <1>9. CASE UNCHANGED vars
    BY <1>1, <1>9
    DEF vars, hostVars, chainVars, IInv, FifoInOrder, ResultsFresh, FifoRoom, HostInStep, Holds
  <1>10. QED
    BY <1>2, <1>3, <1>4, <1>5, <1>6, <1>7, <1>8, <1>9 DEF Next, Host

\* Of all the steps only set_work moves the ring, and then the chain has room.
LEMMA RingMoves ==
  ASSUME IInv, [Next]_vars, Unreliable \subseteq Tolerated
  PROVE  last_queued_id' # last_queued_id => Len(fifo) < FifoDepth
  <1>1. TypeOK'
    BY TypeStep DEF IInv
  <1>2. CASE SetWork
    BY <1>1, <1>2, SetWorkStep
  <1>3. CASE ~SetWork
    BY <1>3 DEF Next, Host, CheckGN, ReadJobId, HandleGN, CheckOON, Exhaust, FindNonce,
                vars, hostVars
  <1>4. QED
    BY <1>2, <1>3

LEMMA IInvImplies == IInv => NonceBelongsToWork
  BY DEF IInv, ResultsFresh, HostInStep, Holds, NonceBelongsToWork

\* Whatever the FIFO depth, the ring and the number of chips, and however the
\* tolerated transfers fail: every golden nonce is submitted with the work it
\* was found for.
THEOREM NonceCorrect ==
  ASSUME Unreliable \subseteq Tolerated
  PROVE  Spec => []NonceBelongsToWork
  <1>1. Init => IInv
    BY IInvInit
  <1>2. IInv /\ [Next]_vars => IInv'
    BY IInvStep
  <1>3. IInv => NonceBelongsToWork
    BY IInvImplies
  <1>4. QED
    BY <1>1, <1>2, <1>3, PTL DEF Spec

\* Under the same assumption no work is ever sent to a full FIFO.
THEOREM NoDrop ==
  ASSUME Unreliable \subseteq Tolerated
  PROVE  Spec => NoWorkDropped
  <1>1. Init => IInv
    BY IInvInit
  <1>2. IInv /\ [Next]_vars => IInv'
    BY IInvStep
  <1>3. IInv /\ [Next]_vars
          => [last_queued_id' # last_queued_id => Len(fifo) < FifoDepth]_vars
    BY RingMoves
  <1>4. QED
    BY <1>1, <1>2, <1>3, PTL DEF Spec, NoWorkDropped
=============================================================================
