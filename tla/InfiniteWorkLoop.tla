--------------------------- MODULE InfiniteWorkLoop ---------------------------
(***************************************************************************)
(* The endless mining loop of SimpleWork.c: TestInfiniteWorkLoop, its       *)
(* helpers set_work and handleGN3, and the driver calls they make.          *)
(*                                                                          *)
(* The host keeps the last RingSize works it queued in handle->work and     *)
(* gives the job in slot s the job id s + 1.  A chip that finds a golden    *)
(* nonce (GN) reports the job id alone, so the host has to find the work    *)
(* again through the ring: the slot must not have been reused meanwhile.    *)
(*                                                                          *)
(* The chain of chips is external.  What the loop relies on is modelled:    *)
(* one job FIFO for the chain ("The FIFO status of all chips are same",     *)
(* SimpleWork.c:164), a job latches the parameter and target registers      *)
(* when RUN_JOB is accepted, a full FIFO ignores RUN_JOB, the out-of-nonce  *)
(* flag (OON) is raised when OonPeriod jobs are exhausted, and each chip    *)
(* holds one unread result.                                                 *)
(***************************************************************************)
EXTENDS Naturals, Sequences

CONSTANTS
  NumChips,     \* handle->numChips, from Btc08AutoAddress
  NumVectors,   \* MAX_NUM_VECTOR, test vectors the loop cycles through
  FifoDepth,    \* MAX_JOB_FIFO_NUM, jobs the chain holds, the running one included
  RingSize,     \* JOB_ID_NUM_MASK, slots of handle->work
  OonPeriod,    \* jobs the chain exhausts for one OON
  GnSlack,      \* jobs the chain may exhaust while a result waits for the host
  Unreliable,   \* SPI commands whose transfer may fail
  MaxFaults,    \* bound on the number of host steps with a failed transfer
  NoNonce       \* a chip without an unread result

SpiCommands == { "WRITE_PARAM", "WRITE_TARGET", "RUN_JOB", "READ_JOB_ID",
                 "READ_HASH", "READ_RESULT", "CLEAR_OON" }

Chips    == 1 .. NumChips
Vectors  == 0 .. NumVectors - 1
NoVector == NumVectors                    \* a zeroed slot or register
Slots    == 0 .. RingSize - 1
JobIds   == 1 .. RingSize
Job      == [id : JobIds, param : Vectors \cup {NoVector}, target : Vectors \cup {NoVector}]
Result   == [job : Job, age : 0 .. GnSlack]

ASSUME WorkLoopAssumption ==
  /\ NumChips \in Nat
  /\ NumVectors \in Nat \ {0}
  /\ FifoDepth \in Nat \ {0}
  /\ OonPeriod \in Nat \ {0, 1}           \* two works are queued for each OON
  /\ GnSlack \in Nat
  /\ RingSize \in Nat \ {0}
  /\ FifoDepth + GnSlack <= RingSize      \* the host polls faster than that
  /\ Unreliable \subseteq SpiCommands
  /\ MaxFaults \in Nat
  /\ NoNonce \notin Result

VARIABLES
  pc,              \* where the host is in the loop
  index,           \* next test vector
  toQueue,         \* set_work calls left of the current batch
  work,            \* handle->work
  last_queued_id,  \* handle->last_queued_id, the slot to fill next
  res,             \* the bytes READ_JOB_ID left in the local array
  isErr,           \* an invalid nonce was submitted
  param, target,   \* chain registers
  fifo,            \* jobs queued in the chain, the head is running
  sinceOon,        \* jobs exhausted since the last OON
  oon,             \* OON flag, the pin is low while it is set
  gn,              \* unread result of each chip, the GN pin is low while there is one
  faults           \* host steps with a failed transfer so far

hostVars  == <<pc, index, toQueue, work, last_queued_id, res, isErr>>
chainVars == <<param, target, fifo, sinceOon, oon, gn>>
vars      == <<hostVars, chainVars, faults>>

Init ==
  /\ pc = "QUEUE" /\ toQueue = FifoDepth
  /\ index = 0
  /\ work = [s \in Slots |-> NoVector]
  /\ last_queued_id = 0
  /\ res = [irq |-> FALSE, id |-> 0, chip |-> 0]
  /\ isErr = FALSE
  /\ param = NoVector /\ target = NoVector
  /\ fifo = <<>> /\ sinceOon = 0 /\ oon = FALSE
  /\ gn = [c \in Chips |-> NoNonce]
  /\ faults = 0

-----------------------------------------------------------------------------
(* The chain.                                                               *)

\* Every chip has gone through its nonce range of the running job.  The chain
\* is slow (a job takes seconds, a poll of the host milliseconds): it exhausts
\* at most GnSlack jobs while a result waits.
Exhaust ==
  /\ fifo # <<>>
  /\ \A c \in Chips : gn[c] # NoNonce => gn[c].age < GnSlack
  /\ fifo' = Tail(fifo)
  /\ gn' = [c \in Chips |-> IF gn[c] = NoNonce THEN NoNonce
                            ELSE [gn[c] EXCEPT !.age = gn[c].age + 1]]
  /\ sinceOon' = IF sinceOon + 1 = OonPeriod THEN 0 ELSE sinceOon + 1
  /\ oon' = (oon \/ sinceOon + 1 = OonPeriod)
  /\ UNCHANGED <<hostVars, param, target, faults>>

\* Chip c finds a golden nonce of the running job and raises its GN flag.
FindNonce(c) ==
  /\ fifo # <<>>
  /\ gn[c] = NoNonce
  /\ gn' = [gn EXCEPT ![c] = [job |-> Head(fifo), age |-> 0]]
  /\ UNCHANGED <<hostVars, param, target, fifo, sinceOon, oon, faults>>

-----------------------------------------------------------------------------
(* The host.                                                                *)

\* What a transfer of command cmd may return: TRUE when it reaches the chain.
Outcome(cmd) == IF cmd \in Unreliable /\ faults < MaxFaults THEN BOOLEAN ELSE {TRUE}

CountFault(failed) == faults' = IF failed THEN faults + 1 ELSE faults

EndOfIteration == IF isErr THEN "DONE" ELSE "GN"

\* The slot after s.  Two slips, used to test the properties below, and the
\* code: the ring wraps after JOB_ID_NUM_MASK slots.
NextSlotPastEnd(s) == IF s + 1 > RingSize THEN 0 ELSE s + 1
NextSlotShortRing(s) == IF s + 1 >= FifoDepth THEN 0 ELSE s + 1
NextSlot(s) == IF s + 1 >= RingSize THEN 0 ELSE s + 1

\* set_work, then the index arithmetic of its two callers.  The results of
\* WRITE_PARAM and WRITE_TARGET are not looked at; the slot is filled only
\* when RUN_JOB was sent.
SetWork ==
  /\ pc = "QUEUE"
  /\ \E okParam \in Outcome("WRITE_PARAM"), okTarget \in Outcome("WRITE_TARGET"),
        okRun \in Outcome("RUN_JOB") :
       /\ param' = IF okParam THEN index ELSE param
       /\ target' = IF okTarget THEN index ELSE target
       /\ IF okRun
            THEN /\ fifo' = IF Len(fifo) < FifoDepth
                              THEN Append(fifo, [id |-> last_queued_id + 1,
                                                 param |-> param', target |-> target'])
                              ELSE fifo
                 /\ work' = [work EXCEPT ![last_queued_id] = index]
                 /\ last_queued_id' = NextSlot(last_queued_id)
            ELSE UNCHANGED <<fifo, work, last_queued_id>>
       /\ CountFault(~(okParam /\ okTarget /\ okRun))
  /\ index' = IF index + 1 >= NumVectors THEN 0 ELSE index + 1
  /\ toQueue' = toQueue - 1
  /\ pc' = IF toQueue = 1 THEN EndOfIteration ELSE "QUEUE"
  /\ UNCHANGED <<res, isErr, sinceOon, oon, gn>>

\* The GN pin is high: no result to read in this iteration.
CheckGN ==
  /\ pc = "GN"
  /\ \A c \in Chips : gn[c] = NoNonce
  /\ pc' = "OON"
  /\ UNCHANGED <<index, toQueue, work, last_queued_id, res, isErr, chainVars, faults>>

\* The GN pin is low: a broadcast READ_JOB_ID, which chip c answers.  When the
\* transfer fails the local array keeps the bytes of the previous iteration.
ReadJobId(c) ==
  /\ pc = "GN"
  /\ gn[c] # NoNonce
  /\ \E ok \in Outcome("READ_JOB_ID") :
       /\ res' = IF ok THEN [irq |-> TRUE, id |-> gn[c].job.id, chip |-> c] ELSE res
       /\ CountFault(~ok)
  /\ pc' = IF res'.irq THEN "RESULT" ELSE "OON"
  /\ UNCHANGED <<index, toQueue, work, last_queued_id, isErr, chainVars>>

\* The work the host believes the result r of res.chip belongs to has the
\* parameters the chip hashed with.  A chip without a result reports no core.
ValidNonce(r) ==
  \/ r = NoNonce
  \/ work[res.id - 1] = r.job.param /\ work[res.id - 1] = r.job.target

\* handleGN3 and the submission: READ_HASH, then READ_RESULT, which clears the
\* GN flag.  A failed transfer leaves the result for the next iteration.
HandleGN ==
  /\ pc = "RESULT"
  /\ \E okHash \in Outcome("READ_HASH"), okResult \in Outcome("READ_RESULT") :
       /\ IF okHash /\ okResult
            THEN /\ gn' = [gn EXCEPT ![res.chip] = NoNonce]
                 /\ isErr' = ~ValidNonce(gn[res.chip])
            ELSE UNCHANGED <<gn, isErr>>
       /\ CountFault(~(okHash /\ okResult))
  /\ pc' = "OON"
  /\ UNCHANGED <<index, toQueue, work, last_queued_id, res, param, target, fifo, sinceOon, oon>>

\* Plausible slips of the OON branch, used to test the properties below.
CheckOONThreeWorks ==
  /\ pc = "OON"
  /\ IF oon THEN oon' = FALSE /\ toQueue' = 3 /\ pc' = "QUEUE"
            ELSE oon' = oon /\ toQueue' = toQueue /\ pc' = EndOfIteration
  /\ UNCHANGED <<index, work, last_queued_id, res, isErr, param, target, fifo, sinceOon, gn, faults>>

CheckOONOneWork ==
  /\ pc = "OON"
  /\ IF oon THEN oon' = FALSE /\ toQueue' = 1 /\ pc' = "QUEUE"
            ELSE oon' = oon /\ toQueue' = toQueue /\ pc' = EndOfIteration
  /\ UNCHANGED <<index, work, last_queued_id, res, isErr, param, target, fifo, sinceOon, gn, faults>>

\* The OON pin: when it is low the flag is cleared (the result of CLEAR_OON is
\* not looked at) and two works are queued.
CheckOON ==
  /\ pc = "OON"
  /\ \E ok \in Outcome("CLEAR_OON") :
       IF oon
         THEN /\ oon' = ~ok
              /\ toQueue' = 2
              /\ pc' = "QUEUE"
              /\ CountFault(~ok)
         ELSE /\ pc' = EndOfIteration
              /\ UNCHANGED <<oon, toQueue, faults>>
  /\ UNCHANGED <<index, work, last_queued_id, res, isErr, param, target, fifo, sinceOon, gn>>

-----------------------------------------------------------------------------
Host == SetWork \/ CheckGN \/ (\E c \in Chips : ReadJobId(c)) \/ HandleGN \/ CheckOON

Next == Host \/ Exhaust \/ (\E c \in Chips : FindNonce(c))

\* The host thread runs until it leaves the loop, a chain with a job goes on
\* hashing, and a chip with a result is answered for in the end.
Fairness ==
  /\ WF_vars(Host)
  /\ WF_vars(Exhaust)
  /\ \A c \in Chips : SF_vars(ReadJobId(c))

Spec     == Init /\ [][Next]_vars
FairSpec == Spec /\ Fairness

-----------------------------------------------------------------------------
TypeOK ==
  /\ pc \in {"QUEUE", "GN", "RESULT", "OON", "DONE"}
  /\ index \in Vectors
  /\ toQueue \in Nat
  /\ pc = "QUEUE" <=> toQueue > 0
  /\ work \in [Slots -> Vectors \cup {NoVector}]
  /\ last_queued_id \in Slots
  /\ res \in [irq : BOOLEAN, id : JobIds \cup {0}, chip : Chips \cup {0}]
  /\ res.irq => res.id # 0 /\ res.chip # 0
  /\ isErr \in BOOLEAN
  /\ param \in Vectors \cup {NoVector}
  /\ target \in Vectors \cup {NoVector}
  /\ fifo \in Seq(Job)
  /\ sinceOon \in 0 .. OonPeriod - 1
  /\ oon \in BOOLEAN
  /\ gn \in [Chips -> Result \cup {NoNonce}]
  /\ faults \in 0 .. MaxFaults

\* The work slot a job id leads to holds the parameters and target of the job:
\* for every result a chip still holds, and for every result already submitted
\* (a nonce submitted with another job's work is invalid and ends the loop).
NonceBelongsToWork ==
  /\ \A c \in Chips : gn[c] # NoNonce =>
       /\ work[gn[c].job.id - 1] = gn[c].job.param
       /\ work[gn[c].job.id - 1] = gn[c].job.target
  /\ ~isErr

\* A work is never sent to a chain whose FIFO is full, where it would be lost
\* while the host counts it as queued (set_work does not look at the FIFO).
NoWorkDropped ==
  [][last_queued_id' # last_queued_id => Len(fifo) < FifoDepth]_vars

\* As long as no transfer failed the chain never stops hashing: two OONs that
\* fall together cost two works, but the FIFO never runs dry for good.
KeepsMining == [](faults = 0) => []<><<Exhaust>>_vars
=============================================================================
