------------------------------- MODULE NXQueue -------------------------------
(***************************************************************************)
(* The thread-safe queue of engine/NX_Queue.c: a ring of pointers with a    *)
(* mutex.  Any thread may call any operation in any order, the queue is     *)
(* deinitialised at most once.  What the mutex does not cover is apart:     *)
(* NX_GetQueueCnt may read curElements inside a push or a pop, and          *)
(* NX_DeinitQueue destroys the mutex and clears the structure after it gave *)
(* the lock back.  A thread that finds the mutex destroyed goes on without  *)
(* it, as the result of pthread_mutex_lock is not looked at.                *)
(***************************************************************************)
EXTENDS Integers, Sequences

CONSTANTS
  Threads,     \* threads that share the queue
  Elements,    \* pointers that are queued
  MaxElement,  \* NX_MAX_QUEUE_ELEMENT
  Sizes        \* values of maxNumElement

Failed   == -1
Done     == 0
NULL     == 0
NoThread == "nobody"
Idle     == [op |-> "none"]

ASSUME NXQueueAssumption ==
  /\ MaxElement \in Nat /\ Sizes \subseteq Nat
  /\ Elements \cap (Failed .. MaxElement) = {}
  /\ NoThread \notin Threads

Requests == [op : {"push"}, element : Elements] \cup [op : {"pop", "next", "count", "close"}]
Labels   == {"IDLE", "LOCK", "TEST", "RING", "COUNT", "DISABLE", "DESTROY", "CLEAR", "UNLOCK"}

VARIABLES
  q,           \* NX_QUEUE without its mutex
  hMutex,      \* thread that holds the mutex, or NoThread
  mutex,       \* "ready", "destroyed" or, cleared with the structure, "zeroed"
  pc,          \* where each thread is in its call
  call,        \* the call each thread is in
  pElement,    \* where a pop puts the element
  reply        \* what the last call of each thread returned, until its next

vars == <<q, hMutex, mutex, pc, call, pElement, reply>>

Zeroed == [head |-> 0, tail |-> 0, maxElement |-> 0, curElements |-> 0, bEnabled |-> FALSE,
           pElements |-> [k \in 0 .. MaxElement - 1 |-> NULL]]

\* NX_InitQueue: with too many elements the structure stays cleared.
Init ==
  /\ \E maxNumElement \in Sizes :
       q = IF maxNumElement > MaxElement
             THEN Zeroed
             ELSE [Zeroed EXCEPT !.maxElement = maxNumElement, !.bEnabled = TRUE]
  /\ hMutex = NoThread
  /\ mutex = "ready"
  /\ pc = [t \in Threads |-> "IDLE"]
  /\ call = [t \in Threads |-> Idle]
  /\ pElement = [t \in Threads |-> NULL]
  /\ reply = [t \in Threads |-> Failed]

Goto(t, label) == pc' = [pc EXCEPT ![t] = label]
Return(t, value) == reply' = [reply EXCEPT ![t] = value]

Call(t) ==
  /\ pc[t] = "IDLE"
  /\ \E r \in Requests :
       /\ r.op = "close" => mutex = "ready" /\ \A u \in Threads : call[u].op # "close"
       /\ call' = [call EXCEPT ![t] = r]
       /\ Goto(t, IF r.op = "count" THEN "COUNT" ELSE "LOCK")
  /\ Return(t, Failed)
  /\ UNCHANGED <<q, hMutex, mutex, pElement>>

Lock(t) ==
  /\ pc[t] = "LOCK" /\ (hMutex = NoThread \/ mutex = "destroyed")
  /\ hMutex' = IF mutex = "destroyed" THEN hMutex ELSE t
  /\ Goto(t, IF call[t].op = "close" THEN "DISABLE" ELSE "TEST")
  /\ UNCHANGED <<q, mutex, call, pElement, reply>>

\* Plausible slips, used to test the properties below: bEnabled is not tested,
\* an error path keeps the mutex, an index is not wrapped.
RefusedUnlessEnabled(t) ==
  IF call[t].op = "push" THEN q.curElements >= q.maxElement ELSE q.curElements = 0

FailKeepingLock(t) == Goto(t, "IDLE")

MoveUnwrapped(t) ==
  q' = IF call[t].op = "push"
         THEN [q EXCEPT !.pElements[q.tail] = call[t].element, !.tail = q.tail + 1]
         ELSE [q EXCEPT !.head = (q.head + 1) % q.maxElement]

Refused(t) ==
  \/ ~q.bEnabled
  \/ IF call[t].op = "push" THEN q.curElements >= q.maxElement ELSE q.curElements = 0

\* A refused call gives the mutex back too.
Fail(t) == Goto(t, "UNLOCK")

Test(t) ==
  /\ pc[t] = "TEST"
  /\ IF Refused(t) THEN Fail(t) ELSE Goto(t, "RING")
  /\ UNCHANGED <<q, hMutex, mutex, call, pElement, reply>>

\* A push stores its element and moves tail, a pop moves head.
Move(t) ==
  q' = IF call[t].op = "push"
         THEN [q EXCEPT !.pElements[q.tail] = call[t].element, !.tail = (q.tail + 1) % q.maxElement]
         ELSE [q EXCEPT !.head = (q.head + 1) % q.maxElement]

\* NX_GetNextQueuInfo leaves the element where it is.
Ring(t) ==
  /\ pc[t] = "RING"
  /\ IF call[t].op = "next"
       THEN /\ Return(t, q.pElements[q.head]) /\ Goto(t, "UNLOCK")
            /\ UNCHANGED <<q, pElement>>
       ELSE /\ Move(t) /\ Goto(t, "COUNT")
            /\ pElement' = IF call[t].op = "pop" THEN [pElement EXCEPT ![t] = q.pElements[q.head]]
                                                 ELSE pElement
            /\ reply' = reply
  /\ UNCHANGED <<hMutex, mutex, call>>

\* The last statement of a push or a pop, and all of NX_GetQueueCnt.
Count(t) ==
  /\ pc[t] = "COUNT"
  /\ Goto(t, "UNLOCK")
  /\ \/ /\ call[t].op = "push"
        /\ q' = [q EXCEPT !.curElements = q.curElements + 1] /\ Return(t, Done)
     \/ /\ call[t].op = "pop"
        /\ q' = [q EXCEPT !.curElements = q.curElements - 1] /\ Return(t, pElement[t])
     \/ /\ call[t].op = "count"
        /\ q' = q /\ Return(t, q.curElements)
  /\ UNCHANGED <<hMutex, mutex, call, pElement>>

Unlock(t) ==
  /\ pc[t] = "UNLOCK"
  /\ hMutex' = IF hMutex = t THEN NoThread ELSE hMutex
  /\ Goto(t, "IDLE") /\ call' = [call EXCEPT ![t] = Idle]
  /\ pElement' = [pElement EXCEPT ![t] = NULL]
  /\ UNCHANGED <<q, mutex, reply>>

\* NX_DeinitQueue: the lock covers bEnabled only.  A mutex that another thread
\* has taken meanwhile is not destroyed, and zeroed it is free.
Disable(t) ==
  /\ pc[t] = "DISABLE"
  /\ q' = [q EXCEPT !.bEnabled = FALSE]
  /\ hMutex' = IF hMutex = t THEN NoThread ELSE hMutex
  /\ Goto(t, "DESTROY")
  /\ UNCHANGED <<mutex, call, pElement, reply>>

Destroy(t) ==
  /\ pc[t] = "DESTROY"
  /\ mutex' = IF hMutex = NoThread THEN "destroyed" ELSE mutex
  /\ Goto(t, "CLEAR")
  /\ UNCHANGED <<q, hMutex, call, pElement, reply>>

Clear(t) ==
  /\ pc[t] = "CLEAR"
  /\ q' = Zeroed
  /\ hMutex' = NoThread /\ mutex' = "zeroed"
  /\ Return(t, Done) /\ Goto(t, "UNLOCK")
  /\ UNCHANGED <<call, pElement>>

\* A thread inside a call goes on; one that waits for the mutex may wait for
\* ever, as pthread promises no fairness and a cleared mutex wakes nobody.
Step(t) == Test(t) \/ Ring(t) \/ Count(t) \/ Unlock(t) \/ Disable(t) \/ Destroy(t) \/ Clear(t)

Next == \E t \in Threads : Call(t) \/ Lock(t) \/ Step(t)

Spec == Init /\ [][Next]_vars /\ \A t \in Threads : WF_vars(Step(t))

-----------------------------------------------------------------------------
(* Properties.                                                              *)

\* The indices stay in the array, the count under the capacity.
Slots    == 0 .. MaxElement
Pointers == Elements \cup {NULL}

NX_QUEUE == [head : Slots, tail : Slots, maxElement : Slots, curElements : Slots,
             bEnabled : BOOLEAN, pElements : [0 .. MaxElement - 1 -> Pointers]]

TypeOK ==
  /\ q \in NX_QUEUE
  /\ q.curElements <= q.maxElement
  /\ q.maxElement > 0 => q.head < q.maxElement /\ q.tail < q.maxElement
  /\ hMutex \in Threads \cup {NoThread}
  /\ mutex \in {"ready", "destroyed", "zeroed"}
  /\ pc \in [Threads -> Labels]
  /\ call \in [Threads -> Requests \cup {Idle}]
  /\ pElement \in [Threads -> Pointers]
  /\ reply \in [Threads -> Pointers \cup (Failed .. MaxElement)]

\* A pop has moved head but not yet counted its element out.
HalfPopped == \E t \in Threads : pc[t] = "COUNT" /\ call[t].op = "pop"

\* Index of the oldest element, modulo the size of the ring.
Oldest == IF HalfPopped THEN q.head + q.maxElement - 1 ELSE q.head

\* The next n elements of a ring of m slots, from index first on.
Segment(ring, first, n, m) == [k \in 1 .. n |-> ring[(first + k - 1) % m]]

Contents == Segment(q.pElements, Oldest, q.curElements, q.maxElement)

\* A call takes effect with its last access to the ring; giving the mutex
\* back adds nothing.
Pending == [t \in Threads |-> IF pc[t] = "UNLOCK" THEN Idle ELSE call[t]]

Fifo == INSTANCE BoundedFifo WITH
  Sizes   <- Sizes \cup {0},
  size    <- q.maxElement,
  fifo    <- Contents,
  open    <- q.bEnabled,
  request <- Pending

\* The ring is a first-in first-out queue whose calls are atomic, for all
\* interleavings of pushes, pops, looks at the next element, unlocked counts
\* and a deinitialisation: no element is lost, given twice or out of order,
\* no slot is overwritten, and a closed queue gives nothing out.
ImplementsFifo == Fifo!Spec

\* Every thread that gets the mutex gives it back, the refused calls too.
LockReleased == \A t \in Threads : hMutex = t ~> hMutex # t
=============================================================================
