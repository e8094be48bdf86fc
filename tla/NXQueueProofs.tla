---------------------------- MODULE NXQueueProofs ----------------------------
(***************************************************************************)
(* Proofs about NXQueue, for any threads, elements and sizes: its types,    *)
(* and that it implements BoundedFifo.                                      *)
(***************************************************************************)
EXTENDS NXQueue, SequenceTheorems, TLAPS

-----------------------------------------------------------------------------
(* The inductive invariant.                                                 *)

\* The place of a thread says which calls it may be in.
Calls ==
  \A t \in Threads :
    /\ pc[t] = "IDLE" => call[t].op = "none"
    /\ pc[t] = "LOCK" => call[t].op \in {"push", "pop", "next", "close"}
    /\ pc[t] \in {"TEST", "RING"} => call[t].op \in {"push", "pop", "next"}
    /\ pc[t] = "COUNT" => call[t].op \in {"push", "pop", "count"}
    /\ pc[t] \in {"DISABLE", "DESTROY", "CLEAR"} => call[t].op = "close"
    /\ pc[t] \notin {"IDLE", "UNLOCK"} => reply[t] = Failed

\* Between the test and the last statement of a push, a pop or a look.
Moving(t) == pc[t] = "RING" \/ (pc[t] = "COUNT" /\ call[t].op # "count")

\* While the queue is open its mutex works; once it is closed nothing moves.
Exclusion ==
  /\ q.bEnabled => /\ mutex = "ready"
                   /\ \A t \in Threads : Moving(t) \/ pc[t] \in {"TEST", "DISABLE"} => hMutex = t
  /\ ~q.bEnabled => \A t \in Threads : ~Moving(t)
  /\ \A t \in Threads : pc[t] \in {"DESTROY", "CLEAR"} => ~q.bEnabled

\* A push has stored its element but not yet counted it.
HalfPushed == \E t \in Threads : pc[t] = "COUNT" /\ call[t].op = "push"

\* tail is one past the elements, and a thread that moves has room for a push,
\* or an element to take.
RingFits ==
  /\ q.maxElement > 0 =>
       q.tail = (Oldest + q.curElements + (IF HalfPushed THEN 1 ELSE 0)) % q.maxElement
  /\ \A t \in Threads : Moving(t) =>
       IF call[t].op = "push" THEN q.curElements < q.maxElement ELSE q.curElements > 0
  /\ \A t \in Threads : pc[t] = "COUNT" /\ call[t].op = "push" =>
       q.pElements[(Oldest + q.curElements) % q.maxElement] = call[t].element
  /\ \A t \in Threads : pc[t] = "COUNT" /\ call[t].op = "pop" =>
       q.pElements[Oldest % q.maxElement] = pElement[t]

IInv == TypeOK /\ Calls /\ Exclusion /\ RingFits

-----------------------------------------------------------------------------
(* What the assignments to the structure do to its fields.                  *)

LEMMA Opened ==
  ASSUME NEW r \in NX_QUEUE, NEW m \in Slots
  PROVE  LET s == [r EXCEPT !.maxElement = m, !.bEnabled = TRUE]
         IN  /\ s \in NX_QUEUE
             /\ s.head = r.head /\ s.tail = r.tail /\ s.curElements = r.curElements
  BY DEF NX_QUEUE

LEMMA Stored ==
  ASSUME NEW r \in NX_QUEUE, NEW k \in 0 .. MaxElement - 1, NEW e \in Pointers, NEW m \in Slots
  PROVE  LET s == [r EXCEPT !.pElements[k] = e, !.tail = m]
         IN  /\ s \in NX_QUEUE
             /\ s.head = r.head /\ s.tail = m /\ s.curElements = r.curElements
             /\ s.maxElement = r.maxElement /\ s.bEnabled = r.bEnabled
             /\ \A j \in 0 .. MaxElement - 1 : s.pElements[j] = IF j = k THEN e ELSE r.pElements[j]
  BY DEF NX_QUEUE

LEMMA HeadMoved ==
  ASSUME NEW r \in NX_QUEUE, NEW m \in Slots
  PROVE  LET s == [r EXCEPT !.head = m]
         IN  /\ s \in NX_QUEUE
             /\ s.head = m /\ s.tail = r.tail /\ s.curElements = r.curElements
             /\ s.maxElement = r.maxElement /\ s.bEnabled = r.bEnabled /\ s.pElements = r.pElements
  BY DEF NX_QUEUE

LEMMA Counted ==
  ASSUME NEW r \in NX_QUEUE, NEW n \in Slots
  PROVE  LET s == [r EXCEPT !.curElements = n]
         IN  /\ s \in NX_QUEUE
             /\ s.head = r.head /\ s.tail = r.tail /\ s.curElements = n
             /\ s.maxElement = r.maxElement /\ s.bEnabled = r.bEnabled /\ s.pElements = r.pElements
  BY DEF NX_QUEUE

LEMMA Disabled ==
  ASSUME NEW r \in NX_QUEUE
  PROVE  LET s == [r EXCEPT !.bEnabled = FALSE]
         IN  /\ s \in NX_QUEUE
             /\ s.head = r.head /\ s.tail = r.tail /\ s.curElements = r.curElements
             /\ s.maxElement = r.maxElement /\ ~s.bEnabled /\ s.pElements = r.pElements
  BY DEF NX_QUEUE

LEMMA Cleared ==
  /\ Zeroed \in NX_QUEUE
  /\ Zeroed.head = 0 /\ Zeroed.tail = 0 /\ Zeroed.curElements = 0
  /\ Zeroed.maxElement = 0 /\ ~Zeroed.bEnabled
  BY NXQueueAssumption DEF Zeroed, NX_QUEUE, Slots, Pointers, NULL

-----------------------------------------------------------------------------
(* Facts about calls, and about who may move.                               *)

LEMMA RequestShape ==
  ASSUME NEW r \in Requests \cup {Idle}
  PROVE  /\ r = Idle <=> r.op = "none"
         /\ r.op = "push" => r.element \in Elements
  BY DEF Requests, Idle

LEMMA Alone ==
  ASSUME IInv, NEW t \in Threads, Moving(t)
  PROVE  /\ q.bEnabled /\ q.maxElement > 0 /\ hMutex = t /\ mutex = "ready"
         /\ \A u \in Threads : Moving(u) \/ pc[u] \in {"TEST", "DISABLE"} => u = t
         /\ \A u \in Threads : pc[u] \notin {"DESTROY", "CLEAR"}
  <1>1. q.bEnabled
    BY DEF IInv, Exclusion
  <1>2. q.maxElement > 0
    BY NXQueueAssumption DEF IInv, RingFits, TypeOK, NX_QUEUE, Slots
  <1>3. QED
    BY <1>1, <1>2 DEF IInv, Exclusion

LEMMA AtRing ==
  ASSUME IInv, NEW t \in Threads, pc[t] = "RING"
  PROVE  ~HalfPopped /\ ~HalfPushed /\ Oldest = q.head
  BY Alone DEF Moving, HalfPopped, HalfPushed, Oldest, IInv, TypeOK

LEMMA AtCount ==
  ASSUME IInv, NEW t \in Threads, pc[t] = "COUNT"
  PROVE  /\ call[t].op = "push" => ~HalfPopped /\ HalfPushed /\ Oldest = q.head
         /\ call[t].op = "pop" => HalfPopped /\ ~HalfPushed /\ Oldest = q.head + q.maxElement - 1
  <1>1. \A u \in Threads : pc[u] = "COUNT" /\ call[u].op # "count" /\ call[t].op # "count" => u = t
    BY Alone DEF Moving
  <1>2. QED
    BY <1>1 DEF HalfPopped, HalfPushed, Oldest

-----------------------------------------------------------------------------
(* The invariant is inductive.                                              *)

LEMMA InitInv == Init => IInv
  <1> SUFFICES ASSUME Init PROVE IInv
    OBVIOUS
  <1>1. /\ hMutex = NoThread /\ mutex = "ready"
        /\ pc = [t \in Threads |-> "IDLE"] /\ call = [t \in Threads |-> Idle]
        /\ pElement = [t \in Threads |-> NULL] /\ reply = [t \in Threads |-> Failed]
    BY DEF Init
  <1>2. /\ q \in NX_QUEUE
        /\ q.head = 0 /\ q.tail = 0 /\ q.curElements = 0
    <2>1. PICK m \in Sizes : q = IF m > MaxElement THEN Zeroed
                                 ELSE [Zeroed EXCEPT !.maxElement = m, !.bEnabled = TRUE]
      BY DEF Init
    <2>2. CASE m > MaxElement
      BY <2>1, <2>2, Cleared
    <2>3. CASE ~(m > MaxElement)
      <3>1. m \in Slots
        BY <2>3, NXQueueAssumption DEF Slots
      <3>2. q = [Zeroed EXCEPT !.maxElement = m, !.bEnabled = TRUE]
        BY <2>1, <2>3
      <3>3. QED
        BY <3>1, <3>2, Cleared, Opened, Zenon
    <2>4. QED
      BY <2>2, <2>3
  <1>3. TypeOK
    <2>1. pElement \in [Threads -> Pointers] /\ reply \in [Threads -> Pointers \cup Failed .. MaxElement]
      BY <1>1, NXQueueAssumption DEF Pointers, Failed
    <2>2. q.curElements <= q.maxElement /\ (q.maxElement > 0 => q.head < q.maxElement /\ q.tail < q.maxElement)
      BY <1>2 DEF NX_QUEUE, Slots
    <2>3. QED
      BY <1>1, <1>2, <2>1, <2>2 DEF TypeOK, Labels
  <1>4. Calls /\ Exclusion
    BY <1>1 DEF Calls, Exclusion, Moving, Idle
  <1>5. ~HalfPopped /\ ~HalfPushed /\ \A t \in Threads : ~Moving(t)
    BY <1>1 DEF HalfPopped, HalfPushed, Moving
  <1>6. RingFits
    BY <1>1, <1>2, <1>5 DEF RingFits, Oldest, NX_QUEUE, Slots
  <1>7. QED
    BY <1>3, <1>4, <1>6 DEF IInv

\* A step of a thread that leaves the queue alone, and neither was moving
\* nor has come to a count, leaves the ring as it was.
LEMMA RingUnchanged ==
  ASSUME IInv, NEW t \in Threads, q' = q,
         \A u \in Threads \ {t} : pc'[u] = pc[u] /\ call'[u] = call[u] /\ pElement'[u] = pElement[u],
         ~Moving(t),
         pc'[t] = "COUNT" => call'[t].op = "count",
         pc'[t] = "RING" => IF call'[t].op = "push" THEN q.curElements < q.maxElement
                                                    ELSE q.curElements > 0
  PROVE  RingFits' /\ Contents' = Contents
  <1>1. \A u \in Threads : /\ pc'[u] = "COUNT" /\ call'[u].op # "count" <=> pc[u] = "COUNT" /\ call[u].op # "count"
                           /\ pc[u] = "COUNT" /\ call[u].op # "count" =>
                                u # t /\ call'[u] = call[u] /\ pElement'[u] = pElement[u]
    BY DEF Moving
  <1>2. (HalfPopped' <=> HalfPopped) /\ (HalfPushed' <=> HalfPushed)
    BY <1>1 DEF HalfPopped, HalfPushed
  <1>3. Oldest' = Oldest
    BY <1>2 DEF Oldest
  <1>4. \A u \in Threads \ {t} : Moving(u)' <=> Moving(u)
    BY DEF Moving
  <1>5. \A u \in Threads : Moving(u)' =>
          IF call'[u].op = "push" THEN q.curElements < q.maxElement ELSE q.curElements > 0
    <2>1. Moving(t)' => pc'[t] = "RING"
      BY DEF Moving
    <2>2. QED
      BY <1>4, <2>1 DEF IInv, RingFits
  <1>6. RingFits'
    BY <1>1, <1>2, <1>3, <1>5 DEF IInv, RingFits
  <1>7. Contents' = Contents
    BY <1>3 DEF Contents, Segment
  <1>8. QED
    BY <1>6, <1>7

\* The calls of the other threads are as they were.
LEMMA CallsOfOthers ==
  ASSUME IInv, NEW t \in Threads,
         \A u \in Threads \ {t} : pc'[u] = pc[u] /\ call'[u] = call[u] /\ reply'[u] = reply[u],
         pc'[t] = "IDLE" => call'[t].op = "none",
         pc'[t] = "LOCK" => call'[t].op \in {"push", "pop", "next", "close"},
         pc'[t] \in {"TEST", "RING"} => call'[t].op \in {"push", "pop", "next"},
         pc'[t] = "COUNT" => call'[t].op \in {"push", "pop", "count"},
         pc'[t] \in {"DISABLE", "DESTROY", "CLEAR"} => call'[t].op = "close",
         pc'[t] \notin {"IDLE", "UNLOCK"} => reply'[t] = Failed
  PROVE  Calls'
  BY DEF IInv, Calls

LEMMA CallInv == ASSUME IInv, NEW t \in Threads, Call(t) PROVE IInv'
  <1>1. PICK r \in Requests :
          /\ r.op = "close" => mutex = "ready" /\ \A u \in Threads : call[u].op # "close"
          /\ call' = [call EXCEPT ![t] = r]
          /\ pc' = [pc EXCEPT ![t] = IF r.op = "count" THEN "COUNT" ELSE "LOCK"]
    BY DEF Call, Goto
  <1>2. /\ r.op \in {"push", "pop", "next", "count", "close"}
        /\ pc[t] = "IDLE" /\ reply' = [reply EXCEPT ![t] = Failed]
        /\ UNCHANGED <<q, hMutex, mutex, pElement>>
    BY DEF Call, Return, Requests
  <1>3. TypeOK'
    BY <1>1, <1>2, NXQueueAssumption DEF IInv, TypeOK, Labels, Failed
  <1>4. Calls'
    BY <1>1, <1>2, CallsOfOthers DEF IInv, TypeOK
  <1>5. Exclusion'
    BY <1>1, <1>2 DEF IInv, TypeOK, Exclusion, Moving
  <1>6. RingFits'
    BY <1>1, <1>2, RingUnchanged DEF IInv, TypeOK, Moving
  <1>7. QED
    BY <1>3, <1>4, <1>5, <1>6 DEF IInv

LEMMA LockInv == ASSUME IInv, NEW t \in Threads, Lock(t) PROVE IInv'
  <1>1. /\ pc[t] = "LOCK" /\ call[t].op \in {"push", "pop", "next", "close"} /\ reply[t] = Failed
        /\ hMutex' = IF mutex = "destroyed" THEN hMutex ELSE t
        /\ pc' = [pc EXCEPT ![t] = IF call[t].op = "close" THEN "DISABLE" ELSE "TEST"]
        /\ UNCHANGED <<q, mutex, call, pElement, reply>>
    BY DEF Lock, Goto, IInv, Calls
  <1>2. TypeOK'
    BY <1>1 DEF IInv, TypeOK, Labels
  <1>3. Calls'
    BY <1>1, CallsOfOthers DEF IInv, TypeOK
  <1>4. Exclusion'
    <2>1. q.bEnabled => hMutex = NoThread /\ mutex = "ready"
      BY DEF Lock, IInv, Exclusion
    <2>2. q.bEnabled => \A u \in Threads : ~(Moving(u) \/ pc[u] \in {"TEST", "DISABLE"})
      BY <2>1, NXQueueAssumption DEF IInv, Exclusion
    <2>3. QED
      BY <1>1, <2>1, <2>2 DEF IInv, TypeOK, Exclusion, Moving
  <1>5. RingFits'
    BY <1>1, RingUnchanged DEF IInv, TypeOK, Moving
  <1>6. QED
    BY <1>2, <1>3, <1>4, <1>5 DEF IInv

LEMMA TestInv == ASSUME IInv, NEW t \in Threads, Test(t) PROVE IInv'
  <1>1. /\ pc[t] = "TEST" /\ call[t].op \in {"push", "pop", "next"} /\ reply[t] = Failed
        /\ pc' = [pc EXCEPT ![t] = IF Refused(t) THEN "UNLOCK" ELSE "RING"]
        /\ UNCHANGED <<q, hMutex, mutex, call, pElement, reply>>
    BY DEF Test, Fail, Goto, IInv, Calls
  <1>2. TypeOK'
    BY <1>1 DEF IInv, TypeOK, Labels
  <1>3. Calls'
    BY <1>1, CallsOfOthers DEF IInv, TypeOK
  <1>4. Exclusion'
    BY <1>1 DEF IInv, TypeOK, Exclusion, Moving, Refused
  <1>5. ~Refused(t) => IF call[t].op = "push" THEN q.curElements < q.maxElement
                                              ELSE q.curElements > 0
    BY NXQueueAssumption DEF Refused, IInv, TypeOK, NX_QUEUE, Slots
  <1>6. RingFits'
    BY <1>1, <1>5, RingUnchanged DEF IInv, TypeOK, Moving
  <1>7. QED
    BY <1>2, <1>3, <1>4, <1>6 DEF IInv

LEMMA UnlockInv == ASSUME IInv, NEW t \in Threads, Unlock(t) PROVE IInv'
  <1>1. /\ pc[t] = "UNLOCK"
        /\ hMutex' = IF hMutex = t THEN NoThread ELSE hMutex
        /\ pc' = [pc EXCEPT ![t] = "IDLE"] /\ call' = [call EXCEPT ![t] = Idle]
        /\ pElement' = [pElement EXCEPT ![t] = NULL]
        /\ UNCHANGED <<q, mutex, reply>>
    BY DEF Unlock, Goto
  <1>2. TypeOK'
    BY <1>1 DEF IInv, TypeOK, Labels, Pointers
  <1>3. Calls'
    BY <1>1, CallsOfOthers DEF IInv, TypeOK, Idle
  <1>4. Exclusion'
    BY <1>1 DEF IInv, TypeOK, Exclusion, Moving
  <1>5. RingFits'
    BY <1>1, RingUnchanged DEF IInv, TypeOK, Moving
  <1>6. QED
    BY <1>2, <1>3, <1>4, <1>5 DEF IInv

LEMMA DestroyInv == ASSUME IInv, NEW t \in Threads, Destroy(t) PROVE IInv'
  <1>1. /\ pc[t] = "DESTROY" /\ call[t].op = "close" /\ reply[t] = Failed /\ ~q.bEnabled
        /\ mutex' = IF hMutex = NoThread THEN "destroyed" ELSE mutex
        /\ pc' = [pc EXCEPT ![t] = "CLEAR"]
        /\ UNCHANGED <<q, hMutex, call, pElement, reply>>
    BY DEF Destroy, Goto, IInv, Calls, Exclusion
  <1>2. TypeOK'
    BY <1>1 DEF IInv, TypeOK, Labels
  <1>3. Calls'
    BY <1>1, CallsOfOthers DEF IInv, TypeOK
  <1>4. Exclusion'
    BY <1>1 DEF IInv, TypeOK, Exclusion, Moving
  <1>5. RingFits'
    BY <1>1, RingUnchanged DEF IInv, TypeOK, Moving
  <1>6. QED
    BY <1>2, <1>3, <1>4, <1>5 DEF IInv

\* Nothing moves after the step, and tail is one past the elements.
LEMMA AtRest ==
  ASSUME \A u \in Threads : ~Moving(u)',
         q'.maxElement > 0 => q'.tail = (q'.head + q'.curElements) % q'.maxElement,
         q' \in NX_QUEUE
  PROVE  RingFits' /\ Oldest' = q'.head
  <1>1. \A u \in Threads : ~(pc'[u] = "COUNT" /\ call'[u].op # "count")
    BY DEF Moving
  <1>2. ~HalfPopped' /\ ~HalfPushed' /\ Oldest' = q'.head
    BY <1>1 DEF HalfPopped, HalfPushed, Oldest
  <1>3. q'.head \in Int /\ q'.curElements \in Int
    BY NXQueueAssumption DEF NX_QUEUE, Slots
  <1>4. QED
    BY <1>1, <1>2, <1>3 DEF RingFits

\* When nothing moves, it is so before the step.
LEMMA WasAtRest ==
  ASSUME IInv, \A u \in Threads : ~Moving(u)
  PROVE  /\ q.maxElement > 0 => q.tail = (q.head + q.curElements) % q.maxElement
         /\ Oldest = q.head /\ ~HalfPopped
  <1>1. ~HalfPopped /\ ~HalfPushed
    BY DEF HalfPopped, HalfPushed, Moving
  <1>2. Oldest = q.head
    BY <1>1 DEF Oldest
  <1>3. q.head \in Int /\ q.curElements \in Int
    BY NXQueueAssumption DEF IInv, TypeOK, NX_QUEUE, Slots
  <1>4. QED
    BY <1>1, <1>2, <1>3 DEF IInv, RingFits

LEMMA DisableStep ==
  ASSUME IInv, NEW t \in Threads, Disable(t)
  PROVE  /\ pc[t] = "DISABLE" /\ call[t].op = "close" /\ reply[t] = Failed
         /\ \A u \in Threads : ~Moving(u) /\ ~Moving(u)'
         /\ q' \in NX_QUEUE /\ q'.head = q.head /\ q'.tail = q.tail /\ q'.curElements = q.curElements
         /\ q'.maxElement = q.maxElement /\ ~q'.bEnabled /\ q'.pElements = q.pElements
         /\ hMutex' = IF hMutex = t THEN NoThread ELSE hMutex
         /\ pc' = [pc EXCEPT ![t] = "DESTROY"]
         /\ UNCHANGED <<mutex, call, pElement, reply>>
  <1>1. /\ pc[t] = "DISABLE" /\ call[t].op = "close" /\ reply[t] = Failed
        /\ q' = [q EXCEPT !.bEnabled = FALSE]
        /\ hMutex' = IF hMutex = t THEN NoThread ELSE hMutex
        /\ pc' = [pc EXCEPT ![t] = "DESTROY"]
        /\ UNCHANGED <<mutex, call, pElement, reply>>
    BY DEF Disable, Goto, IInv, Calls
  <1>2. \A u \in Threads : ~Moving(u)
    <2>1. ASSUME NEW u \in Threads, Moving(u) PROVE FALSE
      <3>1. u = t
        BY <1>1, <2>1, Alone
      <3>2. QED
        BY <1>1, <2>1, <3>1 DEF Moving
    <2>2. QED
      BY <2>1
  <1>3. \A u \in Threads : ~Moving(u)'
    BY <1>1, <1>2 DEF IInv, TypeOK, Moving
  <1>4. q \in NX_QUEUE
    BY DEF IInv, TypeOK
  <1>5. QED
    BY <1>1, <1>2, <1>3, <1>4, Disabled, Zenon

LEMMA DisableInv == ASSUME IInv, NEW t \in Threads, Disable(t) PROVE IInv'
  <1>1. TypeOK'
    BY DisableStep DEF IInv, TypeOK, Labels
  <1>2. Calls'
    BY DisableStep, CallsOfOthers DEF IInv, TypeOK
  <1>3. Exclusion'
    BY DisableStep DEF IInv, TypeOK, Exclusion
  <1>4. RingFits'
    BY DisableStep, WasAtRest, AtRest
  <1>5. QED
    BY <1>1, <1>2, <1>3, <1>4 DEF IInv

LEMMA ClearStep ==
  ASSUME IInv, NEW t \in Threads, Clear(t)
  PROVE  /\ pc[t] = "CLEAR" /\ call[t].op = "close" /\ reply[t] = Failed
         /\ \A u \in Threads : ~Moving(u) /\ ~Moving(u)'
         /\ ~q.bEnabled /\ q' = Zeroed
         /\ hMutex' = NoThread /\ mutex' = "zeroed"
         /\ reply' = [reply EXCEPT ![t] = Done]
         /\ pc' = [pc EXCEPT ![t] = "UNLOCK"]
         /\ UNCHANGED <<call, pElement>>
  <1>1. /\ pc[t] = "CLEAR" /\ call[t].op = "close" /\ reply[t] = Failed /\ ~q.bEnabled
        /\ q' = Zeroed /\ hMutex' = NoThread /\ mutex' = "zeroed"
        /\ reply' = [reply EXCEPT ![t] = Done]
        /\ pc' = [pc EXCEPT ![t] = "UNLOCK"]
        /\ UNCHANGED <<call, pElement>>
    BY DEF Clear, Goto, Return, IInv, Calls, Exclusion
  <1>2. \A u \in Threads : ~Moving(u) /\ ~Moving(u)'
    BY <1>1 DEF IInv, TypeOK, Exclusion, Moving
  <1>3. QED
    BY <1>1, <1>2

LEMMA ClearInv == ASSUME IInv, NEW t \in Threads, Clear(t) PROVE IInv'
  <1>1. TypeOK'
    <2>1. reply' \in [Threads -> Pointers \cup Failed .. MaxElement]
      BY ClearStep, NXQueueAssumption DEF IInv, TypeOK, Done, Failed
    <2>2. q' \in NX_QUEUE /\ q'.curElements <= q'.maxElement /\ ~(q'.maxElement > 0)
      BY ClearStep, Cleared
    <2>3. QED
      BY ClearStep, <2>1, <2>2 DEF IInv, TypeOK, Labels
  <1>2. Calls'
    BY ClearStep, CallsOfOthers DEF IInv, TypeOK
  <1>3. Exclusion'
    BY ClearStep, Cleared DEF IInv, TypeOK, Exclusion
  <1>4. RingFits'
    BY ClearStep, Cleared, AtRest
  <1>5. QED
    BY <1>1, <1>2, <1>3, <1>4 DEF IInv

\* Indices modulo the size of the ring.
LEMMA OneOn ==
  ASSUME NEW m \in Nat, m > 0, NEW h \in 0 .. m - 1, NEW n \in 0 .. m
  PROVE  /\ (h + 1) % m \in 0 .. m - 1
         /\ (((h + 1) % m) + m - 1) % m = h
         /\ (((h + 1) % m) + m - 1 + n) % m = (h + n) % m
         /\ (h + n) % m \in 0 .. m - 1
         /\ (((h + n) % m) + 1) % m = (h + n + 1) % m
         /\ (h + n + m) % m = (h + n) % m
  OBVIOUS

LEMMA OtherSlot ==
  ASSUME NEW m \in Nat, m > 0, NEW h \in 0 .. m - 1, NEW n \in 0 .. m - 1, NEW k \in 1 .. n
  PROVE  (h + k - 1) % m \in 0 .. m - 1 /\ (h + k - 1) % m # (h + n) % m
  OBVIOUS

\* What a thread at the ring knows.
LEMMA RingStep ==
  ASSUME IInv, NEW t \in Threads, Ring(t)
  PROVE  /\ pc[t] = "RING" /\ call[t].op \in {"push", "pop", "next"} /\ reply[t] = Failed
         /\ Moving(t) /\ \A u \in Threads \ {t} : ~Moving(u) /\ ~Moving(u)'
         /\ ~HalfPopped /\ ~HalfPushed /\ Oldest = q.head
         /\ q \in NX_QUEUE /\ q.bEnabled /\ q.maxElement > 0
         /\ q.head \in 0 .. q.maxElement - 1 /\ q.tail \in 0 .. q.maxElement - 1
         /\ q.curElements \in 0 .. q.maxElement /\ q.maxElement \in 1 .. MaxElement
         /\ q.tail = (q.head + q.curElements) % q.maxElement
         /\ IF call[t].op = "push" THEN q.curElements < q.maxElement ELSE q.curElements > 0
         /\ UNCHANGED <<hMutex, mutex, call>>
         /\ pc' = [pc EXCEPT ![t] = IF call[t].op = "next" THEN "UNLOCK" ELSE "COUNT"]
  <1>1. /\ pc[t] = "RING" /\ call[t].op \in {"push", "pop", "next"} /\ reply[t] = Failed
        /\ UNCHANGED <<hMutex, mutex, call>>
        /\ pc' = [pc EXCEPT ![t] = IF call[t].op = "next" THEN "UNLOCK" ELSE "COUNT"]
    BY DEF Ring, Goto, IInv, Calls
  <1>2. Moving(t)
    BY <1>1 DEF Moving
  <1>3. \A u \in Threads \ {t} : ~Moving(u) /\ ~Moving(u)'
    BY <1>1, <1>2, Alone DEF IInv, TypeOK, Moving
  <1>4. ~HalfPopped /\ ~HalfPushed /\ Oldest = q.head
    BY <1>1, AtRing
  <1>5. q.bEnabled /\ q.maxElement > 0
    BY <1>2, Alone
  <1>6. /\ q \in NX_QUEUE
        /\ q.head \in 0 .. q.maxElement - 1 /\ q.tail \in 0 .. q.maxElement - 1
        /\ q.curElements \in 0 .. q.maxElement /\ q.maxElement \in 1 .. MaxElement
    BY <1>5, NXQueueAssumption DEF IInv, TypeOK, NX_QUEUE, Slots
  <1>7. q.tail = (q.head + q.curElements) % q.maxElement
    BY <1>4, <1>5, <1>6 DEF IInv, RingFits
  <1>8. IF call[t].op = "push" THEN q.curElements < q.maxElement ELSE q.curElements > 0
    BY <1>2 DEF IInv, RingFits
  <1>9. QED
    BY <1>1, <1>2, <1>3, <1>4, <1>5, <1>6, <1>7, <1>8

\* A push stores its element at tail.
LEMMA RingPush ==
  ASSUME IInv, NEW t \in Threads, Ring(t), call[t].op = "push"
  PROVE  /\ pElement' = pElement /\ reply' = reply
         /\ q' \in NX_QUEUE
         /\ q'.head = q.head /\ q'.tail = (q.tail + 1) % q.maxElement
         /\ q'.curElements = q.curElements
         /\ q'.maxElement = q.maxElement /\ q'.bEnabled = q.bEnabled
         /\ \A j \in 0 .. MaxElement - 1 :
              q'.pElements[j] = IF j = q.tail THEN call[t].element ELSE q.pElements[j]
  <1> DEFINE m == (q.tail + 1) % q.maxElement
  <1>b. /\ q \in NX_QUEUE /\ q.maxElement > 0 /\ q.tail \in 0 .. q.maxElement - 1
        /\ q.maxElement \in 1 .. MaxElement /\ q.tail \in 0 .. MaxElement - 1
    BY RingStep, NXQueueAssumption
  <1>1. /\ q' = [q EXCEPT !.pElements[q.tail] = call[t].element, !.tail = m]
        /\ pElement' = pElement /\ reply' = reply
    BY DEF Ring, Move
  <1>2. m \in Slots
    <2>1. m \in 0 .. q.maxElement - 1
      BY <1>b
    <2>2. QED
      BY <1>b, <2>1, NXQueueAssumption DEF Slots
  <1>3. call[t].element \in Pointers
    BY RequestShape DEF IInv, TypeOK, Pointers
  <1> HIDE DEF m
  <1>4. \A e \in Pointers, k \in Slots :
          LET s == [q EXCEPT !.pElements[q.tail] = e, !.tail = k]
          IN  /\ s \in NX_QUEUE
              /\ s.head = q.head /\ s.tail = k /\ s.curElements = q.curElements
              /\ s.maxElement = q.maxElement /\ s.bEnabled = q.bEnabled
              /\ \A j \in 0 .. MaxElement - 1 :
                   s.pElements[j] = IF j = q.tail THEN e ELSE q.pElements[j]
    BY <1>b, Stored, Zenon
  <1>5. /\ q' \in NX_QUEUE
        /\ q'.head = q.head /\ q'.tail = m /\ q'.curElements = q.curElements
        /\ q'.maxElement = q.maxElement /\ q'.bEnabled = q.bEnabled
        /\ \A j \in 0 .. MaxElement - 1 :
             q'.pElements[j] = IF j = q.tail THEN call[t].element ELSE q.pElements[j]
    BY <1>1, <1>2, <1>3, <1>4, Zenon
  <1>6. QED
    BY <1>1, <1>5 DEF m

LEMMA RingInv == ASSUME IInv, NEW t \in Threads, Ring(t) PROVE IInv'
  <1>a. /\ pc[t] = "RING" /\ call[t].op \in {"push", "pop", "next"} /\ reply[t] = Failed
        /\ Moving(t) /\ \A u \in Threads \ {t} : ~Moving(u) /\ ~Moving(u)'
        /\ UNCHANGED <<hMutex, mutex, call>>
        /\ pc' = [pc EXCEPT ![t] = IF call[t].op = "next" THEN "UNLOCK" ELSE "COUNT"]
    BY RingStep
  <1>b. /\ q \in NX_QUEUE /\ q.bEnabled /\ q.maxElement > 0 /\ q.maxElement \in Nat
        /\ q.head \in 0 .. q.maxElement - 1 /\ q.tail \in 0 .. q.maxElement - 1
        /\ q.curElements \in 0 .. q.maxElement /\ q.maxElement \in 1 .. MaxElement
        /\ q.head \in 0 .. MaxElement - 1 /\ q.tail \in 0 .. MaxElement - 1
    BY RingStep, NXQueueAssumption
  <1>c. /\ q.tail = (q.head + q.curElements) % q.maxElement
        /\ IF call[t].op = "push" THEN q.curElements < q.maxElement ELSE q.curElements > 0
    BY RingStep
  <1>d. q.pElements[q.head] \in Pointers
    BY <1>b DEF NX_QUEUE
  <1>e. /\ (q.head + 1) % q.maxElement \in 0 .. q.maxElement - 1
        /\ (((q.head + 1) % q.maxElement) + q.maxElement - 1) % q.maxElement = q.head
        /\ (((q.head + 1) % q.maxElement) + q.maxElement - 1 + q.curElements) % q.maxElement
              = (q.head + q.curElements) % q.maxElement
        /\ (q.tail + 1) % q.maxElement \in 0 .. q.maxElement - 1
        /\ (q.tail + 1) % q.maxElement = (q.head + q.curElements + 1) % q.maxElement
    <2>1. /\ (q.head + 1) % q.maxElement \in 0 .. q.maxElement - 1
          /\ (((q.head + 1) % q.maxElement) + q.maxElement - 1) % q.maxElement = q.head
          /\ (((q.head + 1) % q.maxElement) + q.maxElement - 1 + q.curElements) % q.maxElement
                = (q.head + q.curElements) % q.maxElement
          /\ (((q.head + q.curElements) % q.maxElement) + 1) % q.maxElement
                = (q.head + q.curElements + 1) % q.maxElement
      BY <1>b, OneOn, Zenon
    <2>2. (q.tail + 1) % q.maxElement \in 0 .. q.maxElement - 1
      BY <1>b, OneOn, Zenon
    <2>3. QED
      BY <1>c, <2>1, <2>2, Zenon
  <1>1. Calls' /\ (UNCHANGED reply => Calls')
    <2>1. call[t].op # "next" => reply' = reply
      BY DEF Ring
    <2>2. \A u \in Threads \ {t} : reply'[u] = reply[u]
      BY DEF Ring, Return, IInv, TypeOK
    <2>3. QED
      BY <1>a, <1>b, <1>c, <2>1, <2>2, CallsOfOthers DEF IInv, TypeOK
  <1>2. CASE call[t].op = "next"
    <2>1. q' = q /\ pElement' = pElement /\ reply' = [reply EXCEPT ![t] = q.pElements[q.head]]
      BY <1>2 DEF Ring, Return
    <2>3. TypeOK'
      BY <2>1, <1>d, <1>a, <1>b, <1>c DEF IInv, TypeOK, Labels
    <2>4. Exclusion'
      BY <1>2, <2>1, <1>a, <1>b, <1>c DEF IInv, TypeOK, Exclusion, Moving
    <2>5. \A u \in Threads : ~Moving(u)'
      BY <1>2, <1>a, <1>b, <1>c DEF IInv, TypeOK, Moving
    <2>6. RingFits'
      BY <2>1, <2>5, <1>a, <1>b, <1>c, AtRest
    <2>7. QED
      BY <1>1, <2>3, <2>4, <2>6 DEF IInv
  <1>3. CASE call[t].op = "push"
    <2> DEFINE m == (q.tail + 1) % q.maxElement
    <2>1. pElement' = pElement /\ reply' = reply
      BY <1>3, RingPush
    <2>2. m \in 0 .. q.maxElement - 1
      BY <1>e
    <2>4. /\ q' \in NX_QUEUE
          /\ q'.head = q.head /\ q'.tail = m /\ q'.curElements = q.curElements
          /\ q'.maxElement = q.maxElement /\ q'.bEnabled = q.bEnabled
          /\ \A j \in 0 .. MaxElement - 1 :
               q'.pElements[j] = IF j = q.tail THEN call[t].element ELSE q.pElements[j]
      BY <1>3, RingPush
    <2> HIDE DEF m
    <2>5. TypeOK'
      BY <2>1, <2>2, <2>4, <1>a, <1>b, <1>c DEF IInv, TypeOK, Labels
    <2>6. Exclusion'
      BY <1>3, <2>4, <1>a, <1>b, <1>c DEF IInv, TypeOK, Exclusion, Moving
    <2>7. pc'[t] = "COUNT" /\ call'[t] = call[t] /\ \A u \in Threads \ {t} : ~Moving(u)'
      BY <1>3, <1>a, <1>b, <1>c DEF IInv, TypeOK
    <2>8. HalfPushed' /\ ~HalfPopped' /\ Oldest' = q.head
      BY <1>3, <2>4, <2>7 DEF HalfPushed, HalfPopped, Oldest, Moving
    <2>9. m = (q.head + q.curElements + 1) % q.maxElement
      BY <1>e DEF m
    <2>10. RingFits'
      BY <1>3, <2>4, <2>7, <2>8, <2>9, <1>a, <1>b, <1>c DEF RingFits, Moving
    <2>11. QED
      BY <1>1, <2>5, <2>6, <2>10 DEF IInv
  <1>4. CASE call[t].op = "pop"
    <2> DEFINE m == (q.head + 1) % q.maxElement
    <2>1. /\ q' = [q EXCEPT !.head = m]
          /\ pElement' = [pElement EXCEPT ![t] = q.pElements[q.head]] /\ reply' = reply
      BY <1>4 DEF Ring, Move
    <2>2. m \in 0 .. q.maxElement - 1 /\ m \in Slots
      <3>1. m \in 0 .. q.maxElement - 1
        BY <1>e
      <3>2. QED
        BY <1>b, <3>1, NXQueueAssumption DEF Slots
    <2>3. (m + q.maxElement - 1) % q.maxElement = q.head
      BY <1>e
    <2>4. (m + q.maxElement - 1 + q.curElements) % q.maxElement = (q.head + q.curElements) % q.maxElement
      BY <1>e
    <2> HIDE DEF m
    <2>5. /\ q' \in NX_QUEUE
          /\ q'.head = m /\ q'.tail = q.tail /\ q'.curElements = q.curElements
          /\ q'.maxElement = q.maxElement /\ q'.bEnabled = q.bEnabled /\ q'.pElements = q.pElements
      BY <2>1, <2>2, <1>b, HeadMoved, Zenon
    <2>7. TypeOK'
      BY <2>1, <2>2, <2>5, <1>d, <1>a, <1>b, <1>c DEF IInv, TypeOK, Labels
    <2>8. Exclusion'
      BY <1>4, <2>5, <1>a, <1>b, <1>c DEF IInv, TypeOK, Exclusion, Moving
    <2>9. /\ pc'[t] = "COUNT" /\ call'[t] = call[t] /\ pElement'[t] = q.pElements[q.head]
          /\ \A u \in Threads \ {t} : ~Moving(u)'
      BY <1>4, <2>1, <1>a, <1>b, <1>c DEF IInv, TypeOK
    <2>10. ~HalfPushed' /\ HalfPopped' /\ Oldest' = m + q.maxElement - 1
      BY <1>4, <2>5, <2>9 DEF HalfPushed, HalfPopped, Oldest, Moving
    <2>11. RingFits'
      BY <1>4, <2>2, <2>3, <2>4, <2>5, <2>9, <2>10, <1>a, <1>b, <1>c DEF RingFits, Moving
    <2>12. QED
      BY <1>1, <2>7, <2>8, <2>11 DEF IInv
  <1>5. QED
    BY <1>2, <1>3, <1>4, <1>a, <1>b, <1>c
\* The last statement of a push or a pop counts the element in or out.
LEMMA CountStep ==
  ASSUME IInv, NEW t \in Threads, Count(t), call[t].op # "count"
  PROVE  \E n \in Slots :
           /\ n = IF call[t].op = "push" THEN q.curElements + 1 ELSE q.curElements - 1
           /\ n <= q.maxElement
           /\ q' \in NX_QUEUE
           /\ q'.head = q.head /\ q'.tail = q.tail /\ q'.curElements = n
           /\ q'.maxElement = q.maxElement /\ q'.bEnabled = q.bEnabled /\ q'.pElements = q.pElements
  <1>1. pc[t] = "COUNT" /\ call[t].op \in {"push", "pop"}
    BY DEF Count
  <1>2. q \in NX_QUEUE /\ q.curElements \in 0 .. MaxElement /\ q.maxElement \in 0 .. MaxElement
    BY NXQueueAssumption DEF IInv, TypeOK, NX_QUEUE, Slots
  <1>3. /\ IF call[t].op = "push" THEN q.curElements < q.maxElement ELSE q.curElements > 0
        /\ q.curElements <= q.maxElement
    BY <1>1 DEF IInv, TypeOK, RingFits, Moving
  <1>4. PICK n \in Slots : /\ q' = [q EXCEPT !.curElements = n]
                           /\ n = IF call[t].op = "push" THEN q.curElements + 1
                                                          ELSE q.curElements - 1
                           /\ n <= q.maxElement
    <2>1. CASE call[t].op = "push"
      <3>1. q.curElements + 1 \in Slots /\ q.curElements + 1 <= q.maxElement
        BY <1>2, <1>3, <2>1, NXQueueAssumption DEF Slots
      <3>2. q' = [q EXCEPT !.curElements = q.curElements + 1]
        BY <2>1 DEF Count
      <3>3. QED
        BY <2>1, <3>1, <3>2
    <2>2. CASE call[t].op = "pop"
      <3>1. q.curElements - 1 \in Slots /\ q.curElements - 1 <= q.maxElement
        BY <1>2, <1>3, <2>2, NXQueueAssumption DEF Slots
      <3>2. q' = [q EXCEPT !.curElements = q.curElements - 1]
        BY <2>2 DEF Count
      <3>3. QED
        BY <2>2, <3>1, <3>2
    <2>3. QED
      BY <1>1, <2>1, <2>2
  <1>5. /\ q' \in NX_QUEUE
        /\ q'.head = q.head /\ q'.tail = q.tail /\ q'.curElements = n
        /\ q'.maxElement = q.maxElement /\ q'.bEnabled = q.bEnabled /\ q'.pElements = q.pElements
    BY <1>2, <1>4, Counted, Zenon
  <1>6. QED
    BY <1>4, <1>5

LEMMA CountInv == ASSUME IInv, NEW t \in Threads, Count(t) PROVE IInv'
  <1>1. /\ pc[t] = "COUNT" /\ call[t].op \in {"push", "pop", "count"}
        /\ pc' = [pc EXCEPT ![t] = "UNLOCK"]
        /\ UNCHANGED <<hMutex, mutex, call, pElement>>
        /\ \A u \in Threads \ {t} : reply'[u] = reply[u]
    BY DEF Count, Goto, Return, IInv, TypeOK
  <1>2. Calls'
    BY <1>1, CallsOfOthers DEF IInv, TypeOK
  <1>3. q \in NX_QUEUE /\ q.curElements \in 0 .. MaxElement /\ q.maxElement \in 0 .. MaxElement
    BY NXQueueAssumption DEF IInv, TypeOK, NX_QUEUE, Slots
  <1>4. CASE call[t].op = "count"
    <2>1. q' = q /\ reply' = [reply EXCEPT ![t] = q.curElements]
      BY <1>4 DEF Count, Return
    <2>2. reply' \in [Threads -> Pointers \cup Failed .. MaxElement]
      BY <1>3, <2>1, NXQueueAssumption DEF IInv, TypeOK, Failed
    <2>3. TypeOK'
      BY <1>1, <2>1, <2>2 DEF IInv, TypeOK, Labels
    <2>4. Exclusion'
      BY <1>1, <2>1 DEF IInv, TypeOK, Exclusion, Moving
    <2>5. RingFits'
      BY <1>1, <1>4, <2>1, RingUnchanged DEF IInv, TypeOK, Moving
    <2>6. QED
      BY <1>2, <2>3, <2>4, <2>5 DEF IInv
  <1>5. CASE call[t].op # "count"
    <2>1. Moving(t)
      BY <1>1, <1>5 DEF Moving
    <2>2. /\ q.bEnabled /\ q.maxElement > 0
          /\ \A u \in Threads : Moving(u) \/ pc[u] \in {"TEST", "DISABLE"} => u = t
      BY <2>1, Alone
    <2>3. \A u \in Threads : ~Moving(u)'
      BY <1>1, <2>2 DEF IInv, TypeOK, Moving
    <2>4. PICK n \in Slots :
            /\ n = IF call[t].op = "push" THEN q.curElements + 1 ELSE q.curElements - 1
            /\ n <= q.maxElement
            /\ q' \in NX_QUEUE
            /\ q'.head = q.head /\ q'.tail = q.tail /\ q'.curElements = n
            /\ q'.maxElement = q.maxElement /\ q'.bEnabled = q.bEnabled /\ q'.pElements = q.pElements
      BY <1>5, CountStep
    <2>6. TypeOK'
      <3>1. reply' \in [Threads -> Pointers \cup Failed .. MaxElement]
        <4>1. PICK v \in {Done, pElement[t]} : reply' = [reply EXCEPT ![t] = v]
          BY <1>5 DEF Count, Return
        <4>2. v \in Pointers
          BY <4>1 DEF IInv, TypeOK, Done, Pointers, NULL
        <4>3. QED
          BY <4>1, <4>2 DEF IInv, TypeOK
      <3>2. QED
        BY <1>1, <2>4, <3>1 DEF IInv, TypeOK, Labels
    <2>7. Exclusion'
      BY <1>1, <2>2, <2>3, <2>4 DEF IInv, TypeOK, Exclusion
    <2>8. q'.tail = (q'.head + q'.curElements) % q'.maxElement
      <3>1. q.head \in 0 .. q.maxElement - 1 /\ q.maxElement \in Nat
        BY <2>2, NXQueueAssumption DEF IInv, TypeOK, NX_QUEUE, Slots
      <3>2. CASE call[t].op = "push"
        <4>1. q.tail = (q.head + q.curElements + 1) % q.maxElement
          BY <1>1, <2>2, <3>2, AtCount DEF IInv, RingFits
        <4>2. q.head + q.curElements + 1 = q.head + n
          BY <1>3, <2>4, <3>1, <3>2
        <4>3. QED
          BY <2>4, <4>1, <4>2
      <3>3. CASE call[t].op = "pop"
        <4>1. q.tail = (q.head + q.maxElement - 1 + q.curElements + 0) % q.maxElement
          BY <1>1, <2>2, <3>3, AtCount DEF IInv, RingFits
        <4>2. n \in 0 .. q.maxElement /\ q.head + q.maxElement - 1 + q.curElements + 0 = q.head + n + q.maxElement
          <5>1. q.curElements <= q.maxElement /\ q.curElements > 0
            BY <2>1, <3>3 DEF IInv, TypeOK, RingFits
          <5>2. QED
            BY <1>3, <2>4, <3>1, <3>3, <5>1
        <4>3. (q.head + n + q.maxElement) % q.maxElement = (q.head + n) % q.maxElement
          BY <2>2, <3>1, <4>2, OneOn, Zenon
        <4>4. QED
          BY <2>4, <4>1, <4>2, <4>3
      <3>4. QED
        BY <1>1, <1>5, <3>2, <3>3
    <2>9. RingFits'
      BY <2>3, <2>4, <2>8, AtRest
    <2>10. QED
      BY <1>2, <2>6, <2>7, <2>9 DEF IInv
  <1>6. QED
    BY <1>4, <1>5

LEMMA StepInv == IInv /\ [Next]_vars => IInv'
  <1> SUFFICES ASSUME IInv, [Next]_vars PROVE IInv'
    OBVIOUS
  <1>1. CASE Next
    <2>1. PICK t \in Threads : Call(t) \/ Lock(t) \/ Step(t)
      BY <1>1 DEF Next
    <2>2. QED
      BY <2>1, CallInv, LockInv, TestInv, RingInv, CountInv, UnlockInv, DisableInv, DestroyInv,
         ClearInv DEF Step
  <1>2. CASE UNCHANGED vars
    BY <1>2 DEF vars, IInv, TypeOK, Calls, Exclusion, RingFits, Moving, HalfPushed, HalfPopped, Oldest
  <1>3. QED
    BY <1>1, <1>2

\* Every reachable state has the ring as its indices and the places of the
\* threads say.
THEOREM Inductive == Spec => []IInv
  BY InitInv, StepInv, PTL DEF Spec

\* However the calls of any number of threads interleave, the indices of the
\* queue stay in the array and its count under its capacity.
THEOREM TypeCorrect == Spec => []TypeOK
  <1>1. IInv => TypeOK
    BY DEF IInv
  <1>2. QED
    BY <1>1, Inductive, PTL
-----------------------------------------------------------------------------
(* Segments of a ring as sequences.                                         *)

\* The elements of a segment are pointers.
Within(ring, first, n, m) == \A k \in 1 .. n : ring[(first + k - 1) % m] \in Pointers

LEMMA SegmentIsSeq ==
  ASSUME NEW ring, NEW first \in Nat, NEW n \in Nat, NEW m,
         Within(ring, first, n, m)
  PROVE  /\ Segment(ring, first, n, m) \in Seq(Pointers)
         /\ Len(Segment(ring, first, n, m)) = n
         /\ Segment(ring, first, n, m) = << >> <=> n = 0
  <1> DEFINE s == Segment(ring, first, n, m)
  <1>1. s \in [1 .. n -> Pointers]
    BY DEF Segment, Within
  <1> HIDE DEF s
  <1>2. s \in Seq(Pointers)
    BY <1>1, SeqDef
  <1>3. Len(s) = n
    BY <1>1, <1>2, LenProperties
  <1>4. s = << >> <=> n = 0
    BY <1>2, <1>3, EmptySeq
  <1>5. QED
    BY <1>2, <1>3, <1>4 DEF s

LEMMA SegmentHead ==
  ASSUME NEW ring, NEW first \in Nat, NEW n \in Nat, n > 0, NEW m,
         Within(ring, first, n, m)
  PROVE  Head(Segment(ring, first, n, m)) = ring[first % m]
  <1> DEFINE s == Segment(ring, first, n, m)
  <1>1. s \in Seq(Pointers) /\ s # << >>
    BY SegmentIsSeq
  <1>2. s[1] = ring[(first + 1 - 1) % m]
    BY DEF Segment
  <1>3. first + 1 - 1 = first
    OBVIOUS
  <1> HIDE DEF s
  <1>4. Head(s) = s[1]
    BY <1>1
  <1>5. QED
    BY <1>2, <1>3, <1>4 DEF s

LEMMA SegmentTail ==
  ASSUME NEW ring, NEW first \in Nat, NEW n \in Nat, n # 0, NEW m,
         Within(ring, first, n, m)
  PROVE  Tail(Segment(ring, first, n, m)) = Segment(ring, first + 1, n - 1, m)
  <1> DEFINE s == Segment(ring, first, n, m)
             t == Segment(ring, first + 1, n - 1, m)
  <1>1. \A k \in 1 .. n - 1 : /\ k + 1 \in 1 .. n
                             /\ first + (k + 1) - 1 = first + 1 + k - 1
    OBVIOUS
  <1>2. \A k \in 1 .. n : s[k] = ring[(first + k - 1) % m]
    BY DEF Segment
  <1>3. \A k \in 1 .. n - 1 : t[k] = ring[(first + 1 + k - 1) % m]
    BY DEF Segment
  <1>4. s \in Seq(Pointers) /\ Len(s) = n /\ s # << >>
    BY SegmentIsSeq
  <1>5. Within(ring, first + 1, n - 1, m)
    <2> SUFFICES ASSUME NEW k \in 1 .. n - 1 PROVE ring[(first + 1 + k - 1) % m] \in Pointers
      BY DEF Within
    <2>1. ring[(first + (k + 1) - 1) % m] \in Pointers
      BY <1>1 DEF Within
    <2>2. QED
      BY <1>1, <2>1
  <1>6. t \in Seq(Pointers) /\ Len(t) = n - 1
    <2>1. first + 1 \in Nat /\ n - 1 \in Nat
      OBVIOUS
    <2>2. QED
      BY <1>5, <2>1, SegmentIsSeq
  <1> HIDE DEF s, t
  <1>7. Tail(s) \in Seq(Pointers) /\ Len(Tail(s)) = n - 1 /\ \A k \in 1 .. n - 1 : Tail(s)[k] = s[k + 1]
    BY <1>4, HeadTailProperties
  <1>8. \A k \in 1 .. n - 1 : Tail(s)[k] = t[k]
    <2> TAKE k \in 1 .. n - 1
    <2>1. s[k + 1] = ring[(first + (k + 1) - 1) % m]
      BY <1>1, <1>2
    <2>2. QED
      BY <1>1, <1>3, <1>7, <2>1
  <1>9. Tail(s) = t
    BY <1>6, <1>7, <1>8, SeqEqual
  <1>10. QED
    BY <1>9 DEF s, t

LEMMA SegmentBack ==
  ASSUME NEW ring, NEW first \in Nat, NEW n \in Nat, NEW m,
         Within(ring, first, n, m),
         ring[(first + n) % m] \in Pointers
  PROVE  Append(Segment(ring, first, n, m), ring[(first + n) % m]) = Segment(ring, first, n + 1, m)
  <1> DEFINE s == Segment(ring, first, n, m)
             e == ring[(first + n) % m]
             t == Segment(ring, first, n + 1, m)
  <1>1. \A k \in 1 .. n : s[k] = ring[(first + k - 1) % m]
    BY DEF Segment
  <1>2. \A k \in 1 .. n + 1 : t[k] = ring[(first + k - 1) % m]
    BY DEF Segment
  <1>3. s \in Seq(Pointers) /\ Len(s) = n
    BY SegmentIsSeq
  <1>4. first + (n + 1) - 1 = first + n /\ n + 1 \in Nat
    OBVIOUS
  <1>5. \A k \in 1 .. n + 1 : k \in 1 .. n \/ k = n + 1
    OBVIOUS
  <1>6. Within(ring, first, n + 1, m)
    BY <1>4, <1>5 DEF Within
  <1>7. t \in Seq(Pointers) /\ Len(t) = n + 1
    BY <1>4, <1>6, SegmentIsSeq
  <1>8. t[n + 1] = e
    BY <1>2, <1>4
  <1>9. e \in Pointers
    OBVIOUS
  <1> HIDE DEF s, e, t
  <1>10. /\ Append(s, e) \in Seq(Pointers) /\ Len(Append(s, e)) = n + 1
         /\ \A k \in 1 .. n : Append(s, e)[k] = s[k]
         /\ Append(s, e)[n + 1] = e
    BY <1>3, <1>9, AppendProperties
  <1>11. \A k \in 1 .. n + 1 : Append(s, e)[k] = t[k]
    BY <1>1, <1>2, <1>5, <1>8, <1>10
  <1>12. Append(s, e) = t
    BY <1>7, <1>10, <1>11, SeqEqual
  <1>13. QED
    BY <1>12 DEF s, e, t

LEMMA SameSegment ==
  ASSUME NEW ring, NEW other, NEW first, NEW second, NEW n, NEW m,
         \A k \in 1 .. n : ring[(first + k - 1) % m] = other[(second + k - 1) % m]
  PROVE  Segment(ring, first, n, m) = Segment(other, second, n, m)
  BY DEF Segment

\* The elements of the queue are a sequence of as many pointers as are counted.
LEMMA ContentsIsSeq ==
  ASSUME IInv
  PROVE  /\ Oldest \in Nat /\ q.curElements \in Nat /\ q.maxElement \in Nat
         /\ q.curElements <= q.maxElement
         /\ Within(q.pElements, Oldest, q.curElements, q.maxElement)
         /\ Len(Contents) = q.curElements
         /\ Contents = << >> <=> q.curElements = 0
  <1>1. /\ q.head \in Nat /\ q.curElements \in Nat /\ q.maxElement \in Nat
        /\ q.maxElement <= MaxElement /\ q.curElements <= q.maxElement
        /\ q.pElements \in [0 .. MaxElement - 1 -> Pointers]
    BY NXQueueAssumption DEF IInv, TypeOK, NX_QUEUE, Slots
  <1>2. HalfPopped => q.maxElement > 0
    BY Alone DEF HalfPopped, Moving
  <1>3. Oldest \in Nat
    BY <1>1, <1>2 DEF Oldest
  <1>4. Within(q.pElements, Oldest, q.curElements, q.maxElement)
    <2> SUFFICES ASSUME NEW k \in 1 .. q.curElements
                 PROVE  q.pElements[(Oldest + k - 1) % q.maxElement] \in Pointers
      BY DEF Within
    <2>1. q.maxElement > 0 /\ Oldest + k - 1 \in Nat
      BY <1>1, <1>3
    <2>2. (Oldest + k - 1) % q.maxElement \in 0 .. q.maxElement - 1
      BY <1>1, <2>1
    <2>3. (Oldest + k - 1) % q.maxElement \in 0 .. MaxElement - 1
      BY <1>1, <2>2, NXQueueAssumption
    <2>4. QED
      BY <1>1, <2>3
  <1>5. Len(Contents) = q.curElements /\ (Contents = << >> <=> q.curElements = 0)
    BY <1>1, <1>3, <1>4, SegmentIsSeq DEF Contents
  <1>6. QED
    BY <1>1, <1>3, <1>4, <1>5

-----------------------------------------------------------------------------
(* Every step is one of BoundedFifo, or leaves its variables alone.         *)

\* Until it comes to give the mutex back, a call stays pending.
LEMMA StillPending ==
  ASSUME IInv, NEW t \in Threads, NEW label, label # "UNLOCK", pc[t] # "UNLOCK",
         pc' = [pc EXCEPT ![t] = label], call' = call
  PROVE  Pending' = Pending
  <1>1. \A u \in Threads : pc'[u] = "UNLOCK" <=> pc[u] = "UNLOCK"
    BY DEF IInv, TypeOK
  <1>2. QED
    BY <1>1 DEF Pending

LEMMA Answered ==
  ASSUME IInv, NEW t \in Threads, pc[t] # "UNLOCK",
         pc' = [pc EXCEPT ![t] = "UNLOCK"], call' = call
  PROVE  Pending[t] = call[t] /\ Pending' = [Pending EXCEPT ![t] = Fifo!Idle]
  <1>1. \A u \in Threads \ {t} : pc'[u] = "UNLOCK" <=> pc[u] = "UNLOCK"
    BY DEF IInv, TypeOK
  <1>2. pc'[t] = "UNLOCK"
    BY DEF IInv, TypeOK
  <1>3. QED
    BY <1>1, <1>2 DEF Pending, Fifo!Idle, Idle

LEMMA CallRefines == ASSUME IInv, NEW t \in Threads, Call(t) PROVE Fifo!Invoke(t)
  <1>1. PICK r \in Requests :
          /\ call' = [call EXCEPT ![t] = r]
          /\ pc' = [pc EXCEPT ![t] = IF r.op = "count" THEN "COUNT" ELSE "LOCK"]
    BY DEF Call, Goto
  <1>2. /\ pc[t] = "IDLE" /\ reply' = [reply EXCEPT ![t] = Failed] /\ q' = q /\ pElement' = pElement
    BY DEF Call, Return
  <1>3. call[t] = Idle
    BY <1>2, RequestShape DEF IInv, TypeOK, Calls
  <1>4. Pending[t] = Fifo!Idle
    BY <1>2, <1>3 DEF Pending, Fifo!Idle, Idle
  <1>5. Pending' = [Pending EXCEPT ![t] = r]
    <2>1. pc'[t] # "UNLOCK" /\ call'[t] = r
      BY <1>1 DEF IInv, TypeOK
    <2>2. \A u \in Threads \ {t} : pc'[u] = pc[u] /\ call'[u] = call[u]
      BY <1>1 DEF IInv, TypeOK
    <2>3. QED
      BY <2>1, <2>2 DEF Pending
  <1>6. Contents' = Contents
    BY <1>1, <1>2, RingUnchanged DEF IInv, TypeOK, Moving
  <1>7. r \in Fifo!Requests
    BY DEF Requests, Fifo!Requests
  <1>8. QED
    BY <1>2, <1>4, <1>5, <1>6, <1>7 DEF Fifo!Invoke, Failed, Fifo!Failed

LEMMA LockRefines == ASSUME IInv, NEW t \in Threads, Lock(t) PROVE UNCHANGED Fifo!vars
  <1>1. pc[t] = "LOCK" /\ UNCHANGED <<q, call, pElement, reply>>
    BY DEF Lock
  <1>2. PICK label \in {"DISABLE", "TEST"} : pc' = [pc EXCEPT ![t] = label]
    BY DEF Lock, Goto
  <1>3. Pending' = Pending
    BY <1>1, <1>2, StillPending
  <1>4. Contents' = Contents
    BY <1>1, <1>2, RingUnchanged DEF IInv, TypeOK, Moving
  <1>5. QED
    BY <1>1, <1>3, <1>4 DEF Fifo!vars

\* A refused call fails in one step.
LEMMA TestRefines ==
  ASSUME IInv, NEW t \in Threads, Test(t)
  PROVE  Fifo!Push(t) \/ Fifo!Pop(t) \/ Fifo!Next1(t) \/ UNCHANGED Fifo!vars
  <1>1. /\ pc[t] = "TEST" /\ call[t].op \in {"push", "pop", "next"} /\ reply[t] = Failed
        /\ pc' = [pc EXCEPT ![t] = IF Refused(t) THEN "UNLOCK" ELSE "RING"]
        /\ UNCHANGED <<q, call, pElement, reply>>
    BY DEF Test, Fail, Goto, IInv, Calls
  <1>2. Contents' = Contents
    <2>1. ~Refused(t) => IF call[t].op = "push" THEN q.curElements < q.maxElement
                                                ELSE q.curElements > 0
      BY ContentsIsSeq DEF Refused
    <2>2. QED
      BY <1>1, <2>1, RingUnchanged DEF IInv, TypeOK, Moving
  <1>3. CASE ~Refused(t)
    <2>1. Pending' = Pending
      BY <1>1, <1>3, StillPending
    <2>2. QED
      BY <1>1, <1>2, <2>1 DEF Fifo!vars
  <1>4. CASE Refused(t)
    <2>1. Pending[t] = call[t] /\ Pending' = [Pending EXCEPT ![t] = Fifo!Idle]
      BY <1>1, <1>4, Answered
    <2>2. reply' = [reply EXCEPT ![t] = Fifo!Failed]
      BY <1>1 DEF IInv, TypeOK, Failed, Fifo!Failed
    <2>3. IF call[t].op = "push" THEN ~(q.bEnabled /\ Len(Contents) < q.maxElement)
                                 ELSE ~(q.bEnabled /\ Contents # << >>)
      BY <1>4, ContentsIsSeq DEF Refused
    <2>4. QED
      BY <1>1, <1>2, <2>1, <2>2, <2>3
         DEF Fifo!Push, Fifo!Pop, Fifo!Next1, Fifo!Answer
  <1>5. QED
    BY <1>3, <1>4
LEMMA UnlockRefines == ASSUME IInv, NEW t \in Threads, Unlock(t) PROVE UNCHANGED Fifo!vars
  <1>1. /\ pc[t] = "UNLOCK" /\ pc' = [pc EXCEPT ![t] = "IDLE"] /\ call' = [call EXCEPT ![t] = Idle]
        /\ pElement' = [pElement EXCEPT ![t] = NULL] /\ UNCHANGED <<q, reply>>
    BY DEF Unlock, Goto
  <1>2. Pending' = Pending
    <2>1. pc'[t] # "UNLOCK" /\ call'[t] = Idle
      BY <1>1 DEF IInv, TypeOK
    <2>2. \A u \in Threads \ {t} : pc'[u] = pc[u] /\ call'[u] = call[u]
      BY <1>1 DEF IInv, TypeOK
    <2>3. QED
      BY <1>1, <2>1, <2>2 DEF Pending
  <1>3. Contents' = Contents
    BY <1>1, RingUnchanged DEF IInv, TypeOK, Moving
  <1>4. QED
    BY <1>1, <1>2, <1>3 DEF Fifo!vars

LEMMA DestroyRefines == ASSUME IInv, NEW t \in Threads, Destroy(t) PROVE UNCHANGED Fifo!vars
  <1>1. /\ pc[t] = "DESTROY" /\ pc' = [pc EXCEPT ![t] = "CLEAR"]
        /\ UNCHANGED <<q, call, pElement, reply>>
    BY DEF Destroy, Goto
  <1>2. Pending' = Pending
    BY <1>1, StillPending
  <1>3. Contents' = Contents
    BY <1>1, RingUnchanged DEF IInv, TypeOK, Moving
  <1>4. QED
    BY <1>1, <1>2, <1>3 DEF Fifo!vars

LEMMA DisableRefines == ASSUME IInv, NEW t \in Threads, Disable(t) PROVE Fifo!Close(t)
  <1>1. /\ pc[t] = "DISABLE" /\ call[t].op = "close"
        /\ pc' = [pc EXCEPT ![t] = "DESTROY"] /\ UNCHANGED <<call, pElement, reply>>
    BY DisableStep
  <1>2. /\ q' \in NX_QUEUE /\ q'.head = q.head /\ q'.tail = q.tail /\ q'.curElements = q.curElements
        /\ q'.maxElement = q.maxElement /\ ~q'.bEnabled /\ q'.pElements = q.pElements
    BY DisableStep
  <1>3. (\A u \in Threads : ~Moving(u)) /\ (\A u \in Threads : ~Moving(u)')
    BY DisableStep
  <1>4. Pending' = Pending
    BY <1>1, StillPending
  <1>5. Oldest = q.head /\ Oldest' = q'.head
    BY <1>2, <1>3, WasAtRest, AtRest
  <1>6. Contents' = Contents
    BY <1>2, <1>5 DEF Contents, Segment
  <1>7. q'.bEnabled = FALSE
    BY <1>2 DEF NX_QUEUE
  <1>8. Pending[t] = call[t]
    BY <1>1 DEF Pending
  <1>9. QED
    BY <1>1, <1>2, <1>4, <1>6, <1>7, <1>8 DEF Fifo!Close

LEMMA ClearRefines == ASSUME IInv, NEW t \in Threads, Clear(t) PROVE Fifo!Drop(t)
  <1>1. /\ pc[t] = "CLEAR" /\ call[t].op = "close" /\ ~q.bEnabled /\ q' = Zeroed
        /\ reply' = [reply EXCEPT ![t] = Done] /\ pc' = [pc EXCEPT ![t] = "UNLOCK"]
        /\ UNCHANGED <<call, pElement>>
    BY ClearStep
  <1>2. Pending[t] = call[t] /\ Pending' = [Pending EXCEPT ![t] = Fifo!Idle]
    BY <1>1, Answered
  <1>3. /\ q'.curElements = 0 /\ q'.maxElement = 0 /\ ~q'.bEnabled
        /\ q.bEnabled \in BOOLEAN /\ q'.bEnabled \in BOOLEAN
    BY <1>1, Cleared DEF IInv, TypeOK, NX_QUEUE
  <1>4. Contents' = << >>
    <2>1. IInv'
      BY ClearInv
    <2>2. (IInv => (Contents = << >> <=> q.curElements = 0))'
      BY ContentsIsSeq, PTL
    <2>3. QED
      BY <1>3, <2>1, <2>2
  <1>5. QED
    BY <1>1, <1>2, <1>3, <1>4 DEF Fifo!Drop, Fifo!Answer, Done, Fifo!Done
\* A push or a pop that has reached the ring has yet to take effect, a look at
\* the next element is done.
LEMMA RingRefines ==
  ASSUME IInv, NEW t \in Threads, Ring(t)
  PROVE  Fifo!Next1(t) \/ UNCHANGED Fifo!vars
  <1>a. /\ pc[t] = "RING" /\ call[t].op \in {"push", "pop", "next"}
        /\ \A u \in Threads \ {t} : ~Moving(u) /\ ~Moving(u)'
        /\ call' = call
        /\ pc' = [pc EXCEPT ![t] = IF call[t].op = "next" THEN "UNLOCK" ELSE "COUNT"]
    BY RingStep
  <1>b. /\ q \in NX_QUEUE /\ q.bEnabled /\ q.maxElement > 0 /\ q.maxElement \in Nat
        /\ q.head \in 0 .. q.maxElement - 1 /\ q.tail \in 0 .. q.maxElement - 1
        /\ q.curElements \in 0 .. q.maxElement /\ q.maxElement \in 1 .. MaxElement
        /\ Oldest = q.head
    BY RingStep, NXQueueAssumption
  <1>c. /\ q.tail = (q.head + q.curElements) % q.maxElement
        /\ IF call[t].op = "push" THEN q.curElements < q.maxElement ELSE q.curElements > 0
    BY RingStep
  <1>d. pc'[t] = (IF call[t].op = "next" THEN "UNLOCK" ELSE "COUNT") /\ call'[t] = call[t]
    BY <1>a DEF IInv, TypeOK
  <1>1. CASE call[t].op = "next"
    <2>1. q' = q /\ reply' = [reply EXCEPT ![t] = q.pElements[q.head]]
      BY <1>1 DEF Ring, Return
    <2>2. \A u \in Threads : ~Moving(u)'
      BY <1>1, <1>a, <1>d DEF Moving
    <2>3. Contents' = Contents
      <3>1. ~HalfPopped'
        BY <2>2 DEF HalfPopped, Moving
      <3>2. Oldest' = Oldest
        BY <1>b, <2>1, <3>1 DEF Oldest
      <3>3. QED
        BY <2>1, <3>2 DEF Contents, Segment
    <2>4. Contents # << >> /\ Head(Contents) = q.pElements[q.head]
      <3>1. q.curElements > 0
        BY <1>1, <1>c
      <3>2. q.head % q.maxElement = q.head
        BY <1>b
      <3>3. Head(Contents) = q.pElements[Oldest % q.maxElement]
        BY <3>1, ContentsIsSeq, SegmentHead DEF Contents
      <3>4. Head(Contents) = q.pElements[q.head]
        BY <1>b, <3>2, <3>3, Zenon
      <3>5. Contents # << >>
        BY <3>1, ContentsIsSeq
      <3>6. QED
        BY <3>4, <3>5
    <2>5. Pending[t] = call[t] /\ Pending' = [Pending EXCEPT ![t] = Fifo!Idle]
      BY <1>1, <1>a, Answered
    <2>6. QED
      BY <1>1, <1>b, <2>1, <2>3, <2>4, <2>5 DEF Fifo!Next1, Fifo!Answer
  <1>2. CASE call[t].op = "push"
    <2>1. reply' = reply
      BY <1>2, RingPush
    <2>4. /\ q'.head = q.head /\ q'.curElements = q.curElements
          /\ q'.maxElement = q.maxElement /\ q'.bEnabled = q.bEnabled
          /\ \A j \in 0 .. MaxElement - 1 :
               q'.pElements[j] = IF j = q.tail THEN call[t].element ELSE q.pElements[j]
      BY <1>2, RingPush
    <2>5. Oldest' = q.head
      <3>1. ~HalfPopped'
        BY <1>2, <1>a, <1>d DEF HalfPopped, Moving
      <3>2. QED
        BY <2>4, <3>1 DEF Oldest
    <2>6. \A k \in 1 .. q.curElements :
            q'.pElements[(q.head + k - 1) % q.maxElement] = q.pElements[(q.head + k - 1) % q.maxElement]
      <3> TAKE k \in 1 .. q.curElements
      <3>1. q.curElements \in 0 .. q.maxElement - 1
        BY <1>2, <1>b, <1>c
      <3>2. /\ (q.head + k - 1) % q.maxElement \in 0 .. q.maxElement - 1
            /\ (q.head + k - 1) % q.maxElement # (q.head + q.curElements) % q.maxElement
        BY <1>b, <3>1, OtherSlot, Zenon
      <3>3. (q.head + k - 1) % q.maxElement \in 0 .. MaxElement - 1
        BY <1>b, <3>2, NXQueueAssumption
      <3>4. QED
        BY <1>c, <2>4, <3>2, <3>3
    <2>7. Contents' = Contents
      BY <1>b, <2>4, <2>5, <2>6 DEF Contents, Segment
    <2>8. Pending' = Pending
      BY <1>2, <1>a, StillPending
    <2>9. QED
      BY <2>1, <2>4, <2>7, <2>8 DEF Fifo!vars
  <1>3. CASE call[t].op = "pop"
    <2> DEFINE m == (q.head + 1) % q.maxElement
    <2>1. q' = [q EXCEPT !.head = m] /\ reply' = reply
      BY <1>3 DEF Ring, Move
    <2>2. m \in 0 .. q.maxElement - 1 /\ m \in Slots
      <3>1. m \in 0 .. q.maxElement - 1
        BY <1>b
      <3>2. QED
        BY <1>b, <3>1, NXQueueAssumption DEF Slots
    <2>3. \A k \in 1 .. q.curElements :
            (m + q.maxElement - 1 + k - 1) % q.maxElement = (q.head + k - 1) % q.maxElement
      <3> TAKE k \in 1 .. q.curElements
      <3>1. k - 1 \in 0 .. q.maxElement
        BY <1>b
      <3>2. (m + q.maxElement - 1 + (k - 1)) % q.maxElement = (q.head + (k - 1)) % q.maxElement
        BY <1>b, <3>1, OneOn, Zenon
      <3>3. m + q.maxElement - 1 + (k - 1) = m + q.maxElement - 1 + k - 1 /\ q.head + (k - 1) = q.head + k - 1
        BY <1>b, <2>2
      <3>4. QED
        BY <3>2, <3>3
    <2> HIDE DEF m
    <2>4. /\ q'.head = m /\ q'.curElements = q.curElements /\ q'.maxElement = q.maxElement
          /\ q'.bEnabled = q.bEnabled /\ q'.pElements = q.pElements
      BY <2>1, <2>2, <1>b, HeadMoved, Zenon
    <2>5. Oldest' = m + q.maxElement - 1
      <3>1. HalfPopped'
        BY <1>3, <1>d DEF HalfPopped
      <3>2. QED
        BY <2>4, <3>1 DEF Oldest
    <2>6. Contents' = Contents
      BY <1>b, <2>3, <2>4, <2>5 DEF Contents, Segment
    <2>7. Pending' = Pending
      BY <1>3, <1>a, StillPending
    <2>8. QED
      BY <2>1, <2>4, <2>6, <2>7 DEF Fifo!vars
  <1>4. QED
    BY <1>1, <1>2, <1>3, <1>a
\* With its last access to the queue a push, a pop or a count takes effect.
LEMMA CountRefines ==
  ASSUME IInv, NEW t \in Threads, Count(t)
  PROVE  Fifo!Push(t) \/ Fifo!Pop(t) \/ Fifo!Count(t)
  <1>a. /\ pc[t] = "COUNT" /\ call[t].op \in {"push", "pop", "count"}
        /\ pc' = [pc EXCEPT ![t] = "UNLOCK"] /\ UNCHANGED <<call, pElement>>
    BY DEF Count, Goto
  <1>b. Pending[t] = call[t] /\ Pending' = [Pending EXCEPT ![t] = Fifo!Idle]
    BY <1>a, Answered
  <1>c. /\ Oldest \in Nat /\ q.curElements \in Nat /\ q.maxElement \in Nat
        /\ Within(q.pElements, Oldest, q.curElements, q.maxElement)
        /\ Len(Contents) = q.curElements /\ (Contents = << >> <=> q.curElements = 0)
    BY ContentsIsSeq
  <1>1. CASE call[t].op = "count"
    <2>1. q' = q /\ reply' = [reply EXCEPT ![t] = q.curElements]
      BY <1>1 DEF Count, Return
    <2>2. Contents' = Contents
      BY <1>1, <1>a, <2>1, RingUnchanged DEF IInv, TypeOK, Moving
    <2>3. QED
      BY <1>1, <1>b, <1>c, <2>1, <2>2 DEF Fifo!Count, Fifo!Answer
  <1>2. ASSUME call[t].op # "count"
        PROVE  /\ q.bEnabled /\ q.maxElement > 0 /\ q.head \in 0 .. q.maxElement - 1
               /\ IF call[t].op = "push" THEN q.curElements < q.maxElement ELSE q.curElements > 0
               /\ Oldest' = q'.head
    <2>1. Moving(t)
      BY <1>a, <1>2 DEF Moving
    <2>2. /\ q.bEnabled /\ q.maxElement > 0
          /\ \A u \in Threads : Moving(u) => u = t
      BY <2>1, Alone
    <2>3. IF call[t].op = "push" THEN q.curElements < q.maxElement ELSE q.curElements > 0
      BY <2>1 DEF IInv, RingFits
    <2>4. q.head \in 0 .. q.maxElement - 1
      BY <2>2, NXQueueAssumption DEF IInv, TypeOK, NX_QUEUE, Slots
    <2>5. \A u \in Threads : ~Moving(u)'
      BY <1>a, <2>2 DEF IInv, TypeOK, Moving
    <2>6. ~HalfPopped'
      BY <2>5 DEF HalfPopped, Moving
    <2>7. QED
      BY <2>2, <2>3, <2>4, <2>6 DEF Oldest
  <1>3. CASE call[t].op = "push"
    <2>1. /\ q'.curElements = q.curElements + 1 /\ q'.head = q.head
          /\ q'.maxElement = q.maxElement /\ q'.bEnabled = q.bEnabled /\ q'.pElements = q.pElements
      BY <1>3, CountStep
    <2>2. reply' = [reply EXCEPT ![t] = Done]
      BY <1>3 DEF Count, Return
    <2>3. Oldest = q.head /\ Oldest' = q.head
      BY <1>3, <1>a, <1>2, <2>1, AtCount
    <2>4. q.pElements[(Oldest + q.curElements) % q.maxElement] = call[t].element
      BY <1>3, <1>a DEF IInv, RingFits
    <2>5. call[t].element \in Pointers
      BY <1>3, RequestShape DEF IInv, TypeOK, Pointers
    <2>6. Append(Contents, call[t].element)
            = Segment(q.pElements, Oldest, q.curElements + 1, q.maxElement)
      <3>1. q.curElements \in Nat /\ Oldest \in Nat
        BY <1>c
      <3>2. Within(q.pElements, Oldest, q.curElements, q.maxElement)
        BY <1>c
      <3>3. q.pElements[(Oldest + q.curElements) % q.maxElement] \in Pointers
        BY <2>4, <2>5
      <3>4. Append(Contents, q.pElements[(Oldest + q.curElements) % q.maxElement])
              = Segment(q.pElements, Oldest, q.curElements + 1, q.maxElement)
        BY <3>1, <3>2, <3>3, SegmentBack DEF Contents
      <3>5. QED
        BY <2>4, <3>4
    <2>7. Contents' = Append(Contents, call[t].element)
      BY <2>1, <2>3, <2>6 DEF Contents, Segment
    <2>8. q.bEnabled /\ Len(Contents) < q.maxElement
      BY <1>3, <1>2, <1>c
    <2>9. QED
      BY <1>3, <1>b, <2>1, <2>2, <2>7, <2>8 DEF Fifo!Push, Fifo!Answer, Done, Fifo!Done
  <1>4. CASE call[t].op = "pop"
    <2>1. /\ q'.curElements = q.curElements - 1 /\ q'.head = q.head
          /\ q'.maxElement = q.maxElement /\ q'.bEnabled = q.bEnabled /\ q'.pElements = q.pElements
      BY <1>4, CountStep
    <2>2. reply' = [reply EXCEPT ![t] = pElement[t]]
      BY <1>4 DEF Count, Return
    <2>3. Oldest = q.head + q.maxElement - 1 /\ Oldest' = q.head
      BY <1>4, <1>a, <1>2, <2>1, AtCount
    <2>4. q.curElements > 0
      BY <1>4, <1>2
    <2>5. /\ Head(Contents) = q.pElements[Oldest % q.maxElement]
          /\ Tail(Contents) = Segment(q.pElements, Oldest + 1, q.curElements - 1, q.maxElement)
      <3>1. q.curElements \in Nat /\ Oldest \in Nat /\ q.curElements # 0
        BY <1>c, <2>4
      <3>2. Within(q.pElements, Oldest, q.curElements, q.maxElement)
        BY <1>c
      <3>3. Head(Contents) = q.pElements[Oldest % q.maxElement]
        BY <2>4, <3>1, <3>2, SegmentHead DEF Contents
      <3>4. Tail(Contents) = Segment(q.pElements, Oldest + 1, q.curElements - 1, q.maxElement)
        <4> DEFINE r == q.pElements
                   f == Oldest
                   n == q.curElements
                   m == q.maxElement
        <4>1. f \in Nat /\ n \in Nat /\ n # 0 /\ Within(r, f, n, m)
          BY <3>1, <3>2
        <4> HIDE DEF r, f, n, m
        <4>2. Tail(Segment(r, f, n, m)) = Segment(r, f + 1, n - 1, m)
          BY <4>1, SegmentTail
        <4>3. QED
          BY <4>2 DEF Contents, r, f, n, m
      <3>5. QED
        BY <3>3, <3>4
    <2>6. Head(Contents) = pElement[t]
      BY <1>4, <1>a, <2>5 DEF IInv, RingFits
    <2>7. Segment(q.pElements, Oldest + 1, q.curElements - 1, q.maxElement)
            = Segment(q.pElements, q.head, q.curElements - 1, q.maxElement)
      <3>1. ASSUME NEW k \in 1 .. q.curElements - 1
            PROVE  (Oldest + 1 + k - 1) % q.maxElement = (q.head + k - 1) % q.maxElement
        <4>1. k - 1 \in 0 .. q.maxElement
          BY <1>c, ContentsIsSeq
        <4>2. q.head \in 0 .. q.maxElement - 1 /\ q.maxElement > 0
          BY <1>4, <1>2
        <4>3. (q.head + (k - 1) + q.maxElement) % q.maxElement = (q.head + (k - 1)) % q.maxElement
          BY <1>c, <4>1, <4>2, OneOn, Zenon
        <4>4. Oldest + 1 + k - 1 = q.head + (k - 1) + q.maxElement /\ q.head + (k - 1) = q.head + k - 1
          BY SMTT(30), <1>c, <2>3, <4>2
        <4>5. QED
          BY <4>3, <4>4
      <3>2. QED
        BY <3>1, SameSegment
    <2>8. Contents' = Tail(Contents)
      BY <2>1, <2>3, <2>5, <2>7 DEF Contents, Segment
    <2>9. q.bEnabled /\ Contents # << >>
      BY <1>4, <1>2, <1>c
    <2>10. QED
      BY <1>4, <1>b, <2>1, <2>2, <2>6, <2>8, <2>9 DEF Fifo!Pop, Fifo!Answer
  <1>5. QED
    BY <1>a, <1>1, <1>3, <1>4

LEMMA InitRefines == Init => Fifo!Init
  <1> SUFFICES ASSUME Init PROVE Fifo!Init
    OBVIOUS
  <1>1. IInv
    BY InitInv
  <1>2. /\ q.curElements = 0 /\ q.bEnabled \in BOOLEAN /\ q.maxElement \in Sizes \cup {0}
    <2>1. q.bEnabled \in BOOLEAN
      BY <1>1 DEF IInv, TypeOK, NX_QUEUE
    <2>2. PICK m \in Sizes : q = IF m > MaxElement THEN Zeroed
                                 ELSE [Zeroed EXCEPT !.maxElement = m, !.bEnabled = TRUE]
      BY DEF Init
    <2>3. q.curElements = 0 /\ q.maxElement \in {0, m}
      BY <2>2 DEF Zeroed
    <2>4. QED
      BY <2>1, <2>3
  <1>3. Contents = << >>
    BY <1>1, <1>2, ContentsIsSeq
  <1>4. Pending = [t \in Threads |-> Fifo!Idle]
    BY DEF Init, Pending, Idle, Fifo!Idle
  <1>5. QED
    BY <1>2, <1>3, <1>4 DEF Init, Fifo!Init, Failed, Fifo!Failed

LEMMA StepRefines == IInv /\ [Next]_vars => [Fifo!Next]_(Fifo!vars)
  <1> SUFFICES ASSUME IInv, [Next]_vars PROVE [Fifo!Next]_(Fifo!vars)
    OBVIOUS
  <1>1. CASE Next
    <2>1. PICK t \in Threads : Call(t) \/ Lock(t) \/ Step(t)
      BY <1>1 DEF Next
    <2>2. QED
      BY <2>1, CallRefines, LockRefines, TestRefines, RingRefines, CountRefines, UnlockRefines,
         DisableRefines, DestroyRefines, ClearRefines DEF Step, Fifo!Next
  <1>2. CASE UNCHANGED vars
    BY <1>2 DEF vars, Fifo!vars, Contents, Segment, Oldest, HalfPopped, Pending
  <1>3. QED
    BY <1>1, <1>2

\* The ring of NX_Queue.c is a bounded first-in first-out queue, whatever the
\* threads, the elements, the size of the ring and the order of the calls: no
\* element is lost, given twice or out of order, and a refused call changes
\* nothing.
THEOREM FifoImplemented == Spec => ImplementsFifo
  BY InitRefines, StepRefines, Inductive, PTL DEF Spec, ImplementsFifo, Fifo!Spec
=============================================================================
