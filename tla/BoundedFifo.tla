----------------------------- MODULE BoundedFifo -----------------------------
(***************************************************************************)
(* What NX_Queue promises to the threads that share it: a first-in          *)
(* first-out queue of at most size elements, on which every call takes      *)
(* effect at one moment between its start and its return, and which gives   *)
(* out and takes in nothing once it is closed.                              *)
(***************************************************************************)
EXTENDS Integers, Sequences

CONSTANTS
  Threads,   \* the threads that share the queue
  Elements,  \* what is queued
  Sizes      \* capacities the queue may be created with

Failed   == -1   \* results of a call that returns no element and no count
Done     == 0
Idle     == [op |-> "none"]
Requests == [op : {"push"}, element : Elements] \cup [op : {"pop", "next", "count", "close"}]

VARIABLES
  size,      \* capacity of the queue
  fifo,      \* elements in it, the oldest first
  open,      \* FALSE once it is closed
  request,   \* call of each thread that has not taken effect, or Idle
  reply      \* what the last call of each thread returned, until its next

vars == <<size, fifo, open, request, reply>>

Init ==
  /\ size \in Sizes
  /\ fifo = << >>
  /\ open \in BOOLEAN
  /\ request = [t \in Threads |-> Idle]
  /\ reply = [t \in Threads |-> Failed]

Invoke(t) ==
  /\ request[t] = Idle
  /\ \E r \in Requests : request' = [request EXCEPT ![t] = r]
  /\ reply' = [reply EXCEPT ![t] = Failed]
  /\ UNCHANGED <<size, fifo, open>>

Answer(t, value) ==
  /\ request' = [request EXCEPT ![t] = Idle]
  /\ reply' = [reply EXCEPT ![t] = value]

Push(t) ==
  /\ request[t].op = "push"
  /\ IF open /\ Len(fifo) < size
       THEN Answer(t, Done) /\ fifo' = Append(fifo, request[t].element)
       ELSE Answer(t, Failed) /\ fifo' = fifo
  /\ UNCHANGED <<size, open>>

Pop(t) ==
  /\ request[t].op = "pop"
  /\ IF open /\ fifo # << >>
       THEN Answer(t, Head(fifo)) /\ fifo' = Tail(fifo)
       ELSE Answer(t, Failed) /\ fifo' = fifo
  /\ UNCHANGED <<size, open>>

Next1(t) ==
  /\ request[t].op = "next"
  /\ Answer(t, IF open /\ fifo # << >> THEN Head(fifo) ELSE Failed)
  /\ UNCHANGED <<size, fifo, open>>

Count(t) ==
  /\ request[t].op = "count"
  /\ Answer(t, Len(fifo))
  /\ UNCHANGED <<size, fifo, open>>

\* A closed queue keeps its elements until the call that closes it returns.
Close(t) ==
  /\ request[t].op = "close"
  /\ open' = FALSE
  /\ UNCHANGED <<size, fifo, request, reply>>

Drop(t) ==
  /\ request[t].op = "close" /\ ~open
  /\ fifo' = << >> /\ size' = 0
  /\ Answer(t, Done)
  /\ UNCHANGED open

Next == \E t \in Threads : Invoke(t) \/ Push(t) \/ Pop(t) \/ Next1(t) \/ Count(t) \/ Close(t) \/ Drop(t)

Spec == Init /\ [][Next]_vars
=============================================================================
