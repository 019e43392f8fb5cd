------------------------------ MODULE JobFifo ------------------------------
(***************************************************************************)
(* What bop::job::JobQueue and JobQueueNonThreadsafe promise their callers *)
(* (src/src/job/job_queue.h): each queue is a FIFO of jobs, and every      *)
(* push, pop, clear and size takes effect in one instant between its call  *)
(* and its return, whatever the other threads do meanwhile.                *)
(*                                                                         *)
(* The queues are non-owning: a caller gives up a job when it pushes it    *)
(* and receives one when it pops it.  A cleared job is forgotten.          *)
(***************************************************************************)
EXTENDS Naturals, Sequences

CONSTANTS
  Threads,      \* the threads that call the queues
  Jobs,         \* the Job objects
  SharedQueues, \* the JobQueue objects: any thread may call them
  Bins,         \* the JobQueueNonThreadsafe objects: thread_local
  Owner,        \* the thread whose thread_local variable each bin is
  NULL          \* nullptr, and the absence of a call

Queues == SharedQueues \cup Bins

(* A call of a queue: its operation, the queue and the job it pushes. *)
CallRecord ==
  [op: {"push"}, queue: Queues, job: Jobs]
    \cup [op: {"pop", "clear", "size"}, queue: Queues, job: {NULL}]

VARIABLES
  contents, \* the jobs of each queue, the next one to pop first
  hand,     \* the jobs each thread holds: those it may push
  request,  \* the call each thread is in, or NULL
  done,     \* whether that call has taken effect
  response  \* what it returns, once it has

vars == <<contents, hand, request, done, response>>

(***************************************************************************)
(* The calls thread t may make: of a shared queue, or of a bin of its own. *)
(* It pushes only a job it holds, because the links are intrusive.         *)
(***************************************************************************)
MayCall(t, c) ==
  /\ c.queue \in Bins => Owner[c.queue] = t
  /\ c.op = "push" => c.job \in hand[t]

Init ==
  /\ contents = [q \in Queues |-> <<>>]
  /\ \E holder \in [Jobs -> Threads] :
       hand = [t \in Threads |-> {j \in Jobs : holder[j] = t}]
  /\ request = [t \in Threads |-> NULL]
  /\ done = [t \in Threads |-> FALSE]
  /\ response = [t \in Threads |-> NULL]

Call(t, c) ==
  /\ request[t] = NULL
  /\ MayCall(t, c)
  /\ request' = [request EXCEPT ![t] = c]
  /\ hand' = [hand EXCEPT ![t] = @ \ {c.job}]
  /\ UNCHANGED <<contents, done, response>>

(* The instant at which the call of t takes effect. *)
TakesEffect(t) ==
  /\ request[t] # NULL
  /\ ~done[t]
  /\ LET c == request[t]
         s == contents[c.queue]
     IN  \/ /\ c.op = "push"
            /\ contents' = [contents EXCEPT ![c.queue] = Append(s, c.job)]
            /\ UNCHANGED response
         \/ /\ c.op = "pop" /\ s # <<>>
            /\ contents' = [contents EXCEPT ![c.queue] = Tail(s)]
            /\ response' = [response EXCEPT ![t] = Head(s)]
         \/ /\ c.op = "pop" /\ s = <<>>
            /\ UNCHANGED <<contents, response>>
         \/ /\ c.op = "clear"
            /\ contents' = [contents EXCEPT ![c.queue] = <<>>]
            /\ response' = [response EXCEPT ![t] = Len(s)]
         \/ /\ c.op = "size"
            /\ response' = [response EXCEPT ![t] = Len(s)]
            /\ UNCHANGED contents
  /\ done' = [done EXCEPT ![t] = TRUE]
  /\ UNCHANGED <<hand, request>>

(* The call returns; a popped job is in the hands of the caller. *)
Return(t) ==
  /\ done[t]
  /\ hand' = IF request[t].op = "pop" /\ response[t] # NULL
               THEN [hand EXCEPT ![t] = @ \cup {response[t]}]
               ELSE hand
  /\ request' = [request EXCEPT ![t] = NULL]
  /\ done' = [done EXCEPT ![t] = FALSE]
  /\ response' = [response EXCEPT ![t] = NULL]
  /\ UNCHANGED contents

Next ==
  \E t \in Threads :
    \/ \E c \in CallRecord : Call(t, c)
    \/ TakesEffect(t)
    \/ Return(t)

Spec == Init /\ [][Next]_vars
=============================================================================
