------------------------------ MODULE JobQueue ------------------------------
(***************************************************************************)
(* The intrusive singly linked lists of src/src/job/job_queue.{h,cpp}:     *)
(* JobQueue, whose operations hold an atomic_flag as a spin lock, and      *)
(* JobQueueNonThreadsafe, the same list without a lock, which JobSystem    *)
(* keeps in thread_local variables (the recycling and garbage bins).       *)
(*                                                                         *)
(* All lists link their jobs through the one field Job::m_Next, so a job   *)
(* may be on one list at a time; `hand` says which thread holds a job and  *)
(* may push it.  An operation is cut where another thread could see a      *)
(* difference if the lock failed: acquire, the writes in program order,    *)
(* release.  test_and_set(acquire) and clear(release) order the critical   *)
(* sections, so interleaving the steps is enough.                          *)
(*                                                                         *)
(* `contents` is a history variable: the list as a sequence, changed at    *)
(* the step that makes the operation take effect.                          *)
(***************************************************************************)
EXTENDS Integers, Sequences

CONSTANTS
  Threads,      \* the threads that call the queues
  Jobs,         \* the Job objects
  SharedQueues, \* the JobQueue objects
  Bins,         \* the JobQueueNonThreadsafe objects
  Owner,        \* the thread whose thread_local variable each bin is
  NULL          \* nullptr

Queues == SharedQueues \cup Bins

(* A call of a queue: its operation, the queue and the job it pushes. *)
CallRecord ==
  [op: {"push"}, queue: Queues, job: Jobs]
    \cup [op: {"pop", "clear", "size"}, queue: Queues, job: {NULL}]

ASSUME QueueAssumption ==
  /\ SharedQueues \cap Bins = {}
  /\ Owner \in [Bins -> Threads]
  /\ NULL \notin Jobs \cup Nat \cup CallRecord

VARIABLES
  m_Lock,       \* the atomic_flag of each JobQueue
  m_Head,
  m_Tail,
  m_NumEntries,
  m_Next,       \* Job::m_Next, shared by every list
  pc,           \* the next step of each thread's operation
  call,         \* the operation each thread is in, or NULL
  result,       \* the local variable `result` of the operation
  hand,         \* the jobs each thread holds
  contents      \* history: the jobs of each list, in order

vars == <<m_Lock, m_Head, m_Tail, m_NumEntries, m_Next, pc, call, result, hand, contents>>
lists == <<m_Head, m_Tail, m_NumEntries, m_Next>>

Init ==
  /\ m_Lock = [q \in SharedQueues |-> FALSE]
  /\ m_Head = [q \in Queues |-> NULL]
  /\ m_Tail = [q \in Queues |-> NULL]
  /\ m_NumEntries = [q \in Queues |-> 0]
  /\ m_Next = [j \in Jobs |-> NULL]
  /\ pc = [t \in Threads |-> "idle"]
  /\ call = [t \in Threads |-> NULL]
  /\ result = [t \in Threads |-> NULL]
  /\ \E holder \in [Jobs -> Threads] :
       hand = [t \in Threads |-> {j \in Jobs : holder[j] = t}]
  /\ contents = [q \in Queues |-> <<>>]

Goto(t, label) == pc' = [pc EXCEPT ![t] = label]

(* The caller: it holds the job it pushes, and a bin is called by its owner. *)
Begin(t, c) ==
  /\ pc[t] = "idle"
  /\ c.op = "push" => c.job \in hand[t]
  /\ call' = [call EXCEPT ![t] = c]
  /\ hand' = [hand EXCEPT ![t] = @ \ {c.job}]
  /\ UNCHANGED <<m_Lock, lists, result, contents>>

CallShared(t, c) ==
  /\ c.queue \in SharedQueues
  /\ Begin(t, c)
  /\ Goto(t, "lock")

CallBin(t, c) ==
  /\ c.queue \in Bins
  /\ Owner[c.queue] = t
  /\ Begin(t, c)
  /\ Goto(t, c.op)

(* while (m_Lock.test_and_set(acquire)); *)
LockAnyway(t) ==
  /\ pc[t] = "lock"
  /\ m_Lock' = [m_Lock EXCEPT ![call[t].queue] = TRUE]
  /\ Goto(t, call[t].op)
  /\ UNCHANGED <<lists, call, result, hand, contents>>

Lock(t) ==
  /\ pc[t] = "lock"
  /\ ~m_Lock[call[t].queue]
  /\ m_Lock' = [m_Lock EXCEPT ![call[t].queue] = TRUE]
  /\ Goto(t, call[t].op)
  /\ UNCHANGED <<lists, call, result, hand, contents>>

(* work->m_Next = nullptr; *)
PushKeepsLink(t) ==
  /\ pc[t] = "push"
  /\ Goto(t, "head")
  /\ UNCHANGED <<m_Lock, lists, call, result, hand, contents>>

PushClearsLink(t) ==
  /\ pc[t] = "push"
  /\ m_Next' = [m_Next EXCEPT ![call[t].job] = NULL]
  /\ Goto(t, "head")
  /\ UNCHANGED <<m_Lock, m_Head, m_Tail, m_NumEntries, call, result, hand, contents>>

(* if (!m_Head) m_Head = work; *)
PushHead(t) ==
  /\ pc[t] = "head"
  /\ LET q == call[t].queue
     IN  m_Head' = IF m_Head[q] = NULL
                     THEN [m_Head EXCEPT ![q] = call[t].job]
                     ELSE m_Head
  /\ Goto(t, "tail")
  /\ UNCHANGED <<m_Lock, m_Tail, m_NumEntries, m_Next, call, result, hand, contents>>

(* The link behind m_Tail (if there is one), m_Tail = work; ++m_NumEntries; *)
PushTail(t) ==
  /\ pc[t] = "tail"
  /\ LET q == call[t].queue
         work == call[t].job
     IN  /\ m_Next' = IF m_Tail[q] = NULL
                        THEN m_Next
                        ELSE [m_Next EXCEPT ![m_Tail[q]] = work]
         /\ m_Tail' = [m_Tail EXCEPT ![q] = work]
         /\ m_NumEntries' = [m_NumEntries EXCEPT ![q] = @ + 1]
         /\ contents' = [contents EXCEPT ![q] = Append(@, work)]
  /\ Goto(t, "return")
  /\ UNCHANGED <<m_Lock, m_Head, call, result, hand>>

(* auto* result = m_Head; if (result) ... *)
PopCountsMisses(t) ==
  /\ pc[t] = "pop"
  /\ LET q == call[t].queue
     IN  /\ result' = [result EXCEPT ![t] = m_Head[q]]
         /\ Goto(t, IF m_Head[q] = NULL THEN "return" ELSE "advance")
         /\ m_NumEntries' = IF m_Head[q] = NULL
                              THEN [m_NumEntries EXCEPT ![q] = @ - 1]
                              ELSE m_NumEntries
  /\ UNCHANGED <<m_Lock, m_Head, m_Tail, m_Next, call, hand, contents>>

PopReadsHead(t) ==
  /\ pc[t] = "pop"
  /\ result' = [result EXCEPT ![t] = m_Head[call[t].queue]]
  /\ Goto(t, IF m_Head[call[t].queue] = NULL THEN "return" ELSE "advance")
  /\ UNCHANGED <<m_Lock, lists, call, hand, contents>>

Rest(s) == IF s = <<>> THEN <<>> ELSE Tail(s)

(* m_Head = result->m_Next; --m_NumEntries; *)
PopAdvances(t) ==
  /\ pc[t] = "advance"
  /\ LET q == call[t].queue
     IN  /\ m_Head' = [m_Head EXCEPT ![q] = m_Next[result[t]]]
         /\ m_NumEntries' = [m_NumEntries EXCEPT ![q] = @ - 1]
         /\ contents' = [contents EXCEPT ![q] = Rest(@)]
  /\ Goto(t, "trim")
  /\ UNCHANGED <<m_Lock, m_Tail, m_Next, call, result, hand>>

(* if (result == m_Tail) m_Tail = nullptr; *)
PopNeverTrims(t) ==
  /\ pc[t] = "trim"
  /\ Goto(t, "return")
  /\ UNCHANGED <<m_Lock, lists, call, result, hand, contents>>

PopTrimsTail(t) ==
  /\ pc[t] = "trim"
  /\ LET q == call[t].queue
     IN  m_Tail' = IF result[t] = m_Tail[q]
                     THEN [m_Tail EXCEPT ![q] = NULL]
                     ELSE m_Tail
  /\ Goto(t, "return")
  /\ UNCHANGED <<m_Lock, m_Head, m_NumEntries, m_Next, call, result, hand, contents>>

Clear(t) ==
  /\ pc[t] = "clear"
  /\ LET q == call[t].queue
     IN  /\ result' = [result EXCEPT ![t] = m_NumEntries[q]]
         /\ m_Head' = [m_Head EXCEPT ![q] = NULL]
         /\ m_Tail' = [m_Tail EXCEPT ![q] = NULL]
         /\ m_NumEntries' = [m_NumEntries EXCEPT ![q] = 0]
         /\ contents' = [contents EXCEPT ![q] = <<>>]
  /\ Goto(t, "return")
  /\ UNCHANGED <<m_Lock, m_Next, call, hand>>

Size(t) ==
  /\ pc[t] = "size"
  /\ result' = [result EXCEPT ![t] = m_NumEntries[call[t].queue]]
  /\ Goto(t, "return")
  /\ UNCHANGED <<m_Lock, lists, call, hand, contents>>

(* m_Lock.clear(release) on a JobQueue, then the return of the operation. *)
ReturnKeepingLock(t) ==
  /\ pc[t] = "return"
  /\ m_Lock' = IF call[t].queue \in SharedQueues /\ result[t] # NULL
                 THEN [m_Lock EXCEPT ![call[t].queue] = FALSE]
                 ELSE m_Lock
  /\ hand' = IF call[t].op = "pop" /\ result[t] # NULL
               THEN [hand EXCEPT ![t] = @ \cup {result[t]}]
               ELSE hand
  /\ call' = [call EXCEPT ![t] = NULL]
  /\ result' = [result EXCEPT ![t] = NULL]
  /\ Goto(t, "idle")
  /\ UNCHANGED <<lists, contents>>

Return(t) ==
  /\ pc[t] = "return"
  /\ m_Lock' = IF call[t].queue \in SharedQueues
                 THEN [m_Lock EXCEPT ![call[t].queue] = FALSE]
                 ELSE m_Lock
  /\ hand' = IF call[t].op = "pop" /\ result[t] # NULL
               THEN [hand EXCEPT ![t] = @ \cup {result[t]}]
               ELSE hand
  /\ call' = [call EXCEPT ![t] = NULL]
  /\ result' = [result EXCEPT ![t] = NULL]
  /\ Goto(t, "idle")
  /\ UNCHANGED <<lists, contents>>

(* The steps of an operation that has begun. *)
Step(t) ==
  \/ Lock(t)
  \/ PushClearsLink(t) \/ PushHead(t) \/ PushTail(t)
  \/ PopReadsHead(t) \/ PopAdvances(t) \/ PopTrimsTail(t)
  \/ Clear(t) \/ Size(t)
  \/ Return(t)

Next ==
  \E t \in Threads :
    \/ \E c \in CallRecord : CallShared(t, c) \/ CallBin(t, c)
    \/ Step(t)

Spec == Init /\ [][Next]_vars

(***************************************************************************)
(* A thread inside an operation is scheduled again and again; nothing says *)
(* which of the threads that spin on a lock gets it.                       *)
(***************************************************************************)
Fairness == \A t \in Threads : WF_vars(Step(t))

FairSpec == Spec /\ Fairness
-----------------------------------------------------------------------------
Labels == {"idle", "lock", "push", "head", "tail", "pop", "advance", "trim",
           "clear", "size", "return"}

(* The type of every variable of the queues and of the threads in them. *)
TypeOK ==
  /\ m_Lock \in [SharedQueues -> BOOLEAN]
  /\ m_Head \in [Queues -> Jobs \cup {NULL}]
  /\ m_Tail \in [Queues -> Jobs \cup {NULL}]
  /\ m_NumEntries \in [Queues -> Nat]
  /\ m_Next \in [Jobs -> Jobs \cup {NULL}]
  /\ pc \in [Threads -> Labels]
  /\ call \in [Threads -> CallRecord \cup {NULL}]
  /\ result \in [Threads -> Jobs \cup Nat \cup {NULL}]
  /\ hand \in [Threads -> SUBSET Jobs]
  /\ contents \in [Queues -> Seq(Jobs)]

(* Thread t runs the body of an operation on q. *)
Inside(t, q) == pc[t] \notin {"idle", "lock"} /\ call[t].queue = q

(***************************************************************************)
(* Mutual exclusion: the atomic_flag of a JobQueue is set exactly while    *)
(* one thread is between its test_and_set and its clear, and two threads   *)
(* are never inside operations on one queue, locked or thread_local.       *)
(***************************************************************************)
MutualExclusion ==
  /\ \A q \in SharedQueues : m_Lock[q] <=> \E t \in Threads : Inside(t, q)
  /\ \A t, u \in Threads, q \in Queues : Inside(t, q) /\ Inside(u, q) => t = u

(***************************************************************************)
(* The linked list of every queue that no thread is inside is exactly its  *)
(* contents: m_Head and m_Tail point to the first and the last job, m_Next *)
(* leads from each job to the next and ends in nullptr, and m_NumEntries   *)
(* counts them.  In particular m_Head and m_Tail are null together.        *)
(***************************************************************************)
WellLinked(q) ==
  LET c == contents[q]
  IN  /\ m_NumEntries[q] = Len(c)
      /\ m_Head[q] = IF c = <<>> THEN NULL ELSE c[1]
      /\ m_Tail[q] = IF c = <<>> THEN NULL ELSE c[Len(c)]
      /\ \A i \in 1..Len(c) :
           m_Next[c[i]] = IF i = Len(c) THEN NULL ELSE c[i + 1]

ListsAreWellLinked ==
  \A q \in Queues : (\A t \in Threads : ~Inside(t, q)) => WellLinked(q)

(***************************************************************************)
(* The job that thread t has given to a push that has not linked it yet,   *)
(* or taken by a pop that has unlinked it and not returned.                *)
(***************************************************************************)
Carried(t) ==
  IF pc[t] \in {"lock", "push", "head", "tail"} /\ call[t].op = "push"
    THEN {call[t].job}
    ELSE IF pc[t] \in {"trim", "return"} /\ call[t].op = "pop" /\ result[t] # NULL
      THEN {result[t]}
      ELSE {}

Elements(s) == {s[i] : i \in 1..Len(s)}

(***************************************************************************)
(* One list at a time: a job is on at most one list, once, and the jobs on *)
(* lists, in the hands of the threads and in their operations are          *)
(* different ones.  Two threads never receive one job from their pops, and *)
(* pushing a job never redirects the m_Next of a job on another list.      *)
(***************************************************************************)
OneListAtATime ==
  /\ \A q \in Queues : \A i, k \in 1..Len(contents[q]) :
       contents[q][i] = contents[q][k] => i = k
  /\ \A q, r \in Queues :
       q # r => Elements(contents[q]) \cap Elements(contents[r]) = {}
  /\ \A t \in Threads, q \in Queues :
       (hand[t] \cup Carried(t)) \cap Elements(contents[q]) = {}
  /\ \A t, u \in Threads :
       t # u => (hand[t] \cup Carried(t)) \cap (hand[u] \cup Carried(u)) = {}
  /\ \A t \in Threads : hand[t] \cap Carried(t) = {}

(***************************************************************************)
(* A lock is never kept: whoever holds the flag of a queue lets it go, so  *)
(* a spinning thread is never stuck behind an operation that has ended.    *)
(***************************************************************************)
LockIsReleased == \A q \in SharedQueues : m_Lock[q] ~> ~m_Lock[q]

(***************************************************************************)
(* Linearizability: the queues implement the FIFOs of JobFifo.  A push     *)
(* takes effect when it links the job behind the tail, a pop when it       *)
(* advances the head (or reads that it is null), clear and size when they  *)
(* read the count.                                                         *)
(***************************************************************************)
Done(t) == pc[t] \in {"trim", "return"}

Fifo == INSTANCE JobFifo WITH
          request  <- call,
          done     <- [t \in Threads |-> Done(t)],
          response <- [t \in Threads |-> IF Done(t) THEN result[t] ELSE NULL]

ImplementsFifo == Fifo!Spec
=============================================================================
