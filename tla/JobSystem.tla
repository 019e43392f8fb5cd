----------------------------- MODULE JobSystem -----------------------------
(***************************************************************************)
(* The thread pool of src/src/job: JobSystem (job_system.{h,inl,cpp}) and  *)
(* Job (job.{h,inl,cpp}).  NumWorkers detached threads run the loop of     *)
(* JobSystem::worker; other threads of the program (the clients) and the   *)
(* work of the jobs themselves schedule jobs, chain continuations, wait    *)
(* and shut the system down.                                               *)
(*                                                                         *)
(* An operation of a JobQueue is one step here and a queue is a sequence:  *)
(* module JobQueue shows that the spin-locked lists implement that, as     *)
(* long as a job is on one list at a time, which OneOwner states below.    *)
(* Steps are cut at every access to what another thread may change; the    *)
(* thread_local variables and the Job objects that no other thread can     *)
(* reach yet change together with the shared access that follows them.     *)
(*                                                                         *)
(* The model starts when the constructor has returned and the workers have *)
(* passed their start barrier.  What the work of a job does is any         *)
(* sequence of calls into the system; `Works` counts the invocables that a *)
(* behaviour may pass, so it bounds its length.                            *)
(***************************************************************************)
EXTENDS Integers, Sequences, FiniteSets

CONSTANTS
  NumWorkers,          \* the num_threads of the constructor
  Clients,             \* the threads of the program that are not workers
  Jobs,                \* the blocks of memory that hold a Job
  MayAllocate(_),      \* the blocks the memory resource may choose from, of the free ones
  Works,               \* the invocables passed to schedule and then
  Pins,                \* the values of thread_index the callers pass
  UInt32,              \* 2^32, the range of uint32_t
  k_LoopsUntilGC,
  k_RecyclingCapacity,
  MayUseParent,        \* callers pass a parent to schedule
  MayChainLate,        \* callers call then on a job that may have finished
  MayShutdown,         \* callers call shutdown
  NULL                 \* nullptr and nullopt

Workers == 0..(NumWorkers - 1)
Threads == Workers \cup Clients

ASSUME SystemAssumption ==
  /\ NumWorkers \in Nat \ {0}
  /\ \A free \in SUBSET Jobs : MayAllocate(free) \subseteq free
  /\ Pins \subseteq Nat \cup {NULL}
  /\ UInt32 \in Nat /\ UInt32 > NumWorkers
  /\ k_LoopsUntilGC \in Nat /\ k_RecyclingCapacity \in Nat
  /\ {MayUseParent, MayChainLate, MayShutdown} \subseteq BOOLEAN
  /\ Clients \cap Nat = {}
  /\ NULL \notin Jobs \cup Works \cup Nat \cup Clients

VARIABLES
  m_NumThreads, m_Shutdown, m_ShutdownComplete,
  m_GlobalQueues, m_LocalQueues,
  m_Traces,          \* the work each worker has traced
  tracelog,          \* what save_tracelog has written, or NULL
  (* the fields of each Job *)
  m_NumChildren, m_Parent, m_Continuation, m_ThreadIndex, m_Work,
  allocated,         \* the blocks that hold a Job
  (* thread_local variables *)
  l_RecyclingBin, l_GarbageBin, l_CurrentJob, l_no_work_counter, tidx,
  (* local variables *)
  steal_from, numStealAttempts, continuation,
  completing,        \* the jobs of the nested calls of job_completed
  handle,            \* the Job& a thread got last: [job, work], or NULL
  pc,
  task               \* history: what became of each invocable

flags   == <<m_Shutdown, m_ShutdownComplete>>
queues  == <<m_GlobalQueues, m_LocalQueues>>
traces  == <<m_Traces, tracelog>>
fields  == <<m_NumChildren, m_Parent, m_Continuation, m_ThreadIndex, m_Work>>
bins    == <<l_RecyclingBin, l_GarbageBin>>
search  == <<steal_from, numStealAttempts>>
running == <<l_CurrentJob, continuation, completing>>

vars == <<m_NumThreads, flags, queues, traces, fields, allocated, bins, running,
          l_no_work_counter, tidx, search, handle, pc, task>>

Init ==
  /\ m_NumThreads = NumWorkers
  /\ m_Shutdown = FALSE /\ m_ShutdownComplete = FALSE
  /\ m_GlobalQueues = [w \in Workers |-> <<>>]
  /\ m_LocalQueues = [w \in Workers |-> <<>>]
  /\ m_Traces = [w \in Workers |-> {}] /\ tracelog = NULL
  /\ m_NumChildren = [j \in Jobs |-> 1]
  /\ m_Parent = [j \in Jobs |-> NULL]
  /\ m_Continuation = [j \in Jobs |-> NULL]
  /\ m_ThreadIndex = [j \in Jobs |-> NULL]
  /\ m_Work = [j \in Jobs |-> NULL]
  /\ allocated = {}
  /\ l_RecyclingBin = [t \in Threads |-> <<>>]
  /\ l_GarbageBin = [w \in Workers |-> <<>>]
  /\ l_CurrentJob = [w \in Workers |-> NULL]
  /\ l_no_work_counter = [w \in Workers |-> 0]
  /\ tidx = [t \in Threads |-> 0]
  /\ steal_from = [w \in Workers |-> (w + 1) % NumWorkers]
  /\ numStealAttempts = [w \in Workers |-> 0]
  /\ continuation = [w \in Workers |-> NULL]
  /\ completing = [w \in Workers |-> <<>>]
  /\ handle = [t \in Threads |-> NULL]
  /\ pc = [t \in Threads |-> IF t \in Workers THEN "loop" ELSE "ready"]
  /\ task = [k \in Works |->
               [phase |-> "unused", after |-> NULL, parent |-> NULL, early |-> FALSE]]

Goto(t, label) == pc' = [pc EXCEPT ![t] = label]
-----------------------------------------------------------------------------
(* The calls of the clients and of the work of the jobs. *)

(* A thread may call when it is a client, or a worker in the work of a job. *)
MayCall(t) == pc[t] = IF t \in Workers THEN "run" ELSE "ready"

Unused == {k \in Works : task[k].phase = "unused"}
NewWork == CHOOSE k \in Unused : TRUE

(***************************************************************************)
(* construct: create_job reuses a job of the thread's recycling bin or     *)
(* allocates one; reset or the member initialisers set its fields.         *)
(***************************************************************************)
CreateJob(t, j) ==
  LET bin == l_RecyclingBin[t]
  IN  IF bin = <<>>
        THEN /\ j \in MayAllocate(Jobs \ allocated)
             /\ allocated' = allocated \cup {j}
             /\ UNCHANGED l_RecyclingBin
        ELSE /\ j = Head(bin)
             /\ l_RecyclingBin' = [l_RecyclingBin EXCEPT ![t] = Tail(bin)]
             /\ UNCHANGED allocated

SetNoCount(j, parent, thread_index) ==
  /\ m_NumChildren' = [m_NumChildren EXCEPT ![j] = 0]
  /\ m_Parent' = [m_Parent EXCEPT ![j] = parent]
  /\ m_ThreadIndex' = [m_ThreadIndex EXCEPT ![j] = thread_index]
  /\ m_Work' = [m_Work EXCEPT ![j] = NewWork]

SetFields(j, parent, thread_index) ==
  /\ m_NumChildren' = [m_NumChildren EXCEPT ![j] = 1]
  /\ m_Parent' = [m_Parent EXCEPT ![j] = parent]
  /\ m_ThreadIndex' = [m_ThreadIndex EXCEPT ![j] = thread_index]
  /\ m_Work' = [m_Work EXCEPT ![j] = NewWork]

(* The thread_local l_ThreadIndex; nothing sets it in a client. *)
l_ThreadIndex(t) == IF t \in Workers THEN t ELSE 0

(* schedule_work, up to its notify_one. *)
ScheduleWorkWrapsLate(t, j, thread_index) ==
  /\ LET i == IF tidx[t] + 1 > m_NumThreads THEN 0 ELSE tidx[t] + 1
     IN  /\ tidx' = [tidx EXCEPT ![t] = i]
         /\ m_GlobalQueues' = [w \in Workers |->
              IF w = i THEN Append(m_GlobalQueues[w], j) ELSE m_GlobalQueues[w]]
  /\ UNCHANGED m_LocalQueues

ScheduleWorkFallsThrough(t, j, thread_index) ==
  /\ tidx' = [tidx EXCEPT ![t] = (@ + 1) % NumWorkers]
  /\ m_GlobalQueues' = [m_GlobalQueues EXCEPT ![tidx'[t]] = Append(@, j)]
  /\ m_LocalQueues' = [m_LocalQueues EXCEPT ![l_ThreadIndex(t)] = Append(@, j)]

ScheduleWork(t, j, thread_index) ==
  IF thread_index = NULL \/ thread_index >= m_NumThreads
    THEN LET i == IF tidx[t] + 1 >= m_NumThreads THEN 0 ELSE tidx[t] + 1
         IN  /\ tidx' = [tidx EXCEPT ![t] = i]
             /\ m_GlobalQueues' = [m_GlobalQueues EXCEPT ![i] = Append(@, j)]
             /\ UNCHANGED m_LocalQueues
    ELSE /\ m_LocalQueues' = [m_LocalQueues EXCEPT ![l_ThreadIndex(t)] = Append(@, j)]
         /\ UNCHANGED <<tidx, m_GlobalQueues>>

(* m_WaitCondition.notify_one(): any one of the workers that wait. *)
NotifyOne ==
  LET waiting == {w \in Workers : pc[w] = "wait"}
  IN  IF waiting = {} THEN UNCHANGED pc
                      ELSE \E w \in waiting : Goto(w, "woken")

(* bop::schedule(work, parent, thread_index) *)
Schedule(t, j, useParent, thread_index) ==
  /\ MayCall(t)
  /\ Unused # {}
  /\ useParent => handle[t] # NULL
  /\ CreateJob(t, j)
  /\ SetFields(j, IF useParent THEN handle[t].job ELSE NULL, thread_index)
  /\ m_Continuation' = [m_Continuation EXCEPT ![j] = NULL]
  /\ ScheduleWork(t, j, thread_index)
  /\ NotifyOne
  /\ handle' = [handle EXCEPT ![t] = [job |-> j, work |-> NewWork]]
  /\ task' = [task EXCEPT ![NewWork] =
                [phase |-> "queued", after |-> NULL, early |-> ~m_Shutdown,
                 parent |-> IF useParent THEN handle[t].work ELSE NULL]]
  /\ UNCHANGED <<m_NumThreads, flags, traces, l_GarbageBin, running,
                 l_no_work_counter, search>>

(* Has the work that Job& stands for finished, or been thrown away? *)
Over(h) == task[h.work].phase \in {"done", "dropped"}

(***************************************************************************)
(* handle.then(work, thread_index) constructs a job and stores it in       *)
(* m_Continuation of the Job& the caller has, whatever has become of that  *)
(* job.  Unless MayChainLate, the callers chain only onto a job that has   *)
(* not finished: nothing in the system makes sure of it.                   *)
(***************************************************************************)
Then(t, j, thread_index) ==
  /\ MayCall(t)
  /\ Unused # {}
  /\ handle[t] # NULL
  /\ MayChainLate \/ ~Over(handle[t])
  /\ CreateJob(t, j)
  /\ SetFields(j, NULL, thread_index)
  /\ m_Continuation' = [m_Continuation EXCEPT ![j] = NULL, ![handle[t].job] = j]
  /\ handle' = [handle EXCEPT ![t] = [job |-> j, work |-> NewWork]]
  /\ task' = [task EXCEPT ![NewWork] =
                [phase |-> "waiting", after |-> handle[t].work, early |-> ~m_Shutdown,
                 parent |-> NULL]]
  /\ UNCHANGED <<m_NumThreads, flags, queues, traces, l_GarbageBin, running,
                 l_no_work_counter, tidx, search, pc>>

(* bop::shutdown() *)
Shutdown(t) ==
  /\ MayCall(t)
  /\ MayShutdown
  /\ m_Shutdown' = TRUE
  /\ UNCHANGED <<m_NumThreads, m_ShutdownComplete, queues, traces, fields, allocated, bins,
                 running, l_no_work_counter, tidx, search, handle, pc, task>>

(***************************************************************************)
(* Job::wait and wait_for_shutdown, which poll.  Only a client calls them: *)
(* a worker that waits does not run jobs.                                  *)
(***************************************************************************)
Wait(c) ==
  /\ pc[c] = "ready"
  /\ \/ handle[c] # NULL /\ Goto(c, "waitJob")
     \/ MayShutdown /\ Goto(c, "waitShutdown")
  /\ UNCHANGED <<m_NumThreads, flags, queues, traces, fields, allocated, bins, running,
                 l_no_work_counter, tidx, search, handle, task>>

WaitEnds(c) ==
  /\ \/ pc[c] = "waitJob" /\ m_NumChildren[handle[c].job] = 0
     \/ pc[c] = "waitShutdown" /\ m_ShutdownComplete
  /\ Goto(c, "ready")
  /\ UNCHANGED <<m_NumThreads, flags, queues, traces, fields, allocated, bins, running,
                 l_no_work_counter, tidx, search, handle, task>>

Call(t) ==
  \/ \E j \in Jobs, thread_index \in Pins :
       \/ \E useParent \in {FALSE, MayUseParent} : Schedule(t, j, useParent, thread_index)
       \/ Then(t, j, thread_index)
  \/ Shutdown(t)
-----------------------------------------------------------------------------
(* JobSystem::worker. *)

(* while (!m_Shutdown) *)
Loop(w) ==
  /\ pc[w] = "loop"
  /\ Goto(w, IF m_Shutdown THEN "drainGlobal" ELSE "local")
  /\ UNCHANGED <<m_NumThreads, flags, queues, traces, fields, allocated, bins, running,
                 l_no_work_counter, tidx, search, handle, task>>

(* The worker has j as its current job and calls it, up to its first call here. *)
Start(w, j) ==
  /\ l_CurrentJob' = [l_CurrentJob EXCEPT ![w] = j]
  /\ task' = [task EXCEPT ![m_Work[j]].phase = "running"]
  /\ Goto(w, "run")

PopLocal(w) ==
  /\ pc[w] = "local"
  /\ LET q == m_LocalQueues[w]
     IN  IF q = <<>>
           THEN Goto(w, "global") /\ UNCHANGED <<m_LocalQueues, l_CurrentJob, task>>
           ELSE /\ m_LocalQueues' = [m_LocalQueues EXCEPT ![w] = Tail(q)]
                /\ Start(w, Head(q))
  /\ UNCHANGED <<m_NumThreads, flags, m_GlobalQueues, traces, fields, allocated, bins,
                 continuation, completing, l_no_work_counter, tidx, search, handle>>

OneAttemptFewer == m_NumThreads - 2

StealAttempts == m_NumThreads - 1

(* The pop of the worker's own global queue, then numStealAttempts is set. *)
PopGlobal(w) ==
  /\ pc[w] = "global"
  /\ LET q == m_GlobalQueues[w]
     IN  IF q = <<>>
           THEN /\ numStealAttempts' = [numStealAttempts EXCEPT ![w] = StealAttempts]
                /\ Goto(w, "steal")
                /\ UNCHANGED <<m_GlobalQueues, l_CurrentJob, task>>
           ELSE /\ m_GlobalQueues' = [m_GlobalQueues EXCEPT ![w] = Tail(q)]
                /\ Start(w, Head(q))
                /\ UNCHANGED numStealAttempts
  /\ UNCHANGED <<m_NumThreads, flags, m_LocalQueues, traces, fields, allocated, bins,
                 continuation, completing, l_no_work_counter, tidx, steal_from, handle>>

(* One test of !l_CurrentJob && (--numStealAttempts > 0), and its attempt. *)
Steal(w) ==
  /\ pc[w] = "steal"
  /\ LET n == (numStealAttempts[w] - 1) % UInt32
         i == IF steal_from[w] + 1 >= m_NumThreads THEN 0 ELSE steal_from[w] + 1
         q == m_GlobalQueues[i]
     IN  /\ numStealAttempts' = [numStealAttempts EXCEPT ![w] = n]
         /\ \/ n = 0 /\ Goto(w, "idle")
               /\ UNCHANGED <<m_GlobalQueues, l_CurrentJob, task, steal_from>>
            \/ n > 0 /\ q = <<>>
               /\ steal_from' = [steal_from EXCEPT ![w] = i]
               /\ UNCHANGED <<m_GlobalQueues, l_CurrentJob, task, pc>>
            \/ n > 0 /\ q # <<>>
               /\ steal_from' = [steal_from EXCEPT ![w] = i]
               /\ m_GlobalQueues' = [m_GlobalQueues EXCEPT ![i] = Tail(q)]
               /\ Start(w, Head(q))
  /\ UNCHANGED <<m_NumThreads, flags, m_LocalQueues, traces, fields, allocated, bins,
                 continuation, completing, l_no_work_counter, tidx, handle>>

(* store_trace *)
StoreTrace(w, k) == m_Traces' = [m_Traces EXCEPT ![w] = @ \cup {k}]

(***************************************************************************)
(* The work returns (or throws, which Job::operator() catches).  The       *)
(* worker traces it, reads m_Continuation, and hands the parent on: one    *)
(* step, since only a caller that chains late and reads the count of the   *)
(* parent could see a difference.                                          *)
(***************************************************************************)
FinishWork(w) ==
  /\ pc[w] = "run"
  /\ LET j == l_CurrentJob[w]
         next == m_Continuation[j]
         parent == m_Parent[j]
     IN  /\ StoreTrace(w, m_Work[j])
         /\ continuation' = [continuation EXCEPT ![w] = next]
         /\ IF next # NULL /\ parent # NULL
              THEN /\ m_NumChildren' = [m_NumChildren EXCEPT ![parent] = (@ + 1) % UInt32]
                   /\ m_Parent' = [m_Parent EXCEPT ![next] = parent]
              ELSE UNCHANGED <<m_NumChildren, m_Parent>>
         /\ completing' = [completing EXCEPT ![w] = <<j>>]
         /\ task' = [task EXCEPT ![m_Work[j]].phase = "done"]
  /\ l_no_work_counter' = [l_no_work_counter EXCEPT ![w] = 0]
  /\ handle' = [handle EXCEPT ![w] = NULL]
  /\ Goto(w, "complete")
  /\ UNCHANGED <<m_NumThreads, flags, queues, tracelog, m_Continuation, m_ThreadIndex,
                 m_Work, allocated, bins, l_CurrentJob, tidx, search>>

(* recycle, called for each job of s in turn. *)
Recycle(w, s) ==
  LET bin == l_RecyclingBin[w]
      room == k_RecyclingCapacity + 1 - Len(bin)
      kept == IF Len(s) <= room THEN Len(s) ELSE room
  IN  /\ l_RecyclingBin' = [l_RecyclingBin EXCEPT ![w] = @ \o SubSeq(s, 1, kept)]
      /\ l_GarbageBin' = [l_GarbageBin EXCEPT ![w] = @ \o SubSeq(s, kept + 1, Len(s))]

Reversed(s) == [i \in 1..Len(s) |-> s[Len(s) + 1 - i]]

(* The worker turns to the continuation it has read, if there is one. *)
ForgetContinuation(w) ==
  /\ l_CurrentJob' = [l_CurrentJob EXCEPT ![w] = NULL]
  /\ Goto(w, "idle")
  /\ UNCHANGED task

TurnToContinuation(w) ==
  IF continuation[w] # NULL
    THEN Start(w, continuation[w])
    ELSE /\ l_CurrentJob' = [l_CurrentJob EXCEPT ![w] = NULL]
         /\ Goto(w, "idle")
         /\ UNCHANGED task

(***************************************************************************)
(* job_completed: one fetch_sub.  With it a job that has completed either  *)
(* goes on to its parent, or the nested calls return, the innermost first, *)
(* recycling the completed jobs, and the worker turns to the continuation. *)
(***************************************************************************)
JobCompleted(w) ==
  /\ pc[w] = "complete"
  /\ LET calls == completing[w]
         j == calls[Len(calls)]
         remaining == m_NumChildren[j]
         completed == IF remaining <= 1 THEN calls ELSE SubSeq(calls, 1, Len(calls) - 1)
     IN  /\ m_NumChildren' = [m_NumChildren EXCEPT ![j] = (@ - 1) % UInt32]
         /\ IF remaining <= 1 /\ m_Parent[j] # NULL
              THEN /\ completing' = [completing EXCEPT ![w] = Append(@, m_Parent[j])]
                   /\ UNCHANGED <<bins, l_CurrentJob, continuation, task, pc>>
              ELSE /\ Recycle(w, Reversed(completed))
                   /\ completing' = [completing EXCEPT ![w] = <<>>]
                   /\ continuation' = [continuation EXCEPT ![w] = NULL]
                   /\ TurnToContinuation(w)
  /\ UNCHANGED <<m_NumThreads, flags, queues, traces, m_Parent, m_Continuation,
                 m_ThreadIndex, m_Work, allocated, l_no_work_counter, tidx, search, handle>>

(* if (++l_no_work_counter > k_LoopsUntilGC) { l_GarbageBin.clear(); wait_for ... } *)
Idle(w) ==
  /\ pc[w] = "idle"
  /\ l_no_work_counter' = [l_no_work_counter EXCEPT ![w] = @ + 1]
  /\ IF l_no_work_counter'[w] > k_LoopsUntilGC
       THEN /\ l_GarbageBin' = [l_GarbageBin EXCEPT ![w] = <<>>]
            /\ Goto(w, "wait")
       ELSE Goto(w, "loop") /\ UNCHANGED l_GarbageBin
  /\ UNCHANGED <<m_NumThreads, flags, queues, traces, fields, allocated, l_RecyclingBin,
                 running, tidx, search, handle, task>>

Notified(w) == pc[w] = "woken"

(* wait_for returns: it was notified, or its 100 ms are over. *)
WaitForReturns(w) == pc[w] \in {"wait", "woken"}

Awake(w) ==
  /\ WaitForReturns(w)
  /\ l_no_work_counter' = [l_no_work_counter EXCEPT ![w] = @ \div 2]
  /\ Goto(w, "loop")
  /\ UNCHANGED <<m_NumThreads, flags, queues, traces, fields, allocated, bins, running,
                 tidx, search, handle, task>>

Elements(s) == {s[i] : i \in 1..Len(s)}

(* A job of a queue is thrown away: its memory is freed, its work never runs. *)
Deallocate(dropped) ==
  /\ allocated' = allocated \ dropped
  /\ task' = [k \in Works |-> IF k \in {m_Work[j] : j \in dropped}
                                THEN [task[k] EXCEPT !.phase = "dropped"]
                                ELSE task[k]]

(***************************************************************************)
(* deallocate_job_queue(JobQueue&): pop and deallocate until pop returns   *)
(* nullptr, then clear, which forgets what was pushed in between.          *)
(***************************************************************************)
DrainGlobalKeepsLinks(w) ==
  /\ pc[w] = "drainGlobal"
  /\ Deallocate(Elements(m_GlobalQueues[w]))
  /\ Goto(w, "clearGlobal")
  /\ UNCHANGED <<m_NumThreads, flags, queues, traces, fields, bins, running,
                 l_no_work_counter, tidx, search, handle>>

DrainGlobal(w) ==
  /\ \/ /\ pc[w] = "drainGlobal" /\ m_GlobalQueues[w] # <<>>
        /\ Deallocate({Head(m_GlobalQueues[w])})
        /\ m_GlobalQueues' = [m_GlobalQueues EXCEPT ![w] = Tail(@)]
        /\ UNCHANGED pc
     \/ /\ pc[w] = "drainGlobal" /\ m_GlobalQueues[w] = <<>>
        /\ Goto(w, "clearGlobal")
        /\ UNCHANGED <<m_GlobalQueues, allocated, task>>
     \/ /\ pc[w] = "clearGlobal"
        /\ m_GlobalQueues' = [m_GlobalQueues EXCEPT ![w] = <<>>]
        /\ Goto(w, "drainLocal")
        /\ UNCHANGED <<allocated, task>>
  /\ UNCHANGED <<m_NumThreads, flags, m_LocalQueues, traces, fields, bins, running,
                 l_no_work_counter, tidx, search, handle>>

SkipLocal(w) ==
  /\ pc[w] = "drainLocal"
  /\ Goto(w, "exit")
  /\ UNCHANGED <<m_NumThreads, flags, queues, traces, fields, allocated, bins, running,
                 l_no_work_counter, tidx, search, handle, task>>

DrainLocal(w) ==
  /\ \/ /\ pc[w] = "drainLocal" /\ m_LocalQueues[w] # <<>>
        /\ Deallocate({Head(m_LocalQueues[w])})
        /\ m_LocalQueues' = [m_LocalQueues EXCEPT ![w] = Tail(@)]
        /\ UNCHANGED pc
     \/ /\ pc[w] = "drainLocal" /\ m_LocalQueues[w] = <<>>
        /\ Goto(w, "clearLocal")
        /\ UNCHANGED <<m_LocalQueues, allocated, task>>
     \/ /\ pc[w] = "clearLocal"
        /\ m_LocalQueues' = [m_LocalQueues EXCEPT ![w] = <<>>]
        /\ Goto(w, "exit")
        /\ UNCHANGED <<allocated, task>>
  /\ UNCHANGED <<m_NumThreads, flags, m_GlobalQueues, traces, fields, bins, running,
                 l_no_work_counter, tidx, search, handle>>

OneMoreIsActive == m_NumThreads <= 2

LastActive == m_NumThreads = 1

(* The bins are drained, and then m_NumThreads.fetch_sub(1). *)
Exit(w) ==
  /\ pc[w] = "exit"
  /\ allocated' = allocated \ (Elements(l_RecyclingBin[w]) \cup Elements(l_GarbageBin[w]))
  /\ l_RecyclingBin' = [l_RecyclingBin EXCEPT ![w] = <<>>]
  /\ l_GarbageBin' = [l_GarbageBin EXCEPT ![w] = <<>>]
  /\ m_NumThreads' = m_NumThreads - 1
  /\ Goto(w, IF LastActive THEN "last" ELSE "stopped")
  /\ UNCHANGED <<flags, queues, traces, fields, running, l_no_work_counter, tidx, search,
                 handle, task>>

(* What save_tracelog writes: the traces of all workers. *)
SavedTraces == UNION {m_Traces[w] : w \in Workers}

(* The last worker: save_tracelog(); m_ShutdownComplete = true; *)
CompleteShutdown(w) ==
  /\ pc[w] = "last"
  /\ tracelog' = SavedTraces
  /\ m_ShutdownComplete' = TRUE
  /\ Goto(w, "stopped")
  /\ UNCHANGED <<m_NumThreads, m_Shutdown, queues, m_Traces, fields, allocated, bins,
                 running, l_no_work_counter, tidx, search, handle, task>>

WorkerStep(w) ==
  \/ Loop(w) \/ PopLocal(w) \/ PopGlobal(w) \/ Steal(w)
  \/ JobCompleted(w) \/ Idle(w) \/ Awake(w)
  \/ DrainGlobal(w) \/ DrainLocal(w) \/ Exit(w) \/ CompleteShutdown(w)

Next ==
  \/ \E t \in Threads : Call(t)
  \/ \E c \in Clients : Wait(c) \/ WaitEnds(c)
  \/ \E w \in Workers : WorkerStep(w) \/ FinishWork(w)

Spec == Init /\ [][Next]_vars

(***************************************************************************)
(* The operating system schedules every thread again and again, and a wait *)
(* with a timeout ends.                                                    *)
(***************************************************************************)
SchedulerFairness ==
  /\ \A w \in Workers : WF_vars(WorkerStep(w))
  /\ \A c \in Clients : WF_vars(WaitEnds(c))

(* The work of every job returns. *)
WorkReturns == \A w \in Workers : WF_vars(FinishWork(w))

FairSpec == Spec /\ SchedulerFairness /\ WorkReturns

(* Some work may run for ever. *)
BusySpec == Spec /\ SchedulerFairness
-----------------------------------------------------------------------------
WorkerLabels == {"loop", "local", "global", "steal", "run", "complete", "idle", "wait",
                 "woken", "drainGlobal", "clearGlobal", "drainLocal", "clearLocal",
                 "exit", "last", "stopped"}

Phases == {"unused", "waiting", "queued", "running", "done", "dropped"}

(* The type of every variable. *)
TypeOK ==
  /\ m_NumThreads \in 0..NumWorkers
  /\ m_Shutdown \in BOOLEAN /\ m_ShutdownComplete \in BOOLEAN
  /\ m_GlobalQueues \in [Workers -> Seq(Jobs)]
  /\ m_LocalQueues \in [Workers -> Seq(Jobs)]
  /\ m_Traces \in [Workers -> SUBSET Works] /\ tracelog \in (SUBSET Works) \cup {NULL}
  /\ m_NumChildren \in [Jobs -> 0..(UInt32 - 1)]
  /\ m_Parent \in [Jobs -> Jobs \cup {NULL}]
  /\ m_Continuation \in [Jobs -> Jobs \cup {NULL}]
  /\ m_ThreadIndex \in [Jobs -> Pins \cup {NULL}]
  /\ m_Work \in [Jobs -> Works \cup {NULL}]
  /\ allocated \in SUBSET Jobs
  /\ l_RecyclingBin \in [Threads -> Seq(Jobs)] /\ l_GarbageBin \in [Workers -> Seq(Jobs)]
  /\ l_CurrentJob \in [Workers -> Jobs \cup {NULL}]
  /\ l_no_work_counter \in [Workers -> 0..(k_LoopsUntilGC + 1)]
  /\ tidx \in [Threads -> Workers] /\ steal_from \in [Workers -> Workers]
  /\ numStealAttempts \in [Workers -> 0..(UInt32 - 1)]
  /\ continuation \in [Workers -> Jobs \cup {NULL}]
  /\ completing \in [Workers -> Seq(Jobs)]
  /\ handle \in [Threads -> [job: Jobs, work: Works] \cup {NULL}]
  /\ pc \in [Threads -> WorkerLabels \cup {"ready", "waitJob", "waitShutdown"}]
  /\ task \in [Works -> [phase: Phases, after: Works \cup {NULL},
                         parent: Works \cup {NULL}, early: BOOLEAN]]

(***************************************************************************)
(* Where the system keeps job j: on a list, as the current job of a worker *)
(* or among those it completes, as the continuation it turns to next, or   *)
(* as the m_Continuation of a job whose work has not finished.             *)
(***************************************************************************)
Unfinished(j) == j \in allocated /\ task[m_Work[j]].phase \in {"waiting", "queued", "running"}

Positions(list, s, w, j) == {<<list, w, i>> : i \in {i \in 1..Len(s) : s[i] = j}}

Places(j) ==
  (UNION { Positions("global", m_GlobalQueues[w], w, j)
             \cup Positions("local", m_LocalQueues[w], w, j)
             \cup Positions("recycling", l_RecyclingBin[w], w, j)
             \cup Positions("garbage", l_GarbageBin[w], w, j)
             \cup Positions("completing", completing[w], w, j) : w \in Workers })
    \cup {<<"running", w, 0>> : w \in {w \in Workers : pc[w] = "run" /\ l_CurrentJob[w] = j}}
    \cup {<<"turnsTo", w, 0>> : w \in {w \in Workers : continuation[w] = j}}
    \cup {<<"continues", k, 0>> : k \in {k \in Jobs : Unfinished(k) /\ m_Continuation[k] = j}}

(***************************************************************************)
(* One owner: a job is in one place at most, and memory that the system    *)
(* still uses has not been given back.  So no job is recycled twice, freed *)
(* twice or run by two workers, and the intrusive lists stay apart, which  *)
(* is what module JobQueue asks of its callers.                            *)
(***************************************************************************)
OneOwner ==
  \A j \in Jobs : /\ \A p, q \in Places(j) : p = q
                  /\ Places(j) # {} => j \in allocated

(***************************************************************************)
(* The pool as its callers know it: work is started once, by one of the    *)
(* NumWorkers workers, a continuation after the work that it continues,    *)
(* and none once wait_for_shutdown has returned; only a shutdown drops     *)
(* work, and never work that was started.                                  *)
(***************************************************************************)
Pool == INSTANCE WorkPool WITH
          phase <- [k \in Works |-> task[k].phase],
          after <- [k \in Works |-> task[k].after],
          closed <- m_Shutdown,
          complete <- m_ShutdownComplete

ImplementsWorkPool == Pool!Spec

(***************************************************************************)
(* A continuation starts only after the work it continues, and it is not   *)
(* lost: once that work has finished, the worker that ran it holds the     *)
(* continuation and turns to it.                                           *)
(***************************************************************************)
ContinuationFollows ==
  \A k \in Works :
    task[k].after # NULL =>
      LET before == task[task[k].after].phase
      IN  /\ task[k].phase \in {"running", "done"} => before = "done"
          /\ before = "done" /\ task[k].phase = "waiting" =>
               \E w \in Workers : continuation[w] # NULL /\ m_Work[continuation[w]] = k

(* Job::wait() returns only when the work that the caller waits for is done. *)
WaitMeansDone ==
  [][\A c \in Clients :
       pc[c] = "waitJob" /\ pc'[c] = "ready" => task[handle[c].work].phase = "done"]_vars

(***************************************************************************)
(* Every piece of work that is scheduled or chained runs to its end, though*)
(* notifications get lost: notify_one may come between the pop that finds  *)
(* no job and the wait, or wake a worker that cannot reach the job.        *)
(***************************************************************************)
EveryWorkRuns ==
  \A k \in Works : task[k].phase \in {"queued", "waiting"} ~> task[k].phase = "done"

(* Job::wait() returns. *)
WaitReturns == \A c \in Clients : pc[c] = "waitJob" ~> pc[c] = "ready"

(***************************************************************************)
(* A job on a global queue is run by another worker when the one it was    *)
(* given to stays busy.                                                    *)
(***************************************************************************)
QueuedWorkIsStolen == \A k \in Works : task[k].phase = "queued" ~> task[k].phase # "queued"

(* A worker runs the job it is pinned to: thread_index is where it executes. *)
PinnedRunsWhereAsked ==
  \A w \in Workers :
    pc[w] = "run" => m_ThreadIndex[l_CurrentJob[w]] \notin Workers \ {w}

(***************************************************************************)
(* A parent waits for the jobs scheduled under it: its count of children   *)
(* is not 0, which ends a wait for it, before their work is done.          *)
(***************************************************************************)
ParentWaitsForChildren ==
  \A k \in Works, j \in Jobs :
    task[k].parent # NULL /\ m_Work[j] = task[k].parent /\ m_NumChildren[j] = 0 =>
      task[k].phase = "done"

(* Memory management: every block that is allocated is still in a place. *)
NoBlockIsLost == \A j \in allocated : Places(j) # {} \/ Unfinished(j)

(***************************************************************************)
(* What m_ShutdownComplete means to the caller of wait_for_shutdown: the   *)
(* workers have stopped, no work runs, and all work scheduled before the   *)
(* shutdown has run or was dropped when its queue was drained.             *)
(***************************************************************************)
ShutdownIsQuiet ==
  m_ShutdownComplete =>
    /\ \A w \in Workers : pc[w] = "stopped"
    /\ \A k \in Works : /\ task[k].phase # "running"
                        /\ task[k].phase = "queued" => ~task[k].early

(* The trace log that is saved at shutdown holds all the work that ran. *)
TracelogIsComplete ==
  m_ShutdownComplete => tracelog = {k \in Works : task[k].phase = "done"}

(* After a shutdown, wait_for_shutdown returns: no worker stays asleep. *)
ShutdownCompletes == m_Shutdown ~> m_ShutdownComplete
=============================================================================
