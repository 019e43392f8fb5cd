--------------------------- MODULE JobSystemStart ---------------------------
(***************************************************************************)
(* How the thread pool of src/src/job/job_system.{h,inl,cpp} starts: the   *)
(* constructor of JobSystem, which sets up static members once although    *)
(* every bop::schedule constructs a JobSystem, and the prologue of         *)
(* JobSystem::worker with its start barrier.  Module JobSystem goes on     *)
(* from there.                                                             *)
(*                                                                         *)
(* A step is one access to a static member.  A member that has not been    *)
(* set is NULL or 0; a caller that uses it is "broken", because what it    *)
(* does then is undefined.  Jobs are alike here, and a queue is their      *)
(* number; of the loop of a worker the model keeps the pop of its own      *)
(* global queue and the way out.                                           *)
(***************************************************************************)
EXTENDS Integers

CONSTANTS
  Callers,             \* the threads that construct, schedule and shut down
  Requests,            \* the values of num_threads, with NULL for nullopt
  HardwareConcurrency, \* what std::thread::hardware_concurrency() returns
  MaxWorkers,          \* no request is larger
  MaxJobs,             \* bound: the jobs scheduled in a behaviour
  NULL

ASSUME StartAssumption ==
  /\ MaxWorkers \in Nat \ {0}
  /\ HardwareConcurrency \in 0..MaxWorkers
  /\ Requests \subseteq (0..MaxWorkers) \cup {NULL}
  /\ MaxJobs \in Nat
  /\ NULL \notin Nat \cup {"resource"}
  /\ \A n \in 1..MaxWorkers : NULL \notin [0..(n - 1) -> Nat]
  /\ Callers \cap Nat = {}

Workers == 0..(MaxWorkers - 1)

VARIABLES
  m_InitOnce, m_MemoryResource, m_NumThreads, m_Shutdown,
  m_GlobalQueues,    \* NULL, or the number of jobs of each queue
  m_LocalQueues, m_Mutexes, m_Traces, \* their sizes
  remaining_workers, \* the function static of worker, NULL until its initialisation
  steal_from,
  tidx,
  i,                 \* the loop variable of the constructor
  scheduled,         \* history: the number of jobs scheduled
  pc

arrays == <<m_GlobalQueues, m_LocalQueues, m_Mutexes, m_Traces>>
vars == <<m_InitOnce, m_MemoryResource, m_NumThreads, m_Shutdown, arrays,
          remaining_workers, steal_from, tidx, i, scheduled, pc>>

Init ==
  /\ m_InitOnce = 0 /\ m_MemoryResource = NULL /\ m_NumThreads = 0 /\ m_Shutdown = FALSE
  /\ m_GlobalQueues = NULL /\ m_LocalQueues = 0 /\ m_Mutexes = 0 /\ m_Traces = 0
  /\ remaining_workers = NULL
  /\ steal_from = [w \in Workers |-> NULL]
  /\ tidx = [c \in Callers |-> 0]
  /\ i = [c \in Callers |-> 0]
  /\ scheduled = 0
  /\ pc = [t \in Callers \cup Workers |-> IF t \in Callers THEN "ready" ELSE "none"]

Goto(t, label) == pc' = [pc EXCEPT ![t] = label]
-----------------------------------------------------------------------------
(* The constructor. *)

(* if (m_InitOnce > 0) return; *)
TestInitOnce(c) ==
  /\ pc[c] = "ready"
  /\ Goto(c, IF m_InitOnce > 0 THEN "constructed" ELSE "claim")
  /\ UNCHANGED <<m_InitOnce, m_MemoryResource, m_NumThreads, m_Shutdown, arrays,
                 remaining_workers, steal_from, tidx, i, scheduled>>

(* count = m_InitOnce.fetch_add(1); if (count > 0) return; *)
ClaimAlways(c) ==
  /\ pc[c] = "claim"
  /\ m_InitOnce' = m_InitOnce + 1
  /\ Goto(c, "resource")
  /\ UNCHANGED <<m_MemoryResource, m_NumThreads, m_Shutdown, arrays,
                 remaining_workers, steal_from, tidx, i, scheduled>>

Claim(c) ==
  /\ pc[c] = "claim"
  /\ m_InitOnce' = m_InitOnce + 1
  /\ Goto(c, IF m_InitOnce > 0 THEN "constructed" ELSE "resource")
  /\ UNCHANGED <<m_MemoryResource, m_NumThreads, m_Shutdown, arrays,
                 remaining_workers, steal_from, tidx, i, scheduled>>

SetMemoryResource(c) ==
  /\ pc[c] = "resource"
  /\ m_MemoryResource' = "resource"
  /\ Goto(c, "threads")
  /\ UNCHANGED <<m_InitOnce, m_NumThreads, m_Shutdown, arrays,
                 remaining_workers, steal_from, tidx, i, scheduled>>

SetNumThreads(c) ==
  /\ pc[c] = "threads"
  /\ \E num_threads \in Requests :
       m_NumThreads' = IF num_threads = NULL THEN HardwareConcurrency ELSE num_threads
  /\ Goto(c, "atLeastOne")
  /\ UNCHANGED <<m_InitOnce, m_MemoryResource, m_Shutdown, arrays,
                 remaining_workers, steal_from, tidx, i, scheduled>>

(* if (m_NumThreads == 0) m_NumThreads = 1; *)
MayBeNone(c) ==
  /\ pc[c] = "atLeastOne"
  /\ Goto(c, "globals")
  /\ UNCHANGED <<m_InitOnce, m_MemoryResource, m_NumThreads, m_Shutdown, arrays,
                 remaining_workers, steal_from, tidx, i, scheduled>>

AtLeastOne(c) ==
  /\ pc[c] = "atLeastOne"
  /\ m_NumThreads' = IF m_NumThreads = 0 THEN 1 ELSE m_NumThreads
  /\ Goto(c, "globals")
  /\ UNCHANGED <<m_InitOnce, m_MemoryResource, m_Shutdown, arrays,
                 remaining_workers, steal_from, tidx, i, scheduled>>

(* m_GlobalQueues, m_LocalQueues, m_Mutexes and m_Traces, in this order. *)
AllocateNoMutexes(c) ==
  /\ \/ /\ pc[c] = "globals"
        /\ m_GlobalQueues' = [w \in 0..(m_NumThreads - 1) |-> 0]
        /\ Goto(c, "locals")
        /\ UNCHANGED <<m_LocalQueues, m_Mutexes, m_Traces>>
     \/ /\ pc[c] = "locals" /\ m_LocalQueues' = m_NumThreads /\ Goto(c, "traces")
        /\ UNCHANGED <<m_GlobalQueues, m_Mutexes, m_Traces>>
     \/ /\ pc[c] = "traces" /\ m_Traces' = m_NumThreads /\ Goto(c, "launch")
        /\ UNCHANGED <<m_GlobalQueues, m_LocalQueues, m_Mutexes>>
  /\ UNCHANGED <<m_InitOnce, m_MemoryResource, m_NumThreads, m_Shutdown,
                 remaining_workers, steal_from, tidx, i, scheduled>>

Allocate(c) ==
  /\ \/ /\ pc[c] = "globals"
        /\ m_GlobalQueues' = [w \in 0..(m_NumThreads - 1) |-> 0]
        /\ Goto(c, "locals")
        /\ UNCHANGED <<m_LocalQueues, m_Mutexes, m_Traces>>
     \/ /\ pc[c] = "locals" /\ m_LocalQueues' = m_NumThreads /\ Goto(c, "mutexes")
        /\ UNCHANGED <<m_GlobalQueues, m_Mutexes, m_Traces>>
     \/ /\ pc[c] = "mutexes" /\ m_Mutexes' = m_NumThreads /\ Goto(c, "traces")
        /\ UNCHANGED <<m_GlobalQueues, m_LocalQueues, m_Traces>>
     \/ /\ pc[c] = "traces" /\ m_Traces' = m_NumThreads /\ Goto(c, "launch")
        /\ UNCHANGED <<m_GlobalQueues, m_LocalQueues, m_Mutexes>>
  /\ UNCHANGED <<m_InitOnce, m_MemoryResource, m_NumThreads, m_Shutdown,
                 remaining_workers, steal_from, tidx, i, scheduled>>

(* One test of i < m_NumThreads, and the thread it starts. *)
Launch(c) ==
  /\ pc[c] = "launch"
  /\ IF i[c] < m_NumThreads
       THEN pc' = [pc EXCEPT ![i[c]] = "entry"] /\ i' = [i EXCEPT ![c] = @ + 1]
       ELSE Goto(c, "constructed") /\ UNCHANGED i
  /\ UNCHANGED <<m_InitOnce, m_MemoryResource, m_NumThreads, m_Shutdown, arrays,
                 remaining_workers, steal_from, tidx, scheduled>>

ConstructorStep(c) ==
  \/ Claim(c) \/ SetMemoryResource(c) \/ SetNumThreads(c) \/ AtLeastOne(c)
  \/ Allocate(c) \/ Launch(c)
-----------------------------------------------------------------------------
(* What the callers do after their constructor. *)

(* create_job allocates from m_MemoryResource. *)
CreateJob(c) ==
  /\ pc[c] = "constructed"
  /\ scheduled < MaxJobs
  /\ scheduled' = scheduled + 1
  /\ Goto(c, IF m_MemoryResource = NULL THEN "broken" ELSE "place")
  /\ UNCHANGED <<m_InitOnce, m_MemoryResource, m_NumThreads, m_Shutdown, arrays,
                 remaining_workers, steal_from, tidx, i>>

(* schedule_work: if (++tidx >= m_NumThreads) tidx = 0; *)
Place(c) ==
  /\ pc[c] = "place"
  /\ tidx' = [tidx EXCEPT ![c] = IF @ + 1 >= m_NumThreads THEN 0 ELSE @ + 1]
  /\ Goto(c, "push")
  /\ UNCHANGED <<m_InitOnce, m_MemoryResource, m_NumThreads, m_Shutdown, arrays,
                 remaining_workers, steal_from, i, scheduled>>

(* m_GlobalQueues[tidx].push(work), which needs an array with such an index. *)
Push(c) ==
  /\ pc[c] = "push"
  /\ IF m_GlobalQueues # NULL /\ tidx[c] \in DOMAIN m_GlobalQueues
       THEN /\ m_GlobalQueues' = [m_GlobalQueues EXCEPT ![tidx[c]] = @ + 1]
            /\ Goto(c, "ready")
       ELSE Goto(c, "broken") /\ UNCHANGED m_GlobalQueues
  /\ UNCHANGED <<m_InitOnce, m_MemoryResource, m_NumThreads, m_Shutdown, m_LocalQueues,
                 m_Mutexes, m_Traces, remaining_workers, steal_from, tidx, i, scheduled>>

Shutdown(c) ==
  /\ pc[c] \in {"ready", "constructed"}
  /\ m_Shutdown' = TRUE
  /\ UNCHANGED <<m_InitOnce, m_MemoryResource, m_NumThreads, arrays,
                 remaining_workers, steal_from, tidx, i, scheduled, pc>>
-----------------------------------------------------------------------------
(* JobSystem::worker up to its loop. *)

(* static std::atomic<uint32_t> remaining_workers = m_NumThreads.load(); *)
InitBarrierForMore(w) ==
  /\ pc[w] = "entry"
  /\ remaining_workers' = IF remaining_workers = NULL THEN m_NumThreads + 1
                                                      ELSE remaining_workers
  /\ Goto(w, "arrive")
  /\ UNCHANGED <<m_InitOnce, m_MemoryResource, m_NumThreads, m_Shutdown, arrays,
                 steal_from, tidx, i, scheduled>>

InitBarrier(w) ==
  /\ pc[w] = "entry"
  /\ remaining_workers' = IF remaining_workers = NULL THEN m_NumThreads
                                                      ELSE remaining_workers
  /\ Goto(w, "arrive")
  /\ UNCHANGED <<m_InitOnce, m_MemoryResource, m_NumThreads, m_Shutdown, arrays,
                 steal_from, tidx, i, scheduled>>

Arrive(w) ==
  /\ pc[w] = "arrive"
  /\ remaining_workers' = remaining_workers - 1
  /\ Goto(w, "barrier")
  /\ UNCHANGED <<m_InitOnce, m_MemoryResource, m_NumThreads, m_Shutdown, arrays,
                 steal_from, tidx, i, scheduled>>

(* while (remaining_workers.load() > 0) sleep *)
OneMayBeMissing(w) == remaining_workers <= 1

EveryoneIsThere(w) == remaining_workers <= 0

LeaveBarrier(w) ==
  /\ pc[w] = "barrier"
  /\ EveryoneIsThere(w)
  /\ Goto(w, "index")
  /\ UNCHANGED <<m_InitOnce, m_MemoryResource, m_NumThreads, m_Shutdown, arrays,
                 remaining_workers, steal_from, tidx, i, scheduled>>

(* steal_from = (thread_index + 1) % m_NumThreads.load(); lock(m_Mutexes[l_ThreadIndex]) *)
FirstVictimUnbounded(w) == w + 1

FirstVictim(w) == (w + 1) % m_NumThreads

SetUp(w) ==
  /\ pc[w] = "index"
  /\ steal_from' = [steal_from EXCEPT ![w] = FirstVictim(w)]
  /\ Goto(w, "loop")
  /\ UNCHANGED <<m_InitOnce, m_MemoryResource, m_NumThreads, m_Shutdown, arrays,
                 remaining_workers, tidx, i, scheduled>>

(* One pass of the loop: out at m_Shutdown, else a job of the own global queue. *)
Loop(w) ==
  /\ pc[w] = "loop"
  /\ \/ m_Shutdown /\ Goto(w, "exit") /\ UNCHANGED m_GlobalQueues
     \/ /\ ~m_Shutdown /\ m_GlobalQueues[w] > 0
        /\ m_GlobalQueues' = [m_GlobalQueues EXCEPT ![w] = @ - 1]
        /\ UNCHANGED pc
  /\ UNCHANGED <<m_InitOnce, m_MemoryResource, m_NumThreads, m_Shutdown, m_LocalQueues,
                 m_Mutexes, m_Traces, remaining_workers, steal_from, tidx, i, scheduled>>

(* The queue is drained, then m_NumThreads.fetch_sub(1). *)
Leave(w) ==
  /\ pc[w] = "exit"
  /\ m_GlobalQueues' = [m_GlobalQueues EXCEPT ![w] = 0]
  /\ m_NumThreads' = m_NumThreads - 1
  /\ Goto(w, "stopped")
  /\ UNCHANGED <<m_InitOnce, m_MemoryResource, m_Shutdown, m_LocalQueues, m_Mutexes,
                 m_Traces, remaining_workers, steal_from, tidx, i, scheduled>>

WorkerStep(w) ==
  \/ InitBarrier(w) \/ Arrive(w) \/ LeaveBarrier(w) \/ SetUp(w) \/ Loop(w) \/ Leave(w)

Next ==
  \/ \E c \in Callers : \/ TestInitOnce(c) \/ ConstructorStep(c)
                        \/ CreateJob(c) \/ Place(c) \/ Push(c) \/ Shutdown(c)
  \/ \E w \in Workers : WorkerStep(w)

Spec == Init /\ [][Next]_vars

(* A constructor that has begun goes on, and every worker is scheduled. *)
FairSpec ==
  /\ Spec
  /\ \A c \in Callers : WF_vars(ConstructorStep(c))
  /\ \A w \in Workers : WF_vars(WorkerStep(w))
-----------------------------------------------------------------------------
InConstructor == {"resource", "threads", "atLeastOne", "globals", "locals",
                  "mutexes", "traces", "launch"}
BeforeBarrier == {"entry", "arrive", "barrier"}
AfterBarrier == {"index", "loop", "exit", "stopped"}

(* The type of every variable. *)
TypeOK ==
  /\ m_InitOnce \in Nat
  /\ m_MemoryResource \in {NULL, "resource"}
  /\ m_NumThreads \in 0..MaxWorkers
  /\ m_Shutdown \in BOOLEAN
  /\ \/ m_GlobalQueues = NULL
     \/ \E n \in 1..MaxWorkers : m_GlobalQueues \in [0..(n - 1) -> Nat]
  /\ {m_LocalQueues, m_Mutexes, m_Traces} \subseteq 0..MaxWorkers
  /\ remaining_workers \in {NULL} \cup 0..MaxWorkers
  /\ steal_from \in [Workers -> Workers \cup {NULL}]
  /\ tidx \in [Callers -> Workers]
  /\ i \in [Callers -> 0..MaxWorkers]
  /\ scheduled \in 0..MaxJobs
  /\ pc \in [Callers \cup Workers ->
               InConstructor \cup BeforeBarrier \cup AfterBarrier
                 \cup {"ready", "claim", "constructed", "place", "push", "broken", "none"}]

(***************************************************************************)
(* The statics are initialised once, whoever constructs when: no worker is *)
(* started twice, and a queue that holds jobs is not replaced by a new one *)
(* (its jobs are taken by its own worker only).                            *)
(***************************************************************************)
InitialisedOnce ==
  [][/\ \A w \in Workers : pc'[w] = "entry" => pc[w] \in {"none", "entry"}
     /\ m_GlobalQueues # NULL =>
          /\ DOMAIN m_GlobalQueues' = DOMAIN m_GlobalQueues
          /\ \A w \in DOMAIN m_GlobalQueues :
               m_GlobalQueues'[w] < m_GlobalQueues[w] => pc[w] \in {"loop", "exit"}]_vars

(***************************************************************************)
(* A worker that runs finds every array, with an element for each worker:  *)
(* it uses them without a test, and the thread creation is all that orders *)
(* it after the constructor.                                               *)
(***************************************************************************)
WorkersFindEverything ==
  \A w \in Workers :
    pc[w] # "none" =>
      /\ m_MemoryResource # NULL /\ m_GlobalQueues # NULL
      /\ w \in DOMAIN m_GlobalQueues
      /\ \A size \in {m_LocalQueues, m_Mutexes, m_Traces} :
           DOMAIN m_GlobalQueues = 0..(size - 1)

(* The start barrier: no worker passes it before all have been started and are in it. *)
StartTogether ==
  \A w \in Workers : pc[w] \in AfterBarrier =>
    \A v \in DOMAIN m_GlobalQueues : pc[v] \in AfterBarrier \cup {"barrier"}

(***************************************************************************)
(* The first victim of a worker is the index of a worker, and the next one *)
(* (the initial state of module JobSystem) unless workers have already     *)
(* left, which changes the modulus under a worker that is slow to start.   *)
(***************************************************************************)
StealsFromAWorker ==
  \A w \in Workers :
    /\ pc[w] = "index" => m_NumThreads > 0
    /\ steal_from[w] # NULL =>
         /\ steal_from[w] \in DOMAIN m_GlobalQueues
         /\ ~m_Shutdown => steal_from[w] = (w + 1) % m_Traces

(***************************************************************************)
(* A caller uses statics that are not there only while another one is      *)
(* still in the constructor: m_InitOnce tells the others that it began,    *)
(* not that it has finished.  A single thread that starts the system never *)
(* does, nor anyone once the constructor has returned or workers have left.*)
(***************************************************************************)
BreaksOnlyIfOvertaken ==
  [][\A c \in Callers : pc[c] # "broken" /\ pc'[c] = "broken" =>
       \E d \in Callers \ {c} : pc[d] \in InConstructor]_vars

(* The number of jobs on the global queue of w. *)
Queued(w) ==
  IF m_GlobalQueues # NULL /\ w \in DOMAIN m_GlobalQueues THEN m_GlobalQueues[w] ELSE 0

(***************************************************************************)
(* A job that is queued before the workers have started, or while they do, *)
(* is taken like any other one: the barrier opens.                         *)
(***************************************************************************)
EarlyJobsAreTaken ==
  \A w \in Workers : Queued(w) > 0 ~> m_Shutdown \/ Queued(w) = 0
=============================================================================
