-------------------------- MODULE JobSystemProofs --------------------------
(***************************************************************************)
(* Type correctness of JobSystem, and that a shutdown is complete only     *)
(* when every worker has stopped, for any number of workers, clients and   *)
(* jobs and whatever the callers may do.                                   *)
(***************************************************************************)
EXTENDS JobSystem, SequenceTheorems, FiniteSetTheorems, TLAPS

Task == [phase: Phases, after: Works \cup {NULL}, parent: Works \cup {NULL}, early: BOOLEAN]

ClientLabels == {"ready", "waitJob", "waitShutdown"}

(* The workers that have left the loop for good. *)
Gone == {w \in Workers : pc[w] \in {"last", "stopped"}}

LabelsOK ==
  /\ \A w \in Workers : pc[w] \in WorkerLabels
  /\ \A c \in Clients : pc[c] \in ClientLabels

(* What a worker has in its hands, from its position. *)
WorkerHolds ==
  \A w \in Workers :
    /\ pc[w] \notin {"wait", "woken"} => l_no_work_counter[w] <= k_LoopsUntilGC
    /\ pc[w] = "run" => l_CurrentJob[w] # NULL
    /\ pc[w] = "complete" => completing[w] # <<>>

(* The jobs that were given work; a job of the lists, a current job or a continuation is one. *)
Created == {j \in Jobs : m_Work[j] # NULL}

HeldJobsHaveWork ==
  /\ m_GlobalQueues \in [Workers -> Seq(Created)]
  /\ m_LocalQueues \in [Workers -> Seq(Created)]
  /\ l_CurrentJob \in [Workers -> Created \cup {NULL}]
  /\ continuation \in [Workers -> Created \cup {NULL}]
  /\ m_Continuation \in [Jobs -> Created \cup {NULL}]

BinsBounded == \A t \in Threads : Len(l_RecyclingBin[t]) <= k_RecyclingCapacity + 1

ThreadsAreCounted == m_NumThreads = NumWorkers - Cardinality(Gone)

(* The worker that saves the log is the last one, and then all have stopped. *)
LastOneCompletes ==
  /\ \A w \in Workers : pc[w] = "last" => \A v \in Workers \ {w} : pc[v] = "stopped"
  /\ m_ShutdownComplete => \A w \in Workers : pc[w] = "stopped"

IInv ==
  /\ TypeOK /\ LabelsOK /\ WorkerHolds /\ HeldJobsHaveWork /\ BinsBounded
  /\ ThreadsAreCounted /\ LastOneCompletes

(* The definitions that only group variables. *)
USE DEF flags, queues, traces, fields, bins, search, running
-----------------------------------------------------------------------------
LEMMA ThreadsAreDisjoint ==
  /\ Workers \subseteq Nat /\ Workers \subseteq Threads /\ Clients \subseteq Threads
  /\ \A t \in Threads : t \in Workers \/ t \in Clients
  /\ \A c \in Clients : c \notin Workers
  BY SystemAssumption DEF Workers, Threads

LEMMA Moduli == \A n \in Int : n % UInt32 \in 0..(UInt32 - 1)
  BY SystemAssumption

(* Facts about sequences, by their elements. *)
LEMMA Popped ==
  ASSUME NEW S, NEW s \in Seq(S), s # <<>>
  PROVE  /\ Head(s) \in S /\ Head(s) = s[1] /\ Tail(s) \in Seq(S)
         /\ Len(s) \in Nat \ {0} /\ Len(Tail(s)) = Len(s) - 1
         /\ \A i \in 1..Len(Tail(s)) : Tail(s)[i] = s[i + 1]
  BY HeadTailProperties, EmptySeq

LEMMA Appended ==
  ASSUME NEW S, NEW s \in Seq(S), NEW x \in S
  PROVE  /\ Append(s, x) \in Seq(S)
         /\ Len(s) \in Nat /\ Len(Append(s, x)) = Len(s) + 1
         /\ \A i \in 1..(Len(s) + 1) : Append(s, x)[i] = IF i = Len(s) + 1 THEN x ELSE s[i]
  OBVIOUS

LEMMA PhaseChanges ==
  ASSUME task \in [Works -> Task], NEW k, NEW phase \in Phases
  PROVE  LET new == [task EXCEPT ![k].phase = phase]
         IN  /\ new \in [Works -> Task]
             /\ \A l \in Works : /\ new[l].phase = IF l = k THEN phase ELSE task[l].phase
                                 /\ new[l].after = task[l].after
                                 /\ new[l].early = task[l].early
  BY DEF Task

(* Two counts of the workers that are left. *)
LEMMA WorkersAreFinite == IsFiniteSet(Workers) /\ Cardinality(Workers) = NumWorkers
  BY SystemAssumption, FS_Interval DEF Workers

LEMMA GoneIsFinite ==
  /\ IsFiniteSet(Gone) /\ Cardinality(Gone) \in 0..NumWorkers
  /\ Gone # Workers => Cardinality(Gone) < NumWorkers
  <1>1. Gone \in SUBSET Workers
    BY DEF Gone
  <1>2. /\ IsFiniteSet(Gone) /\ Cardinality(Gone) <= NumWorkers
        /\ Gone # Workers => Cardinality(Gone) < NumWorkers
    <2>1. IsFiniteSet(Gone) /\ Cardinality(Gone) <= Cardinality(Workers)
      BY <1>1, WorkersAreFinite, FS_Subset
    <2>2. Cardinality(Gone) = Cardinality(Workers) => Gone = Workers
      BY <1>1, WorkersAreFinite, FS_Subset
    <2>3. Cardinality(Gone) \in Nat
      BY <2>1, FS_CardinalityType
    <2>. QED  BY <2>1, <2>2, <2>3, WorkersAreFinite, SystemAssumption
  <1>3. Cardinality(Gone) \in Nat
    BY <1>2, FS_CardinalityType
  <1>. QED  BY <1>2, <1>3, SystemAssumption

(* While a worker has not gone, m_NumThreads is not 0. *)
LEMMA SomeoneIsLeft ==
  ASSUME IInv, NEW w \in Workers, pc[w] \notin {"last", "stopped"}
  PROVE  m_NumThreads \in 1..NumWorkers
  <1>1. Gone # Workers
    BY DEF Gone
  <1>. QED  BY <1>1, GoneIsFinite, SystemAssumption DEF IInv, ThreadsAreCounted

LEMMA InitHolds == Init => IInv
  <1>. SUFFICES ASSUME Init PROVE IInv
    OBVIOUS
  <1>. USE DEF Init
  <1>1. /\ \A w \in Workers : pc[w] = "loop"
        /\ \A c \in Clients : pc[c] = "ready"
    BY ThreadsAreDisjoint
  <1>2. TypeOK
    <2>1. \A n \in Int : n % NumWorkers \in Workers
      BY SystemAssumption DEF Workers
    <2>2. 0 \in Workers /\ NumWorkers \in 0..NumWorkers /\ 1 \in 0..(UInt32 - 1) /\ 0 \in 0..(UInt32 - 1)
          /\ 0 \in 0..(k_LoopsUntilGC + 1)
      BY SystemAssumption DEF Workers
    <2>3. steal_from \in [Workers -> Workers]
      BY <2>1, ThreadsAreDisjoint
    <2>4. pc \in [Threads -> WorkerLabels \cup ClientLabels]
      BY DEF WorkerLabels, ClientLabels
    <2>5. task \in [Works -> Task]
      BY DEF Task, Phases
    <2>6. <<>> \in Seq(Jobs)
      BY EmptySeq
    <2>0. /\ m_Shutdown \in BOOLEAN /\ m_ShutdownComplete \in BOOLEAN
          /\ m_NumChildren \in [Jobs -> 0..(UInt32 - 1)]
      BY <2>2
    <2>7. /\ m_NumThreads \in 0..NumWorkers
          /\ m_GlobalQueues \in [Workers -> Seq(Jobs)]
          /\ m_LocalQueues \in [Workers -> Seq(Jobs)]
      BY <2>2, <2>6
    <2>10. m_Traces \in [Workers -> SUBSET Works] /\ tracelog \in (SUBSET Works) \cup {NULL}
      <3>1. {} \in SUBSET Works
        OBVIOUS
      <3>2. tracelog \in (SUBSET Works) \cup {NULL}
        OBVIOUS
      <3>3. m_Traces \in [Workers -> SUBSET Works]
        BY <3>1
      <3>. QED  BY <3>2, <3>3
    <2>8. /\ m_Parent \in [Jobs -> Jobs \cup {NULL}]
          /\ m_Continuation \in [Jobs -> Jobs \cup {NULL}]
          /\ m_ThreadIndex \in [Jobs -> Pins \cup {NULL}]
          /\ m_Work \in [Jobs -> Works \cup {NULL}]
          /\ allocated \in SUBSET Jobs
      OBVIOUS
    <2>9. /\ l_RecyclingBin \in [Threads -> Seq(Jobs)] /\ l_GarbageBin \in [Workers -> Seq(Jobs)]
          /\ l_CurrentJob \in [Workers -> Jobs \cup {NULL}]
          /\ l_no_work_counter \in [Workers -> 0..(k_LoopsUntilGC + 1)]
          /\ tidx \in [Threads -> Workers]
          /\ numStealAttempts \in [Workers -> 0..(UInt32 - 1)]
          /\ continuation \in [Workers -> Jobs \cup {NULL}]
          /\ completing \in [Workers -> Seq(Jobs)]
          /\ handle \in [Threads -> [job: Jobs, work: Works] \cup {NULL}]
      BY <2>2, <2>6
    <2>. QED  BY <2>0, <2>3, <2>4, <2>5, <2>7, <2>8, <2>9, <2>10 DEF TypeOK, Task, ClientLabels
  <1>3. LabelsOK /\ WorkerHolds /\ HeldJobsHaveWork /\ BinsBounded /\ LastOneCompletes
    <2>1. BinsBounded
      <3>1. Len(<<>>) = 0
        OBVIOUS
      <3>. QED  BY <3>1, SystemAssumption DEF BinsBounded
    <2>2. LabelsOK /\ LastOneCompletes
      BY <1>1 DEF LabelsOK, LastOneCompletes, WorkerLabels, ClientLabels
    <2>3. WorkerHolds
      BY <1>1, SystemAssumption DEF WorkerHolds
    <2>4. HeldJobsHaveWork
      <3>1. <<>> \in Seq(Created)
        BY EmptySeq
      <3>. QED  BY <3>1 DEF HeldJobsHaveWork
    <2>. QED  BY <2>1, <2>2, <2>3, <2>4
  <1>4. ThreadsAreCounted
    <2>1. Gone = {}
      BY <1>1 DEF Gone
    <2>. QED  BY <2>1, FS_EmptySet, SystemAssumption DEF ThreadsAreCounted
  <1>. QED  BY <1>2, <1>3, <1>4 DEF IInv
-----------------------------------------------------------------------------
(* The steps: lemmas on what several of them do. *)

LEMMA SeqOfMore ==
  ASSUME NEW S, NEW T, S \subseteq T
  PROVE  Seq(S) \subseteq Seq(T)
  OBVIOUS

(* The two conjuncts about threads that have gone hold on when none of them goes. *)
LEMMA NobodyGoes ==
  ASSUME IInv, m_NumThreads' = m_NumThreads, m_ShutdownComplete' = m_ShutdownComplete,
         \A w \in Workers : /\ pc'[w] = "last" <=> pc[w] = "last"
                            /\ pc'[w] = "stopped" <=> pc[w] = "stopped"
  PROVE  ThreadsAreCounted' /\ LastOneCompletes'
  <1>1. Gone' = Gone
    BY DEF Gone
  <1>2. ThreadsAreCounted'
    BY <1>1 DEF IInv, ThreadsAreCounted
  <1>3. LastOneCompletes'
    BY DEF IInv, LastOneCompletes
  <1>. QED  BY <1>2, <1>3

(* After a step worker w is at label, and no worker has gone. *)
MovedTo(w, label) ==
  /\ pc' \in [Threads -> WorkerLabels \cup {"ready", "waitJob", "waitShutdown"}]
  /\ LabelsOK'
  /\ \A v \in Workers : pc'[v] = IF v = w THEN label ELSE pc[v]
  /\ \A v \in Workers : /\ pc'[v] = "last" <=> pc[v] = "last"
                        /\ pc'[v] = "stopped" <=> pc[v] = "stopped"

(* A step of worker w that neither leaves the loop for good nor wakes another. *)
LEMMA WorkerGoes ==
  ASSUME IInv, NEW w \in Workers, pc[w] \notin {"last", "stopped"},
         NEW label \in WorkerLabels \ {"last", "stopped"}, Goto(w, label)
  PROVE  MovedTo(w, label)
  <1>1. pc \in [Threads -> WorkerLabels \cup {"ready", "waitJob", "waitShutdown"}]
    BY DEF IInv, TypeOK
  <1>2. pc' \in [Threads -> WorkerLabels \cup {"ready", "waitJob", "waitShutdown"}]
    BY <1>1, ThreadsAreDisjoint DEF Goto
  <1>3. \A t \in Threads : pc'[t] = IF t = w THEN label ELSE pc[t]
    BY <1>1 DEF Goto
  <1>4. LabelsOK'
    BY <1>3, ThreadsAreDisjoint DEF IInv, LabelsOK
  <1>. QED  BY <1>2, <1>3, <1>4, ThreadsAreDisjoint DEF MovedTo

LEMMA NotifyOneControl ==
  ASSUME IInv, NotifyOne
  PROVE  /\ pc' \in [Threads -> WorkerLabels \cup {"ready", "waitJob", "waitShutdown"}]
         /\ LabelsOK'
         /\ \A t \in Threads : pc'[t] = pc[t] \/ (pc[t] = "wait" /\ pc'[t] = "woken")
  <1>1. CASE pc' = pc
    <2>1. pc' \in [Threads -> WorkerLabels \cup {"ready", "waitJob", "waitShutdown"}]
      BY <1>1 DEF IInv, TypeOK
    <2>2. LabelsOK'
      BY <1>1 DEF IInv, LabelsOK
    <2>. QED  BY <1>1, <2>1, <2>2
  <1>2. CASE \E w \in Workers : pc[w] = "wait" /\ Goto(w, "woken")
    <2>1. PICK w \in Workers : pc[w] = "wait" /\ Goto(w, "woken")
      BY <1>2
    <2>2. "woken" \in WorkerLabels \ {"last", "stopped"}
      BY DEF WorkerLabels
    <2>3. pc \in [Threads -> WorkerLabels \cup {"ready", "waitJob", "waitShutdown"}]
      BY DEF IInv, TypeOK
    <2>4. \A t \in Threads : pc'[t] = IF t = w THEN "woken" ELSE pc[t]
      BY <2>1, <2>3, ThreadsAreDisjoint DEF Goto
    <2>. QED  BY <2>1, <2>2, <2>4, WorkerGoes DEF MovedTo
  <1>. QED  BY <1>1, <1>2 DEF NotifyOne

(* Steps of a thread that change its position, the flags or nothing else. *)
LEMMA LoopKeeps ==
  ASSUME IInv, NEW w \in Workers, Loop(w)
  PROVE  IInv'
  <1>. DEFINE label == IF m_Shutdown THEN "drainGlobal" ELSE "local"
  <1>1. label \in WorkerLabels \ {"last", "stopped", "run", "complete"}
    BY DEF WorkerLabels
  <1>2. MovedTo(w, label)
    BY <1>1, WorkerGoes DEF Loop
  <1>3. ThreadsAreCounted' /\ LastOneCompletes'
    BY <1>2, NobodyGoes DEF Loop, MovedTo
  <1>4. TypeOK'
    BY <1>2 DEF IInv, TypeOK, Loop, MovedTo
  <1>5. WorkerHolds'
    BY <1>1, <1>2 DEF IInv, WorkerHolds, Loop, MovedTo
  <1>6. HeldJobsHaveWork' /\ BinsBounded'
    BY DEF IInv, HeldJobsHaveWork, Created, BinsBounded, Loop
  <1>. QED  BY <1>2, <1>3, <1>4, <1>5, <1>6 DEF IInv, MovedTo

LEMMA ShutdownKeeps ==
  ASSUME IInv, NEW t \in Threads, Shutdown(t)
  PROVE  IInv'
  <1>1. ThreadsAreCounted' /\ LastOneCompletes'
    BY NobodyGoes DEF Shutdown
  <1>2. TypeOK'
    BY DEF IInv, TypeOK, Shutdown
  <1>3. LabelsOK' /\ WorkerHolds' /\ HeldJobsHaveWork' /\ BinsBounded'
    BY DEF IInv, LabelsOK, WorkerHolds, HeldJobsHaveWork, Created, BinsBounded, Shutdown
  <1>. QED  BY <1>1, <1>2, <1>3 DEF IInv

LEMMA WaitKeeps ==
  ASSUME IInv, NEW c \in Clients, Wait(c) \/ WaitEnds(c)
  PROVE  IInv'
  <1>1. PICK label \in ClientLabels : Goto(c, label)
    BY DEF Wait, WaitEnds, ClientLabels
  <1>2. /\ pc' \in [Threads -> WorkerLabels \cup {"ready", "waitJob", "waitShutdown"}]
        /\ \A t \in Threads : pc'[t] = IF t = c THEN label ELSE pc[t]
    BY <1>1 DEF IInv, TypeOK, ClientLabels, Goto
  <1>3. \A w \in Workers : pc'[w] = pc[w]
    BY <1>2, ThreadsAreDisjoint
  <1>4. LabelsOK'
    BY <1>2, <1>3, ThreadsAreDisjoint DEF IInv, LabelsOK
  <1>5. /\ UNCHANGED <<m_NumThreads, flags, queues, traces, fields, allocated, bins, running>>
        /\ UNCHANGED <<l_no_work_counter, tidx, search, handle, task>>
    BY DEF Wait, WaitEnds
  <1>6. ThreadsAreCounted' /\ LastOneCompletes'
    BY <1>3, <1>5, NobodyGoes
  <1>7. TypeOK'
    BY <1>2, <1>5 DEF IInv, TypeOK
  <1>8. WorkerHolds' /\ HeldJobsHaveWork' /\ BinsBounded'
    BY <1>3, <1>5 DEF IInv, WorkerHolds, HeldJobsHaveWork, Created, BinsBounded
  <1>. QED  BY <1>4, <1>6, <1>7, <1>8 DEF IInv

LEMMA IdleKeeps ==
  ASSUME IInv, NEW w \in Workers, Idle(w)
  PROVE  IInv'
  <1>. DEFINE n == l_no_work_counter[w] + 1
              label == IF n > k_LoopsUntilGC THEN "wait" ELSE "loop"
  <1>1. label \in WorkerLabels \ {"last", "stopped", "run", "complete"}
    BY DEF WorkerLabels
  <1>2. /\ l_no_work_counter \in [Workers -> 0..(k_LoopsUntilGC + 1)]
        /\ l_no_work_counter[w] <= k_LoopsUntilGC
    BY DEF IInv, TypeOK, WorkerHolds, Idle
  <1>3. /\ n \in 0..(k_LoopsUntilGC + 1)
        /\ l_no_work_counter' = [l_no_work_counter EXCEPT ![w] = n]
    BY <1>2, SystemAssumption DEF Idle
  <1>4. l_no_work_counter'[w] = n /\ Goto(w, label)
    BY <1>2, <1>3 DEF Idle
  <1>5. MovedTo(w, label)
    BY <1>1, <1>4, WorkerGoes DEF Idle
  <1>6. ThreadsAreCounted' /\ LastOneCompletes'
    BY <1>5, NobodyGoes DEF Idle, MovedTo
  <1>7. TypeOK'
    <2>1. l_GarbageBin' \in [Workers -> Seq(Jobs)]
      <3>1. <<>> \in Seq(Jobs) /\ l_GarbageBin \in [Workers -> Seq(Jobs)]
        BY EmptySeq DEF IInv, TypeOK
      <3>2. l_GarbageBin' = [l_GarbageBin EXCEPT ![w] = <<>>] \/ l_GarbageBin' = l_GarbageBin
        BY DEF Idle
      <3>. QED  BY <3>1, <3>2
    <2>2. l_no_work_counter' \in [Workers -> 0..(k_LoopsUntilGC + 1)]
      BY <1>2, <1>3
    <2>. QED  BY <1>5, <2>1, <2>2 DEF IInv, TypeOK, Idle, MovedTo
  <1>8. WorkerHolds'
    <2>1. \A v \in Workers \ {w} : l_no_work_counter'[v] = l_no_work_counter[v]
      BY <1>2, <1>3
    <2>2. label # "wait" => n <= k_LoopsUntilGC
      BY <1>2, <1>3, SystemAssumption
    <2>. QED  BY <1>1, <1>4, <1>5, <2>1, <2>2 DEF IInv, WorkerHolds, Idle, MovedTo
  <1>9. HeldJobsHaveWork' /\ BinsBounded'
    BY DEF IInv, HeldJobsHaveWork, Created, BinsBounded, Idle
  <1>. QED  BY <1>5, <1>6, <1>7, <1>8, <1>9 DEF IInv, MovedTo

LEMMA AwakeKeeps ==
  ASSUME IInv, NEW w \in Workers, Awake(w)
  PROVE  IInv'
  <1>1. "loop" \in WorkerLabels \ {"last", "stopped", "run", "complete"}
    BY DEF WorkerLabels
  <1>2. MovedTo(w, "loop")
    BY <1>1, WorkerGoes DEF Awake, WaitForReturns
  <1>3. ThreadsAreCounted' /\ LastOneCompletes'
    BY <1>2, NobodyGoes DEF Awake, MovedTo
  <1>4. \A n \in 0..(k_LoopsUntilGC + 1) : n \div 2 \in 0..k_LoopsUntilGC
    BY SystemAssumption
  <1>5. /\ l_no_work_counter' \in [Workers -> 0..(k_LoopsUntilGC + 1)]
        /\ l_no_work_counter'[w] <= k_LoopsUntilGC
        /\ \A v \in Workers \ {w} : l_no_work_counter'[v] = l_no_work_counter[v]
    <2>1. l_no_work_counter \in [Workers -> 0..(k_LoopsUntilGC + 1)]
      BY DEF IInv, TypeOK
    <2>2. /\ l_no_work_counter[w] \div 2 \in 0..k_LoopsUntilGC
          /\ l_no_work_counter' = [l_no_work_counter EXCEPT ![w] = l_no_work_counter[w] \div 2]
      BY <1>4, <2>1 DEF Awake
    <2>. QED  BY <2>1, <2>2, SystemAssumption
  <1>6. TypeOK'
    BY <1>2, <1>5 DEF IInv, TypeOK, Awake, MovedTo
  <1>7. WorkerHolds'
    BY <1>1, <1>2, <1>5 DEF IInv, WorkerHolds, Awake, MovedTo
  <1>8. HeldJobsHaveWork' /\ BinsBounded'
    BY DEF IInv, HeldJobsHaveWork, Created, BinsBounded, Awake
  <1>. QED  BY <1>2, <1>3, <1>6, <1>7, <1>8 DEF IInv, MovedTo

(* A worker takes a job that has work. *)
LEMMA Started ==
  ASSUME IInv, NEW w \in Workers, NEW j \in Created, pc[w] \notin {"last", "stopped"},
         Start(w, j)
  PROVE  /\ l_CurrentJob' \in [Workers -> Created \cup {NULL}]
         /\ l_CurrentJob' \in [Workers -> Jobs \cup {NULL}]
         /\ \A v \in Workers : l_CurrentJob'[v] = IF v = w THEN j ELSE l_CurrentJob[v]
         /\ j # NULL
         /\ task' \in [Works -> Task]
         /\ MovedTo(w, "run")
  <1>1. /\ l_CurrentJob \in [Workers -> Created \cup {NULL}]
        /\ l_CurrentJob' = [l_CurrentJob EXCEPT ![w] = j]
        /\ Created \subseteq Jobs
    BY DEF IInv, HeldJobsHaveWork, Start, Created
  <1>2. /\ l_CurrentJob' \in [Workers -> Created \cup {NULL}]
        /\ l_CurrentJob' \in [Workers -> Jobs \cup {NULL}]
        /\ \A v \in Workers : l_CurrentJob'[v] = IF v = w THEN j ELSE l_CurrentJob[v]
    BY <1>1
  <1>3. j # NULL
    BY <1>1, SystemAssumption
  <1>4. task' \in [Works -> Task]
    <2>1. task \in [Works -> Task] /\ "running" \in Phases
      BY DEF IInv, TypeOK, Task, Phases
    <2>. QED  BY <2>1, PhaseChanges DEF Start
  <1>5. "run" \in WorkerLabels \ {"last", "stopped"} /\ Goto(w, "run")
    BY DEF WorkerLabels, Start
  <1>. QED  BY <1>2, <1>3, <1>4, <1>5, WorkerGoes

(* The pop of a queue of jobs that have work. *)
LEMMA QueuePopped ==
  ASSUME NEW queue \in [Workers -> Seq(Created)], NEW i \in Workers, queue[i] # <<>>
  PROVE  /\ Head(queue[i]) \in Created
         /\ [queue EXCEPT ![i] = Tail(queue[i])] \in [Workers -> Seq(Created)]
  <1>1. Head(queue[i]) \in Created /\ Tail(queue[i]) \in Seq(Created)
    BY Popped
  <1>. QED  BY <1>1

LEMMA QueuesOfJobs ==
  [Workers -> Seq(Created)] \subseteq [Workers -> Seq(Jobs)]
  <1>1. Seq(Created) \subseteq Seq(Jobs)
    BY SeqOfMore DEF Created
  <1>. QED  BY <1>1

LEMMA PopLocalKeeps ==
  ASSUME IInv, NEW w \in Workers, PopLocal(w)
  PROVE  IInv'
  <1>1. Created' = Created /\ m_LocalQueues \in [Workers -> Seq(Created)]
    BY DEF IInv, HeldJobsHaveWork, Created, PopLocal
  <1>2. CASE m_LocalQueues[w] = <<>>
    <2>1. "global" \in WorkerLabels \ {"last", "stopped", "run", "complete"}
      BY DEF WorkerLabels
    <2>2. MovedTo(w, "global")
      BY <1>2, <2>1, WorkerGoes DEF PopLocal
    <2>3. ThreadsAreCounted' /\ LastOneCompletes'
      BY <2>2, NobodyGoes DEF PopLocal, MovedTo
    <2>4. TypeOK'
      BY <1>2, <2>2 DEF IInv, TypeOK, PopLocal, MovedTo
    <2>5. WorkerHolds'
      BY <1>2, <2>1, <2>2 DEF IInv, WorkerHolds, PopLocal, MovedTo
    <2>6. HeldJobsHaveWork' /\ BinsBounded'
      BY <1>1, <1>2 DEF IInv, HeldJobsHaveWork, BinsBounded, PopLocal
    <2>. QED  BY <2>2, <2>3, <2>4, <2>5, <2>6 DEF IInv, MovedTo
  <1>3. CASE m_LocalQueues[w] # <<>>
    <2>. DEFINE j == Head(m_LocalQueues[w])
    <2>1. /\ m_LocalQueues' = [m_LocalQueues EXCEPT ![w] = Tail(m_LocalQueues[w])]
          /\ Start(w, j)
          /\ UNCHANGED <<m_NumThreads, m_ShutdownComplete>>
          /\ pc[w] = "local"
      BY <1>3 DEF PopLocal
    <2>2. j \in Created /\ m_LocalQueues' \in [Workers -> Seq(Created)]
      BY <1>1, <1>3, <2>1, QueuePopped
    <2>. HIDE DEF j
    <2>3. /\ l_CurrentJob' \in [Workers -> Created \cup {NULL}]
          /\ l_CurrentJob' \in [Workers -> Jobs \cup {NULL}]
          /\ \A v \in Workers : l_CurrentJob'[v] = IF v = w THEN j ELSE l_CurrentJob[v]
          /\ j # NULL
          /\ task' \in [Works -> Task]
          /\ MovedTo(w, "run")
      BY <2>1, <2>2, Started
    <2>4. ThreadsAreCounted' /\ LastOneCompletes'
      BY <2>1, <2>3, NobodyGoes DEF MovedTo
    <2>5. TypeOK'
      <3>1. m_LocalQueues' \in [Workers -> Seq(Jobs)]
        BY <2>2, QueuesOfJobs
      <3>. QED  BY <2>3, <3>1 DEF IInv, TypeOK, Task, PopLocal, MovedTo
    <2>6. WorkerHolds'
      BY <2>3 DEF IInv, WorkerHolds, PopLocal, MovedTo
    <2>7. HeldJobsHaveWork' /\ BinsBounded'
      BY <1>1, <2>2, <2>3 DEF IInv, HeldJobsHaveWork, BinsBounded, PopLocal
    <2>. QED  BY <2>3, <2>4, <2>5, <2>6, <2>7 DEF IInv, MovedTo
  <1>. QED  BY <1>2, <1>3

LEMMA NextWorker ==
  ASSUME IInv, NEW i \in Workers
  PROVE  (IF i + 1 >= m_NumThreads THEN 0 ELSE i + 1) \in Workers
  <1>1. m_NumThreads \in 0..NumWorkers
    BY DEF IInv, TypeOK
  <1>. QED  BY <1>1, SystemAssumption DEF Workers

(* Worker w starts a job that it has popped from global queue i. *)
LEMMA GlobalStartKeeps ==
  ASSUME IInv, NEW w \in Workers, NEW i \in Workers, m_GlobalQueues[i] # <<>>,
         pc[w] \in {"global", "steal"},
         m_GlobalQueues' = [m_GlobalQueues EXCEPT ![i] = Tail(m_GlobalQueues[i])],
         Start(w, Head(m_GlobalQueues[i])),
         steal_from' \in [Workers -> Workers],
         numStealAttempts' \in [Workers -> 0..(UInt32 - 1)],
         UNCHANGED <<m_NumThreads, flags, m_LocalQueues, traces, fields, allocated, bins,
                     continuation, completing, l_no_work_counter, tidx, handle>>
  PROVE  IInv'
  <1>. DEFINE j == Head(m_GlobalQueues[i])
  <1>1. Created' = Created /\ m_GlobalQueues \in [Workers -> Seq(Created)]
    BY DEF IInv, HeldJobsHaveWork, Created
  <1>2. j \in Created /\ m_GlobalQueues' \in [Workers -> Seq(Created)] /\ Start(w, j)
    BY <1>1, QueuePopped
  <1>. HIDE DEF j
  <1>3. /\ l_CurrentJob' \in [Workers -> Created \cup {NULL}]
        /\ l_CurrentJob' \in [Workers -> Jobs \cup {NULL}]
        /\ \A v \in Workers : l_CurrentJob'[v] = IF v = w THEN j ELSE l_CurrentJob[v]
        /\ j # NULL
        /\ task' \in [Works -> Task]
        /\ MovedTo(w, "run")
    BY <1>2, Started
  <1>4. ThreadsAreCounted' /\ LastOneCompletes'
    BY <1>3, NobodyGoes DEF MovedTo
  <1>5. TypeOK'
    <2>1. m_GlobalQueues' \in [Workers -> Seq(Jobs)]
      BY <1>2, QueuesOfJobs
    <2>. QED  BY <1>3, <2>1 DEF IInv, TypeOK, Task, MovedTo
  <1>6. WorkerHolds'
    BY <1>3 DEF IInv, WorkerHolds, MovedTo
  <1>7. HeldJobsHaveWork' /\ BinsBounded'
    BY <1>1, <1>2, <1>3 DEF IInv, HeldJobsHaveWork, BinsBounded
  <1>. QED  BY <1>3, <1>4, <1>5, <1>6, <1>7 DEF IInv, MovedTo

(* Worker w goes on with its search for a job. *)
LEMMA SearchKeeps ==
  ASSUME IInv, NEW w \in Workers, pc[w] \in {"global", "steal"},
         NEW label \in {"steal", "idle"}, Goto(w, label),
         steal_from' \in [Workers -> Workers],
         numStealAttempts' \in [Workers -> 0..(UInt32 - 1)],
         UNCHANGED <<m_NumThreads, flags, queues, traces, fields, allocated, bins, running,
                     l_no_work_counter, tidx, handle, task>>
  PROVE  IInv'
  <1>1. label \in WorkerLabels \ {"last", "stopped", "run", "complete"}
    BY DEF WorkerLabels
  <1>2. MovedTo(w, label)
    BY <1>1, WorkerGoes
  <1>3. ThreadsAreCounted' /\ LastOneCompletes'
    BY <1>2, NobodyGoes DEF MovedTo
  <1>4. TypeOK'
    BY <1>2 DEF IInv, TypeOK, MovedTo
  <1>5. WorkerHolds'
    BY <1>1, <1>2 DEF IInv, WorkerHolds, MovedTo
  <1>6. HeldJobsHaveWork' /\ BinsBounded'
    BY DEF IInv, HeldJobsHaveWork, Created, BinsBounded
  <1>. QED  BY <1>2, <1>3, <1>4, <1>5, <1>6 DEF IInv, MovedTo

LEMMA PopGlobalKeeps ==
  ASSUME IInv, NEW w \in Workers, PopGlobal(w)
  PROVE  IInv'
  <1>1. /\ steal_from \in [Workers -> Workers]
        /\ numStealAttempts \in [Workers -> 0..(UInt32 - 1)]
        /\ pc[w] = "global"
    BY DEF IInv, TypeOK, PopGlobal
  <1>2. CASE m_GlobalQueues[w] = <<>>
    <2>1. StealAttempts \in 0..(UInt32 - 1)
      BY <1>1, SomeoneIsLeft, SystemAssumption DEF StealAttempts
    <2>2. numStealAttempts' \in [Workers -> 0..(UInt32 - 1)]
      BY <1>1, <1>2, <2>1 DEF PopGlobal
    <2>3. Goto(w, "steal")
      BY <1>2 DEF PopGlobal
    <2>4. UNCHANGED <<m_NumThreads, flags, queues, traces, fields, allocated, bins, running,
                      l_no_work_counter, tidx, handle, task, steal_from>>
      BY <1>2 DEF PopGlobal
    <2>. QED  BY <1>1, <2>2, <2>3, <2>4, SearchKeeps
  <1>3. CASE m_GlobalQueues[w] # <<>>
    <2>1. /\ m_GlobalQueues' = [m_GlobalQueues EXCEPT ![w] = Tail(m_GlobalQueues[w])]
          /\ Start(w, Head(m_GlobalQueues[w]))
          /\ UNCHANGED <<steal_from, numStealAttempts>>
      BY <1>3 DEF PopGlobal
    <2>2. UNCHANGED <<m_NumThreads, flags, m_LocalQueues, traces, fields, allocated, bins,
                      continuation, completing, l_no_work_counter, tidx, handle>>
      BY DEF PopGlobal
    <2>. QED  BY <1>1, <1>3, <2>1, <2>2, GlobalStartKeeps
  <1>. QED  BY <1>2, <1>3

LEMMA StealKeeps ==
  ASSUME IInv, NEW w \in Workers, Steal(w)
  PROVE  IInv'
  <1>. DEFINE n == (numStealAttempts[w] - 1) % UInt32
              i == IF steal_from[w] + 1 >= m_NumThreads THEN 0 ELSE steal_from[w] + 1
              q == m_GlobalQueues[i]
  <1>1. /\ steal_from \in [Workers -> Workers]
        /\ numStealAttempts \in [Workers -> 0..(UInt32 - 1)]
        /\ pc[w] = "steal"
    BY DEF IInv, TypeOK, Steal
  <1>2. i \in Workers /\ n \in 0..(UInt32 - 1)
    <2>1. numStealAttempts[w] - 1 \in Int /\ steal_from[w] \in Workers
      BY <1>1
    <2>. QED  BY <2>1, NextWorker, Moduli
  <1>3. UNCHANGED <<m_NumThreads, flags, m_LocalQueues, traces, fields, allocated, bins,
                    continuation, completing, l_no_work_counter, tidx, handle>>
    BY DEF Steal
  <1>4. /\ numStealAttempts' = [numStealAttempts EXCEPT ![w] = n]
        /\ \/ /\ Goto(w, "idle")
              /\ UNCHANGED <<m_GlobalQueues, l_CurrentJob, task, steal_from>>
           \/ /\ steal_from' = [steal_from EXCEPT ![w] = i]
              /\ UNCHANGED <<m_GlobalQueues, l_CurrentJob, task, pc>>
           \/ /\ q # <<>>
              /\ steal_from' = [steal_from EXCEPT ![w] = i]
              /\ m_GlobalQueues' = [m_GlobalQueues EXCEPT ![i] = Tail(q)]
              /\ Start(w, Head(q))
    BY DEF Steal
  <1>. HIDE DEF i, n
  <1>5. numStealAttempts' \in [Workers -> 0..(UInt32 - 1)]
    BY <1>1, <1>2, <1>4
  <1>6. steal_from' \in [Workers -> Workers]
    BY <1>1, <1>2, <1>4
  <1>7. CASE Goto(w, "idle") /\ UNCHANGED <<m_GlobalQueues, l_CurrentJob, task, steal_from>>
    <2>1. UNCHANGED <<m_NumThreads, flags, queues, traces, fields, allocated, bins, running,
                      l_no_work_counter, tidx, handle, task>>
      BY <1>3, <1>7
    <2>. QED  BY <1>1, <1>5, <1>6, <1>7, <2>1, SearchKeeps
  <1>8. CASE UNCHANGED <<m_GlobalQueues, l_CurrentJob, task, pc>>
    <2>1. UNCHANGED <<m_NumThreads, flags, queues, traces, fields, allocated, bins, running,
                      l_no_work_counter, tidx, handle, task>>
      BY <1>3, <1>8
    <2>2. Goto(w, "steal")
      BY <1>1, <1>8, ThreadsAreDisjoint DEF IInv, TypeOK, Goto
    <2>. QED  BY <1>1, <1>5, <1>6, <2>1, <2>2, SearchKeeps
  <1>9. CASE /\ q # <<>>
             /\ m_GlobalQueues' = [m_GlobalQueues EXCEPT ![i] = Tail(q)]
             /\ Start(w, Head(q))
    BY <1>1, <1>2, <1>3, <1>5, <1>6, <1>9, GlobalStartKeeps
  <1>. QED  BY <1>4, <1>7, <1>8, <1>9

LEMMA FinishWorkKeeps ==
  ASSUME IInv, NEW w \in Workers, FinishWork(w)
  PROVE  IInv'
  <1>. DEFINE j == l_CurrentJob[w]
              next == m_Continuation[j]
              parent == m_Parent[j]
              label == "complete"
  <1>1. /\ pc[w] = "run" /\ j \in Created /\ j \in Jobs
        /\ m_Work[j] \in Works
        /\ next \in Created \cup {NULL}
        /\ parent \in Jobs \cup {NULL}
    BY DEF IInv, TypeOK, HeldJobsHaveWork, WorkerHolds, Created, FinishWork
  <1>2. UNCHANGED <<m_NumThreads, flags, queues, tracelog, m_Continuation, m_ThreadIndex,
                    m_Work, allocated, bins, l_CurrentJob, tidx, search>>
    BY DEF FinishWork
  <1>3. /\ m_Traces' = [m_Traces EXCEPT ![w] = m_Traces[w] \cup {m_Work[j]}]
        /\ continuation' = [continuation EXCEPT ![w] = next]
        /\ completing' = [completing EXCEPT ![w] = <<j>>]
        /\ task' = [task EXCEPT ![m_Work[j]].phase = "done"]
        /\ l_no_work_counter' = [l_no_work_counter EXCEPT ![w] = 0]
        /\ handle' = [handle EXCEPT ![w] = NULL]
        /\ Goto(w, "complete")
    BY DEF FinishWork, StoreTrace
  <1>4. m_NumChildren' \in [Jobs -> 0..(UInt32 - 1)] /\ m_Parent' \in [Jobs -> Jobs \cup {NULL}]
    <2>1. m_NumChildren \in [Jobs -> 0..(UInt32 - 1)] /\ m_Parent \in [Jobs -> Jobs \cup {NULL}]
      BY DEF IInv, TypeOK
    <2>2. CASE next # NULL /\ parent # NULL
      <3>1. /\ m_NumChildren' = [m_NumChildren EXCEPT ![parent] = (m_NumChildren[parent] + 1) % UInt32]
            /\ m_Parent' = [m_Parent EXCEPT ![next] = parent]
        BY <2>2 DEF FinishWork
      <3>2. (m_NumChildren[parent] + 1) % UInt32 \in 0..(UInt32 - 1)
        BY <1>1, <2>1, <2>2, Moduli
      <3>. QED  BY <1>1, <2>1, <2>2, <3>1, <3>2
    <2>3. CASE ~(next # NULL /\ parent # NULL)
      BY <2>1, <2>3 DEF FinishWork
    <2>. QED  BY <2>2, <2>3
  <1>5. MovedTo(w, "complete")
    <2>1. "complete" \in WorkerLabels \ {"last", "stopped"}
      BY DEF WorkerLabels
    <2>. QED  BY <1>1, <1>3, <2>1, WorkerGoes
  <1>6. ThreadsAreCounted' /\ LastOneCompletes'
    BY <1>2, <1>5, NobodyGoes DEF MovedTo
  <1>7. TypeOK'
    <2>1. m_Traces' \in [Workers -> SUBSET Works]
      <3>1. m_Traces \in [Workers -> SUBSET Works]
        BY DEF IInv, TypeOK
      <3>2. m_Traces[w] \cup {m_Work[j]} \in SUBSET Works
        BY <1>1, <3>1
      <3>. QED  BY <1>3, <3>1, <3>2
    <2>2. completing' \in [Workers -> Seq(Jobs)]
      <3>1. completing \in [Workers -> Seq(Jobs)] /\ <<j>> \in Seq(Jobs)
        BY <1>1 DEF IInv, TypeOK
      <3>. QED  BY <1>3, <3>1
    <2>3. task' \in [Works -> Task]
      <3>1. task \in [Works -> Task] /\ "done" \in Phases
        BY DEF IInv, TypeOK, Task, Phases
      <3>. QED  BY <1>3, <3>1, PhaseChanges
    <2>4. l_no_work_counter' \in [Workers -> 0..(k_LoopsUntilGC + 1)]
      BY <1>3, SystemAssumption DEF IInv, TypeOK
    <2>5. handle' \in [Threads -> [job: Jobs, work: Works] \cup {NULL}]
      BY <1>3 DEF IInv, TypeOK
    <2>6. continuation' \in [Workers -> Jobs \cup {NULL}]
      BY <1>1, <1>3 DEF IInv, TypeOK, Created
    <2>. QED  BY <1>2, <1>4, <1>5, <2>1, <2>2, <2>3, <2>4, <2>5, <2>6 DEF IInv, TypeOK, Task, MovedTo
  <1>8. WorkerHolds'
    <2>1. /\ \A v \in Workers : completing'[v] = IF v = w THEN <<j>> ELSE completing[v]
          /\ \A v \in Workers : l_no_work_counter'[v] = IF v = w THEN 0 ELSE l_no_work_counter[v]
          /\ <<j>> # <<>> /\ 0 <= k_LoopsUntilGC
      BY <1>3, SystemAssumption DEF IInv, TypeOK
    <2>. QED  BY <1>2, <1>5, <2>1 DEF IInv, WorkerHolds, MovedTo
  <1>9. HeldJobsHaveWork' /\ BinsBounded'
    BY <1>1, <1>2, <1>3 DEF IInv, HeldJobsHaveWork, Created, BinsBounded
  <1>. QED  BY <1>5, <1>6, <1>7, <1>8, <1>9 DEF IInv, MovedTo

LEMMA ReversedIsASeq ==
  ASSUME NEW S, NEW s \in Seq(S)
  PROVE  /\ Reversed(s) \in Seq(S) /\ Len(Reversed(s)) = Len(s) /\ Len(s) \in Nat
         /\ \A i \in 1..Len(s) : Reversed(s)[i] = s[Len(s) + 1 - i]
  <1>1. Len(s) \in Nat /\ s \in [1..Len(s) -> S]
    BY LenProperties
  <1>2. \A i \in 1..Len(s) : Len(s) + 1 - i \in 1..Len(s)
    BY <1>1
  <1>3. Reversed(s) \in [1..Len(s) -> S]
    BY <1>1, <1>2 DEF Reversed
  <1>4. Reversed(s) \in Seq(S)
    BY <1>1, <1>3
  <1>5. Len(Reversed(s)) = Len(s)
    BY <1>1, <1>3, <1>4, LenProperties
  <1>. QED  BY <1>1, <1>4, <1>5 DEF Reversed

(* What is recycled: the bins take it all and the recycling bin stays bounded. *)
LEMMA RecycledTypes ==
  ASSUME IInv, NEW w \in Workers, NEW s \in Seq(Jobs), Recycle(w, s)
  PROVE  /\ l_RecyclingBin' \in [Threads -> Seq(Jobs)] /\ l_GarbageBin' \in [Workers -> Seq(Jobs)]
         /\ BinsBounded'
  <1>. DEFINE bin == l_RecyclingBin[w]
              room == k_RecyclingCapacity + 1 - Len(bin)
              kept == IF Len(s) <= room THEN Len(s) ELSE room
              first == SubSeq(s, 1, kept)
              rest == SubSeq(s, kept + 1, Len(s))
  <1>1. /\ l_RecyclingBin \in [Threads -> Seq(Jobs)] /\ l_GarbageBin \in [Workers -> Seq(Jobs)]
        /\ \A t \in Threads : Len(l_RecyclingBin[t]) <= k_RecyclingCapacity + 1
    BY DEF IInv, TypeOK, BinsBounded
  <1>2. bin \in Seq(Jobs) /\ Len(bin) \in Nat /\ Len(bin) <= k_RecyclingCapacity + 1
    BY <1>1, ThreadsAreDisjoint
  <1>3. kept \in 0..Len(s) /\ kept <= room /\ Len(s) \in Nat
    <2>1. Len(s) \in Nat
      BY LenProperties
    <2>2. room \in Nat
      BY <1>2, SystemAssumption
    <2>. HIDE DEF room
    <2>. QED  BY <2>1, <2>2
  <1>4. first \in Seq(Jobs) /\ Len(first) = kept /\ rest \in Seq(Jobs)
    <2>1. \A i \in 1..kept : s[i] \in Jobs
      BY <1>3
    <2>2. \A i \in (kept + 1)..Len(s) : s[i] \in Jobs
      BY <1>3
    <2>3. first \in Seq(Jobs) /\ Len(first) = IF 1 <= kept THEN kept - 1 + 1 ELSE 0
      BY <1>3, <2>1, SubSeqProperties
    <2>4. rest \in Seq(Jobs)
      BY <1>3, <2>2, SubSeqProperties
    <2>. QED  BY <1>3, <2>3, <2>4
  <1>5. /\ l_RecyclingBin' = [l_RecyclingBin EXCEPT ![w] = bin \o first]
        /\ l_GarbageBin' = [l_GarbageBin EXCEPT ![w] = l_GarbageBin[w] \o rest]
    BY DEF Recycle
  <1>. HIDE DEF first, rest, kept
  <1>6. /\ bin \o first \in Seq(Jobs) /\ Len(bin \o first) = Len(bin) + kept
        /\ l_GarbageBin[w] \o rest \in Seq(Jobs)
    BY <1>1, <1>2, <1>4, ConcatProperties
  <1>7. Len(bin \o first) <= k_RecyclingCapacity + 1
    BY <1>2, <1>3, <1>6, SystemAssumption
  <1>. HIDE DEF bin
  <1>8. /\ l_RecyclingBin' \in [Threads -> Seq(Jobs)]
        /\ l_GarbageBin' \in [Workers -> Seq(Jobs)]
    BY <1>1, <1>5, <1>6
  <1>9. \A t \in Threads : l_RecyclingBin'[t] = IF t = w THEN bin \o first ELSE l_RecyclingBin[t]
    BY <1>1, <1>5
  <1>. QED  BY <1>1, <1>7, <1>8, <1>9 DEF BinsBounded

LEMMA JobCompletedKeeps ==
  ASSUME IInv, NEW w \in Workers, JobCompleted(w)
  PROVE  IInv'
  <1>. DEFINE calls == completing[w]
              j == calls[Len(calls)]
              remaining == m_NumChildren[j]
              completed == IF remaining <= 1 THEN calls ELSE SubSeq(calls, 1, Len(calls) - 1)
  <1>1. /\ pc[w] = "complete" /\ calls \in Seq(Jobs) /\ calls # <<>>
        /\ m_NumChildren \in [Jobs -> 0..(UInt32 - 1)] /\ m_Parent \in [Jobs -> Jobs \cup {NULL}]
        /\ completing \in [Workers -> Seq(Jobs)]
        /\ continuation \in [Workers -> Created \cup {NULL}]
        /\ task \in [Works -> Task]
    BY DEF IInv, TypeOK, HeldJobsHaveWork, WorkerHolds, JobCompleted, Task
  <1>2. Len(calls) \in Nat \ {0} /\ j \in Jobs
    BY <1>1, EmptySeq
  <1>3. UNCHANGED <<m_NumThreads, flags, queues, traces, m_Parent, m_Continuation,
                    m_ThreadIndex, m_Work, allocated, l_no_work_counter, tidx, search, handle>>
    BY DEF JobCompleted
  <1>4. m_NumChildren' \in [Jobs -> 0..(UInt32 - 1)]
    <2>1. m_NumChildren[j] \in Int
      BY <1>1, <1>2, SystemAssumption
    <2>. HIDE DEF j
    <2>3. (m_NumChildren[j] - 1) % UInt32 \in 0..(UInt32 - 1)
      BY <2>1, Moduli
    <2>2. m_NumChildren' = [m_NumChildren EXCEPT ![j] = (m_NumChildren[j] - 1) % UInt32]
      BY DEF JobCompleted, j
    <2>. QED  BY <1>1, <2>3, <2>2
  <1>5. Created' = Created
    BY <1>3 DEF Created
  <1>6. CASE remaining <= 1 /\ m_Parent[j] # NULL
    <2>1. /\ completing' = [completing EXCEPT ![w] = Append(calls, m_Parent[j])]
          /\ UNCHANGED <<bins, l_CurrentJob, continuation, task, pc>>
      BY <1>6 DEF JobCompleted
    <2>2. Append(calls, m_Parent[j]) \in Seq(Jobs) /\ Append(calls, m_Parent[j]) # <<>>
      <3>1. m_Parent[j] \in Jobs
        BY <1>1, <1>2, <1>6
      <3>2. Append(calls, m_Parent[j]) \in Seq(Jobs)
            /\ Len(Append(calls, m_Parent[j])) = Len(calls) + 1
        BY <1>1, <3>1, Appended
      <3>. QED  BY <1>2, <3>2, EmptySeq
    <2>3. completing' \in [Workers -> Seq(Jobs)]
      BY <1>1, <2>1, <2>2
    <2>4. \A v \in Workers : completing'[v] = IF v = w THEN Append(calls, m_Parent[j]) ELSE completing[v]
      BY <1>1, <2>1
    <2>5. TypeOK'
      BY <1>3, <1>4, <2>1, <2>3 DEF IInv, TypeOK
    <2>6. WorkerHolds'
      BY <1>3, <2>1, <2>2, <2>4 DEF IInv, WorkerHolds
    <2>7. ThreadsAreCounted' /\ LastOneCompletes'
      BY <1>3, <2>1, NobodyGoes
    <2>8. LabelsOK' /\ HeldJobsHaveWork' /\ BinsBounded'
      BY <1>3, <1>5, <2>1 DEF IInv, LabelsOK, HeldJobsHaveWork, BinsBounded
    <2>. QED  BY <2>5, <2>6, <2>7, <2>8 DEF IInv
  <1>7. CASE ~(remaining <= 1 /\ m_Parent[j] # NULL)
    <2>1. /\ Recycle(w, Reversed(completed))
          /\ completing' = [completing EXCEPT ![w] = <<>>]
          /\ continuation' = [continuation EXCEPT ![w] = NULL]
          /\ TurnToContinuation(w)
      BY <1>7 DEF JobCompleted
    <2>2. completed \in Seq(Jobs)
      <3>1. \A i \in 1..(Len(calls) - 1) : calls[i] \in Jobs
        BY <1>1, <1>2
      <3>2. SubSeq(calls, 1, Len(calls) - 1) \in Seq(Jobs)
        BY <1>2, <3>1, SubSeqProperties
      <3>. QED  BY <1>1, <3>2
    <2>3. Reversed(completed) \in Seq(Jobs)
      BY <2>2, ReversedIsASeq
    <2>4. /\ l_RecyclingBin' \in [Threads -> Seq(Jobs)] /\ l_GarbageBin' \in [Workers -> Seq(Jobs)]
          /\ BinsBounded'
      BY <2>1, <2>3, RecycledTypes
    <2>5. /\ completing' \in [Workers -> Seq(Jobs)]
          /\ \A v \in Workers \ {w} : completing'[v] = completing[v]
      <3>1. <<>> \in Seq(Jobs)
        BY EmptySeq
      <3>. QED  BY <1>1, <2>1, <3>1
    <2>6. /\ continuation' \in [Workers -> Created \cup {NULL}]
          /\ continuation' \in [Workers -> Jobs \cup {NULL}]
      BY <1>1, <2>1 DEF Created
    <2>7. \E label \in WorkerLabels \ {"complete"} :
            /\ MovedTo(w, label)
            /\ l_CurrentJob' \in [Workers -> Created \cup {NULL}]
            /\ l_CurrentJob' \in [Workers -> Jobs \cup {NULL}]
            /\ \A v \in Workers \ {w} : l_CurrentJob'[v] = l_CurrentJob[v]
            /\ label = "run" => l_CurrentJob'[w] # NULL
            /\ task' \in [Works -> Task]
      <3>1. CASE continuation[w] # NULL
        <4>1. Start(w, continuation[w]) /\ continuation[w] \in Created
          BY <1>1, <2>1, <3>1 DEF TurnToContinuation
        <4>2. "run" \in WorkerLabels \ {"complete"}
          BY DEF WorkerLabels
        <4>3. /\ l_CurrentJob' \in [Workers -> Created \cup {NULL}]
              /\ l_CurrentJob' \in [Workers -> Jobs \cup {NULL}]
              /\ \A v \in Workers :
                   l_CurrentJob'[v] = IF v = w THEN continuation[w] ELSE l_CurrentJob[v]
              /\ task' \in [Works -> Task]
              /\ MovedTo(w, "run")
          BY <1>1, <4>1, Started
        <4>. QED  BY <3>1, <4>2, <4>3
      <3>2. CASE continuation[w] = NULL
        <4>1. /\ l_CurrentJob' = [l_CurrentJob EXCEPT ![w] = NULL]
              /\ Goto(w, "idle") /\ UNCHANGED task
          BY <2>1, <3>2 DEF TurnToContinuation
        <4>2. /\ l_CurrentJob \in [Workers -> Created \cup {NULL}]
              /\ l_CurrentJob \in [Workers -> Jobs \cup {NULL}]
          BY DEF IInv, TypeOK, HeldJobsHaveWork
        <4>3. "idle" \in WorkerLabels \ {"last", "stopped", "complete", "run"}
          BY DEF WorkerLabels
        <4>4. MovedTo(w, "idle")
          BY <1>1, <4>1, <4>3, WorkerGoes
        <4>5. /\ l_CurrentJob' \in [Workers -> Created \cup {NULL}]
              /\ l_CurrentJob' \in [Workers -> Jobs \cup {NULL}]
              /\ \A v \in Workers \ {w} : l_CurrentJob'[v] = l_CurrentJob[v]
          BY <4>1, <4>2
        <4>. QED  BY <1>1, <4>1, <4>3, <4>4, <4>5
      <3>. QED  BY <3>1, <3>2
    <2>8. PICK label \in WorkerLabels \ {"complete"} :
            /\ MovedTo(w, label)
            /\ l_CurrentJob' \in [Workers -> Created \cup {NULL}]
            /\ l_CurrentJob' \in [Workers -> Jobs \cup {NULL}]
            /\ \A v \in Workers \ {w} : l_CurrentJob'[v] = l_CurrentJob[v]
            /\ label = "run" => l_CurrentJob'[w] # NULL
            /\ task' \in [Works -> Task]
      BY <2>7
    <2>9. ThreadsAreCounted' /\ LastOneCompletes'
      BY <1>3, <2>8, NobodyGoes DEF MovedTo
    <2>10. TypeOK'
      BY <1>3, <1>4, <2>4, <2>5, <2>6, <2>8 DEF IInv, TypeOK, Task, MovedTo
    <2>11. WorkerHolds'
      BY <1>1, <1>3, <2>5, <2>8 DEF IInv, WorkerHolds, MovedTo
    <2>12. HeldJobsHaveWork'
      BY <1>3, <1>5, <2>6, <2>8 DEF IInv, HeldJobsHaveWork
    <2>. QED  BY <2>4, <2>8, <2>9, <2>10, <2>11, <2>12 DEF IInv, MovedTo
  <1>. QED  BY <1>6, <1>7

(* The calls. *)
LEMMA CreateJobTypes ==
  ASSUME IInv, NEW t \in Threads, NEW j \in Jobs, CreateJob(t, j)
  PROVE  /\ allocated' \in SUBSET Jobs
         /\ l_RecyclingBin' \in [Threads -> Seq(Jobs)]
         /\ BinsBounded'
  <1>1. /\ l_RecyclingBin \in [Threads -> Seq(Jobs)] /\ allocated \in SUBSET Jobs
        /\ \A u \in Threads : Len(l_RecyclingBin[u]) <= k_RecyclingCapacity + 1
    BY DEF IInv, TypeOK, BinsBounded
  <1>2. CASE l_RecyclingBin[t] = <<>>
    BY <1>1, <1>2 DEF CreateJob, BinsBounded
  <1>3. CASE l_RecyclingBin[t] # <<>>
    <2>1. /\ l_RecyclingBin' = [l_RecyclingBin EXCEPT ![t] = Tail(l_RecyclingBin[t])]
          /\ UNCHANGED allocated
      BY <1>3 DEF CreateJob
    <2>2. /\ Tail(l_RecyclingBin[t]) \in Seq(Jobs)
          /\ Len(l_RecyclingBin[t]) \in Nat
          /\ Len(Tail(l_RecyclingBin[t])) = Len(l_RecyclingBin[t]) - 1
      BY <1>1, <1>3, Popped
    <2>3. Len(Tail(l_RecyclingBin[t])) <= k_RecyclingCapacity + 1
      BY <1>1, <2>2, SystemAssumption
    <2>4. \A u \in Threads :
            l_RecyclingBin'[u] = IF u = t THEN Tail(l_RecyclingBin[t]) ELSE l_RecyclingBin[u]
      BY <1>1, <2>1
    <2>5. BinsBounded'
      BY <1>1, <2>3, <2>4 DEF BinsBounded
    <2>. QED  BY <1>1, <2>1, <2>2, <2>5
  <1>. QED  BY <1>2, <1>3

LEMMA NewWorkIsUnused ==
  ASSUME Unused # {}
  PROVE  NewWork \in Works /\ task[NewWork].phase = "unused"
  BY DEF Unused, NewWork

LEMMA SetFieldsTypes ==
  ASSUME IInv, NEW j \in Jobs, NEW parent \in Jobs \cup {NULL}, NEW thread_index \in Pins,
         Unused # {}, SetFields(j, parent, thread_index)
  PROVE  /\ m_NumChildren' \in [Jobs -> 0..(UInt32 - 1)]
         /\ m_Parent' \in [Jobs -> Jobs \cup {NULL}]
         /\ m_ThreadIndex' \in [Jobs -> Pins \cup {NULL}]
         /\ m_Work' \in [Jobs -> Works \cup {NULL}]
         /\ Created' = Created \cup {j}
  <1>1. 1 \in 0..(UInt32 - 1)
    BY SystemAssumption
  <1>2. m_NumChildren' \in [Jobs -> 0..(UInt32 - 1)]
    BY <1>1 DEF IInv, TypeOK, SetFields
  <1>3. m_Parent' \in [Jobs -> Jobs \cup {NULL}] /\ m_ThreadIndex' \in [Jobs -> Pins \cup {NULL}]
    BY DEF IInv, TypeOK, SetFields
  <1>4. m_Work \in [Jobs -> Works \cup {NULL}] /\ m_Work' = [m_Work EXCEPT ![j] = NewWork]
    BY DEF IInv, TypeOK, SetFields
  <1>5. NewWork \in Works /\ NewWork # NULL
    BY NewWorkIsUnused, SystemAssumption
  <1>6. m_Work' \in [Jobs -> Works \cup {NULL}]
    BY <1>4, <1>5
  <1>7. \A k \in Jobs : m_Work'[k] = IF k = j THEN NewWork ELSE m_Work[k]
    BY <1>4
  <1>8. Created' = Created \cup {j}
    BY <1>5, <1>7 DEF Created
  <1>. QED  BY <1>2, <1>3, <1>6, <1>8

LEMMA ScheduleWorkTypes ==
  ASSUME IInv, NEW t \in Threads, NEW S, NEW j \in S, NEW thread_index \in Pins,
         ScheduleWork(t, j, thread_index),
         m_GlobalQueues \in [Workers -> Seq(S)], m_LocalQueues \in [Workers -> Seq(S)]
  PROVE  /\ m_GlobalQueues' \in [Workers -> Seq(S)] /\ m_LocalQueues' \in [Workers -> Seq(S)]
         /\ tidx' \in [Threads -> Workers]
  <1>1. tidx \in [Threads -> Workers]
    BY DEF IInv, TypeOK
  <1>2. CASE thread_index = NULL \/ thread_index >= m_NumThreads
    <2>. DEFINE i == IF tidx[t] + 1 >= m_NumThreads THEN 0 ELSE tidx[t] + 1
    <2>1. /\ tidx' = [tidx EXCEPT ![t] = i]
          /\ m_GlobalQueues' = [m_GlobalQueues EXCEPT ![i] = Append(m_GlobalQueues[i], j)]
          /\ UNCHANGED m_LocalQueues
      BY <1>2 DEF ScheduleWork
    <2>2. i \in Workers
      BY <1>1, NextWorker
    <2>. HIDE DEF i
    <2>3. Append(m_GlobalQueues[i], j) \in Seq(S)
      BY <2>2, Appended
    <2>. QED  BY <1>1, <2>1, <2>2, <2>3
  <1>3. CASE ~(thread_index = NULL \/ thread_index >= m_NumThreads)
    <2>. DEFINE i == l_ThreadIndex(t)
    <2>1. /\ m_LocalQueues' = [m_LocalQueues EXCEPT ![i] = Append(m_LocalQueues[i], j)]
          /\ UNCHANGED <<tidx, m_GlobalQueues>>
      BY <1>3 DEF ScheduleWork
    <2>2. i \in Workers
      BY SystemAssumption DEF l_ThreadIndex, Workers
    <2>. HIDE DEF i
    <2>3. Append(m_LocalQueues[i], j) \in Seq(S)
      BY <2>2, Appended
    <2>. QED  BY <1>1, <2>1, <2>2, <2>3
  <1>. QED  BY <1>2, <1>3

LEMMA TaskSet ==
  ASSUME IInv, Unused # {}, NEW record \in Task, task' = [task EXCEPT ![NewWork] = record]
  PROVE  task' \in [Works -> Task]
  BY NewWorkIsUnused DEF IInv, TypeOK, Task

LEMMA ScheduleKeeps ==
  ASSUME IInv, NEW t \in Threads, NEW j \in Jobs, NEW useParent \in BOOLEAN,
         NEW thread_index \in Pins, Schedule(t, j, useParent, thread_index)
  PROVE  IInv'
  <1>. DEFINE parent == IF useParent THEN handle[t].job ELSE NULL
              over == IF useParent THEN handle[t].work ELSE NULL
  <1>1. parent \in Jobs \cup {NULL} /\ over \in Works \cup {NULL}
    <2>1. handle[t] # NULL => handle[t].job \in Jobs /\ handle[t].work \in Works
      BY DEF IInv, TypeOK
    <2>2. useParent => handle[t] # NULL
      BY DEF Schedule
    <2>. QED  BY <2>1, <2>2
  <1>2. /\ Unused # {} /\ CreateJob(t, j) /\ SetFields(j, parent, thread_index)
        /\ m_Continuation' = [m_Continuation EXCEPT ![j] = NULL]
        /\ ScheduleWork(t, j, thread_index) /\ NotifyOne
        /\ handle' = [handle EXCEPT ![t] = [job |-> j, work |-> NewWork]]
        /\ task' = [task EXCEPT ![NewWork] =
                      [phase |-> "queued", after |-> NULL, early |-> ~m_Shutdown, parent |-> over]]
        /\ UNCHANGED <<m_NumThreads, flags, traces, l_GarbageBin, running,
                       l_no_work_counter, search>>
    BY DEF Schedule
  <1>. HIDE DEF parent, over
  <1>3. /\ allocated' \in SUBSET Jobs /\ l_RecyclingBin' \in [Threads -> Seq(Jobs)]
        /\ BinsBounded'
    BY <1>2, CreateJobTypes
  <1>4. /\ m_NumChildren' \in [Jobs -> 0..(UInt32 - 1)]
        /\ m_Parent' \in [Jobs -> Jobs \cup {NULL}]
        /\ m_ThreadIndex' \in [Jobs -> Pins \cup {NULL}]
        /\ m_Work' \in [Jobs -> Works \cup {NULL}]
        /\ Created' = Created \cup {j}
    BY <1>1, <1>2, SetFieldsTypes
  <1>5. /\ m_GlobalQueues' \in [Workers -> Seq(Created')]
        /\ m_LocalQueues' \in [Workers -> Seq(Created')]
        /\ tidx' \in [Threads -> Workers]
    <2>1. Seq(Created) \subseteq Seq(Created')
      BY <1>4, SeqOfMore
    <2>2. /\ m_GlobalQueues \in [Workers -> Seq(Created')]
          /\ m_LocalQueues \in [Workers -> Seq(Created')]
      BY <2>1 DEF IInv, HeldJobsHaveWork
    <2>. QED  BY <1>2, <1>4, <2>2, ScheduleWorkTypes
  <1>6. /\ pc' \in [Threads -> WorkerLabels \cup {"ready", "waitJob", "waitShutdown"}]
        /\ LabelsOK'
        /\ \A w \in Workers : pc'[w] = pc[w] \/ (pc[w] = "wait" /\ pc'[w] = "woken")
    BY <1>2, NotifyOneControl, ThreadsAreDisjoint
  <1>7. ThreadsAreCounted' /\ LastOneCompletes'
    BY <1>2, <1>6, NobodyGoes
  <1>8. HeldJobsHaveWork'
    <2>1. /\ l_CurrentJob' \in [Workers -> Created' \cup {NULL}]
          /\ continuation' \in [Workers -> Created' \cup {NULL}]
          /\ m_Continuation' \in [Jobs -> Created' \cup {NULL}]
      BY <1>2, <1>4 DEF IInv, HeldJobsHaveWork
    <2>. QED  BY <1>5, <2>1 DEF HeldJobsHaveWork
  <1>9. TypeOK'
    <2>1. /\ m_GlobalQueues' \in [Workers -> Seq(Jobs)]
          /\ m_LocalQueues' \in [Workers -> Seq(Jobs)]
          /\ m_Continuation' \in [Jobs -> Jobs \cup {NULL}]
      <3>1. Created' \subseteq Jobs
        BY DEF Created
      <3>2. Seq(Created') \subseteq Seq(Jobs)
        BY <3>1, SeqOfMore
      <3>. QED  BY <1>5, <1>8, <3>1, <3>2 DEF HeldJobsHaveWork
    <2>2. handle' \in [Threads -> [job: Jobs, work: Works] \cup {NULL}]
      <3>1. [job |-> j, work |-> NewWork] \in [job: Jobs, work: Works]
        BY <1>2, NewWorkIsUnused
      <3>. QED  BY <1>2, <3>1 DEF IInv, TypeOK
    <2>3. task' \in [Works -> Task]
      <3>1. [phase |-> "queued", after |-> NULL, early |-> ~m_Shutdown, parent |-> over] \in Task
        BY <1>1 DEF Task, Phases, IInv, TypeOK
      <3>. QED  BY <1>2, <3>1, TaskSet
    <2>. QED  BY <1>2, <1>3, <1>4, <1>5, <1>6, <2>1, <2>2, <2>3 DEF IInv, TypeOK, Task
  <1>10. WorkerHolds'
    BY <1>2, <1>6 DEF IInv, WorkerHolds
  <1>. QED  BY <1>3, <1>6, <1>7, <1>8, <1>9, <1>10 DEF IInv

LEMMA ThenKeeps ==
  ASSUME IInv, NEW t \in Threads, NEW j \in Jobs, NEW thread_index \in Pins,
         Then(t, j, thread_index)
  PROVE  IInv'
  <1>. DEFINE h == handle[t]
  <1>1. h.job \in Jobs /\ h.work \in Works
    BY DEF IInv, TypeOK, Then
  <1>2. /\ Unused # {} /\ CreateJob(t, j) /\ SetFields(j, NULL, thread_index)
        /\ m_Continuation' = [m_Continuation EXCEPT ![j] = NULL, ![h.job] = j]
        /\ handle' = [handle EXCEPT ![t] = [job |-> j, work |-> NewWork]]
        /\ task' = [task EXCEPT ![NewWork] =
                      [phase |-> "waiting", after |-> h.work, early |-> ~m_Shutdown,
                       parent |-> NULL]]
        /\ UNCHANGED <<m_NumThreads, flags, queues, traces, l_GarbageBin, running,
                       l_no_work_counter, tidx, search, pc>>
    BY DEF Then
  <1>. HIDE DEF h
  <1>3. /\ allocated' \in SUBSET Jobs /\ l_RecyclingBin' \in [Threads -> Seq(Jobs)]
        /\ BinsBounded'
    BY <1>2, CreateJobTypes
  <1>4. /\ m_NumChildren' \in [Jobs -> 0..(UInt32 - 1)]
        /\ m_Parent' \in [Jobs -> Jobs \cup {NULL}]
        /\ m_ThreadIndex' \in [Jobs -> Pins \cup {NULL}]
        /\ m_Work' \in [Jobs -> Works \cup {NULL}]
        /\ Created' = Created \cup {j}
    BY <1>2, SetFieldsTypes
  <1>5. ThreadsAreCounted' /\ LastOneCompletes'
    BY <1>2, NobodyGoes
  <1>6. HeldJobsHaveWork'
    <2>1. Seq(Created) \subseteq Seq(Created')
      BY <1>4, SeqOfMore
    <2>2. /\ m_GlobalQueues' \in [Workers -> Seq(Created')]
          /\ m_LocalQueues' \in [Workers -> Seq(Created')]
      BY <1>2, <2>1 DEF IInv, HeldJobsHaveWork
    <2>3. /\ l_CurrentJob' \in [Workers -> Created' \cup {NULL}]
          /\ continuation' \in [Workers -> Created' \cup {NULL}]
          /\ m_Continuation' \in [Jobs -> Created' \cup {NULL}]
      BY <1>1, <1>2, <1>4 DEF IInv, HeldJobsHaveWork
    <2>. QED  BY <2>2, <2>3 DEF HeldJobsHaveWork
  <1>7. TypeOK'
    <2>1. m_Continuation' \in [Jobs -> Jobs \cup {NULL}]
      BY <1>6 DEF HeldJobsHaveWork, Created
    <2>2. handle' \in [Threads -> [job: Jobs, work: Works] \cup {NULL}]
      <3>1. [job |-> j, work |-> NewWork] \in [job: Jobs, work: Works]
        BY <1>2, NewWorkIsUnused
      <3>. QED  BY <1>2, <3>1 DEF IInv, TypeOK
    <2>3. task' \in [Works -> Task]
      <3>1. [phase |-> "waiting", after |-> h.work, early |-> ~m_Shutdown, parent |-> NULL]
              \in Task
        BY <1>1 DEF Task, Phases, IInv, TypeOK
      <3>. QED  BY <1>2, <3>1, TaskSet
    <2>. QED  BY <1>2, <1>3, <1>4, <2>1, <2>2, <2>3 DEF IInv, TypeOK, Task
  <1>8. LabelsOK' /\ WorkerHolds'
    BY <1>2 DEF IInv, LabelsOK, WorkerHolds
  <1>. QED  BY <1>3, <1>5, <1>6, <1>7, <1>8 DEF IInv

(* The shutdown. *)
LEMMA DeallocateTypes ==
  ASSUME IInv, NEW dropped, Deallocate(dropped)
  PROVE  allocated' \in SUBSET Jobs /\ task' \in [Works -> Task]
  <1>1. /\ task \in [Works -> Task] /\ allocated \in SUBSET Jobs /\ "dropped" \in Phases
        /\ allocated' = allocated \ dropped
        /\ task' = [k \in Works |-> IF k \in {m_Work[j] : j \in dropped}
                                      THEN [task[k] EXCEPT !.phase = "dropped"]
                                      ELSE task[k]]
    BY DEF IInv, TypeOK, Task, Phases, Deallocate
  <1>2. \A k \in Works : [task[k] EXCEPT !.phase = "dropped"] \in Task
    BY <1>1 DEF Task
  <1>. QED  BY <1>1, <1>2

(* A step of worker w that takes jobs out of the queues and drops them. *)
LEMMA DrainKeeps ==
  ASSUME IInv, NEW w \in Workers,
         pc[w] \in {"drainGlobal", "clearGlobal", "drainLocal", "clearLocal"},
         NEW label \in {"drainGlobal", "clearGlobal", "drainLocal", "clearLocal", "exit"},
         Goto(w, label),
         m_GlobalQueues' \in [Workers -> Seq(Created)],
         m_LocalQueues' \in [Workers -> Seq(Created)],
         allocated' \in SUBSET Jobs, task' \in [Works -> Task],
         UNCHANGED <<m_NumThreads, flags, traces, fields, bins, running,
                     l_no_work_counter, tidx, search, handle>>
  PROVE  IInv'
  <1>1. label \in WorkerLabels \ {"last", "stopped", "run", "complete"}
    BY DEF WorkerLabels
  <1>2. MovedTo(w, label)
    BY <1>1, WorkerGoes
  <1>3. ThreadsAreCounted' /\ LastOneCompletes'
    BY <1>2, NobodyGoes DEF MovedTo
  <1>4. TypeOK'
    <2>1. m_GlobalQueues' \in [Workers -> Seq(Jobs)] /\ m_LocalQueues' \in [Workers -> Seq(Jobs)]
      BY QueuesOfJobs
    <2>. QED  BY <1>2, <2>1 DEF IInv, TypeOK, Task, MovedTo
  <1>5. WorkerHolds'
    BY <1>1, <1>2 DEF IInv, WorkerHolds, MovedTo
  <1>6. HeldJobsHaveWork' /\ BinsBounded'
    BY DEF IInv, HeldJobsHaveWork, Created, BinsBounded
  <1>. QED  BY <1>2, <1>3, <1>4, <1>5, <1>6 DEF IInv, MovedTo

LEMMA StaysThere ==
  ASSUME IInv, NEW w \in Workers, NEW label, pc[w] = label, UNCHANGED pc
  PROVE  Goto(w, label)
  BY ThreadsAreDisjoint DEF IInv, TypeOK, Goto

LEMMA DrainGlobalKeeps ==
  ASSUME IInv, NEW w \in Workers, DrainGlobal(w)
  PROVE  IInv'
  <1>1. UNCHANGED <<m_NumThreads, flags, traces, fields, bins, running,
                    l_no_work_counter, tidx, search, handle>>
    BY DEF DrainGlobal
  <1>2. /\ m_GlobalQueues \in [Workers -> Seq(Created)]
        /\ m_LocalQueues' \in [Workers -> Seq(Created)]
        /\ allocated \in SUBSET Jobs /\ task \in [Works -> Task]
    BY DEF IInv, TypeOK, HeldJobsHaveWork, DrainGlobal, Task
  <1>3. CASE /\ pc[w] = "drainGlobal" /\ m_GlobalQueues[w] # <<>>
             /\ Deallocate({Head(m_GlobalQueues[w])})
             /\ m_GlobalQueues' = [m_GlobalQueues EXCEPT ![w] = Tail(m_GlobalQueues[w])]
             /\ UNCHANGED pc
    <2>1. m_GlobalQueues' \in [Workers -> Seq(Created)]
      BY <1>2, <1>3, QueuePopped
    <2>2. allocated' \in SUBSET Jobs /\ task' \in [Works -> Task]
      BY <1>3, DeallocateTypes
    <2>3. Goto(w, "drainGlobal")
      BY <1>3, StaysThere
    <2>. QED  BY <1>1, <1>2, <1>3, <2>1, <2>2, <2>3, DrainKeeps
  <1>4. CASE /\ pc[w] = "drainGlobal" /\ Goto(w, "clearGlobal")
             /\ UNCHANGED <<m_GlobalQueues, allocated, task>>
    BY <1>1, <1>2, <1>4, DrainKeeps
  <1>5. CASE /\ pc[w] = "clearGlobal" /\ Goto(w, "drainLocal")
             /\ m_GlobalQueues' = [m_GlobalQueues EXCEPT ![w] = <<>>]
             /\ UNCHANGED <<allocated, task>>
    <2>1. <<>> \in Seq(Created)
      BY EmptySeq
    <2>2. m_GlobalQueues' \in [Workers -> Seq(Created)]
      BY <1>2, <1>5, <2>1
    <2>. QED  BY <1>1, <1>2, <1>5, <2>2, DrainKeeps
  <1>. QED  BY <1>3, <1>4, <1>5 DEF DrainGlobal

LEMMA DrainLocalKeeps ==
  ASSUME IInv, NEW w \in Workers, DrainLocal(w)
  PROVE  IInv'
  <1>1. UNCHANGED <<m_NumThreads, flags, traces, fields, bins, running,
                    l_no_work_counter, tidx, search, handle>>
    BY DEF DrainLocal
  <1>2. /\ m_LocalQueues \in [Workers -> Seq(Created)]
        /\ m_GlobalQueues' \in [Workers -> Seq(Created)]
        /\ allocated \in SUBSET Jobs /\ task \in [Works -> Task]
    BY DEF IInv, TypeOK, HeldJobsHaveWork, DrainLocal, Task
  <1>3. CASE /\ pc[w] = "drainLocal" /\ m_LocalQueues[w] # <<>>
             /\ Deallocate({Head(m_LocalQueues[w])})
             /\ m_LocalQueues' = [m_LocalQueues EXCEPT ![w] = Tail(m_LocalQueues[w])]
             /\ UNCHANGED pc
    <2>1. m_LocalQueues' \in [Workers -> Seq(Created)]
      BY <1>2, <1>3, QueuePopped
    <2>2. allocated' \in SUBSET Jobs /\ task' \in [Works -> Task]
      BY <1>3, DeallocateTypes
    <2>3. Goto(w, "drainLocal")
      BY <1>3, StaysThere
    <2>. QED  BY <1>1, <1>2, <1>3, <2>1, <2>2, <2>3, DrainKeeps
  <1>4. CASE /\ pc[w] = "drainLocal" /\ Goto(w, "clearLocal")
             /\ UNCHANGED <<m_LocalQueues, allocated, task>>
    BY <1>1, <1>2, <1>4, DrainKeeps
  <1>5. CASE /\ pc[w] = "clearLocal" /\ Goto(w, "exit")
             /\ m_LocalQueues' = [m_LocalQueues EXCEPT ![w] = <<>>]
             /\ UNCHANGED <<allocated, task>>
    <2>1. <<>> \in Seq(Created)
      BY EmptySeq
    <2>2. m_LocalQueues' \in [Workers -> Seq(Created)]
      BY <1>2, <1>5, <2>1
    <2>. QED  BY <1>1, <1>2, <1>5, <2>2, DrainKeeps
  <1>. QED  BY <1>3, <1>4, <1>5 DEF DrainLocal

LEMMA ExitKeeps ==
  ASSUME IInv, NEW w \in Workers, Exit(w)
  PROVE  IInv'
  <1>. DEFINE label == IF LastActive THEN "last" ELSE "stopped"
  <1>1. /\ pc[w] = "exit" /\ Goto(w, label) /\ m_NumThreads' = m_NumThreads - 1
        /\ allocated' \subseteq allocated
        /\ l_RecyclingBin' = [l_RecyclingBin EXCEPT ![w] = <<>>]
        /\ l_GarbageBin' = [l_GarbageBin EXCEPT ![w] = <<>>]
        /\ UNCHANGED <<flags, queues, traces, fields, running, l_no_work_counter, tidx, search,
                       handle, task>>
    BY DEF Exit
  <1>2. /\ pc \in [Threads -> WorkerLabels \cup {"ready", "waitJob", "waitShutdown"}]
        /\ label \in WorkerLabels /\ label \notin {"run", "complete", "wait", "woken"}
        /\ l_RecyclingBin \in [Threads -> Seq(Jobs)] /\ l_GarbageBin \in [Workers -> Seq(Jobs)]
    BY DEF IInv, TypeOK, WorkerLabels
  <1>3. /\ pc' \in [Threads -> WorkerLabels \cup {"ready", "waitJob", "waitShutdown"}]
        /\ \A t \in Threads : pc'[t] = IF t = w THEN label ELSE pc[t]
    BY <1>1, <1>2 DEF Goto
  <1>4. \A v \in Workers : pc'[v] = IF v = w THEN label ELSE pc[v]
    BY <1>3, ThreadsAreDisjoint
  <1>5. LabelsOK'
    BY <1>2, <1>3, ThreadsAreDisjoint DEF IInv, LabelsOK
  <1>6. m_NumThreads \in 1..NumWorkers
    BY <1>1, SomeoneIsLeft
  <1>7. TypeOK'
    <2>1. <<>> \in Seq(Jobs)
      BY EmptySeq
    <2>2. /\ l_RecyclingBin' \in [Threads -> Seq(Jobs)]
          /\ l_GarbageBin' \in [Workers -> Seq(Jobs)]
      BY <1>1, <1>2, <2>1
    <2>3. m_NumThreads' \in 0..NumWorkers
      BY <1>1, <1>6, SystemAssumption
    <2>. QED  BY <1>1, <1>3, <2>2, <2>3 DEF IInv, TypeOK
  <1>8. WorkerHolds' /\ HeldJobsHaveWork'
    <2>1. WorkerHolds'
      BY <1>1, <1>2, <1>4 DEF IInv, WorkerHolds
    <2>2. HeldJobsHaveWork'
      BY <1>1 DEF IInv, HeldJobsHaveWork, Created
    <2>. QED  BY <2>1, <2>2
  <1>9. BinsBounded'
    <2>1. Len(<<>>) = 0
      OBVIOUS
    <2>2. \A t \in Threads : l_RecyclingBin'[t] = IF t = w THEN <<>> ELSE l_RecyclingBin[t]
      BY <1>1, <1>2
    <2>. QED  BY <2>1, <2>2, SystemAssumption DEF IInv, BinsBounded
  <1>10. Gone' = Gone \cup {w} /\ w \notin Gone
    BY <1>1, <1>4 DEF Gone
  <1>11. /\ IsFiniteSet(Gone') /\ Cardinality(Gone') = Cardinality(Gone) + 1
         /\ Cardinality(Gone) \in Nat
    BY <1>10, GoneIsFinite, FS_AddElement, FS_CardinalityType
  <1>12. ThreadsAreCounted'
    <2>1. m_NumThreads = NumWorkers - Cardinality(Gone)
      BY DEF IInv, ThreadsAreCounted
    <2>2. m_NumThreads' = NumWorkers - Cardinality(Gone')
      BY <1>1, <1>11, <2>1, SystemAssumption
    <2>. QED  BY <2>2 DEF ThreadsAreCounted
  <1>13. LastOneCompletes'
    <2>1. \A v \in Workers : pc[v] # "last"
      BY <1>1 DEF IInv, LastOneCompletes
    <2>2. ~m_ShutdownComplete
      BY <1>1 DEF IInv, LastOneCompletes
    <2>3. LastActive => \A v \in Workers \ {w} : pc[v] = "stopped"
      <3>. SUFFICES ASSUME LastActive PROVE \A v \in Workers \ {w} : pc[v] = "stopped"
        OBVIOUS
      <3>1. Cardinality(Gone') = NumWorkers
        BY <1>11, SystemAssumption DEF LastActive, IInv, ThreadsAreCounted
      <3>2. Gone' \in SUBSET Workers
        BY DEF Gone
      <3>3. Gone' = Workers
        BY <3>1, <3>2, WorkersAreFinite, FS_Subset
      <3>4. Workers \ {w} \subseteq Gone
        BY <1>10, <3>3
      <3>. QED  BY <2>1, <3>4 DEF Gone
    <2>. HIDE DEF label
    <2>4. label = "last" => \A v \in Workers \ {w} : pc[v] = "stopped"
      BY <2>3 DEF label
    <2>5. \A v \in Workers : pc'[v] = "last" => v = w /\ label = "last"
      BY <1>4, <2>1
    <2>6. \A v \in Workers \ {w} : pc'[v] = pc[v]
      BY <1>4
    <2>7. ~m_ShutdownComplete'
      BY <1>1, <2>2
    <2>. QED  BY <2>4, <2>5, <2>6, <2>7 DEF LastOneCompletes
  <1>. QED  BY <1>5, <1>7, <1>8, <1>9, <1>12, <1>13 DEF IInv

LEMMA CompleteShutdownKeeps ==
  ASSUME IInv, NEW w \in Workers, CompleteShutdown(w)
  PROVE  IInv'
  <1>1. /\ pc[w] = "last" /\ Goto(w, "stopped") /\ tracelog' = SavedTraces
        /\ m_ShutdownComplete' = TRUE
        /\ UNCHANGED <<m_NumThreads, m_Shutdown, queues, m_Traces, fields, allocated, bins,
                       running, l_no_work_counter, tidx, search, handle, task>>
    BY DEF CompleteShutdown
  <1>2. /\ pc \in [Threads -> WorkerLabels \cup {"ready", "waitJob", "waitShutdown"}]
        /\ "stopped" \in WorkerLabels
    BY DEF IInv, TypeOK, WorkerLabels
  <1>3. /\ pc' \in [Threads -> WorkerLabels \cup {"ready", "waitJob", "waitShutdown"}]
        /\ \A t \in Threads : pc'[t] = IF t = w THEN "stopped" ELSE pc[t]
    BY <1>1, <1>2 DEF Goto
  <1>4. \A v \in Workers : pc'[v] = IF v = w THEN "stopped" ELSE pc[v]
    BY <1>3, ThreadsAreDisjoint
  <1>5. LabelsOK'
    BY <1>2, <1>3, ThreadsAreDisjoint DEF IInv, LabelsOK
  <1>6. TypeOK'
    <2>1. tracelog' \in SUBSET Works
      BY <1>1 DEF IInv, TypeOK, SavedTraces
    <2>. QED  BY <1>1, <1>3, <2>1 DEF IInv, TypeOK
  <1>7. WorkerHolds' /\ HeldJobsHaveWork' /\ BinsBounded'
    BY <1>1, <1>4 DEF IInv, WorkerHolds, HeldJobsHaveWork, Created, BinsBounded
  <1>8. ThreadsAreCounted'
    <2>1. Gone' = Gone
      BY <1>1, <1>4 DEF Gone
    <2>. QED  BY <1>1, <2>1 DEF IInv, ThreadsAreCounted
  <1>9. LastOneCompletes'
    BY <1>1, <1>4 DEF IInv, LastOneCompletes
  <1>. QED  BY <1>5, <1>6, <1>7, <1>8, <1>9 DEF IInv
-----------------------------------------------------------------------------
LEMMA NextPreserves ==
  ASSUME IInv, [Next]_vars
  PROVE  IInv'
  <1>1. ASSUME NEW t \in Threads, Call(t) PROVE IInv'
    <2>1. {FALSE, MayUseParent} \subseteq BOOLEAN
      BY SystemAssumption
    <2>2. CASE \E j \in Jobs, thread_index \in Pins, useParent \in {FALSE, MayUseParent} :
                 Schedule(t, j, useParent, thread_index)
      BY <2>1, <2>2, ScheduleKeeps
    <2>3. CASE \E j \in Jobs, thread_index \in Pins : Then(t, j, thread_index)
      BY <2>3, ThenKeeps
    <2>4. CASE Shutdown(t)
      BY <2>4, ShutdownKeeps
    <2>. QED  BY <1>1, <2>2, <2>3, <2>4 DEF Call
  <1>2. ASSUME NEW c \in Clients, Wait(c) \/ WaitEnds(c) PROVE IInv'
    BY <1>2, WaitKeeps
  <1>3. ASSUME NEW w \in Workers, WorkerStep(w) \/ FinishWork(w) PROVE IInv'
    BY <1>3, LoopKeeps, PopLocalKeeps, PopGlobalKeeps, StealKeeps, FinishWorkKeeps,
       JobCompletedKeeps, IdleKeeps, AwakeKeeps, DrainGlobalKeeps, DrainLocalKeeps,
       ExitKeeps, CompleteShutdownKeeps
       DEF WorkerStep
  <1>4. CASE UNCHANGED vars
    <2>1. Gone' = Gone /\ Created' = Created
      BY <1>4 DEF vars, Gone, Created
    <2>2. TypeOK'
      BY <1>4 DEF vars, IInv, TypeOK
    <2>3. LabelsOK' /\ WorkerHolds' /\ HeldJobsHaveWork' /\ BinsBounded'
      BY <1>4, <2>1 DEF vars, IInv, LabelsOK, WorkerHolds, HeldJobsHaveWork, BinsBounded
    <2>4. ThreadsAreCounted' /\ LastOneCompletes'
      BY <1>4, <2>1 DEF vars, IInv, ThreadsAreCounted, LastOneCompletes
    <2>. QED  BY <2>2, <2>3, <2>4 DEF IInv
  <1>. QED  BY <1>1, <1>2, <1>3, <1>4 DEF Next

(* The inductive invariant. *)
THEOREM Inductive == Spec => []IInv
  <1>. QED  BY InitHolds, NextPreserves, PTL DEF Spec

(***************************************************************************)
(* Every variable of the thread pool keeps its type: no thread number, no  *)
(* count and no index of job_system.cpp leaves its range, and every job    *)
(* on a queue is one that was given work.                                  *)
(***************************************************************************)
THEOREM TypeCorrect == Spec => []TypeOK
  <1>1. IInv => TypeOK
    BY DEF IInv
  <1>. QED  BY <1>1, Inductive, PTL

(***************************************************************************)
(* m_ShutdownComplete is set by the last worker that counts itself out of  *)
(* m_NumThreads, when all the others have stopped.                         *)
(***************************************************************************)
AllStopAtTheEnd == m_ShutdownComplete => \A w \in Workers : pc[w] = "stopped"

THEOREM AllStopAtTheEndHolds == Spec => []AllStopAtTheEnd
  <1>1. IInv => AllStopAtTheEnd
    BY DEF IInv, LastOneCompletes, AllStopAtTheEnd
  <1>. QED  BY <1>1, Inductive, PTL
=============================================================================
