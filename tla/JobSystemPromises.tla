------------------------- MODULE JobSystemPromises -------------------------
(***************************************************************************)
(* What the thread pool promises to its callers, for any number of         *)
(* workers, clients and jobs, when the callers pass no parent and chain    *)
(* only onto work that has not finished: it implements WorkPool.           *)
(***************************************************************************)
EXTENDS JobSystemOwnership

(* Work that runs is the work of a worker's current job. *)
RunningHasWorker ==
  \A k \in Works : task[k].phase = "running" =>
    \E w \in Workers : pc[w] = "run" /\ m_Work[l_CurrentJob[w]] = k

(* Only chained work continues other work, and it is started after that. *)
ChainsAreSound ==
  \A k \in Works :
    /\ task[k].phase \in {"unused", "queued", "dropped"} => task[k].after = NULL
    /\ task[k].after # NULL =>
         /\ task[task[k].after].phase # "unused"
         /\ task[k].phase \in {"running", "done"} => task[task[k].after].phase = "done"

(* Nothing continues the work of a handle: the handle of then is the new one. *)
HandlesAreLast ==
  \A t \in Threads : handle[t] # NULL => \A k \in Works : task[k].after # handle[t].work

(* The continuation that a worker has read continues work that is done ... *)
ReadContinuations ==
  \A w \in Workers : continuation[w] # NULL =>
    /\ task[m_Work[continuation[w]]].after # NULL
    /\ task[task[m_Work[continuation[w]]].after].phase = "done"

(* ... that of an unfinished job continues its work ... *)
StoredContinuations ==
  \A b \in Jobs : Unfinished(b) /\ m_Continuation[b] # NULL =>
    task[m_Work[m_Continuation[b]]].after = m_Work[b]

(* ... and work that waits is one or the other, unless what it waits for was dropped. *)
HeldBy(k) ==
  \/ task[task[k].after].phase = "dropped"
  \/ \E w \in Workers : continuation[w] # NULL /\ m_Work[continuation[w]] = k
  \/ \E b \in Jobs : /\ Unfinished(b) /\ m_Work[b] = task[k].after
                     /\ m_Continuation[b] # NULL /\ m_Work[m_Continuation[b]] = k

WaitingIsHeld ==
  \A k \in Works : task[k].phase = "waiting" /\ task[k].after # NULL => HeldBy(k)

(* What has been traced is what has been done. *)
Traced == \A k \in Works : task[k].phase = "done" <=> \E w \in Workers : k \in m_Traces[w]

Promises ==
  /\ RunningHasWorker /\ ChainsAreSound /\ HandlesAreLast
  /\ ReadContinuations /\ StoredContinuations /\ WaitingIsHeld /\ Traced

(* The positions of a worker that has seen m_Shutdown, and those at which its queues are empty. *)
GlobalDrained == {"clearGlobal", "drainLocal", "clearLocal", "exit", "last", "stopped"}
LocalDrained == {"clearLocal", "exit", "last", "stopped"}

ShutdownWasCalled ==
  /\ m_Shutdown => MayShutdown
  /\ \A w \in Workers : pc[w] \in GlobalDrained \cup {"drainGlobal"} => m_Shutdown
  /\ \A k \in Works : task[k].phase = "dropped" => m_Shutdown

LogIsWhole == m_ShutdownComplete => tracelog = SavedTraces

(* Work of before the shutdown that is queued is on a queue that is not drained yet. *)
OnAQueue(k) ==
  \E w \in Workers :
    \/ /\ pc[w] \notin GlobalDrained
       /\ \E j \in Elements(m_GlobalQueues[w]) : m_Work[j] = k
    \/ /\ pc[w] \notin LocalDrained
       /\ \E j \in Elements(m_LocalQueues[w]) : m_Work[j] = k

EarlyWorkIsQueued ==
  \A k \in Works : task[k].phase = "queued" /\ task[k].early => OnAQueue(k)

Closing == ShutdownWasCalled /\ LogIsWhole /\ EarlyWorkIsQueued

PInv == OInv /\ Promises /\ Closing

USE DEF flags, queues, traces, fields, bins, search, running

-----------------------------------------------------------------------------
(***************************************************************************)
(* The steps, by what they do to the work.  No queue that is not drained   *)
(* loses a job but those of J, and a worker leaves only after a shutdown.  *)
(***************************************************************************)
Leaving == GlobalDrained \cup {"drainGlobal"}

Loses(J) ==
  \A v \in Workers :
    /\ pc[v] \notin GlobalDrained =>
         \A i \in Elements(m_GlobalQueues[v]) \ J :
           pc'[v] \notin GlobalDrained /\ i \in Elements(m_GlobalQueues'[v])
    /\ pc[v] \notin LocalDrained =>
         \A i \in Elements(m_LocalQueues[v]) \ J :
           pc'[v] \notin LocalDrained /\ i \in Elements(m_LocalQueues'[v])

LeavesAfterShutdown == \A v \in Workers : pc'[v] \in Leaving => pc[v] \in Leaving \/ m_Shutdown

FlagsStay == UNCHANGED <<m_Shutdown, m_ShutdownComplete, tracelog>>

QuietMove ==
  /\ UNCHANGED <<task, m_Work, m_Continuation, continuation, handle, m_Traces>>
  /\ \A w \in Workers : pc[w] = "run" => pc'[w] = "run" /\ l_CurrentJob'[w] = l_CurrentJob[w]
  /\ \A b \in Jobs : Unfinished(b)' <=> Unfinished(b)
  /\ Loses({}) /\ LeavesAfterShutdown

QuietStep ==
  /\ QuietMove
  /\ \/ FlagsStay
     \/ MayShutdown /\ m_Shutdown' = TRUE /\ UNCHANGED <<m_ShutdownComplete, tracelog>>
     \/ \E w \in Workers : CompleteShutdown(w)

StartStep(w, j) ==
  /\ pc[w] \notin {"run", "last", "stopped"}
  /\ Start(w, j)
  /\ Phase(j) = "queued" \/ (Phase(j) = "waiting" /\ continuation[w] = j)
  /\ \A v \in Workers : \/ continuation'[v] = continuation[v]
                        \/ v = w /\ continuation[w] = j /\ continuation'[v] = NULL
  /\ UNCHANGED <<m_Work, allocated, m_Continuation, handle, m_Traces>>
  /\ FlagsStay /\ Loses({j}) /\ LeavesAfterShutdown

DropStep(j) ==
  /\ m_Shutdown
  /\ Deallocate({j})
  /\ UNCHANGED <<m_Work, m_Continuation, continuation, handle, m_Traces, l_CurrentJob, pc>>
  /\ FlagsStay /\ Loses({j}) /\ LeavesAfterShutdown

CreationStep(t, j, thread_index, record, h) ==
  /\ Unused # {} /\ CreateJob(t, j) /\ SetFields(j, NULL, thread_index)
  /\ task' = [task EXCEPT ![NewWork] = record]
  /\ UNCHANGED <<l_GarbageBin, completing>> /\ UNCHANGED <<l_CurrentJob, continuation, m_Traces>>
  /\ \A v \in Workers : pc[v] = "run" => pc'[v] = "run"
  /\ handle' = [handle EXCEPT ![t] = [job |-> j, work |-> NewWork]]
  /\ \/ /\ record.phase = "queued" /\ record.after = NULL
        /\ m_Continuation' = [m_Continuation EXCEPT ![j] = NULL]
        /\ h = j
        /\ \A k \in Works : record.early /\ k = NewWork => OnAQueue(k)'
     \/ /\ record.phase = "waiting"
        /\ handle[t] # NULL /\ ~Over(handle[t]) /\ h = handle[t].job
        /\ record.after = handle[t].work
        /\ m_Continuation' = [m_Continuation EXCEPT ![j] = NULL, ![h] = j]
  /\ FlagsStay /\ Loses({}) /\ LeavesAfterShutdown

-----------------------------------------------------------------------------
(* Facts about the works of the jobs. *)

LEMMA InitPromises == Init => Promises /\ Closing
  <1>. SUFFICES ASSUME Init PROVE Promises /\ Closing
    OBVIOUS
  <1>1. /\ \A k \in Works : /\ task[k].phase = "unused" /\ task[k].after = NULL
                            /\ task[k].early = FALSE
        /\ \A w \in Workers : m_Traces[w] = {} /\ pc[w] = "loop" /\ continuation[w] = NULL
        /\ \A t \in Threads : handle[t] = NULL
        /\ allocated = {} /\ m_Shutdown = FALSE /\ m_ShutdownComplete = FALSE
    BY ThreadsAreDisjoint DEF Init
  <1>2. RunningHasWorker /\ ChainsAreSound /\ HandlesAreLast
    BY <1>1 DEF RunningHasWorker, ChainsAreSound, HandlesAreLast
  <1>3. ReadContinuations /\ StoredContinuations /\ WaitingIsHeld /\ Traced
    BY <1>1 DEF ReadContinuations, StoredContinuations, WaitingIsHeld, Traced, Unfinished
  <1>4. Closing
    BY <1>1 DEF Closing, ShutdownWasCalled, LogIsWhole, EarlyWorkIsQueued, GlobalDrained
  <1>. QED  BY <1>2, <1>3, <1>4 DEF Promises

(* Steps that change neither the work nor who holds it. *)
LEMMA QuietKeepsPromises ==
  ASSUME Promises, UNCHANGED <<task, m_Work, m_Continuation, continuation, handle, m_Traces>>,
         \A w \in Workers : pc[w] = "run" => pc'[w] = "run" /\ l_CurrentJob'[w] = l_CurrentJob[w],
         \A b \in Jobs : Unfinished(b)' <=> Unfinished(b)
  PROVE  Promises'
  <1>1. RunningHasWorker' /\ ChainsAreSound' /\ HandlesAreLast'
    BY DEF Promises, RunningHasWorker, ChainsAreSound, HandlesAreLast
  <1>2. ReadContinuations' /\ StoredContinuations' /\ Traced'
    BY DEF Promises, ReadContinuations, StoredContinuations, Traced
  <1>3. WaitingIsHeld'
    BY DEF Promises, WaitingIsHeld, HeldBy
  <1>. QED  BY <1>1, <1>2, <1>3 DEF Promises

(* Worker w starts job j, from a queue or as the continuation it has read. *)
LEMMA StartKeepsPromises ==
  ASSUME OInv, Promises, NEW w \in Workers, pc[w] \notin {"run", "last", "stopped"},
         NEW j \in allocated, Start(w, j),
         Phase(j) = "queued" \/ (Phase(j) = "waiting" /\ continuation[w] = j),
         \A v \in Workers : \/ continuation'[v] = continuation[v]
                            \/ v = w /\ continuation[w] = j /\ continuation'[v] = NULL,
         UNCHANGED <<m_Work, allocated, m_Continuation, handle, m_Traces>>
  PROVE  Promises'
  <1>. DEFINE k0 == m_Work[j]
  <1>1. /\ IInv /\ WorkOfOneJob /\ WorkersOwn /\ j \in Created /\ k0 \in Works /\ k0 # NULL
        /\ j \in Jobs /\ task \in [Works -> Task]
        /\ task' = [task EXCEPT ![k0].phase = "running"] /\ "running" \in Phases \ {"unused"}
    BY DEF OInv, Ownership, IInv, TypeOK, Task, WorkOfOneJob, Created, Start, Phases
  <1>2. /\ \A k \in Works : task'[k].phase = IF k = k0 THEN "running" ELSE task[k].phase
        /\ \A k \in Works : task'[k].after = task[k].after
        /\ \A k \in Works : task[k].after # NULL => task[k].after \in Works
    BY <1>1, PhaseChanges DEF Task
  <1>3. /\ \A v \in Workers : l_CurrentJob'[v] = IF v = w THEN j ELSE l_CurrentJob[v]
        /\ \A v \in Workers : pc'[v] = IF v = w THEN "run" ELSE pc[v]
    BY <1>1, Started DEF MovedTo
  <1>4. \A b \in Jobs : Unfinished(b)' <=> Unfinished(b)
    <2>1. Unfinished(j)
      BY <1>1 DEF Unfinished, Phase
    <2>2. /\ \A b : b # j => (Unfinished(b)' <=> Unfinished(b))
          /\ Unfinished(j)' <=> "running" \in {"waiting", "queued", "running"}
      BY <1>1, PhaseMoves
    <2>. QED  BY <2>1, <2>2
  <1>5. /\ task[k0].phase = "queued" => task[k0].after = NULL
        /\ task[k0].phase = "queued" \/ task[k0].phase = "waiting"
        /\ task[k0].phase = "waiting" => task[task[k0].after].phase = "done"
    <2>1. Phase(j) = task[k0].phase /\ j # NULL
      BY <1>1, SystemAssumption DEF Phase
    <2>2. task[k0].phase = "queued" => task[k0].after = NULL
      BY <1>1 DEF Promises, ChainsAreSound
    <2>3. task[k0].phase = "waiting" => continuation[w] # NULL /\ m_Work[continuation[w]] = k0
      BY <2>1
    <2>4. task[k0].phase = "waiting" => task[task[k0].after].phase = "done"
      BY <2>3 DEF Promises, ReadContinuations
    <2>. QED  BY <2>1, <2>2, <2>4
  <1>. HIDE DEF k0
  <1>6. RunningHasWorker'
    <2>1. ASSUME NEW k \in Works, task'[k].phase = "running"
          PROVE  \E v \in Workers : pc'[v] = "run" /\ m_Work'[l_CurrentJob'[v]] = k
      <3>1. CASE k = k0
        BY <1>3, <3>1 DEF k0
      <3>2. CASE k # k0
        <4>1. PICK v \in Workers : pc[v] = "run" /\ m_Work[l_CurrentJob[v]] = k
          BY <1>2, <2>1, <3>2 DEF Promises, RunningHasWorker
        <4>. QED  BY <1>3, <4>1
      <3>. QED  BY <3>1, <3>2
    <2>. QED  BY <2>1 DEF RunningHasWorker
  <1>7. ChainsAreSound'
    BY <1>1, <1>2, <1>5 DEF Promises, ChainsAreSound
  <1>8. HandlesAreLast'
    BY <1>2 DEF Promises, HandlesAreLast
  <1>9. \A b \in Created : m_Work[b] \in Works
    BY <1>1 DEF IInv, TypeOK, Created
  <1>10. /\ \A v \in Workers : continuation[v] # NULL => continuation[v] \in Created
         /\ \A b \in Jobs : m_Continuation[b] # NULL => m_Continuation[b] \in Created
    BY <1>1 DEF IInv, HeldJobsHaveWork
  <1>11. ReadContinuations'
    <2>1. ASSUME NEW v \in Workers, continuation'[v] # NULL
          PROVE  /\ task'[m_Work'[continuation'[v]]].after # NULL
                 /\ task'[task'[m_Work'[continuation'[v]]].after].phase = "done"
      <3>1. continuation'[v] = continuation[v] /\ m_Work[continuation[v]] \in Works
        BY <1>9, <1>10, <2>1
      <3>2. /\ task[m_Work[continuation[v]]].after # NULL
            /\ task[task[m_Work[continuation[v]]].after].phase = "done"
        BY <2>1, <3>1 DEF Promises, ReadContinuations
      <3>. QED  BY <1>2, <1>5, <3>1, <3>2
    <2>. QED  BY <2>1 DEF ReadContinuations
  <1>12. StoredContinuations'
    BY <1>2, <1>4, <1>9, <1>10 DEF Promises, StoredContinuations
  <1>13. WaitingIsHeld'
    <2>1. ASSUME NEW k \in Works, task'[k].phase = "waiting", task'[k].after # NULL
          PROVE  HeldBy(k)'
      <3>1. k # k0 /\ task[k].phase = "waiting" /\ task[k].after # NULL /\ task[k].after \in Works
        BY <1>2, <2>1
      <3>2. CASE task[task[k].after].phase = "dropped"
        BY <1>2, <1>5, <3>1, <3>2 DEF HeldBy
      <3>3. CASE \E v \in Workers : continuation[v] # NULL /\ m_Work[continuation[v]] = k
        <4>1. PICK v \in Workers : continuation[v] # NULL /\ m_Work[continuation[v]] = k
          BY <3>3
        <4>2. continuation'[v] = continuation[v]
          BY <3>1, <4>1 DEF k0
        <4>. QED  BY <4>1, <4>2 DEF HeldBy
      <3>4. CASE \E b \in Jobs : /\ Unfinished(b) /\ m_Work[b] = task[k].after
                                 /\ m_Continuation[b] # NULL /\ m_Work[m_Continuation[b]] = k
        BY <1>2, <1>4, <3>4 DEF HeldBy
      <3>. QED  BY <3>1, <3>2, <3>3, <3>4 DEF Promises, WaitingIsHeld, HeldBy
    <2>. QED  BY <2>1 DEF WaitingIsHeld
  <1>14. Traced'
    BY <1>2, <1>5 DEF Promises, Traced
  <1>. QED  BY <1>6, <1>7, <1>8, <1>11, <1>12, <1>13, <1>14 DEF Promises

(* The work of worker w ends. *)
LEMMA FinishKeepsPromises ==
  ASSUME OInv, Promises, NEW w \in Workers, FinishWork(w)
  PROVE  Promises'
  <1>1. PICK j : j = l_CurrentJob[w]
    OBVIOUS
  <1>2. PICK k0 : k0 = m_Work[j]
    OBVIOUS
  <1>3. /\ IInv /\ NoParents /\ WorkOfOneJob /\ WorkersOwn /\ ContinuationsOwn /\ pc[w] = "run"
        /\ task \in [Works -> Task] /\ m_Traces \in [Workers -> SUBSET Works]
        /\ continuation \in [Workers -> Jobs \cup {NULL}]
        /\ handle \in [Threads -> [job: Jobs, work: Works] \cup {NULL}]
        /\ pc \in [Threads -> WorkerLabels \cup {"ready", "waitJob", "waitShutdown"}]
    BY DEF OInv, Ownership, IInv, TypeOK, Task, FinishWork
  <1>4. /\ j \in InPhase("running") /\ j \in allocated /\ j \in Created /\ j \in Jobs
        /\ Unfinished(j) /\ m_Parent[j] = NULL /\ "done" \in Phases \ {"unused"}
        /\ k0 \in Works /\ k0 # NULL /\ task[k0].phase = "running"
    BY <1>1, <1>2, <1>3 DEF WorkersOwn, WorkOfOneJob, InPhase, Unfinished, Phase, Created,
       NoParents, Phases, IInv, TypeOK
  <1>5. /\ continuation' = [continuation EXCEPT ![w] = m_Continuation[j]]
        /\ task' = [task EXCEPT ![k0].phase = "done"]
        /\ m_Traces' = [m_Traces EXCEPT ![w] = m_Traces[w] \cup {k0}]
        /\ handle' = [handle EXCEPT ![w] = NULL]
        /\ pc' = [pc EXCEPT ![w] = "complete"]
        /\ UNCHANGED <<m_Work, allocated, m_Continuation, l_CurrentJob>>
        /\ UNCHANGED <<m_Work, allocated>>
    BY <1>1, <1>2, <1>4 DEF FinishWork, StoreTrace, Goto
  <1>6. /\ \A k \in Works : task'[k].phase = IF k = k0 THEN "done" ELSE task[k].phase
        /\ \A k \in Works : task'[k].after = task[k].after
        /\ \A k \in Works : task[k].after # NULL => task[k].after \in Works
    BY <1>3, <1>4, <1>5, PhaseChanges DEF Task
  <1>7. /\ \A v \in Workers : pc'[v] = IF v = w THEN "complete" ELSE pc[v]
        /\ \A v \in Workers : continuation'[v] = IF v = w THEN m_Continuation[j] ELSE continuation[v]
        /\ \A v \in Workers : m_Traces'[v] = IF v = w THEN m_Traces[w] \cup {k0} ELSE m_Traces[v]
        /\ \A t \in Threads : handle'[t] = NULL \/ handle'[t] = handle[t]
        /\ continuation[w] = NULL
    BY <1>3, <1>5, ThreadsAreDisjoint DEF WorkersOwn
  <1>8. \A b : Unfinished(b)' <=> Unfinished(b) /\ b # j
    <2>1. task' = [task EXCEPT ![m_Work[j]].phase = "done"]
      BY <1>2, <1>5
    <2>2. /\ \A b : b # j => (Unfinished(b)' <=> Unfinished(b))
          /\ Unfinished(j)' <=> "done" \in {"waiting", "queued", "running"}
      BY <1>3, <1>4, <1>5, <2>1, PhaseMoves
    <2>. QED  BY <2>2
  <1>9. RunningHasWorker'
    <2>1. ASSUME NEW k \in Works, task'[k].phase = "running"
          PROVE  \E v \in Workers : pc'[v] = "run" /\ m_Work'[l_CurrentJob'[v]] = k
      <3>1. k # k0
        BY <1>6, <2>1
      <3>2. PICK v \in Workers : pc[v] = "run" /\ m_Work[l_CurrentJob[v]] = k
        BY <1>6, <2>1, <3>1 DEF Promises, RunningHasWorker
      <3>. QED  BY <1>1, <1>2, <1>5, <1>7, <3>1, <3>2
    <2>. QED  BY <2>1 DEF RunningHasWorker
  <1>10. ChainsAreSound'
    BY <1>4, <1>6 DEF Promises, ChainsAreSound
  <1>11. HandlesAreLast'
    BY <1>6, <1>7 DEF Promises, HandlesAreLast
  <1>12. /\ \A b \in Created : m_Work[b] \in Works
         /\ \A v \in Workers : continuation[v] # NULL => continuation[v] \in Created
         /\ \A b \in Jobs : m_Continuation[b] # NULL => m_Continuation[b] \in Created
    BY <1>3 DEF IInv, TypeOK, Created, HeldJobsHaveWork
  <1>13. ReadContinuations'
    <2>1. ASSUME NEW v \in Workers, continuation'[v] # NULL
          PROVE  /\ task'[m_Work'[continuation'[v]]].after # NULL
                 /\ task'[task'[m_Work'[continuation'[v]]].after].phase = "done"
      <3>1. CASE v = w
        <4>1. continuation'[v] = m_Continuation[j] /\ m_Work[m_Continuation[j]] \in Works
          BY <1>4, <1>7, <1>12, <2>1, <3>1
        <4>2. task[m_Work[m_Continuation[j]]].after = k0
          BY <1>2, <1>4, <2>1, <4>1 DEF Promises, StoredContinuations
        <4>. QED  BY <1>4, <1>5, <1>6, <4>1, <4>2
      <3>2. CASE v # w
        <4>1. continuation'[v] = continuation[v] /\ m_Work[continuation[v]] \in Works
          BY <1>7, <1>12, <2>1, <3>2
        <4>2. /\ task[m_Work[continuation[v]]].after # NULL
              /\ task[task[m_Work[continuation[v]]].after].phase = "done"
          BY <2>1, <4>1 DEF Promises, ReadContinuations
        <4>. QED  BY <1>5, <1>6, <4>1, <4>2
      <3>. QED  BY <3>1, <3>2
    <2>. QED  BY <2>1 DEF ReadContinuations
  <1>14. StoredContinuations'
    BY <1>5, <1>6, <1>8, <1>12 DEF Promises, StoredContinuations
  <1>15. WaitingIsHeld'
    <2>1. ASSUME NEW k \in Works, task'[k].phase = "waiting", task'[k].after # NULL
          PROVE  HeldBy(k)'
      <3>1. /\ task[k].phase = "waiting" /\ task[k].after # NULL /\ task[k].after \in Works
            /\ task'[k].after = task[k].after
        BY <1>6, <2>1
      <3>2. CASE task[task[k].after].phase = "dropped"
        BY <1>4, <1>6, <3>1, <3>2 DEF HeldBy
      <3>3. CASE \E v \in Workers : continuation[v] # NULL /\ m_Work[continuation[v]] = k
        BY <1>5, <1>7, <3>3 DEF HeldBy
      <3>4. CASE \E b \in Jobs : /\ Unfinished(b) /\ m_Work[b] = task[k].after
                                 /\ m_Continuation[b] # NULL /\ m_Work[m_Continuation[b]] = k
        <4>1. PICK b \in Jobs : /\ Unfinished(b) /\ m_Work[b] = task[k].after
                                /\ m_Continuation[b] # NULL /\ m_Work[m_Continuation[b]] = k
          BY <3>4
        <4>2. CASE b = j
          <5>1. continuation'[w] # NULL /\ m_Work'[continuation'[w]] = k
            BY <1>5, <1>7, <4>1, <4>2
          <5>. QED  BY <5>1 DEF HeldBy
        <4>3. CASE b # j
          <5>1. Unfinished(b)'
            BY <1>8, <4>1, <4>3
          <5>. QED  BY <1>5, <3>1, <4>1, <5>1 DEF HeldBy
        <4>. QED  BY <4>2, <4>3
      <3>. QED  BY <3>1, <3>2, <3>3, <3>4 DEF Promises, WaitingIsHeld, HeldBy
    <2>. QED  BY <2>1 DEF WaitingIsHeld
  <1>16. Traced'
    <2>1. ASSUME NEW k \in Works
          PROVE  task'[k].phase = "done" <=> \E v \in Workers : k \in m_Traces'[v]
      <3>1. CASE k = k0
        BY <1>6, <1>7, <3>1
      <3>2. CASE k # k0
        BY <1>6, <1>7, <3>2 DEF Promises, Traced
      <3>. QED  BY <3>1, <3>2
    <2>. QED  BY <2>1 DEF Traced
  <1>. QED  BY <1>9, <1>10, <1>11, <1>13, <1>14, <1>15, <1>16 DEF Promises

(* What a job that is thrown away changes. *)
LEMMA Dropped ==
  ASSUME OInv, NEW j \in InPhase("queued"), Deallocate({j}), UNCHANGED m_Work
  PROVE  /\ m_Work[j] \in Works /\ task[m_Work[j]].phase = "queued" /\ j \in Jobs
         /\ \A k \in Works :
              /\ task'[k].phase = IF k = m_Work[j] THEN "dropped" ELSE task[k].phase
              /\ task'[k].after = task[k].after /\ task'[k].early = task[k].early
         /\ \A b : Unfinished(b)' <=> Unfinished(b) /\ b # j
  <1>1. /\ IInv /\ WorkOfOneJob /\ task \in [Works -> Task] /\ allocated \subseteq Created
        /\ j \in allocated /\ m_Work[j] \in Works /\ Phase(j) = "queued" /\ j \in Jobs
        /\ allocated' = allocated \ {j} /\ Created \subseteq Jobs
        /\ \A b \in Created : m_Work[b] \in Works
    BY DEF OInv, Ownership, IInv, TypeOK, Task, WorkOfOneJob, InPhase, Created, Deallocate
  <1>2. \A k \in Works :
          /\ task'[k].phase = IF k = m_Work[j] THEN "dropped" ELSE task[k].phase
          /\ task'[k].after = task[k].after /\ task'[k].early = task[k].early
    <2>1. {m_Work[i] : i \in {j}} = {m_Work[j]}
      OBVIOUS
    <2>2. \A k \in Works : task'[k] = IF k = m_Work[j] THEN [task[k] EXCEPT !.phase = "dropped"]
                                                       ELSE task[k]
      BY <2>1 DEF Deallocate
    <2>. QED  BY <1>1, <2>2 DEF Task
  <1>3. \A b \in allocated \ {j} : task'[m_Work[b]].phase = task[m_Work[b]].phase
    BY <1>1, <1>2 DEF WorkOfOneJob
  <1>4. \A b : Unfinished(b)' <=> Unfinished(b) /\ b # j
    BY <1>1, <1>3 DEF Unfinished
  <1>. QED  BY <1>1, <1>2, <1>4 DEF Phase

LEMMA DropKeepsPromises ==
  ASSUME OInv, Promises, NEW j \in InPhase("queued"), Deallocate({j}),
         UNCHANGED <<m_Work, m_Continuation, continuation, handle, m_Traces, l_CurrentJob, pc>>
  PROVE  Promises'
  <1>1. PICK k0 : k0 = m_Work[j]
    OBVIOUS
  <1>2. /\ k0 \in Works /\ task[k0].phase = "queued"
        /\ \A k \in Works :
              /\ task'[k].phase = IF k = k0 THEN "dropped" ELSE task[k].phase
              /\ task'[k].after = task[k].after
        /\ \A b : Unfinished(b)' <=> Unfinished(b) /\ b # j
    BY <1>1, Dropped
  <1>3. /\ IInv /\ \A k \in Works : task[k].after # NULL => task[k].after \in Works
        /\ \A b \in Created : m_Work[b] \in Works
        /\ \A v \in Workers : continuation[v] # NULL => continuation[v] \in Created
        /\ \A b \in Jobs : m_Continuation[b] # NULL => m_Continuation[b] \in Created
    BY DEF OInv, IInv, TypeOK, Created, HeldJobsHaveWork
  <1>4. RunningHasWorker' /\ ChainsAreSound' /\ HandlesAreLast'
    <2>1. RunningHasWorker'
      BY <1>2 DEF Promises, RunningHasWorker
    <2>2. ChainsAreSound'
      BY <1>2, <1>3 DEF Promises, ChainsAreSound
    <2>3. HandlesAreLast'
      BY <1>2 DEF Promises, HandlesAreLast
    <2>. QED  BY <2>1, <2>2, <2>3
  <1>5. ReadContinuations'
    <2>1. ASSUME NEW v \in Workers, continuation[v] # NULL
          PROVE  /\ task'[m_Work[continuation[v]]].after # NULL
                 /\ task'[task'[m_Work[continuation[v]]].after].phase = "done"
      <3>1. /\ m_Work[continuation[v]] \in Works
            /\ task[m_Work[continuation[v]]].after # NULL
            /\ task[task[m_Work[continuation[v]]].after].phase = "done"
        BY <1>3, <2>1 DEF Promises, ReadContinuations
      <3>. QED  BY <1>2, <1>3, <3>1
    <2>. QED  BY <2>1 DEF ReadContinuations
  <1>6. StoredContinuations'
    BY <1>2, <1>3 DEF Promises, StoredContinuations
  <1>7. WaitingIsHeld'
    <2>1. ASSUME NEW k \in Works, task'[k].phase = "waiting", task'[k].after # NULL
          PROVE  HeldBy(k)'
      <3>1. /\ task[k].phase = "waiting" /\ task[k].after # NULL /\ task[k].after \in Works
            /\ task'[k].after = task[k].after
        BY <1>2, <1>3, <2>1
      <3>2. CASE task[task[k].after].phase = "dropped"
        BY <1>2, <3>1, <3>2 DEF HeldBy
      <3>3. CASE \E v \in Workers : continuation[v] # NULL /\ m_Work[continuation[v]] = k
        BY <3>3 DEF HeldBy
      <3>4. CASE \E b \in Jobs : /\ Unfinished(b) /\ m_Work[b] = task[k].after
                                 /\ m_Continuation[b] # NULL /\ m_Work[m_Continuation[b]] = k
        <4>1. PICK b \in Jobs : /\ Unfinished(b) /\ m_Work[b] = task[k].after
                                /\ m_Continuation[b] # NULL /\ m_Work[m_Continuation[b]] = k
          BY <3>4
        <4>2. CASE b = j
          BY <1>1, <1>2, <3>1, <4>1, <4>2 DEF HeldBy
        <4>3. CASE b # j
          <5>1. Unfinished(b)'
            BY <1>2, <4>1, <4>3
          <5>. QED  BY <3>1, <4>1, <5>1 DEF HeldBy
        <4>. QED  BY <4>2, <4>3
      <3>. QED  BY <3>1, <3>2, <3>3, <3>4 DEF Promises, WaitingIsHeld, HeldBy
    <2>. QED  BY <2>1 DEF WaitingIsHeld
  <1>8. Traced'
    BY <1>2 DEF Promises, Traced
  <1>. QED  BY <1>4, <1>5, <1>6, <1>7, <1>8 DEF Promises

(* A job is created for new work: by schedule, or by then on job h. *)
LEMMA CreationKeepsPromises ==
  ASSUME OInv, Promises, NEW t \in Threads, NEW j \in Jobs, NEW thread_index \in Pins,
         NEW record \in Task, NEW h \in Jobs, CreationStep(t, j, thread_index, record, h)
  PROVE  Promises'
  <1>. SUFFICES ASSUME
         Unused # {}, CreateJob(t, j), SetFields(j, NULL, thread_index),
         task' = [task EXCEPT ![NewWork] = record],
         UNCHANGED <<l_GarbageBin, completing>>, UNCHANGED <<l_CurrentJob, continuation, m_Traces>>,
         \A v \in Workers : pc[v] = "run" => pc'[v] = "run",
         handle' = [handle EXCEPT ![t] = [job |-> j, work |-> NewWork]],
         \/ /\ record.phase = "queued" /\ record.after = NULL
            /\ m_Continuation' = [m_Continuation EXCEPT ![j] = NULL]
            /\ h = j
         \/ /\ record.phase = "waiting"
            /\ handle[t] # NULL /\ ~Over(handle[t]) /\ h = handle[t].job
            /\ record.after = handle[t].work
            /\ m_Continuation' = [m_Continuation EXCEPT ![j] = NULL, ![h] = j]
       PROVE Promises'
    BY DEF CreationStep
  <1>1. PICK k0 : k0 = NewWork
    OBVIOUS
  <1>2. /\ IInv /\ WorkOfOneJob /\ WorkersOwn /\ ContinuationsOwn /\ HandlesOwn
        /\ task \in [Works -> Task] /\ m_Continuation \in [Jobs -> Jobs \cup {NULL}]
        /\ handle \in [Threads -> [job: Jobs, work: Works] \cup {NULL}]
        /\ record.phase \in {"queued", "waiting"} /\ j # NULL
    BY SystemAssumption DEF OInv, Ownership, IInv, TypeOK, Task
  <1>3. /\ \A q : q # "done" => j \notin InPhase(q)
        /\ ~Unfinished(j) /\ allocated' = allocated \cup {j}
    BY FreshJob
  <1>4. /\ k0 \in Works /\ k0 # NULL /\ task[k0].phase = "unused"
        /\ \A k \in Works : task'[k] = IF k = k0 THEN record ELSE task[k]
        /\ \A b \in Jobs : m_Work'[b] = IF b = j THEN k0 ELSE m_Work[b]
        /\ \A b : b # j => (Unfinished(b)' <=> Unfinished(b))
    <2>1. /\ NewWork \in Works /\ NewWork # NULL /\ task[NewWork].phase = "unused"
          /\ \A k \in Works : task'[k] = IF k = NewWork THEN record ELSE task[k]
          /\ \A k \in Jobs : m_Work'[k] = IF k = j THEN NewWork ELSE m_Work[k]
          /\ \A q : q # record.phase /\ q # "done" => InPhase(q)' = InPhase(q)
          /\ InPhase(record.phase)' = InPhase(record.phase) \cup {j}
          /\ \A k : k # j => (Unfinished(k)' <=> Unfinished(k))
          /\ NoParents' /\ WorkOfOneJob' /\ BinsOwn'
      BY <1>2, CreationOwns
    <2>. QED  BY <1>1, <2>1
  <1>5. \A k \in Works : /\ task[k].after # NULL => task[k].after \in Works /\ task[k].after # k0
                         /\ task[k].phase \in Phases
    BY <1>2, <1>4 DEF Task, Promises, ChainsAreSound
  <1>6. task[k0].after = NULL
    BY <1>4 DEF Promises, ChainsAreSound
  <1>7. record.after # NULL =>
          /\ record.phase = "waiting" /\ h \in Jobs /\ h # j /\ Unfinished(h)
          /\ m_Continuation[h] = NULL /\ m_Work[h] = record.after
          /\ record.after \in Works /\ record.after # k0
          /\ task[record.after].phase # "unused"
          /\ handle[t] # NULL /\ record.after = handle[t].work
    <2>. SUFFICES ASSUME record.after # NULL
                  PROVE  /\ record.phase = "waiting" /\ h \in Jobs /\ h # j /\ Unfinished(h)
                         /\ m_Continuation[h] = NULL /\ m_Work[h] = record.after
                         /\ record.after \in Works /\ record.after # k0
                         /\ task[record.after].phase # "unused"
                         /\ handle[t] # NULL /\ record.after = handle[t].work
      OBVIOUS
    <2>1. /\ record.phase = "waiting" /\ handle[t] # NULL /\ ~Over(handle[t])
          /\ h = handle[t].job /\ record.after = handle[t].work
      OBVIOUS
    <2>2. h \in Jobs /\ record.after \in Works
      BY <1>2, <2>1
    <2>3. /\ h \in allocated /\ m_Work[h] = record.after /\ m_Continuation[h] = NULL
          /\ task[record.after].phase # "unused"
      BY <1>2, <2>1 DEF HandlesOwn
    <2>4. Unfinished(h)
      BY <1>5, <2>1, <2>2, <2>3 DEF Unfinished, Over, Phases
    <2>. QED  BY <1>3, <1>4, <2>1, <2>2, <2>3, <2>4
  <1>8. \A b \in Jobs : m_Continuation'[b] = IF b = h /\ record.after # NULL THEN j
                                             ELSE IF b = j THEN NULL ELSE m_Continuation[b]
    <2>1. CASE record.after = NULL
      <3>1. record.phase = "queued"
        BY <1>2, <2>1, SystemAssumption
      <3>. QED  BY <1>2, <2>1, <3>1
    <2>2. CASE record.after # NULL
      <3>1. m_Continuation' = [m_Continuation EXCEPT ![j] = NULL, ![h] = j]
        BY <1>7, <2>2
      <3>. QED  BY <1>2, <1>7, <2>2, <3>1
    <2>. QED  BY <2>1, <2>2
  <1>9. /\ \A v \in Workers : continuation[v] # NULL =>
             continuation[v] # j /\ continuation[v] \in Jobs /\ m_Work[continuation[v]] \in Works
        /\ \A b \in Jobs : Unfinished(b) /\ m_Continuation[b] # NULL =>
             /\ b # j /\ m_Continuation[b] # j /\ m_Continuation[b] \in Jobs
             /\ m_Work[m_Continuation[b]] \in Works /\ (record.after # NULL => b # h)
    <2>1. \A v \in Workers : continuation[v] # NULL => continuation[v] \in InPhase("waiting")
      BY <1>2 DEF ContinuationsOwn
    <2>2. \A b \in Jobs : Unfinished(b) /\ m_Continuation[b] # NULL =>
            b # j /\ m_Continuation[b] \in InPhase("waiting") /\ (record.after # NULL => b # h)
      BY <1>2, <1>3, <1>7 DEF ContinuationsOwn
    <2>3. \A b \in InPhase("waiting") : b # j /\ b \in Jobs /\ m_Work[b] \in Works
      BY <1>2, <1>3 DEF InPhase, IInv, TypeOK
    <2>. QED  BY <2>1, <2>2, <2>3
  <1>10. RunningHasWorker'
    <2>1. ASSUME NEW k \in Works, task'[k].phase = "running"
          PROVE  \E v \in Workers : pc'[v] = "run" /\ m_Work'[l_CurrentJob'[v]] = k
      <3>1. k # k0 /\ task[k].phase = "running"
        BY <1>2, <1>4, <2>1
      <3>2. PICK v \in Workers : pc[v] = "run" /\ m_Work[l_CurrentJob[v]] = k
        BY <3>1 DEF Promises, RunningHasWorker
      <3>3. l_CurrentJob[v] \in Jobs /\ l_CurrentJob[v] # j
        BY <1>2, <1>3, <3>2 DEF WorkersOwn, InPhase, IInv, TypeOK
      <3>. QED  BY <1>4, <3>2, <3>3
    <2>. QED  BY <2>1 DEF RunningHasWorker
  <1>11. ChainsAreSound'
    <2>1. ASSUME NEW k \in Works
          PROVE  /\ task'[k].phase \in {"unused", "queued", "dropped"} => task'[k].after = NULL
                 /\ task'[k].after # NULL =>
                      /\ task'[task'[k].after].phase # "unused"
                      /\ task'[k].phase \in {"running", "done"} => task'[task'[k].after].phase = "done"
      <3>1. CASE k = k0
        <4>1. task'[k] = record
          BY <1>4, <3>1
        <4>2. record.phase = "queued" => record.after = NULL
          OBVIOUS
        <4>. QED  BY <1>2, <1>4, <1>7, <4>1, <4>2
      <3>2. CASE k # k0
        BY <1>4, <1>5, <3>2 DEF Promises, ChainsAreSound
      <3>. QED  BY <3>1, <3>2
    <2>. QED  BY <2>1 DEF ChainsAreSound
  <1>12. HandlesAreLast'
    <2>1. ASSUME NEW u \in Threads, handle'[u] # NULL, NEW k \in Works
          PROVE  task'[k].after # handle'[u].work
      <3>1. CASE u = t
        <4>1. handle'[u].work = k0
          BY <1>1, <1>2, <3>1
        <4>2. task'[k].after # k0
          BY <1>4, <1>5, <1>7
        <4>. QED  BY <4>1, <4>2
      <3>2. CASE u # t
        <4>1. handle'[u] = handle[u] /\ handle[u] # NULL /\ handle[u].work \in Works
          BY <1>2, <2>1, <3>2
        <4>2. k # k0 => task'[k].after # handle[u].work
          BY <1>4, <4>1 DEF Promises, HandlesAreLast
        <4>3. record.after # handle[u].work
          <5>1. CASE record.after = NULL
            BY <4>1, <5>1, SystemAssumption
          <5>2. CASE record.after # NULL
            BY <1>2, <1>7, <3>2, <4>1, <5>2 DEF HandlesOwn
          <5>. QED  BY <5>1, <5>2
        <4>. QED  BY <1>4, <4>1, <4>2, <4>3
      <3>. QED  BY <3>1, <3>2
    <2>. QED  BY <2>1 DEF HandlesAreLast
  <1>13. ReadContinuations'
    <2>1. ASSUME NEW v \in Workers, continuation[v] # NULL
          PROVE  /\ task'[m_Work'[continuation[v]]].after # NULL
                 /\ task'[task'[m_Work'[continuation[v]]].after].phase = "done"
      <3>1. PICK k : k = m_Work[continuation[v]]
        OBVIOUS
      <3>2. k \in Works /\ m_Work'[continuation[v]] = k
        BY <1>4, <1>9, <2>1, <3>1
      <3>3. task[k].after # NULL /\ task[task[k].after].phase = "done"
        BY <2>1, <3>1 DEF Promises, ReadContinuations
      <3>4. k # k0 /\ task'[k] = task[k]
        BY <1>4, <1>6, <3>2, <3>3
      <3>. QED  BY <1>4, <1>5, <3>2, <3>3, <3>4
    <2>. QED  BY <2>1 DEF ReadContinuations
  <1>14. StoredContinuations'
    <2>1. ASSUME NEW b \in Jobs, Unfinished(b)', m_Continuation'[b] # NULL
          PROVE  task'[m_Work'[m_Continuation'[b]]].after = m_Work'[b]
      <3>1. CASE b = h /\ record.after # NULL
        <4>1. m_Continuation'[b] = j /\ m_Work'[j] = k0 /\ m_Work'[b] = record.after
          BY <1>4, <1>7, <1>8, <3>1
        <4>. QED  BY <1>4, <4>1
      <3>2. CASE ~(b = h /\ record.after # NULL)
        <4>1. b # j /\ m_Continuation'[b] = m_Continuation[b] /\ Unfinished(b) /\ m_Work'[b] = m_Work[b]
          BY <1>4, <1>8, <2>1, <3>2
        <4>2. PICK k : k = m_Work[m_Continuation[b]]
          OBVIOUS
        <4>3. k \in Works /\ m_Work'[m_Continuation[b]] = k
          BY <1>4, <1>9, <2>1, <4>1, <4>2
        <4>4. task[k].after = m_Work[b]
          BY <2>1, <4>1, <4>2 DEF Promises, StoredContinuations
        <4>5. m_Work[b] # NULL
          <5>1. b \in allocated
            BY <4>1 DEF Unfinished
          <5>. QED  BY <1>2, <5>1 DEF WorkOfOneJob, Created
        <4>. QED  BY <1>4, <1>6, <4>1, <4>3, <4>4, <4>5
      <3>. QED  BY <3>1, <3>2
    <2>. QED  BY <2>1 DEF StoredContinuations
  <1>15. WaitingIsHeld'
    <2>1. ASSUME NEW k \in Works, task'[k].phase = "waiting", task'[k].after # NULL
          PROVE  HeldBy(k)'
      <3>1. CASE k = k0
        <4>1. task'[k].after = record.after /\ record.after # NULL
          BY <1>4, <2>1, <3>1
        <4>2. /\ h \in Jobs /\ Unfinished(h)' /\ m_Work'[h] = record.after
              /\ m_Continuation'[h] = j /\ m_Work'[j] = k /\ j # NULL
          BY <1>2, <1>4, <1>7, <1>8, <3>1, <4>1
        <4>. QED  BY <4>1, <4>2 DEF HeldBy
      <3>2. CASE k # k0
        <4>1. task'[k] = task[k] /\ task[k].phase = "waiting" /\ task[k].after # NULL
              /\ task[k].after \in Works /\ task'[task[k].after] = task[task[k].after]
          BY <1>4, <1>5, <2>1, <3>2
        <4>2. CASE task[task[k].after].phase = "dropped"
          BY <4>1, <4>2 DEF HeldBy
        <4>3. CASE \E v \in Workers : continuation[v] # NULL /\ m_Work[continuation[v]] = k
          <5>1. PICK v \in Workers : continuation[v] # NULL /\ m_Work[continuation[v]] = k
            BY <4>3
          <5>2. m_Work'[continuation[v]] = k
            BY <1>4, <1>9, <5>1
          <5>. QED  BY <5>1, <5>2 DEF HeldBy
        <4>4. CASE \E b \in Jobs : /\ Unfinished(b) /\ m_Work[b] = task[k].after
                                   /\ m_Continuation[b] # NULL /\ m_Work[m_Continuation[b]] = k
          <5>1. PICK b \in Jobs : /\ Unfinished(b) /\ m_Work[b] = task[k].after
                                  /\ m_Continuation[b] # NULL /\ m_Work[m_Continuation[b]] = k
            BY <4>4
          <5>2. /\ Unfinished(b)' /\ m_Work'[b] = m_Work[b]
                /\ m_Continuation'[b] = m_Continuation[b] /\ m_Work'[m_Continuation[b]] = k
            BY <1>4, <1>8, <1>9, <5>1
          <5>. QED  BY <4>1, <5>1, <5>2 DEF HeldBy
        <4>. QED  BY <4>1, <4>2, <4>3, <4>4 DEF Promises, WaitingIsHeld, HeldBy
      <3>. QED  BY <3>1, <3>2
    <2>. QED  BY <2>1 DEF WaitingIsHeld
  <1>16. Traced'
    <2>1. ASSUME NEW k \in Works
          PROVE  task'[k].phase = "done" <=> \E v \in Workers : k \in m_Traces[v]
      <3>1. CASE k = k0
        BY <1>2, <1>4, <3>1 DEF Promises, Traced
      <3>2. CASE k # k0
        BY <1>4, <3>2 DEF Promises, Traced
      <3>. QED  BY <3>1, <3>2
    <2>. QED  BY <2>1 DEF Traced
  <1>. QED  BY <1>10, <1>11, <1>12, <1>13, <1>14, <1>15, <1>16 DEF Promises

-----------------------------------------------------------------------------
(* Thread t moves on, and nothing happens to the work. *)
LEMMA ThreadMoves ==
  ASSUME OInv, NEW t \in Threads, pc[t] # "run", NEW label, label # "run", Goto(t, label),
         UNCHANGED <<task, m_Work, m_Continuation, continuation, handle, m_Traces>>,
         \A v \in Workers : v = t \/ l_CurrentJob'[v] = l_CurrentJob[v],
         \A b \in Jobs : Unfinished(b)' <=> Unfinished(b),
         label \in Leaving => pc[t] \in Leaving \/ m_Shutdown,
         label \in GlobalDrained => pc[t] \in GlobalDrained \/ m_GlobalQueues[t] = <<>>,
         label \in LocalDrained => pc[t] \in LocalDrained \/ m_LocalQueues[t] = <<>>,
         \A v \in Workers : \/ m_GlobalQueues'[v] = m_GlobalQueues[v]
                            \/ v = t /\ pc[t] \in GlobalDrained,
         \A v \in Workers : \/ m_LocalQueues'[v] = m_LocalQueues[v]
                            \/ v = t /\ pc[t] \in LocalDrained
  PROVE  QuietMove
  <1>1. \A v \in Workers : pc'[v] = IF v = t THEN label ELSE pc[v]
    BY ThreadsAreDisjoint DEF OInv, IInv, TypeOK, Goto
  <1>2. Elements(<<>>) = {}
    BY DEF Elements
  <1>3. Loses({})
    BY <1>1, <1>2 DEF Loses
  <1>4. LeavesAfterShutdown
    BY <1>1 DEF LeavesAfterShutdown
  <1>. QED  BY <1>1, <1>3, <1>4 DEF QuietMove

(* What is left of a queue that is popped, and what is on one that grew. *)
LEMMA PoppedElements ==
  ASSUME NEW S, NEW s \in Seq(S), s # <<>>
  PROVE  Elements(s) \ {Head(s)} \subseteq Elements(Tail(s))
  <1>. SUFFICES ASSUME NEW i \in 1..Len(s), s[i] # Head(s)
                PROVE  \E k \in 1..Len(Tail(s)) : Tail(s)[k] = s[i]
    BY DEF Elements
  <1>1. i # 1 /\ i - 1 \in 1..Len(Tail(s)) /\ Tail(s)[i - 1] = s[(i - 1) + 1] /\ (i - 1) + 1 = i
    BY Popped
  <1>. QED  BY <1>1

LEMMA AppendedElements ==
  ASSUME NEW S, NEW s \in Seq(S), NEW x \in S
  PROVE  Elements(Append(s, x)) = Elements(s) \cup {x}
  BY Appended DEF Elements

-----------------------------------------------------------------------------
(* The steps of the workers. *)

LEMMA LoopIsAStep ==
  ASSUME OInv, NEW w \in Workers, Loop(w)
  PROVE  QuietStep
  <1>1. \A b \in Jobs : Unfinished(b)' <=> Unfinished(b)
    BY DEF Loop, Unfinished
  <1>2. PICK label : label = IF m_Shutdown THEN "drainGlobal" ELSE "local"
    OBVIOUS
  <1>3. /\ pc[w] = "loop" /\ Goto(w, label) /\ FlagsStay /\ UNCHANGED <<queues, l_CurrentJob>>
        /\ UNCHANGED <<task, m_Work, m_Continuation, continuation, handle, m_Traces>>
    BY <1>2 DEF Loop, FlagsStay
  <1>4. /\ label # "run" /\ label \notin GlobalDrained /\ label \notin LocalDrained
        /\ label \in Leaving => m_Shutdown
    BY <1>2 DEF GlobalDrained, LocalDrained, Leaving
  <1>5. QuietMove
    BY <1>1, <1>3, <1>4, ThreadsAreDisjoint, ThreadMoves
  <1>. QED  BY <1>3, <1>5 DEF QuietStep

(* A worker that stays in the loop or leaves it for good, and holds on to the jobs. *)
LEMMA WorkerMoves ==
  ASSUME OInv, NEW w \in Workers, pc[w] # "run", NEW label, Goto(w, label),
         label \notin Leaving \cup {"run"},
         UNCHANGED <<task, m_Work, m_Continuation, continuation, handle, m_Traces>>,
         UNCHANGED <<m_Shutdown, m_ShutdownComplete, tracelog, m_GlobalQueues, m_LocalQueues, allocated>>,
         \A v \in Workers : v = w \/ l_CurrentJob'[v] = l_CurrentJob[v]
  PROVE  QuietStep
  <1>1. \A b \in Jobs : Unfinished(b)' <=> Unfinished(b)
    BY DEF Unfinished
  <1>2. label # "run" /\ label \notin GlobalDrained /\ label \notin LocalDrained /\ label \notin Leaving
    BY DEF GlobalDrained, LocalDrained, Leaving
  <1>3. QuietMove
    BY <1>1, <1>2, ThreadsAreDisjoint, ThreadMoves
  <1>. QED  BY <1>3 DEF QuietStep, FlagsStay

(* Worker w starts the head of a queue. *)
LEMMA QueueStarts ==
  ASSUME OInv, NEW w \in Workers, pc[w] \in {"local", "global", "steal"}, NEW j, Start(w, j),
         NEW i \in Workers,
         \/ /\ m_GlobalQueues[i] # <<>> /\ j = Head(m_GlobalQueues[i])
            /\ m_GlobalQueues' = [m_GlobalQueues EXCEPT ![i] = Tail(m_GlobalQueues[i])]
            /\ m_LocalQueues' = m_LocalQueues
         \/ /\ m_LocalQueues[i] # <<>> /\ j = Head(m_LocalQueues[i])
            /\ m_LocalQueues' = [m_LocalQueues EXCEPT ![i] = Tail(m_LocalQueues[i])]
            /\ m_GlobalQueues' = m_GlobalQueues,
         UNCHANGED <<m_Work, allocated, m_Continuation, handle, m_Traces>>,
         UNCHANGED <<m_Shutdown, m_ShutdownComplete, tracelog, continuation>>
  PROVE  j \in allocated /\ StartStep(w, j)
  <1>1. /\ IInv /\ QueuesOwn
        /\ m_GlobalQueues \in [Workers -> Seq(Jobs)] /\ m_LocalQueues \in [Workers -> Seq(Jobs)]
    BY DEF OInv, Ownership, IInv, TypeOK
  <1>2. j \in InPhase("queued")
    <2>1. CASE m_GlobalQueues[i] # <<>> /\ j = Head(m_GlobalQueues[i])
      <3>1. j \in Listed(m_GlobalQueues)
        BY <1>1, <2>1, TailApart DEF QueuesOwn
      <3>. QED  BY <1>1, <3>1 DEF QueuesOwn
    <2>2. CASE m_LocalQueues[i] # <<>> /\ j = Head(m_LocalQueues[i])
      <3>1. j \in Listed(m_LocalQueues)
        BY <1>1, <2>2, TailApart DEF QueuesOwn
      <3>. QED  BY <1>1, <3>1 DEF QueuesOwn
    <2>. QED  BY <2>1, <2>2
  <1>3. j \in allocated /\ Phase(j) = "queued" /\ j \in Created
    BY <1>2 DEF InPhase, OInv, Ownership, WorkOfOneJob
  <1>4. \A v \in Workers : pc'[v] = IF v = w THEN "run" ELSE pc[v]
    BY <1>1, <1>3, Started DEF MovedTo
  <1>5. "run" \notin GlobalDrained /\ "run" \notin LocalDrained /\ "run" \notin Leaving
    BY DEF GlobalDrained, LocalDrained, Leaving
  <1>6. \A v \in Workers : Elements(m_GlobalQueues[v]) \ {j} \subseteq Elements(m_GlobalQueues'[v])
    <2>. SUFFICES ASSUME NEW v \in Workers
                  PROVE  Elements(m_GlobalQueues[v]) \ {j} \subseteq Elements(m_GlobalQueues'[v])
      OBVIOUS
    <2>1. CASE m_GlobalQueues'[v] = m_GlobalQueues[v]
      BY <2>1
    <2>2. CASE /\ v = i /\ m_GlobalQueues[i] # <<>> /\ j = Head(m_GlobalQueues[i])
               /\ m_GlobalQueues'[i] = Tail(m_GlobalQueues[i])
      BY <1>1, <2>2, PoppedElements
    <2>. QED  BY <1>1, <2>1, <2>2
  <1>7. \A v \in Workers : Elements(m_LocalQueues[v]) \ {j} \subseteq Elements(m_LocalQueues'[v])
    <2>. SUFFICES ASSUME NEW v \in Workers
                  PROVE  Elements(m_LocalQueues[v]) \ {j} \subseteq Elements(m_LocalQueues'[v])
      OBVIOUS
    <2>1. CASE m_LocalQueues'[v] = m_LocalQueues[v]
      BY <2>1
    <2>2. CASE /\ v = i /\ m_LocalQueues[i] # <<>> /\ j = Head(m_LocalQueues[i])
               /\ m_LocalQueues'[i] = Tail(m_LocalQueues[i])
      BY <1>1, <2>2, PoppedElements
    <2>. QED  BY <1>1, <2>1, <2>2
  <1>8. Loses({j})
    BY <1>4, <1>5, <1>6, <1>7 DEF Loses
  <1>9. LeavesAfterShutdown
    BY <1>4, <1>5 DEF LeavesAfterShutdown
  <1>10. /\ pc[w] \notin {"run", "last", "stopped"} /\ FlagsStay
         /\ \A v \in Workers : continuation'[v] = continuation[v]
         /\ UNCHANGED <<m_Work, allocated, m_Continuation, handle, m_Traces>>
    BY DEF FlagsStay
  <1>. QED  BY <1>3, <1>8, <1>9, <1>10 DEF StartStep

LEMMA PopIsAStep ==
  ASSUME OInv, NEW w \in Workers, PopLocal(w) \/ PopGlobal(w)
  PROVE  QuietStep \/ \E j \in allocated : StartStep(w, j)
  <1>1. /\ UNCHANGED <<m_Work, allocated, m_Continuation, handle, m_Traces>>
        /\ UNCHANGED <<m_Shutdown, m_ShutdownComplete, tracelog, continuation>>
        /\ pc[w] \in {"local", "global", "steal"} /\ pc[w] # "run"
    BY DEF PopLocal, PopGlobal
  <1>2. {"global", "steal"} \cap (Leaving \cup {"run"}) = {}
    BY DEF Leaving, GlobalDrained
  <1>3. CASE \E label \in {"global", "steal"} :
               Goto(w, label) /\ UNCHANGED <<m_GlobalQueues, m_LocalQueues, l_CurrentJob, task>>
    BY <1>1, <1>2, <1>3, WorkerMoves
  <1>4. CASE /\ m_GlobalQueues[w] # <<>> /\ Start(w, Head(m_GlobalQueues[w]))
             /\ m_GlobalQueues' = [m_GlobalQueues EXCEPT ![w] = Tail(m_GlobalQueues[w])]
             /\ m_LocalQueues' = m_LocalQueues
    BY <1>1, <1>4, QueueStarts
  <1>5. CASE /\ m_LocalQueues[w] # <<>> /\ Start(w, Head(m_LocalQueues[w]))
             /\ m_LocalQueues' = [m_LocalQueues EXCEPT ![w] = Tail(m_LocalQueues[w])]
             /\ m_GlobalQueues' = m_GlobalQueues
    BY <1>1, <1>5, QueueStarts
  <1>. QED  BY <1>3, <1>4, <1>5 DEF PopLocal, PopGlobal

LEMMA StealIsAStep ==
  ASSUME OInv, NEW w \in Workers, Steal(w)
  PROVE  QuietStep \/ \E j \in allocated : StartStep(w, j)
  <1>. DEFINE i == IF steal_from[w] + 1 >= m_NumThreads THEN 0 ELSE steal_from[w] + 1
              q == m_GlobalQueues[i]
  <1>1. /\ UNCHANGED <<m_Work, allocated, m_Continuation, handle, m_Traces>>
        /\ UNCHANGED <<m_Shutdown, m_ShutdownComplete, tracelog, continuation, m_LocalQueues>>
        /\ pc[w] = "steal" /\ IInv /\ steal_from[w] \in Workers
        /\ pc \in [Threads -> WorkerLabels \cup {"ready", "waitJob", "waitShutdown"}]
    BY DEF OInv, IInv, TypeOK, Steal
  <1>2. i \in Workers
    BY <1>1, NextWorker
  <1>3. \/ Goto(w, "idle") /\ UNCHANGED <<m_GlobalQueues, l_CurrentJob, task>>
        \/ UNCHANGED <<m_GlobalQueues, l_CurrentJob, task, pc>>
        \/ /\ q # <<>>
           /\ m_GlobalQueues' = [m_GlobalQueues EXCEPT ![i] = Tail(q)]
           /\ Start(w, Head(q))
    BY DEF Steal
  <1>. HIDE DEF i
  <1>4. {"idle", "steal"} \cap (Leaving \cup {"run"}) = {}
    BY DEF Leaving, GlobalDrained
  <1>5. UNCHANGED pc => Goto(w, "steal")
    BY <1>1, ThreadsAreDisjoint DEF Goto
  <1>6. CASE \E label \in {"idle", "steal"} :
               Goto(w, label) /\ UNCHANGED <<m_GlobalQueues, l_CurrentJob, task>>
    BY <1>1, <1>4, <1>6, WorkerMoves
  <1>7. CASE /\ q # <<>>
             /\ m_GlobalQueues' = [m_GlobalQueues EXCEPT ![i] = Tail(q)]
             /\ Start(w, Head(q))
    BY <1>1, <1>2, <1>7, QueueStarts
  <1>. QED  BY <1>3, <1>5, <1>6, <1>7

(* A worker has finished with a job: it turns to the continuation, or looks for another job. *)
LEMMA JobCompletedIsAStep ==
  ASSUME OInv, Promises, NEW w \in Workers, JobCompleted(w)
  PROVE  QuietStep \/ \E j \in allocated : StartStep(w, j)
  <1>. DEFINE calls == completing[w]
              j == calls[Len(calls)]
  <1>1. /\ IInv /\ NoParents /\ WorkersOwn /\ ContinuationsOwn /\ BinsOwn /\ pc[w] = "complete"
        /\ UNCHANGED <<m_Work, allocated, m_Continuation, handle, m_Traces>>
        /\ UNCHANGED <<m_Shutdown, m_ShutdownComplete, tracelog>> /\ FlagsStay
        /\ UNCHANGED <<m_GlobalQueues, m_LocalQueues>>
        /\ continuation \in [Workers -> Jobs \cup {NULL}]
        /\ l_CurrentJob \in [Workers -> Jobs \cup {NULL}]
    BY DEF OInv, Ownership, IInv, TypeOK, JobCompleted, FlagsStay
  <1>2. calls = <<l_CurrentJob[w]>> /\ j = l_CurrentJob[w] /\ m_Parent[j] = NULL
    <2>1. calls = <<l_CurrentJob[w]>>
      BY <1>1 DEF WorkersOwn
    <2>2. j = l_CurrentJob[w] /\ j \in Listed(completing)
      <3>1. Len(calls) = 1 /\ j = calls[1] /\ calls[1] = l_CurrentJob[w]
        BY <2>1
      <3>2. DOMAIN completing = Workers
        BY <1>1 DEF IInv, TypeOK
      <3>. QED  BY <3>1, <3>2, ListedAt
    <2>3. j \in Jobs
      BY <1>1, <2>2 DEF BinsOwn, InPhase, IInv, TypeOK
    <2>. QED  BY <1>1, <2>1, <2>2, <2>3 DEF NoParents
  <1>3. continuation' = [continuation EXCEPT ![w] = NULL] /\ TurnToContinuation(w)
    BY <1>2 DEF JobCompleted
  <1>4. \A v \in Workers : continuation'[v] = IF v = w THEN NULL ELSE continuation[v]
    BY <1>1, <1>3
  <1>5. CASE continuation[w] = NULL
    <2>1. continuation' = continuation
      BY <1>1, <1>3, <1>5
    <2>2. /\ l_CurrentJob' = [l_CurrentJob EXCEPT ![w] = NULL] /\ Goto(w, "idle")
          /\ UNCHANGED task
      BY <1>3, <1>5 DEF TurnToContinuation
    <2>3. "idle" \notin Leaving \cup {"run"} /\ pc[w] # "run"
      BY <1>1 DEF Leaving, GlobalDrained
    <2>4. \A v \in Workers : v = w \/ l_CurrentJob'[v] = l_CurrentJob[v]
      BY <1>1, <2>2
    <2>. QED  BY <1>1, <2>1, <2>2, <2>3, <2>4, WorkerMoves
  <1>6. CASE continuation[w] # NULL
    <2>1. PICK i : i = continuation[w]
      OBVIOUS
    <2>2. i \in allocated /\ Phase(i) = "waiting" /\ i \in Created /\ Start(w, i)
      BY <1>1, <1>3, <1>6, <2>1 DEF ContinuationsOwn, InPhase, TurnToContinuation, IInv, TypeOK, Created
    <2>3. \A v \in Workers : pc'[v] = IF v = w THEN "run" ELSE pc[v]
      BY <1>1, <2>2, Started DEF MovedTo
    <2>4. "run" \notin GlobalDrained /\ "run" \notin LocalDrained /\ "run" \notin Leaving
      BY DEF GlobalDrained, LocalDrained, Leaving
    <2>5. Loses({i}) /\ LeavesAfterShutdown
      BY <1>1, <2>3, <2>4 DEF Loses, LeavesAfterShutdown
    <2>6. \A v \in Workers : \/ continuation'[v] = continuation[v]
                             \/ v = w /\ continuation[w] = i /\ continuation'[v] = NULL
      BY <1>4, <2>1
    <2>7. pc[w] \notin {"run", "last", "stopped"}
      BY <1>1
    <2>8. StartStep(w, i)
      BY <1>1, <2>1, <2>2, <2>5, <2>6, <2>7 DEF StartStep
    <2>. QED  BY <2>2, <2>8
  <1>. QED  BY <1>5, <1>6

LEMMA WaitingIsAStep ==
  ASSUME OInv, NEW w \in Workers, Idle(w) \/ Awake(w)
  PROVE  QuietStep
  <1>1. PICK label \in {"wait", "loop"} : Goto(w, label)
    BY DEF Idle, Awake
  <1>2. /\ UNCHANGED <<task, m_Work, m_Continuation, continuation, handle, m_Traces>>
        /\ UNCHANGED <<m_Shutdown, m_ShutdownComplete, tracelog, m_GlobalQueues, m_LocalQueues, allocated>>
        /\ UNCHANGED l_CurrentJob /\ pc[w] # "run"
    BY DEF Idle, Awake, WaitForReturns
  <1>3. label \notin Leaving \cup {"run"}
    BY DEF Leaving, GlobalDrained
  <1>. QED  BY <1>1, <1>2, <1>3, WorkerMoves

(* The head of a queue is thrown away. *)
LEMMA HeadIsDropped ==
  ASSUME OInv, Closing, NEW w \in Workers, pc[w] \in Leaving, NEW j, Deallocate({j}),
         \/ /\ m_GlobalQueues[w] # <<>> /\ j = Head(m_GlobalQueues[w])
            /\ m_GlobalQueues' = [m_GlobalQueues EXCEPT ![w] = Tail(m_GlobalQueues[w])]
            /\ m_LocalQueues' = m_LocalQueues
         \/ /\ m_LocalQueues[w] # <<>> /\ j = Head(m_LocalQueues[w])
            /\ m_LocalQueues' = [m_LocalQueues EXCEPT ![w] = Tail(m_LocalQueues[w])]
            /\ m_GlobalQueues' = m_GlobalQueues,
         UNCHANGED <<m_Work, m_Continuation, continuation, handle, m_Traces, l_CurrentJob, pc>>,
         UNCHANGED <<m_Shutdown, m_ShutdownComplete, tracelog>>
  PROVE  j \in InPhase("queued") /\ DropStep(j)
  <1>1. /\ QueuesOwn
        /\ m_GlobalQueues \in [Workers -> Seq(Jobs)] /\ m_LocalQueues \in [Workers -> Seq(Jobs)]
    BY DEF OInv, Ownership, IInv, TypeOK
  <1>2. j \in InPhase("queued")
    <2>1. CASE m_GlobalQueues[w] # <<>> /\ j = Head(m_GlobalQueues[w])
      <3>1. j \in Listed(m_GlobalQueues)
        BY <1>1, <2>1, TailApart DEF QueuesOwn
      <3>. QED  BY <1>1, <3>1 DEF QueuesOwn
    <2>2. CASE m_LocalQueues[w] # <<>> /\ j = Head(m_LocalQueues[w])
      <3>1. j \in Listed(m_LocalQueues)
        BY <1>1, <2>2, TailApart DEF QueuesOwn
      <3>. QED  BY <1>1, <3>1 DEF QueuesOwn
    <2>. QED  BY <2>1, <2>2
  <1>3. \A v \in Workers : Elements(m_GlobalQueues[v]) \ {j} \subseteq Elements(m_GlobalQueues'[v])
    <2>. SUFFICES ASSUME NEW v \in Workers
                  PROVE  Elements(m_GlobalQueues[v]) \ {j} \subseteq Elements(m_GlobalQueues'[v])
      OBVIOUS
    <2>1. CASE m_GlobalQueues'[v] = m_GlobalQueues[v]
      BY <2>1
    <2>2. CASE /\ v = w /\ m_GlobalQueues[w] # <<>> /\ j = Head(m_GlobalQueues[w])
               /\ m_GlobalQueues'[w] = Tail(m_GlobalQueues[w])
      BY <1>1, <2>2, PoppedElements
    <2>. QED  BY <1>1, <2>1, <2>2
  <1>4. \A v \in Workers : Elements(m_LocalQueues[v]) \ {j} \subseteq Elements(m_LocalQueues'[v])
    <2>. SUFFICES ASSUME NEW v \in Workers
                  PROVE  Elements(m_LocalQueues[v]) \ {j} \subseteq Elements(m_LocalQueues'[v])
      OBVIOUS
    <2>1. CASE m_LocalQueues'[v] = m_LocalQueues[v]
      BY <2>1
    <2>2. CASE /\ v = w /\ m_LocalQueues[w] # <<>> /\ j = Head(m_LocalQueues[w])
               /\ m_LocalQueues'[w] = Tail(m_LocalQueues[w])
      BY <1>1, <2>2, PoppedElements
    <2>. QED  BY <1>1, <2>1, <2>2
  <1>5. pc' = pc
    OBVIOUS
  <1>6. Loses({j}) /\ LeavesAfterShutdown
    BY <1>3, <1>4, <1>5 DEF Loses, LeavesAfterShutdown
  <1>7. m_Shutdown
    BY DEF Closing, ShutdownWasCalled, Leaving
  <1>. QED  BY <1>2, <1>6, <1>7 DEF DropStep, FlagsStay

LEMMA DrainIsAStep ==
  ASSUME OInv, Closing, NEW w \in Workers, DrainGlobal(w) \/ DrainLocal(w)
  PROVE  QuietStep \/ \E j \in InPhase("queued") : DropStep(j)
  <1>1. /\ UNCHANGED <<m_Work, m_Continuation, continuation, handle, m_Traces, l_CurrentJob>>
        /\ UNCHANGED <<m_Shutdown, m_ShutdownComplete, tracelog>> /\ FlagsStay
        /\ pc[w] \in {"drainGlobal", "clearGlobal", "drainLocal", "clearLocal"} /\ pc[w] \in Leaving
        /\ pc[w] # "run"
        /\ m_GlobalQueues \in [Workers -> Seq(Jobs)] /\ m_LocalQueues \in [Workers -> Seq(Jobs)]
    BY DEF DrainGlobal, DrainLocal, FlagsStay, Leaving, GlobalDrained, OInv, IInv, TypeOK
  <1>2. CASE /\ m_GlobalQueues[w] # <<>> /\ Deallocate({Head(m_GlobalQueues[w])}) /\ UNCHANGED pc
             /\ m_GlobalQueues' = [m_GlobalQueues EXCEPT ![w] = Tail(m_GlobalQueues[w])]
             /\ m_LocalQueues' = m_LocalQueues
    BY <1>1, <1>2, HeadIsDropped
  <1>3. CASE /\ m_LocalQueues[w] # <<>> /\ Deallocate({Head(m_LocalQueues[w])}) /\ UNCHANGED pc
             /\ m_LocalQueues' = [m_LocalQueues EXCEPT ![w] = Tail(m_LocalQueues[w])]
             /\ m_GlobalQueues' = m_GlobalQueues
    BY <1>1, <1>3, HeadIsDropped
  <1>4. CASE /\ UNCHANGED <<allocated, task>>
             /\ \/ /\ pc[w] = "drainGlobal" /\ m_GlobalQueues[w] = <<>> /\ Goto(w, "clearGlobal")
                   /\ UNCHANGED <<m_GlobalQueues, m_LocalQueues>>
                \/ /\ pc[w] = "clearGlobal" /\ Goto(w, "drainLocal")
                   /\ m_GlobalQueues' = [m_GlobalQueues EXCEPT ![w] = <<>>]
                   /\ UNCHANGED m_LocalQueues
                \/ /\ pc[w] = "drainLocal" /\ m_LocalQueues[w] = <<>> /\ Goto(w, "clearLocal")
                   /\ UNCHANGED <<m_GlobalQueues, m_LocalQueues>>
                \/ /\ pc[w] = "clearLocal" /\ Goto(w, "exit")
                   /\ m_LocalQueues' = [m_LocalQueues EXCEPT ![w] = <<>>]
                   /\ UNCHANGED m_GlobalQueues
    <2>1. PICK label \in {"clearGlobal", "drainLocal", "clearLocal", "exit"} :
             /\ Goto(w, label)
             /\ label \in GlobalDrained => pc[w] \in GlobalDrained \/ m_GlobalQueues[w] = <<>>
             /\ label \in LocalDrained => pc[w] \in LocalDrained \/ m_LocalQueues[w] = <<>>
      BY <1>4 DEF GlobalDrained, LocalDrained
    <2>2. /\ \A v \in Workers : \/ m_GlobalQueues'[v] = m_GlobalQueues[v]
                                \/ v = w /\ pc[w] \in GlobalDrained
          /\ \A v \in Workers : \/ m_LocalQueues'[v] = m_LocalQueues[v]
                                \/ v = w /\ pc[w] \in LocalDrained
      BY <1>1, <1>4 DEF GlobalDrained, LocalDrained
    <2>3. \A b \in Jobs : Unfinished(b)' <=> Unfinished(b)
      BY <1>1, <1>4 DEF Unfinished
    <2>4. QuietMove
      BY <1>1, <1>4, <2>1, <2>2, <2>3, ThreadsAreDisjoint, ThreadMoves
    <2>. QED  BY <1>1, <2>4 DEF QuietStep
  <1>. QED  BY <1>2, <1>3, <1>4 DEF DrainGlobal, DrainLocal

LEMMA ExitIsAStep ==
  ASSUME OInv, NEW w \in Workers, Exit(w) \/ CompleteShutdown(w)
  PROVE  QuietStep
  <1>1. PICK label \in {"last", "stopped"} : Goto(w, label)
    BY DEF Exit, CompleteShutdown
  <1>2. /\ UNCHANGED <<task, m_Work, m_Continuation, continuation, handle, m_Traces, l_CurrentJob>>
        /\ UNCHANGED <<m_GlobalQueues, m_LocalQueues>>
        /\ pc[w] \in {"exit", "last"}
    BY DEF Exit, CompleteShutdown
  <1>3. /\ label # "run" /\ pc[w] # "run"
        /\ pc[w] \in Leaving /\ pc[w] \in GlobalDrained /\ pc[w] \in LocalDrained
    BY <1>2 DEF Leaving, GlobalDrained, LocalDrained
  <1>4. \A b \in Jobs : Unfinished(b)' <=> Unfinished(b)
    <2>1. CASE Exit(w)
      <3>1. /\ BinsOwn /\ DOMAIN l_RecyclingBin = Threads /\ DOMAIN l_GarbageBin = Workers
            /\ allocated' = allocated \ (Elements(l_RecyclingBin[w]) \cup Elements(l_GarbageBin[w]))
        BY <2>1 DEF OInv, Ownership, IInv, TypeOK, Exit
      <3>2. /\ Elements(l_RecyclingBin[w]) \subseteq InPhase("done")
            /\ Elements(l_GarbageBin[w]) \subseteq InPhase("done")
        BY <3>1, ThreadsAreDisjoint DEF BinsOwn, Listed
      <3>3. \A b \in InPhase("done") : ~Unfinished(b)
        BY DEF InPhase, Phase, Unfinished
      <3>4. \A b \in allocated : Unfinished(b) => b \in allocated'
        BY <3>1, <3>2, <3>3
      <3>. QED  BY <1>2, <3>1, <3>4 DEF Unfinished
    <2>2. CASE CompleteShutdown(w)
      BY <2>2 DEF CompleteShutdown, Unfinished
    <2>. QED  BY <2>1, <2>2
  <1>5. QuietMove
    BY <1>1, <1>2, <1>3, <1>4, ThreadsAreDisjoint, ThreadMoves
  <1>. QED  BY <1>5 DEF QuietStep, FlagsStay, Exit

-----------------------------------------------------------------------------
(* The steps of the callers. *)

LEMMA WaitIsAStep ==
  ASSUME OInv, NEW c \in Clients, Wait(c) \/ WaitEnds(c)
  PROVE  QuietStep
  <1>1. PICK label \in {"ready", "waitJob", "waitShutdown"} : Goto(c, label)
    BY DEF Wait, WaitEnds
  <1>2. /\ UNCHANGED <<task, m_Work, m_Continuation, continuation, handle, m_Traces, l_CurrentJob>>
        /\ UNCHANGED <<m_GlobalQueues, m_LocalQueues, allocated>>
        /\ pc[c] # "run" /\ FlagsStay
    BY DEF Wait, WaitEnds, FlagsStay
  <1>3. /\ label # "run"
        /\ label \notin Leaving /\ label \notin GlobalDrained /\ label \notin LocalDrained
    BY DEF Leaving, GlobalDrained, LocalDrained
  <1>4. \A b \in Jobs : Unfinished(b)' <=> Unfinished(b)
    BY <1>2 DEF Unfinished
  <1>5. QuietMove
    BY <1>1, <1>2, <1>3, <1>4, ThreadsAreDisjoint, ThreadMoves
  <1>. QED  BY <1>2, <1>5 DEF QuietStep

LEMMA ShutdownIsAStep ==
  ASSUME OInv, NEW t \in Threads, Shutdown(t)
  PROVE  QuietStep
  <1>1. QuietMove
    BY DEF QuietMove, Shutdown, Unfinished, Loses, LeavesAfterShutdown
  <1>. QED  BY <1>1 DEF QuietStep, Shutdown

(* Neither a call to create a job nor a notification makes a worker leave. *)
LEMMA QueuesGrow ==
  ASSUME OInv, \A v \in Workers : pc'[v] = pc[v] \/ (pc[v] = "wait" /\ pc'[v] = "woken"),
         \A v \in Workers : Elements(m_GlobalQueues[v]) \subseteq Elements(m_GlobalQueues'[v]),
         \A v \in Workers : Elements(m_LocalQueues[v]) \subseteq Elements(m_LocalQueues'[v])
  PROVE  Loses({}) /\ LeavesAfterShutdown
  <1>1. \A v \in Workers : /\ pc'[v] \in GlobalDrained => pc[v] \in GlobalDrained
                           /\ pc'[v] \in LocalDrained => pc[v] \in LocalDrained
                           /\ pc'[v] \in Leaving => pc[v] \in Leaving
    BY DEF GlobalDrained, LocalDrained, Leaving
  <1>. QED  BY <1>1 DEF Loses, LeavesAfterShutdown

LEMMA ScheduleIsAStep ==
  ASSUME OInv, Closing, NEW t \in Threads, NEW j \in Jobs, NEW thread_index \in Pins,
         Schedule(t, j, FALSE, thread_index)
  PROVE  \E record \in Task : CreationStep(t, j, thread_index, record, j)
  <1>1. PICK record : record = [phase |-> "queued", after |-> NULL, early |-> ~m_Shutdown, parent |-> NULL]
    OBVIOUS
  <1>2. /\ Unused # {} /\ CreateJob(t, j) /\ SetFields(j, NULL, thread_index)
        /\ m_Continuation' = [m_Continuation EXCEPT ![j] = NULL]
        /\ ScheduleWork(t, j, thread_index) /\ NotifyOne
        /\ handle' = [handle EXCEPT ![t] = [job |-> j, work |-> NewWork]]
        /\ task' = [task EXCEPT ![NewWork] = record]
        /\ UNCHANGED <<l_GarbageBin, completing>> /\ UNCHANGED <<l_CurrentJob, continuation, m_Traces>>
        /\ UNCHANGED <<m_Shutdown, m_ShutdownComplete, tracelog>>
    BY <1>1 DEF Schedule
  <1>3. /\ record \in Task /\ record.phase = "queued" /\ record.after = NULL
        /\ record.early => ~m_Shutdown
    BY <1>1 DEF Task, Phases, OInv, IInv, TypeOK
  <1>4. /\ \A v \in Workers : pc'[v] = pc[v] \/ (pc[v] = "wait" /\ pc'[v] = "woken")
        /\ IInv /\ tidx \in [Threads -> Workers] /\ m_Work \in [Jobs -> Works \cup {NULL}]
        /\ m_GlobalQueues \in [Workers -> Seq(Jobs)] /\ m_LocalQueues \in [Workers -> Seq(Jobs)]
    BY <1>2, NotifyOneControl, ThreadsAreDisjoint DEF OInv, IInv, TypeOK
  <1>5. m_Work'[j] = NewWork
    BY <1>2, <1>4 DEF SetFields
  <1>6. /\ \A v \in Workers : Elements(m_GlobalQueues[v]) \subseteq Elements(m_GlobalQueues'[v])
        /\ \A v \in Workers : Elements(m_LocalQueues[v]) \subseteq Elements(m_LocalQueues'[v])
        /\ \E v \in Workers : \/ j \in Elements(m_GlobalQueues'[v])
                              \/ j \in Elements(m_LocalQueues'[v])
    <2>1. CASE thread_index = NULL \/ thread_index >= m_NumThreads
      <3>1. PICK i : i = IF tidx[t] + 1 >= m_NumThreads THEN 0 ELSE tidx[t] + 1
        OBVIOUS
      <3>2. /\ m_GlobalQueues' = [m_GlobalQueues EXCEPT ![i] = Append(m_GlobalQueues[i], j)]
            /\ UNCHANGED m_LocalQueues
        BY <1>2, <2>1, <3>1 DEF ScheduleWork
      <3>3. i \in Workers
        BY <3>1, <1>4, NextWorker
      <3>4. Elements(Append(m_GlobalQueues[i], j)) = Elements(m_GlobalQueues[i]) \cup {j}
        BY <1>4, <3>3, AppendedElements
      <3>. QED  BY <1>4, <3>2, <3>3, <3>4
    <2>2. CASE ~(thread_index = NULL \/ thread_index >= m_NumThreads)
      <3>1. PICK i : i = l_ThreadIndex(t)
        OBVIOUS
      <3>2. /\ m_LocalQueues' = [m_LocalQueues EXCEPT ![i] = Append(m_LocalQueues[i], j)]
            /\ UNCHANGED m_GlobalQueues
        BY <1>2, <2>2, <3>1 DEF ScheduleWork
      <3>3. i \in Workers
        BY <3>1, SystemAssumption DEF l_ThreadIndex, Workers
      <3>4. Elements(Append(m_LocalQueues[i], j)) = Elements(m_LocalQueues[i]) \cup {j}
        BY <1>4, <3>3, AppendedElements
      <3>. QED  BY <1>4, <3>2, <3>3, <3>4
    <2>. QED  BY <2>1, <2>2
  <1>7. Loses({}) /\ LeavesAfterShutdown
    BY <1>4, <1>6, QueuesGrow
  <1>8. ASSUME NEW k \in Works, record.early, k = NewWork
        PROVE  OnAQueue(k)'
    <2>1. \A v \in Workers : pc[v] \notin Leaving
      BY <1>3, <1>8 DEF Closing, ShutdownWasCalled, Leaving
    <2>2. \A v \in Workers : pc'[v] \notin GlobalDrained /\ pc'[v] \notin LocalDrained
      BY <1>4, <2>1 DEF Leaving, GlobalDrained, LocalDrained
    <2>. QED  BY <1>5, <1>6, <1>8, <2>2 DEF OnAQueue
  <1>9. \A v \in Workers : pc[v] = "run" => pc'[v] = "run"
    BY <1>4
  <1>10. CreationStep(t, j, thread_index, record, j)
    BY <1>2, <1>3, <1>7, <1>8, <1>9 DEF CreationStep, FlagsStay
  <1>. QED  BY <1>3, <1>10

LEMMA ThenIsAStep ==
  ASSUME OInv, ~MayChainLate, NEW t \in Threads, NEW j \in Jobs, NEW thread_index \in Pins,
         Then(t, j, thread_index)
  PROVE  \E record \in Task : CreationStep(t, j, thread_index, record, handle[t].job)
  <1>1. PICK record : record = [phase |-> "waiting", after |-> handle[t].work,
                                early |-> ~m_Shutdown, parent |-> NULL]
    OBVIOUS
  <1>2. /\ Unused # {} /\ CreateJob(t, j) /\ SetFields(j, NULL, thread_index)
        /\ handle[t] # NULL /\ ~Over(handle[t])
        /\ m_Continuation' = [m_Continuation EXCEPT ![j] = NULL, ![handle[t].job] = j]
        /\ handle' = [handle EXCEPT ![t] = [job |-> j, work |-> NewWork]]
        /\ task' = [task EXCEPT ![NewWork] = record]
        /\ UNCHANGED <<l_GarbageBin, completing>> /\ UNCHANGED <<l_CurrentJob, continuation, m_Traces>>
        /\ UNCHANGED <<m_Shutdown, m_ShutdownComplete, tracelog, m_GlobalQueues, m_LocalQueues, pc>>
    BY <1>1 DEF Then
  <1>3. record \in Task /\ record.phase = "waiting" /\ record.after = handle[t].work
    BY <1>1, <1>2 DEF Task, Phases, OInv, IInv, TypeOK
  <1>4. \A v \in Workers : pc[v] = "run" => pc'[v] = "run"
    BY <1>2
  <1>5. Loses({}) /\ LeavesAfterShutdown
    BY <1>2, QueuesGrow
  <1>6. CreationStep(t, j, thread_index, record, handle[t].job)
    BY <1>2, <1>3, <1>4, <1>5 DEF CreationStep, FlagsStay
  <1>. QED  BY <1>3, <1>6

(* Every step is one of these. *)
AnyStep ==
  \/ QuietStep
  \/ \E w \in Workers, j \in allocated : StartStep(w, j)
  \/ \E w \in Workers : FinishWork(w)
  \/ \E j \in InPhase("queued") : DropStep(j)
  \/ \E t \in Threads, j \in Jobs, thread_index \in Pins, record \in Task, h \in Jobs :
       CreationStep(t, j, thread_index, record, h)

LEMMA NextIsAStep ==
  ASSUME PInv, ~MayUseParent, ~MayChainLate, [Next]_vars
  PROVE  AnyStep
  <1>0. OInv /\ Promises /\ Closing
    BY DEF PInv
  <1>1. ASSUME NEW t \in Threads, Call(t) PROVE AnyStep
    <2>1. ASSUME NEW j \in Jobs, NEW thread_index \in Pins, NEW useParent \in {FALSE, MayUseParent},
                 Schedule(t, j, useParent, thread_index)
          PROVE  AnyStep
      <3>1. useParent = FALSE
        BY SystemAssumption
      <3>2. \E record \in Task : CreationStep(t, j, thread_index, record, j)
        BY <1>0, <2>1, <3>1, ScheduleIsAStep
      <3>. QED  BY <3>2 DEF AnyStep
    <2>2. ASSUME NEW j \in Jobs, NEW thread_index \in Pins, Then(t, j, thread_index)
          PROVE  AnyStep
      <3>1. \E record \in Task : CreationStep(t, j, thread_index, record, handle[t].job)
        BY <1>0, <2>2, ThenIsAStep
      <3>2. handle[t].job \in Jobs
        BY <1>0, <2>2 DEF Then, OInv, IInv, TypeOK
      <3>. QED  BY <3>1, <3>2 DEF AnyStep
    <2>3. ASSUME Shutdown(t) PROVE AnyStep
      BY <1>0, <2>3, ShutdownIsAStep DEF AnyStep
    <2>. QED  BY <1>1, <2>1, <2>2, <2>3 DEF Call
  <1>2. ASSUME NEW c \in Clients, Wait(c) \/ WaitEnds(c) PROVE AnyStep
    BY <1>0, <1>2, WaitIsAStep DEF AnyStep
  <1>3. ASSUME NEW w \in Workers, WorkerStep(w) \/ FinishWork(w) PROVE AnyStep
    <2>1. CASE QuietStep
      BY <2>1 DEF AnyStep
    <2>2. CASE \E j \in allocated : StartStep(w, j)
      BY <2>2 DEF AnyStep
    <2>3. CASE \E j \in InPhase("queued") : DropStep(j)
      BY <2>3 DEF AnyStep
    <2>4. CASE FinishWork(w)
      BY <2>4 DEF AnyStep
    <2>. QED  BY <1>0, <1>3, <2>1, <2>2, <2>3, <2>4, LoopIsAStep, PopIsAStep, StealIsAStep,
                 JobCompletedIsAStep, WaitingIsAStep, DrainIsAStep, ExitIsAStep
                 DEF WorkerStep
  <1>4. ASSUME UNCHANGED vars PROVE AnyStep
    <2>1. UNCHANGED <<task, m_Work, m_Continuation, continuation, handle, m_Traces, allocated, pc,
                      l_CurrentJob, m_GlobalQueues, m_LocalQueues, m_Shutdown, m_ShutdownComplete, tracelog>>
      BY <1>4 DEF vars
    <2>2. QuietMove
      BY <2>1 DEF QuietMove, Unfinished, Loses, LeavesAfterShutdown
    <2>. QED  BY <2>1, <2>2 DEF QuietStep, FlagsStay, AnyStep
  <1>5. CASE \E t \in Threads : Call(t)
    BY <1>1, <1>5
  <1>6. CASE \E c \in Clients : Wait(c) \/ WaitEnds(c)
    BY <1>2, <1>6
  <1>7. CASE \E w \in Workers : WorkerStep(w) \/ FinishWork(w)
    BY <1>3, <1>7
  <1>. QED  BY <1>4, <1>5, <1>6, <1>7 DEF Next

-----------------------------------------------------------------------------
(* Early work stays on a queue until it is started or dropped. *)
LEMMA EarlyWorkStays ==
  ASSUME OInv, Closing, NEW J, Loses(J),
         \A b \in Listed(m_GlobalQueues) \cup Listed(m_LocalQueues) : m_Work'[b] = m_Work[b],
         \A k \in Works : task'[k].phase = "queued" /\ task'[k].early =>
           \/ OnAQueue(k)'
           \/ /\ task[k].phase = "queued" /\ task[k].early
              /\ \A b \in J : m_Work[b] # k
  PROVE  EarlyWorkIsQueued'
  <1>. SUFFICES ASSUME NEW k \in Works, task[k].phase = "queued", task[k].early,
                       \A b \in J : m_Work[b] # k
                PROVE  OnAQueue(k)'
    BY DEF EarlyWorkIsQueued
  <1>1. DOMAIN m_GlobalQueues = Workers /\ DOMAIN m_LocalQueues = Workers
    BY DEF OInv, IInv, TypeOK
  <1>2. PICK w \in Workers :
          \/ pc[w] \notin GlobalDrained /\ \E j \in Elements(m_GlobalQueues[w]) : m_Work[j] = k
          \/ pc[w] \notin LocalDrained /\ \E j \in Elements(m_LocalQueues[w]) : m_Work[j] = k
    BY DEF Closing, EarlyWorkIsQueued, OnAQueue
  <1>3. ASSUME pc[w] \notin GlobalDrained, NEW j \in Elements(m_GlobalQueues[w]), m_Work[j] = k
        PROVE  OnAQueue(k)'
    <2>1. j \notin J /\ j \in Listed(m_GlobalQueues)
      BY <1>1, <1>3 DEF Listed
    <2>2. pc'[w] \notin GlobalDrained /\ j \in Elements(m_GlobalQueues'[w]) /\ m_Work'[j] = k
      BY <1>3, <2>1 DEF Loses
    <2>. QED  BY <2>2 DEF OnAQueue
  <1>4. ASSUME pc[w] \notin LocalDrained, NEW j \in Elements(m_LocalQueues[w]), m_Work[j] = k
        PROVE  OnAQueue(k)'
    <2>1. j \notin J /\ j \in Listed(m_LocalQueues)
      BY <1>1, <1>4 DEF Listed
    <2>2. pc'[w] \notin LocalDrained /\ j \in Elements(m_LocalQueues'[w]) /\ m_Work'[j] = k
      BY <1>4, <2>1 DEF Loses
    <2>. QED  BY <2>2 DEF OnAQueue
  <1>. QED  BY <1>2, <1>3, <1>4

(* The flags, when they stay. *)
LEMMA FlagsKeepClosing ==
  ASSUME Closing, FlagsStay, LeavesAfterShutdown, EarlyWorkIsQueued',
         \A k \in Works : task'[k].phase = "dropped" => task[k].phase = "dropped" \/ m_Shutdown,
         m_Traces' = m_Traces \/ ~m_ShutdownComplete
  PROVE  Closing'
  <1>1. ShutdownWasCalled'
    <2>1. /\ m_Shutdown' = m_Shutdown
          /\ \A w \in Workers : pc'[w] \in GlobalDrained \cup {"drainGlobal"} =>
               pc[w] \in GlobalDrained \cup {"drainGlobal"} \/ m_Shutdown
      BY DEF FlagsStay, LeavesAfterShutdown, Leaving
    <2>. QED  BY <2>1 DEF Closing, ShutdownWasCalled
  <1>2. LogIsWhole'
    BY DEF Closing, LogIsWhole, FlagsStay, SavedTraces
  <1>. QED  BY <1>1, <1>2 DEF Closing

LEMMA QuietKeepsClosing ==
  ASSUME PInv, QuietStep
  PROVE  Closing'
  <1>1. OInv /\ Closing /\ QuietMove
    BY DEF PInv, QuietStep
  <1>2. EarlyWorkIsQueued'
    BY <1>1, EarlyWorkStays DEF QuietMove
  <1>3. CASE FlagsStay
    BY <1>1, <1>2, <1>3, FlagsKeepClosing DEF QuietMove
  <1>4. CASE MayShutdown /\ m_Shutdown' = TRUE /\ UNCHANGED <<m_ShutdownComplete, tracelog>>
    <2>1. ShutdownWasCalled'
      BY <1>4 DEF ShutdownWasCalled
    <2>2. LogIsWhole'
      BY <1>1, <1>4 DEF Closing, LogIsWhole, QuietMove, SavedTraces
    <2>. QED  BY <1>2, <2>1, <2>2 DEF Closing
  <1>5. CASE \E w \in Workers : CompleteShutdown(w)
    <2>1. m_Shutdown /\ MayShutdown /\ m_Shutdown' = m_Shutdown
      BY <1>1, <1>5 DEF CompleteShutdown, Closing, ShutdownWasCalled, GlobalDrained
    <2>2. ShutdownWasCalled'
      BY <2>1 DEF ShutdownWasCalled
    <2>3. LogIsWhole'
      BY <1>5 DEF LogIsWhole, CompleteShutdown, SavedTraces
    <2>. QED  BY <1>2, <2>2, <2>3 DEF Closing
  <1>. QED  BY <1>3, <1>4, <1>5 DEF QuietStep

(* How the phase of the work of a job that is started, finished or dropped changes. *)
LEMMA WorkOfStep ==
  ASSUME OInv, NEW j \in allocated, NEW p \in Phases, task' = [task EXCEPT ![m_Work[j]].phase = p]
  PROVE  /\ m_Work[j] \in Works
         /\ \A k \in Works : /\ task'[k].phase = IF k = m_Work[j] THEN p ELSE task[k].phase
                             /\ task'[k].after = task[k].after /\ task'[k].early = task[k].early
  <1>1. task \in [Works -> Task] /\ m_Work[j] \in Works
    BY DEF OInv, Ownership, IInv, TypeOK, Task, WorkOfOneJob, Created
  <1>. QED  BY <1>1, PhaseChanges

LEMMA StartKeepsClosing ==
  ASSUME PInv, NEW w \in Workers, NEW j \in allocated, StartStep(w, j)
  PROVE  Closing'
  <1>1. OInv /\ Closing /\ "running" \in Phases /\ task' = [task EXCEPT ![m_Work[j]].phase = "running"]
    BY DEF PInv, StartStep, Start, Phases
  <1>2. \A k \in Works : /\ task'[k].phase = IF k = m_Work[j] THEN "running" ELSE task[k].phase
                         /\ task'[k].early = task[k].early
    BY <1>1, WorkOfStep
  <1>3. Loses({j}) /\ FlagsStay /\ LeavesAfterShutdown /\ m_Work' = m_Work /\ m_Traces' = m_Traces
    BY DEF StartStep
  <1>4. EarlyWorkIsQueued'
    BY <1>1, <1>2, <1>3, EarlyWorkStays
  <1>. QED  BY <1>1, <1>2, <1>3, <1>4, FlagsKeepClosing

LEMMA FinishKeepsClosing ==
  ASSUME PInv, NEW w \in Workers, FinishWork(w)
  PROVE  Closing'
  <1>1. PICK j : j = l_CurrentJob[w]
    OBVIOUS
  <1>2. /\ OInv /\ Closing /\ "done" \in Phases /\ task' = [task EXCEPT ![m_Work[j]].phase = "done"]
        /\ pc[w] = "run" /\ j \in allocated
        /\ pc' = [pc EXCEPT ![w] = "complete"]
        /\ pc \in [Threads -> WorkerLabels \cup {"ready", "waitJob", "waitShutdown"}]
    BY <1>1 DEF PInv, OInv, IInv, TypeOK, Ownership, WorkersOwn, InPhase, FinishWork, Goto, Phases
  <1>3. \A k \in Works : /\ task'[k].phase = IF k = m_Work[j] THEN "done" ELSE task[k].phase
                         /\ task'[k].early = task[k].early
    BY <1>2, WorkOfStep
  <1>4. /\ \A v \in Workers : pc'[v] = IF v = w THEN "complete" ELSE pc[v]
        /\ "complete" \notin GlobalDrained /\ "complete" \notin LocalDrained /\ "complete" \notin Leaving
    BY <1>2, ThreadsAreDisjoint DEF GlobalDrained, LocalDrained, Leaving
  <1>5. FlagsStay /\ m_Work' = m_Work /\ m_GlobalQueues' = m_GlobalQueues /\ m_LocalQueues' = m_LocalQueues
    BY DEF FinishWork, FlagsStay
  <1>6. Loses({}) /\ LeavesAfterShutdown
    BY <1>4, <1>5 DEF Loses, LeavesAfterShutdown
  <1>7. EarlyWorkIsQueued'
    BY <1>2, <1>3, <1>5, <1>6, EarlyWorkStays
  <1>8. ~m_ShutdownComplete
    BY <1>2 DEF OInv, IInv, LastOneCompletes
  <1>. QED  BY <1>2, <1>3, <1>5, <1>6, <1>7, <1>8, FlagsKeepClosing

LEMMA DropKeepsClosing ==
  ASSUME PInv, NEW j \in InPhase("queued"), DropStep(j)
  PROVE  Closing'
  <1>1. /\ OInv /\ Closing /\ m_Shutdown /\ Deallocate({j}) /\ Loses({j}) /\ FlagsStay
        /\ LeavesAfterShutdown /\ m_Work' = m_Work /\ m_Traces' = m_Traces
    BY DEF PInv, DropStep
  <1>2. \A k \in Works : /\ task'[k].phase = IF k = m_Work[j] THEN "dropped" ELSE task[k].phase
                         /\ task'[k].early = task[k].early
    BY <1>1, Dropped
  <1>3. EarlyWorkIsQueued'
    BY <1>1, <1>2, EarlyWorkStays
  <1>. QED  BY <1>1, <1>3, FlagsKeepClosing

(* What the creation of a job changes. *)
LEMMA Creation ==
  ASSUME OInv, NEW t \in Threads, NEW j \in Jobs, NEW thread_index \in Pins, NEW record \in Task,
         NEW h \in Jobs, CreationStep(t, j, thread_index, record, h)
  PROVE  /\ NewWork \in Works /\ task[NewWork].phase = "unused"
         /\ record.phase \in {"queued", "waiting"}
         /\ \A k \in Works : task'[k] = IF k = NewWork THEN record ELSE task[k]
         /\ \A b \in Jobs : m_Work'[b] = IF b = j THEN NewWork ELSE m_Work[b]
         /\ j \notin Listed(m_GlobalQueues) /\ j \notin Listed(m_LocalQueues)
  <1>1. /\ Unused # {} /\ CreateJob(t, j) /\ SetFields(j, NULL, thread_index)
        /\ task' = [task EXCEPT ![NewWork] = record]
        /\ record.phase \in {"queued", "waiting"}
        /\ task \in [Works -> Task] /\ m_Work \in [Jobs -> Works \cup {NULL}] /\ IInv
    BY DEF CreationStep, OInv, IInv, TypeOK, Task
  <1>2. NewWork \in Works /\ task[NewWork].phase = "unused"
    BY <1>1, NewWorkIsUnused
  <1>3. \A b \in Jobs : m_Work'[b] = IF b = j THEN NewWork ELSE m_Work[b]
    BY <1>1 DEF SetFields
  <1>4. j \notin Listed(m_GlobalQueues) /\ j \notin Listed(m_LocalQueues)
    BY <1>1, FreshJob
  <1>. QED  BY <1>1, <1>2, <1>3, <1>4

LEMMA CreationKeepsClosing ==
  ASSUME PInv, NEW t \in Threads, NEW j \in Jobs, NEW thread_index \in Pins, NEW record \in Task,
         NEW h \in Jobs, CreationStep(t, j, thread_index, record, h)
  PROVE  Closing'
  <1>1. /\ OInv /\ Closing /\ Loses({}) /\ FlagsStay /\ LeavesAfterShutdown /\ m_Traces' = m_Traces
        /\ record.phase = "queued" =>
             \A k \in Works : record.early /\ k = NewWork => OnAQueue(k)'
    BY DEF PInv, CreationStep
  <1>2. /\ NewWork \in Works /\ task[NewWork].phase = "unused"
        /\ record.phase \in {"queued", "waiting"}
        /\ \A k \in Works : task'[k] = IF k = NewWork THEN record ELSE task[k]
        /\ \A b \in Jobs : m_Work'[b] = IF b = j THEN NewWork ELSE m_Work[b]
        /\ j \notin Listed(m_GlobalQueues) /\ j \notin Listed(m_LocalQueues)
    BY <1>1, Creation
  <1>3. \A b \in Listed(m_GlobalQueues) \cup Listed(m_LocalQueues) : m_Work'[b] = m_Work[b]
    <2>1. Listed(m_GlobalQueues) \cup Listed(m_LocalQueues) \subseteq Jobs
      BY <1>1 DEF OInv, Ownership, QueuesOwn, InPhase, IInv, TypeOK
    <2>. QED  BY <1>2, <2>1
  <1>4. \A k \in Works : task'[k].phase = "queued" /\ task'[k].early =>
          OnAQueue(k)' \/ (task[k].phase = "queued" /\ task[k].early)
    BY <1>1, <1>2
  <1>5. EarlyWorkIsQueued'
    BY <1>1, <1>3, <1>4, EarlyWorkStays
  <1>. QED  BY <1>1, <1>2, <1>5, FlagsKeepClosing

LEMMA NextKeeps ==
  ASSUME PInv, ~MayUseParent, ~MayChainLate, [Next]_vars
  PROVE  PInv'
  <1>1. OInv /\ Promises /\ Closing /\ AnyStep /\ OInv'
    BY NextIsAStep, NextOwns DEF PInv
  <1>2. CASE QuietStep
    BY <1>1, <1>2, QuietKeepsPromises, QuietKeepsClosing DEF QuietStep, QuietMove, PInv
  <1>3. ASSUME NEW w \in Workers, NEW j \in allocated, StartStep(w, j) PROVE PInv'
    <2>1. Promises'
      BY <1>1, <1>3, StartKeepsPromises DEF StartStep
    <2>. QED  BY <1>1, <1>3, <2>1, StartKeepsClosing DEF PInv
  <1>4. ASSUME NEW w \in Workers, FinishWork(w) PROVE PInv'
    BY <1>1, <1>4, FinishKeepsPromises, FinishKeepsClosing DEF PInv
  <1>5. ASSUME NEW j \in InPhase("queued"), DropStep(j) PROVE PInv'
    <2>1. Promises'
      BY <1>1, <1>5, DropKeepsPromises DEF DropStep
    <2>. QED  BY <1>1, <1>5, <2>1, DropKeepsClosing DEF PInv
  <1>6. ASSUME NEW t \in Threads, NEW j \in Jobs, NEW thread_index \in Pins, NEW record \in Task,
               NEW h \in Jobs, CreationStep(t, j, thread_index, record, h)
        PROVE  PInv'
    BY <1>1, <1>6, CreationKeepsPromises, CreationKeepsClosing DEF PInv
  <1>. QED  BY <1>1, <1>2, <1>3, <1>4, <1>5, <1>6 DEF AnyStep

(***************************************************************************)
(* The inductive invariant, for callers that schedule no job under a       *)
(* parent and chain only onto work that has not finished.                  *)
(***************************************************************************)
THEOREM PromisesHold ==
  ASSUME ~MayUseParent, ~MayChainLate
  PROVE  Spec => []PInv
  <1>1. Init => PInv
    BY InitHolds, InitOwns, InitPromises DEF PInv, OInv
  <1>2. PInv /\ [Next]_vars => PInv'
    BY NextKeeps
  <1>. QED  BY <1>1, <1>2, PTL DEF Spec

(***************************************************************************)
(* A continuation starts only after the work it continues has finished,    *)
(* and when that has finished, the worker that ran it holds the            *)
(* continuation and turns to it: then() of job.cpp loses none.             *)
(***************************************************************************)
THEOREM ContinuationFollowsHolds ==
  ASSUME ~MayUseParent, ~MayChainLate
  PROVE  Spec => []ContinuationFollows
  <1>1. PInv => ContinuationFollows
    <2>. SUFFICES ASSUME PInv PROVE ContinuationFollows
      OBVIOUS
    <2>1. ASSUME NEW k \in Works, task[k].after # NULL
          PROVE  /\ task[k].phase \in {"running", "done"} => task[task[k].after].phase = "done"
                 /\ task[task[k].after].phase = "done" /\ task[k].phase = "waiting" =>
                      \E w \in Workers : continuation[w] # NULL /\ m_Work[continuation[w]] = k
      <3>1. task[k].phase \in {"running", "done"} => task[task[k].after].phase = "done"
        BY <2>1 DEF PInv, Promises, ChainsAreSound
      <3>2. ASSUME task[task[k].after].phase = "done", task[k].phase = "waiting"
            PROVE  \E w \in Workers : continuation[w] # NULL /\ m_Work[continuation[w]] = k
        <4>1. HeldBy(k)
          BY <2>1, <3>2 DEF PInv, Promises, WaitingIsHeld
        <4>2. \A b \in Jobs : m_Work[b] = task[k].after => ~Unfinished(b)
          BY <3>2 DEF Unfinished
        <4>. QED  BY <3>2, <4>1, <4>2 DEF HeldBy
      <3>. QED  BY <3>1, <3>2
    <2>. QED  BY <2>1 DEF ContinuationFollows
  <1>. QED  BY <1>1, PromisesHold, PTL

(***************************************************************************)
(* The trace log that the last worker saves holds the work that has run,   *)
(* all of it and nothing else.                                             *)
(***************************************************************************)
THEOREM TracelogIsCompleteHolds ==
  ASSUME ~MayUseParent, ~MayChainLate
  PROVE  Spec => []TracelogIsComplete
  <1>1. PInv => TracelogIsComplete
    <2>. SUFFICES ASSUME PInv, m_ShutdownComplete
                  PROVE  tracelog = {k \in Works : task[k].phase = "done"}
      BY DEF TracelogIsComplete
    <2>1. tracelog = UNION {m_Traces[w] : w \in Workers}
      BY DEF PInv, Closing, LogIsWhole, SavedTraces
    <2>2. \A w \in Workers : m_Traces[w] \subseteq Works
      BY DEF PInv, OInv, IInv, TypeOK
    <2>3. \A k \in Works : task[k].phase = "done" <=> \E w \in Workers : k \in m_Traces[w]
      BY DEF PInv, Promises, Traced
    <2>. QED  BY <2>1, <2>2, <2>3
  <1>. QED  BY <1>1, PromisesHold, PTL

(***************************************************************************)
(* When wait_for_shutdown returns, the workers have stopped, no work runs, *)
(* and no work that was scheduled before the shutdown is left in a queue.  *)
(***************************************************************************)
THEOREM ShutdownIsQuietHolds ==
  ASSUME ~MayUseParent, ~MayChainLate
  PROVE  Spec => []ShutdownIsQuiet
  <1>1. PInv => ShutdownIsQuiet
    <2>. SUFFICES ASSUME PInv, m_ShutdownComplete
                  PROVE  /\ \A w \in Workers : pc[w] = "stopped"
                         /\ \A k \in Works : /\ task[k].phase # "running"
                                             /\ task[k].phase = "queued" => ~task[k].early
      BY DEF ShutdownIsQuiet
    <2>1. \A w \in Workers : pc[w] = "stopped"
      BY DEF PInv, OInv, IInv, LastOneCompletes
    <2>2. \A k \in Works : task[k].phase # "running"
      BY <2>1 DEF PInv, Promises, RunningHasWorker
    <2>3. \A k \in Works : ~OnAQueue(k)
      BY <2>1 DEF OnAQueue, GlobalDrained, LocalDrained
    <2>4. \A k \in Works : task[k].phase = "queued" => ~task[k].early
      BY <2>3 DEF PInv, Closing, EarlyWorkIsQueued
    <2>. QED  BY <2>1, <2>2, <2>4
  <1>. QED  BY <1>1, PromisesHold, PTL

-----------------------------------------------------------------------------
(* The refinement of WorkPool, step by step. *)

(* The phases as WorkPool knows them. *)
LEMMA PoolMoves ==
  ASSUME PInv, NEW k \in Works, NEW to,
         \A l \in Works : /\ task'[l].phase = IF l = k THEN to ELSE task[l].phase
                          /\ task'[l].after = task[l].after
  PROVE  /\ Pool!Moves(k, task[k].phase, to)
         /\ [l \in Works |-> task[l].after]' = [l \in Works |-> task[l].after]
  BY DEF Pool!Moves

(* The count of WorkPool is that of the library. *)
LEMMA SameCardinality ==
  ASSUME NEW S
  PROVE  Pool!Cardinality(S) = Cardinality(S)
  BY DEF Pool!Cardinality, Cardinality

LEMMA StartIsAPoolStep ==
  ASSUME PInv, NEW w \in Workers, NEW j \in allocated, StartStep(w, j)
  PROVE  Pool!Next
  <1>1. PICK k : k = m_Work[j]
    OBVIOUS
  <1>2. /\ OInv /\ IInv /\ "running" \in Phases /\ task' = [task EXCEPT ![m_Work[j]].phase = "running"]
        /\ pc[w] \notin {"run", "stopped"} /\ FlagsStay
        /\ task[k].phase = "queued" \/ (task[k].phase = "waiting" /\ continuation[w] = j)
    BY <1>1 DEF PInv, OInv, StartStep, Start, Phases, Phase
  <1>3. /\ k \in Works
        /\ \A l \in Works : /\ task'[l].phase = IF l = k THEN "running" ELSE task[l].phase
                            /\ task'[l].after = task[l].after
    <2>1. /\ m_Work[j] \in Works
          /\ \A l \in Works :
               /\ task'[l].phase = IF l = m_Work[j] THEN "running" ELSE task[l].phase
               /\ task'[l].after = task[l].after /\ task'[l].early = task[l].early
      BY <1>1, <1>2, WorkOfStep
    <2>. QED  BY <1>1, <2>1
  <1>4. /\ Pool!Moves(k, task[k].phase, "running")
        /\ [l \in Works |-> task[l].after]' = [l \in Works |-> task[l].after]
    BY <1>3, PoolMoves
  <1>5. ~m_ShutdownComplete
    BY <1>2 DEF IInv, LastOneCompletes
  <1>6. Cardinality(Pool!Running) < NumWorkers
    <2>1. PICK f : f = [v \in Workers \ {w} |-> m_Work[l_CurrentJob[v]]]
      OBVIOUS
    <2>2. PICK S : S = {f[v] : v \in Workers \ {w}}
      OBVIOUS
    <2>3. Pool!Running \subseteq S
      <3>. SUFFICES ASSUME NEW l \in Works, task[l].phase = "running" PROVE l \in S
        BY DEF Pool!Running
      <3>1. PICK v \in Workers : pc[v] = "run" /\ m_Work[l_CurrentJob[v]] = l
        BY DEF PInv, Promises, RunningHasWorker
      <3>. QED  BY <1>2, <2>1, <2>2, <3>1
    <2>4. IsFiniteSet(Workers \ {w}) /\ Cardinality(Workers \ {w}) = NumWorkers - 1
      BY WorkersAreFinite, FS_RemoveElement
    <2>5. IsFiniteSet(S) /\ Cardinality(S) <= Cardinality(Workers \ {w})
      <3>1. f \in Surjection(Workers \ {w}, S)
        BY <2>1, <2>2 DEF Surjection
      <3>. QED  BY <2>4, <3>1, FS_Surjection
    <2>6. IsFiniteSet(Pool!Running) /\ Cardinality(Pool!Running) <= Cardinality(S)
      BY <2>3, <2>5, FS_Subset
    <2>7. Cardinality(Pool!Running) \in Nat /\ Cardinality(S) \in Nat
      BY <2>5, <2>6, FS_CardinalityType
    <2>. QED  BY <2>4, <2>5, <2>6, <2>7, SystemAssumption
  <1>7. task[k].phase = "waiting" => task[k].after # NULL /\ task[k].after \in Works
                                     /\ task[task[k].after].phase = "done"
    <2>1. task[k].phase = "waiting" => continuation[w] # NULL /\ m_Work[continuation[w]] = k
      BY <1>1, <1>2, SystemAssumption DEF IInv, TypeOK
    <2>2. \A l \in Works : task[l].after \in Works \cup {NULL}
      BY <1>2 DEF IInv, TypeOK
    <2>. QED  BY <1>3, <2>1, <2>2 DEF PInv, Promises, ReadContinuations
  <1>8. Pool!Start(k)
    <2>1. UNCHANGED <<m_Shutdown, m_ShutdownComplete>>
      BY <1>2 DEF FlagsStay
    <2>2. CASE task[k].phase = "queued"
      BY <1>4, <1>5, <1>6, <2>1, <2>2, SameCardinality DEF Pool!Start
    <2>3. CASE task[k].phase = "waiting"
      <3>1. /\ [l \in Works |-> task[l].after][k] # NULL
            /\ [l \in Works |-> task[l].phase][[l \in Works |-> task[l].after][k]] = "done"
        BY <1>3, <1>7, <2>3
      <3>2. Pool!Moves(k, "waiting", "running")
        BY <1>4, <2>3
      <3>. QED  BY <1>4, <1>5, <1>6, <2>1, <3>1, <3>2, SameCardinality DEF Pool!Start
    <2>. QED  BY <1>2, <2>2, <2>3
  <1>. QED  BY <1>3, <1>8 DEF Pool!Next

LEMMA FinishIsAPoolStep ==
  ASSUME PInv, NEW w \in Workers, FinishWork(w)
  PROVE  Pool!Next
  <1>1. PICK j : j = l_CurrentJob[w]
    OBVIOUS
  <1>2. PICK k : k = m_Work[j]
    OBVIOUS
  <1>3. /\ OInv /\ "done" \in Phases /\ task' = [task EXCEPT ![m_Work[j]].phase = "done"]
        /\ j \in allocated /\ task[k].phase = "running" /\ FlagsStay
    BY <1>1, <1>2 DEF PInv, OInv, Ownership, WorkersOwn, InPhase, Phase, FinishWork, Phases, FlagsStay
  <1>4. /\ k \in Works
        /\ \A l \in Works : /\ task'[l].phase = IF l = k THEN "done" ELSE task[l].phase
                            /\ task'[l].after = task[l].after
    <2>1. /\ m_Work[j] \in Works
          /\ \A l \in Works :
               /\ task'[l].phase = IF l = m_Work[j] THEN "done" ELSE task[l].phase
               /\ task'[l].after = task[l].after /\ task'[l].early = task[l].early
      BY <1>2, <1>3, WorkOfStep
    <2>. QED  BY <1>2, <2>1
  <1>5. /\ Pool!Moves(k, task[k].phase, "done")
        /\ [l \in Works |-> task[l].after]' = [l \in Works |-> task[l].after]
    BY <1>4, PoolMoves
  <1>6. Pool!Finish(k)
    BY <1>3, <1>5 DEF Pool!Finish, FlagsStay
  <1>. QED  BY <1>4, <1>6 DEF Pool!Next

LEMMA DropIsAPoolStep ==
  ASSUME PInv, NEW j \in InPhase("queued"), DropStep(j)
  PROVE  Pool!Next
  <1>1. PICK k : k = m_Work[j]
    OBVIOUS
  <1>2. /\ OInv /\ m_Shutdown /\ Deallocate({j}) /\ UNCHANGED m_Work /\ FlagsStay
    BY DEF PInv, DropStep
  <1>3. /\ k \in Works /\ task[k].phase = "queued"
        /\ \A l \in Works : /\ task'[l].phase = IF l = k THEN "dropped" ELSE task[l].phase
                            /\ task'[l].after = task[l].after
    BY <1>1, <1>2, Dropped
  <1>4. /\ Pool!Moves(k, task[k].phase, "dropped")
        /\ [l \in Works |-> task[l].after]' = [l \in Works |-> task[l].after]
    BY <1>3, PoolMoves
  <1>5. Pool!Drop(k)
    BY <1>2, <1>3, <1>4 DEF Pool!Drop, FlagsStay
  <1>. QED  BY <1>3, <1>5 DEF Pool!Next

LEMMA CreationIsAPoolStep ==
  ASSUME PInv, NEW t \in Threads, NEW j \in Jobs, NEW thread_index \in Pins, NEW record \in Task,
         NEW h \in Jobs, CreationStep(t, j, thread_index, record, h)
  PROVE  Pool!Next
  <1>1. PICK k : k = NewWork
    OBVIOUS
  <1>2. /\ OInv /\ FlagsStay
        /\ \A l \in Works : task[l].phase \in Phases /\ task[l].after \in Works \cup {NULL}
        /\ \A l \in Works : task[l].phase = "unused" => task[l].after = NULL
    BY DEF PInv, OInv, IInv, TypeOK, CreationStep, Promises, ChainsAreSound
  <1>3. /\ k \in Works /\ task[k].phase = "unused"
        /\ \A l \in Works : task'[l] = IF l = k THEN record ELSE task[l]
    BY <1>1, <1>2, Creation
  <1>4. [l \in Works |-> task[l].phase]' = [[l \in Works |-> task[l].phase] EXCEPT ![k] = record.phase]
    BY <1>3
  <1>5. Pool!Moves(k, "unused", record.phase)
    BY <1>3, <1>4 DEF Pool!Moves
  <1>6. CASE record.phase = "queued" /\ record.after = NULL
    <2>1. [l \in Works |-> task[l].after]' = [l \in Works |-> task[l].after]
      BY <1>2, <1>3, <1>6
    <2>2. Pool!Submit(k)
      BY <1>2, <1>5, <1>6, <2>1 DEF Pool!Submit, FlagsStay
    <2>. QED  BY <1>3, <2>2 DEF Pool!Next
  <1>7. CASE record.phase = "waiting" /\ handle[t] # NULL /\ ~Over(handle[t]) /\ record.after = handle[t].work
    <2>1. PICK before : before = handle[t].work
      OBVIOUS
    <2>2. before \in Works
      BY <1>2, <1>7, <2>1 DEF OInv, IInv, TypeOK
    <2>3. task[before].phase \in {"queued", "waiting", "running"}
      BY <1>2, <1>7, <2>1, <2>2 DEF OInv, Ownership, HandlesOwn, Over, Phases
    <2>4. \A other \in Works : task[other].after # before
      BY <1>7, <2>1 DEF PInv, Promises, HandlesAreLast
    <2>5. [l \in Works |-> task[l].after]' = [[l \in Works |-> task[l].after] EXCEPT ![k] = before]
      BY <1>3, <1>7, <2>1
    <2>6. Pool!Chain(k, before)
      BY <1>2, <1>5, <1>7, <2>2, <2>3, <2>4, <2>5 DEF Pool!Chain, FlagsStay
    <2>. QED  BY <1>3, <2>2, <2>6 DEF Pool!Next
  <1>. QED  BY <1>6, <1>7 DEF CreationStep

LEMMA QuietIsAPoolStep ==
  ASSUME PInv, QuietStep
  PROVE  [Pool!Next]_(Pool!vars)
  <1>1. UNCHANGED <<[l \in Works |-> task[l].phase], [l \in Works |-> task[l].after]>>
    BY DEF QuietStep, QuietMove
  <1>2. CASE FlagsStay
    BY <1>1, <1>2 DEF FlagsStay, Pool!vars
  <1>3. CASE m_Shutdown' = TRUE /\ UNCHANGED m_ShutdownComplete
    <2>1. Pool!Close
      BY <1>1, <1>3 DEF Pool!Close
    <2>. QED  BY <2>1 DEF Pool!Next
  <1>4. ASSUME NEW w \in Workers, CompleteShutdown(w) PROVE Pool!Complete
    <2>1. m_Shutdown /\ m_ShutdownComplete' = TRUE /\ m_Shutdown' = m_Shutdown
      BY <1>4 DEF PInv, Closing, ShutdownWasCalled, GlobalDrained, CompleteShutdown
    <2>2. \A v \in Workers : pc[v] # "run"
      BY <1>4 DEF PInv, OInv, IInv, LastOneCompletes, CompleteShutdown
    <2>3. Pool!Running = {}
      BY <2>2 DEF PInv, Promises, RunningHasWorker, Pool!Running
    <2>. QED  BY <1>1, <2>1, <2>3 DEF Pool!Complete
  <1>. QED  BY <1>2, <1>3, <1>4 DEF QuietStep, Pool!Next

(***************************************************************************)
(* The pool implements WorkPool: work that is submitted is started once, a *)
(* continuation after the work that it continues, by at most NumWorkers    *)
(* workers at a time, none once wait_for_shutdown has returned, and only a *)
(* shutdown drops work, and never work that was started.                   *)
(***************************************************************************)
THEOREM WorkPoolIsImplemented ==
  ASSUME ~MayUseParent, ~MayChainLate
  PROVE  Spec => ImplementsWorkPool
  <1>1. Init => Pool!Init
    BY DEF Init, Pool!Init
  <1>2. PInv /\ [Next]_vars => [Pool!Next]_(Pool!vars)
    <2>. SUFFICES ASSUME PInv, [Next]_vars PROVE [Pool!Next]_(Pool!vars)
      OBVIOUS
    <2>1. AnyStep
      BY NextIsAStep
    <2>. QED  BY <2>1, QuietIsAPoolStep, StartIsAPoolStep, FinishIsAPoolStep, DropIsAPoolStep,
                 CreationIsAPoolStep DEF AnyStep
  <1>. QED  BY <1>1, <1>2, PromisesHold, PTL DEF Spec, ImplementsWorkPool, Pool!Spec

-----------------------------------------------------------------------------
(* Job::wait(). *)

(* Only its own calls move a client ... *)
LEMMA ClientMoves ==
  ASSUME IInv, Next, NEW c \in Clients, pc'[c] # pc[c], pc[c] \in ClientLabels
  PROVE  Wait(c) \/ WaitEnds(c)
  <1>1. c \in Threads /\ c \notin Workers
    BY ThreadsAreDisjoint
  <1>2. ASSUME NEW t \in Threads, Call(t) PROVE FALSE
    <2>1. NotifyOne \/ UNCHANGED pc
      BY <1>2 DEF Call, Schedule, Then, Shutdown
    <2>2. pc'[c] = pc[c] \/ pc[c] = "wait"
      BY <1>1, <2>1, NotifyOneControl
    <2>. QED  BY <2>2 DEF ClientLabels
  <1>3. ASSUME NEW d \in Clients, Wait(d) \/ WaitEnds(d) PROVE Wait(c) \/ WaitEnds(c)
    <2>1. PICK label : Goto(d, label)
      BY <1>3 DEF Wait, WaitEnds
    <2>2. d = c
      BY <1>1, <2>1 DEF IInv, TypeOK, Goto
    <2>. QED  BY <1>3, <2>2
  <1>4. ASSUME NEW w \in Workers, WorkerStep(w) \/ FinishWork(w) PROVE FALSE
    <2>1. UNCHANGED pc \/ \E label : Goto(w, label)
      BY <1>4 DEF WorkerStep, FinishWork, Loop, PopLocal, PopGlobal, Steal, JobCompleted,
         TurnToContinuation, Start, Idle, Awake, DrainGlobal, DrainLocal, Exit, CompleteShutdown
    <2>. QED  BY <1>1, <2>1 DEF IInv, TypeOK, Goto
  <1>. QED  BY <1>2, <1>3, <1>4 DEF Next

(* ... and while it waits it keeps the handle that it waits for. *)
LEMMA WaiterKeepsHandle ==
  ASSUME IInv, Next, NEW c \in Clients, pc[c] = "waitJob"
  PROVE  handle'[c] = handle[c]
  <1>1. c \in Threads /\ c \notin Workers
    BY ThreadsAreDisjoint
  <1>2. ASSUME NEW t \in Threads, Call(t) PROVE handle'[c] = handle[c]
    <2>1. t # c
      BY <1>1, <1>2 DEF Call, Schedule, Then, Shutdown, MayCall
    <2>2. UNCHANGED handle \/ \E h : handle' = [handle EXCEPT ![t] = h]
      BY <1>2 DEF Call, Schedule, Then, Shutdown
    <2>. QED  BY <1>1, <2>1, <2>2 DEF IInv, TypeOK
  <1>3. ASSUME NEW w \in Workers, FinishWork(w) PROVE handle'[c] = handle[c]
    BY <1>1, <1>3 DEF FinishWork, IInv, TypeOK
  <1>4. ASSUME NEW w \in Workers, WorkerStep(w) PROVE handle'[c] = handle[c]
    BY <1>4 DEF WorkerStep, Loop, PopLocal, PopGlobal, Steal, JobCompleted,
       Idle, Awake, DrainGlobal, DrainLocal, Exit, CompleteShutdown
  <1>5. ASSUME NEW d \in Clients, Wait(d) \/ WaitEnds(d) PROVE handle'[c] = handle[c]
    BY <1>5 DEF Wait, WaitEnds
  <1>. QED  BY <1>2, <1>3, <1>4, <1>5 DEF Next

Waiters == \A c \in Clients : pc[c] = "waitJob" => handle[c] # NULL

LEMMA WaitersHaveHandles == Spec => []Waiters
  <1>1. Init => Waiters
    BY ThreadsAreDisjoint DEF Init, Waiters
  <1>2. ASSUME IInv, Waiters, [Next]_vars PROVE Waiters'
    <2>1. CASE UNCHANGED vars
      BY <1>2, <2>1 DEF vars, Waiters
    <2>2. ASSUME Next, NEW c \in Clients, pc'[c] = "waitJob" PROVE handle'[c] # NULL
      <3>1. CASE pc[c] = "waitJob"
        BY <1>2, <2>2, <3>1, WaiterKeepsHandle DEF Waiters
      <3>2. CASE pc[c] # "waitJob"
        <4>1. pc[c] \in ClientLabels
          BY <1>2 DEF IInv, LabelsOK
        <4>2. Wait(c) \/ WaitEnds(c)
          BY <1>2, <2>2, <3>2, <4>1, ClientMoves
        <4>3. pc'[c] = "waitJob" /\ c \in Threads /\ DOMAIN pc = Threads
          BY <1>2, <2>2, ThreadsAreDisjoint DEF IInv, TypeOK
        <4>4. handle[c] # NULL /\ UNCHANGED handle
          BY <4>2, <4>3 DEF Wait, WaitEnds, Goto
        <4>. QED  BY <4>4
      <3>. QED  BY <3>1, <3>2
    <2>. QED  BY <1>2, <2>1, <2>2 DEF Waiters
  <1>. QED  BY <1>1, <1>2, Inductive, PTL DEF Spec

(***************************************************************************)
(* Job::wait() returns only when the work that the caller waits for is     *)
(* done, if nobody shuts the system down: a shutdown frees queued jobs,    *)
(* and their memory may be another job's when wait() reads the count.      *)
(***************************************************************************)
THEOREM WaitMeansDoneHolds ==
  ASSUME ~MayUseParent, ~MayChainLate, ~MayShutdown
  PROVE  Spec => WaitMeansDone
  <1>1. ASSUME PInv, Waiters, Next, NEW c \in Clients, pc[c] = "waitJob", pc'[c] = "ready"
        PROVE  task[handle[c].work].phase = "done"
    <2>1. c \in Threads /\ IInv /\ handle[c] # NULL
      BY ThreadsAreDisjoint, <1>1 DEF PInv, OInv, Waiters
    <2>2. handle[c].job \in Jobs /\ handle[c].work \in Works
      BY <2>1 DEF IInv, TypeOK
    <2>3. WaitEnds(c)
      BY <1>1, <2>1, ClientMoves DEF Wait, ClientLabels
    <2>4. m_NumChildren[handle[c].job] = 0
      BY <1>1, <2>3 DEF WaitEnds
    <2>5. Phase(handle[c].job) = "done"
      BY <1>1, <2>2, <2>4 DEF PInv, OInv, Ownership, NoParents
    <2>6. Over(handle[c])
      BY <1>1, <2>1, <2>5 DEF PInv, OInv, Ownership, HandlesOwn, Over, Phase
    <2>7. task[handle[c].work].phase # "dropped"
      BY <1>1, <2>2 DEF PInv, Closing, ShutdownWasCalled
    <2>. QED  BY <2>6, <2>7 DEF Over
  <1>2. PInv /\ Waiters /\ [Next]_vars =>
          [\A c \in Clients : pc[c] = "waitJob" /\ pc'[c] = "ready" =>
             task[handle[c].work].phase = "done"]_vars
    BY <1>1
  <1>. QED  BY <1>2, PromisesHold, WaitersHaveHandles, PTL DEF WaitMeansDone, Spec
=============================================================================
