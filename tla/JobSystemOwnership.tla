------------------------ MODULE JobSystemOwnership ------------------------
(***************************************************************************)
(* A job of the thread pool has one owner, for any number of workers,      *)
(* clients and jobs, when the callers pass no parent and chain only onto   *)
(* work that has not finished.                                             *)
(***************************************************************************)
EXTENDS JobSystemProofs

Phase(j) == task[m_Work[j]].phase

InPhase(p) == {j \in allocated : m_Work[j] # NULL /\ Phase(j) = p}

(* The jobs on the lists of F, a function to sequences, and that no job is on them twice. *)
Listed(F) == UNION {Elements(F[u]) : u \in DOMAIN F}

Apart(F) ==
  \A u, v \in DOMAIN F : \A i \in 1..Len(F[u]), k \in 1..Len(F[v]) :
    F[u][i] = F[v][k] => u = v /\ i = k

(* Nobody is a parent: the count of a job is 1 until it has completed. *)
NoParents ==
  \A j \in Jobs : /\ m_Parent[j] = NULL
                  /\ m_NumChildren[j] \in {0, 1}
                  /\ m_NumChildren[j] = 0 => /\ j \in Created /\ Phase(j) = "done"
                                             /\ j \notin Listed(completing)

(* A job that is in use stands for one piece of work, which is not over when it is freed. *)
WorkOfOneJob ==
  /\ allocated \subseteq Created
  /\ \A j, k \in Created : m_Work[j] = m_Work[k] => j = k
  /\ \A j \in Created : /\ Phase(j) # "unused"
                        /\ j \notin allocated => Phase(j) \in {"done", "dropped"}

QueuesOwn ==
  /\ Apart(m_GlobalQueues) /\ Apart(m_LocalQueues)
  /\ Listed(m_GlobalQueues) \cap Listed(m_LocalQueues) = {}
  /\ Listed(m_GlobalQueues) \subseteq InPhase("queued")
  /\ Listed(m_LocalQueues) \subseteq InPhase("queued")

BinsOwn ==
  /\ Apart(l_RecyclingBin) /\ Apart(l_GarbageBin) /\ Apart(completing)
  /\ Listed(l_RecyclingBin) \cap Listed(l_GarbageBin) = {}
  /\ Listed(l_RecyclingBin) \cap Listed(completing) = {}
  /\ Listed(l_GarbageBin) \cap Listed(completing) = {}
  /\ Listed(l_RecyclingBin) \subseteq InPhase("done")
  /\ Listed(l_GarbageBin) \subseteq InPhase("done")
  /\ Listed(completing) \subseteq InPhase("done")

WorkersOwn ==
  /\ \A w \in Workers : pc[w] = "run" => l_CurrentJob[w] \in InPhase("running")
  /\ \A v, w \in Workers :
       pc[v] = "run" /\ pc[w] = "run" /\ l_CurrentJob[v] = l_CurrentJob[w] => v = w
  /\ \A w \in Workers :
       completing[w] = IF pc[w] = "complete" THEN <<l_CurrentJob[w]>> ELSE <<>>
  /\ \A w \in Workers : continuation[w] # NULL => pc[w] = "complete"

ContinuationsOwn ==
  /\ \A w \in Workers : continuation[w] # NULL => continuation[w] \in InPhase("waiting")
  /\ \A v, w \in Workers : continuation[v] # NULL /\ continuation[v] = continuation[w] => v = w
  /\ \A k \in Jobs : Unfinished(k) /\ m_Continuation[k] # NULL =>
       /\ m_Continuation[k] \in InPhase("waiting")
       /\ \A w \in Workers : continuation[w] # m_Continuation[k]
  /\ \A k, l \in Jobs :
       Unfinished(k) /\ Unfinished(l) /\ m_Continuation[k] # NULL =>
         (m_Continuation[l] = m_Continuation[k] => k = l)

(* A handle to work that is not over leads to its job; no two threads have the same. *)
HandlesOwn ==
  \A t \in Threads : handle[t] # NULL =>
    /\ task[handle[t].work].phase # "unused"
    /\ ~Over(handle[t]) => /\ handle[t].job \in allocated
                           /\ m_Work[handle[t].job] = handle[t].work
                           /\ m_Continuation[handle[t].job] = NULL
    /\ \A u \in Threads \ {t} : handle[u] # NULL => handle[u].work # handle[t].work

Ownership ==
  /\ NoParents /\ WorkOfOneJob /\ QueuesOwn /\ BinsOwn /\ WorkersOwn
  /\ ContinuationsOwn /\ HandlesOwn

OInv == IInv /\ Ownership

USE DEF flags, queues, traces, fields, bins, search, running

-----------------------------------------------------------------------------
(* Families of lists. *)

LEMMA ListedAt ==
  ASSUME NEW F, NEW x
  PROVE  x \in Listed(F) <=> \E u \in DOMAIN F : \E i \in 1..Len(F[u]) : F[u][i] = x
  BY DEF Listed, Elements

LEMMA ApartSame ==
  ASSUME NEW F, Apart(F), NEW u \in DOMAIN F, NEW v \in DOMAIN F
  PROVE  \A i \in 1..Len(F[u]), k \in 1..Len(F[v]) : F[u][i] = F[v][k] => u = v /\ i = k
  <1>1. \A p, q \in DOMAIN F : \A i \in 1..Len(F[p]), k \in 1..Len(F[q]) :
          F[p][i] = F[q][k] => p = q /\ i = k
    BY DEF Apart
  <1>. QED  BY <1>1

(* The head is taken. *)
LEMMA TailApart ==
  ASSUME NEW I, NEW S, NEW F \in [I -> Seq(S)], NEW u \in I, F[u] # <<>>, Apart(F)
  PROVE  LET G == [F EXCEPT ![u] = Tail(F[u])]
         IN  /\ Apart(G) /\ Listed(G) \subseteq Listed(F)
             /\ Head(F[u]) \in Listed(F) /\ Head(F[u]) \notin Listed(G)
  <1>. DEFINE G == [F EXCEPT ![u] = Tail(F[u])]
  <1>1. /\ Head(F[u]) = F[u][1] /\ Len(F[u]) \in Nat \ {0}
        /\ Len(Tail(F[u])) = Len(F[u]) - 1
        /\ \A i \in 1..Len(Tail(F[u])) : Tail(F[u])[i] = F[u][i + 1]
    BY Popped
  <1>2. /\ DOMAIN G = I /\ DOMAIN F = I
        /\ G[u] = Tail(F[u])
        /\ \A v \in I \ {u} : G[v] = F[v]
    OBVIOUS
  <1>3. \A v \in I : \A i \in 1..Len(G[v]) :
          \E k \in 1..Len(F[v]) : /\ k = IF v = u THEN i + 1 ELSE i
                                  /\ G[v][i] = F[v][k]
    <2>. SUFFICES ASSUME NEW v \in I, NEW i \in 1..Len(G[v])
                  PROVE  \E k \in 1..Len(F[v]) : /\ k = IF v = u THEN i + 1 ELSE i
                                                 /\ G[v][i] = F[v][k]
      OBVIOUS
    <2>1. CASE v = u
      <3>1. i + 1 \in 1..Len(F[u]) /\ G[u][i] = F[u][i + 1]
        BY <1>1, <1>2, <2>1
      <3>. QED  BY <2>1, <3>1
    <2>2. CASE v # u
      BY <1>2, <2>2
    <2>. QED  BY <2>1, <2>2
  <1>. HIDE DEF G
  <1>4. Apart(G)
    <2>. SUFFICES ASSUME NEW v \in I, NEW w \in I, NEW i \in 1..Len(G[v]), NEW l \in 1..Len(G[w]),
                         G[v][i] = G[w][l]
                  PROVE  v = w /\ i = l
      BY <1>2 DEF Apart
    <2>1. PICK k \in 1..Len(F[v]) : k = (IF v = u THEN i + 1 ELSE i) /\ G[v][i] = F[v][k]
      BY <1>3
    <2>2. PICK m \in 1..Len(F[w]) : m = (IF w = u THEN l + 1 ELSE l) /\ G[w][l] = F[w][m]
      BY <1>3
    <2>3. v = w /\ k = m
      <3>1. F[v][k] = F[w][m]
        BY <2>1, <2>2
      <3>. QED  BY <1>2, <3>1, ApartSame
    <2>. QED  BY <2>1, <2>2, <2>3
  <1>5. Listed(G) \subseteq Listed(F)
    BY <1>2, <1>3, ListedAt
  <1>6. Head(F[u]) \in Listed(F)
    BY <1>1, <1>2, ListedAt
  <1>7. Head(F[u]) \notin Listed(G)
    <2>. SUFFICES ASSUME NEW x \in Listed(G), x = Head(F[u]) PROVE FALSE
      OBVIOUS
    <2>0. PICK v \in I : \E i \in 1..Len(G[v]) : G[v][i] = x
      BY <1>2, ListedAt
    <2>1. PICK i \in 1..Len(G[v]) : G[v][i] = F[u][1]
      BY <1>1, <2>0
    <2>2. PICK k \in 1..Len(F[v]) : k = (IF v = u THEN i + 1 ELSE i) /\ G[v][i] = F[v][k]
      BY <1>3
    <2>3. 1 \in 1..Len(F[u])
      BY <1>1
    <2>4. v = u /\ k = 1
      <3>1. F[v][k] = F[u][1]
        BY <2>1, <2>2
      <3>. QED  BY <1>2, <2>2, <2>3, <3>1, ApartSame
    <2>. QED  BY <2>2, <2>4
  <1>. QED  BY <1>4, <1>5, <1>6, <1>7 DEF G

(* A job is put at the end of a list. *)
LEMMA AppendApart ==
  ASSUME NEW I, NEW S, NEW F \in [I -> Seq(S)], NEW u \in I, NEW x \in S, Apart(F),
         x \notin Listed(F)
  PROVE  LET G == [F EXCEPT ![u] = Append(F[u], x)]
         IN  /\ Apart(G) /\ Listed(G) \subseteq Listed(F) \cup {x}
             /\ Listed(F) \subseteq Listed(G) /\ x \in Listed(G)
  <1>. DEFINE G == [F EXCEPT ![u] = Append(F[u], x)]
  <1>1. /\ Len(F[u]) \in Nat /\ Len(Append(F[u], x)) = Len(F[u]) + 1
        /\ \A i \in 1..(Len(F[u]) + 1) :
             Append(F[u], x)[i] = IF i = Len(F[u]) + 1 THEN x ELSE F[u][i]
    BY Appended
  <1>2. /\ DOMAIN G = I /\ DOMAIN F = I
        /\ G[u] = Append(F[u], x)
        /\ \A v \in I \ {u} : G[v] = F[v]
    OBVIOUS
  <1>. HIDE DEF G
  <1>3. \A v \in I : \A i \in 1..Len(G[v]) :
          \/ i \in 1..Len(F[v]) /\ G[v][i] = F[v][i]
          \/ v = u /\ i = Len(F[u]) + 1 /\ G[v][i] = x
    <2>. SUFFICES ASSUME NEW v \in I, NEW i \in 1..Len(G[v])
                  PROVE  \/ i \in 1..Len(F[v]) /\ G[v][i] = F[v][i]
                         \/ v = u /\ i = Len(F[u]) + 1 /\ G[v][i] = x
      OBVIOUS
    <2>1. CASE v = u
      BY <1>1, <1>2, <2>1
    <2>2. CASE v # u
      BY <1>2, <2>2
    <2>. QED  BY <2>1, <2>2
  <1>4. \A v \in I : \A i \in 1..Len(F[v]) : F[v][i] # x
    BY <1>2, ListedAt
  <1>5. Apart(G)
    <2>. SUFFICES ASSUME NEW v \in I, NEW w \in I, NEW i \in 1..Len(G[v]), NEW l \in 1..Len(G[w]),
                         G[v][i] = G[w][l]
                  PROVE  v = w /\ i = l
      BY <1>2 DEF Apart
    <2>1. CASE i \in 1..Len(F[v]) /\ G[v][i] = F[v][i] /\ l \in 1..Len(F[w]) /\ G[w][l] = F[w][l]
      <3>1. F[v][i] = F[w][l]
        BY <2>1
      <3>. QED  BY <1>2, <2>1, <3>1, ApartSame
    <2>2. CASE i \in 1..Len(F[v]) /\ G[v][i] = F[v][i] /\ G[w][l] = x
      BY <2>2, <1>4
    <2>3. CASE l \in 1..Len(F[w]) /\ G[w][l] = F[w][l] /\ G[v][i] = x
      BY <2>3, <1>4
    <2>. QED  BY <1>3, <2>1, <2>2, <2>3
  <1>6. /\ Listed(G) \subseteq Listed(F) \cup {x}
        /\ Listed(F) \subseteq Listed(G) /\ x \in Listed(G)
    <2>1. ASSUME NEW y \in Listed(G) PROVE y \in Listed(F) \cup {x}
      BY <1>2, <1>3, <2>1, ListedAt
    <2>2. ASSUME NEW y \in Listed(F) PROVE y \in Listed(G)
      <3>0. PICK v \in I : \E i \in 1..Len(F[v]) : F[v][i] = y
        BY <1>2, <2>2, ListedAt
      <3>1. PICK i \in 1..Len(F[v]) : F[v][i] = y
        BY <3>0
      <3>2. i \in 1..Len(G[v]) /\ G[v][i] = y
        <4>1. CASE v = u
          BY <1>1, <1>2, <3>1, <4>1
        <4>2. CASE v # u
          BY <1>2, <3>1, <4>2
        <4>. QED  BY <4>1, <4>2
      <3>. QED  BY <1>2, <3>2, ListedAt
    <2>3. x \in Listed(G)
      <3>1. Len(F[u]) + 1 \in 1..Len(G[u]) /\ G[u][Len(F[u]) + 1] = x
        BY <1>1, <1>2
      <3>. QED  BY <1>2, <3>1, ListedAt
    <2>. QED  BY <2>1, <2>2, <2>3
  <1>. QED  BY <1>5, <1>6 DEF G

(* A list is emptied. *)
LEMMA EmptiedApart ==
  ASSUME NEW I, NEW S, NEW F \in [I -> Seq(S)], NEW u \in I, Apart(F)
  PROVE  LET G == [F EXCEPT ![u] = <<>>]
         IN  /\ Apart(G) /\ Listed(G) \subseteq Listed(F)
             /\ \A x \in Elements(F[u]) : x \in Listed(F) /\ x \notin Listed(G)
  <1>. DEFINE G == [F EXCEPT ![u] = <<>>]
  <1>1. /\ DOMAIN G = I /\ DOMAIN F = I
        /\ G[u] = <<>> /\ Len(G[u]) = 0
        /\ \A v \in I \ {u} : G[v] = F[v]
    OBVIOUS
  <1>. HIDE DEF G
  <1>2. \A v \in I : \A i \in 1..Len(G[v]) : v # u /\ i \in 1..Len(F[v]) /\ G[v][i] = F[v][i]
    BY <1>1
  <1>3. Apart(G)
    BY <1>1, <1>2 DEF Apart
  <1>4. Listed(G) \subseteq Listed(F)
    BY <1>1, <1>2, ListedAt
  <1>5. ASSUME NEW x \in Elements(F[u]) PROVE x \in Listed(F) /\ x \notin Listed(G)
    <2>1. PICK i \in 1..Len(F[u]) : F[u][i] = x
      BY <1>5 DEF Elements
    <2>2. x \in Listed(F)
      BY <1>1, <2>1, ListedAt
    <2>3. ASSUME x \in Listed(G) PROVE FALSE
      <3>0. PICK v \in I : \E k \in 1..Len(G[v]) : G[v][k] = x
        BY <1>1, <2>3, ListedAt
      <3>1. PICK k \in 1..Len(G[v]) : G[v][k] = x
        BY <3>0
      <3>2. v # u /\ k \in 1..Len(F[v]) /\ F[v][k] = F[u][i]
        BY <1>2, <2>1, <3>1
      <3>. QED  BY <1>1, <3>2 DEF Apart
    <2>. QED  BY <2>2, <2>3
  <1>. QED  BY <1>3, <1>4, <1>5 DEF G

LEMMA AllEmpty ==
  ASSUME NEW I, NEW F, F = [u \in I |-> <<>>]
  PROVE  Apart(F) /\ Listed(F) = {}
  <1>1. DOMAIN F = I /\ \A u \in I : F[u] = <<>> /\ Len(F[u]) = 0
    OBVIOUS
  <1>2. \A x : x \notin Listed(F)
    BY <1>1, ListedAt
  <1>. QED  BY <1>1, <1>2 DEF Apart

-----------------------------------------------------------------------------
(* The initial states. *)
LEMMA InitOwns == Init => Ownership
  <1>. SUFFICES ASSUME Init PROVE Ownership
    OBVIOUS
  <1>1. NoParents
    BY DEF Init, NoParents
  <1>2. Created = {} /\ allocated = {}
    BY DEF Init, Created
  <1>3. WorkOfOneJob
    BY <1>2 DEF WorkOfOneJob
  <1>4. QueuesOwn
    <2>1. Apart(m_GlobalQueues) /\ Listed(m_GlobalQueues) = {}
      BY AllEmpty DEF Init
    <2>2. Apart(m_LocalQueues) /\ Listed(m_LocalQueues) = {}
      BY AllEmpty DEF Init
    <2>. QED  BY <2>1, <2>2 DEF QueuesOwn
  <1>5. BinsOwn
    <2>1. Apart(l_RecyclingBin) /\ Listed(l_RecyclingBin) = {}
      BY AllEmpty DEF Init
    <2>2. Apart(l_GarbageBin) /\ Listed(l_GarbageBin) = {}
      BY AllEmpty DEF Init
    <2>3. Apart(completing) /\ Listed(completing) = {}
      BY AllEmpty DEF Init
    <2>. QED  BY <2>1, <2>2, <2>3 DEF BinsOwn
  <1>6. WorkersOwn
    <2>1. \A w \in Workers : pc[w] = "loop" /\ completing[w] = <<>> /\ continuation[w] = NULL
      BY ThreadsAreDisjoint DEF Init
    <2>. QED  BY <2>1 DEF WorkersOwn
  <1>7. ContinuationsOwn
    <2>1. \A w \in Workers : continuation[w] = NULL
      BY DEF Init
    <2>2. \A k \in Jobs : ~Unfinished(k)
      BY <1>2 DEF Unfinished
    <2>. QED  BY <2>1, <2>2 DEF ContinuationsOwn
  <1>8. HandlesOwn
    BY DEF Init, HandlesOwn
  <1>. QED  BY <1>1, <1>3, <1>4, <1>5, <1>6, <1>7, <1>8 DEF Ownership

(* Steps that leave the jobs alone. *)
LEMMA QuietStepOwns ==
  ASSUME OInv, UNCHANGED <<queues, fields, allocated, bins, running, handle, task>>,
         \A w \in Workers : /\ pc'[w] = "run" <=> pc[w] = "run"
                            /\ pc'[w] = "complete" <=> pc[w] = "complete"
  PROVE  Ownership'
  <1>1. /\ Created' = Created
        /\ InPhase("queued")' = InPhase("queued") /\ InPhase("waiting")' = InPhase("waiting")
        /\ InPhase("running")' = InPhase("running") /\ InPhase("done")' = InPhase("done")
    BY DEF Created, InPhase, Phase
  <1>2. \A k : Unfinished(k)' <=> Unfinished(k)
    BY DEF Unfinished
  <1>3. NoParents' /\ WorkOfOneJob'
    <2>1. Listed(completing') = Listed(completing)
      OBVIOUS
    <2>. QED  BY <1>1, <2>1 DEF OInv, Ownership, NoParents, WorkOfOneJob, Phase
  <1>4. QueuesOwn' /\ BinsOwn'
    BY <1>1 DEF OInv, Ownership, QueuesOwn, BinsOwn
  <1>5. WorkersOwn'
    <2>1. \A w \in Workers : completing[w] = IF pc[w] = "complete" THEN <<l_CurrentJob[w]>> ELSE <<>>
      BY DEF OInv, Ownership, WorkersOwn
    <2>2. \A w \in Workers : completing'[w] = IF pc'[w] = "complete" THEN <<l_CurrentJob'[w]>> ELSE <<>>
      BY <2>1
    <2>. QED  BY <1>1, <2>2 DEF OInv, Ownership, WorkersOwn
  <1>6. ContinuationsOwn'
    BY <1>1, <1>2 DEF OInv, Ownership, ContinuationsOwn
  <1>7. HandlesOwn'
    BY DEF OInv, Ownership, HandlesOwn, Over
  <1>. QED  BY <1>3, <1>4, <1>5, <1>6, <1>7 DEF Ownership

(* The work of job j goes on to phase p. *)
LEMMA PhaseMoves ==
  ASSUME IInv, WorkOfOneJob, NEW j \in allocated, NEW p \in Phases \ {"unused"},
         task' = [task EXCEPT ![m_Work[j]].phase = p], UNCHANGED <<m_Work, allocated>>
  PROVE  /\ \A q : InPhase(q)' = IF q = p THEN InPhase(q) \cup {j} ELSE InPhase(q) \ {j}
         /\ WorkOfOneJob'
         /\ \A k \in Created : Phase(k)' = IF k = j THEN p ELSE Phase(k)
         /\ \A k : k # j => (Unfinished(k)' <=> Unfinished(k))
         /\ Unfinished(j)' <=> p \in {"waiting", "queued", "running"}
  <1>1. /\ task \in [Works -> Task] /\ allocated \subseteq Created /\ Created' = Created
        /\ m_Work[j] \in Works
        /\ \A k, l \in Created : m_Work[k] = m_Work[l] => k = l
    BY DEF IInv, TypeOK, Task, WorkOfOneJob, Created
  <1>2. \A k \in Created : /\ m_Work[k] \in Works /\ m_Work[k] # NULL
                           /\ Phase(k)' = IF k = j THEN p ELSE Phase(k)
    <2>1. \A l \in Works : task'[l].phase = IF l = m_Work[j] THEN p ELSE task[l].phase
      BY <1>1, PhaseChanges
    <2>2. \A k \in Created : m_Work[k] \in Works /\ m_Work[k] # NULL
      BY DEF IInv, TypeOK, Created
    <2>. QED  BY <1>1, <2>1, <2>2 DEF Phase
  <1>3. ASSUME NEW q PROVE InPhase(q)' = IF q = p THEN InPhase(q) \cup {j} ELSE InPhase(q) \ {j}
    BY <1>1, <1>2 DEF InPhase
  <1>4. WorkOfOneJob'
    BY <1>1, <1>2 DEF WorkOfOneJob
  <1>5. \A k \in allocated : task'[m_Work[k]].phase = IF k = j THEN p ELSE task[m_Work[k]].phase
    BY <1>1, <1>2 DEF Phase
  <1>6. \A k : k # j => (Unfinished(k)' <=> Unfinished(k))
    BY <1>5 DEF Unfinished
  <1>7. Unfinished(j)' <=> p \in {"waiting", "queued", "running"}
    BY <1>5 DEF Unfinished
  <1>. QED  BY <1>2, <1>3, <1>4, <1>6, <1>7

LEMMA HandlesStay ==
  ASSUME IInv, HandlesOwn, NEW j \in allocated, Unfinished(j), NEW p \in Phases \ {"unused"},
         task' = [task EXCEPT ![m_Work[j]].phase = p],
         UNCHANGED <<m_Work, allocated, m_Continuation>>,
         \A t \in Threads : handle'[t] = handle[t] \/ handle'[t] = NULL
  PROVE  HandlesOwn'
  <1>1. /\ task \in [Works -> Task]
        /\ \A t \in Threads : handle[t] # NULL => handle[t].work \in Works
    BY DEF IInv, TypeOK, Task
  <1>2. \A l \in Works : task'[l].phase = IF l = m_Work[j] THEN p ELSE task[l].phase
    BY <1>1, PhaseChanges
  <1>3. \A t \in Threads : handle'[t] # NULL =>
          /\ task'[handle[t].work].phase # "unused"
          /\ Over(handle[t]) => task'[handle[t].work].phase \in {"done", "dropped"}
    <2>1. task[m_Work[j]].phase \notin {"done", "dropped"}
      BY DEF Unfinished
    <2>. QED  BY <1>1, <1>2, <2>1 DEF Over, HandlesOwn
  <1>. QED  BY <1>3 DEF HandlesOwn, Over

(* Worker w starts job j of the queues. *)
LEMMA QueuedStartOwns ==
  ASSUME OInv, NEW w \in Workers, pc[w] \in {"local", "global", "steal"},
         NEW j \in InPhase("queued"), Start(w, j),
         Apart(m_GlobalQueues'), Apart(m_LocalQueues'),
         Listed(m_GlobalQueues') \subseteq Listed(m_GlobalQueues) \ {j},
         Listed(m_LocalQueues') \subseteq Listed(m_LocalQueues) \ {j},
         UNCHANGED <<fields, allocated, bins, continuation, completing, handle>>
  PROVE  Ownership'
  <1>1. /\ IInv /\ NoParents /\ WorkOfOneJob /\ QueuesOwn /\ BinsOwn /\ WorkersOwn
        /\ ContinuationsOwn /\ HandlesOwn
    BY DEF OInv, Ownership
  <1>2. /\ j \in allocated /\ j \in Created /\ Unfinished(j)
        /\ task' = [task EXCEPT ![m_Work[j]].phase = "running"]
        /\ "running" \in Phases \ {"unused"}
        /\ UNCHANGED <<m_Work, allocated, m_Continuation, handle>>
    BY <1>1 DEF InPhase, Unfinished, Phase, Start, Phases, WorkOfOneJob
  <1>3. /\ \A q : InPhase(q)' = IF q = "running" THEN InPhase(q) \cup {j} ELSE InPhase(q) \ {j}
        /\ WorkOfOneJob'
        /\ \A k \in Created : Phase(k)' = IF k = j THEN "running" ELSE Phase(k)
        /\ \A k : k # j => (Unfinished(k)' <=> Unfinished(k))
        /\ Unfinished(j)' <=> "running" \in {"waiting", "queued", "running"}
    BY <1>1, <1>2, PhaseMoves
  <1>4. /\ InPhase("queued")' = InPhase("queued") \ {j}
        /\ InPhase("waiting")' = InPhase("waiting") \ {j}
        /\ InPhase("running")' = InPhase("running") \cup {j}
        /\ InPhase("done")' = InPhase("done") \ {j}
        /\ \A k : Unfinished(k)' <=> Unfinished(k)
    BY <1>2, <1>3
  <1>5. j \notin InPhase("waiting") /\ j \notin InPhase("running") /\ j \notin InPhase("done")
    BY DEF InPhase
  <1>6. HandlesOwn'
    <2>1. \A t \in Threads : handle'[t] = handle[t]
      BY <1>2
    <2>. QED  BY <1>1, <1>2, <2>1, HandlesStay
  <1>7. NoParents'
    <2>1. Phase(j) # "done" /\ Created' = Created /\ Listed(completing') = Listed(completing)
      BY DEF InPhase, Created
    <2>. QED  BY <1>1, <1>3, <2>1 DEF NoParents
  <1>8. QueuesOwn'
    BY <1>1, <1>4 DEF QueuesOwn
  <1>9. BinsOwn'
    <2>1. InPhase("done")' = InPhase("done")
      BY <1>4, <1>5
    <2>. QED  BY <1>1, <2>1 DEF BinsOwn
  <1>10. ContinuationsOwn'
    <2>1. InPhase("waiting")' = InPhase("waiting")
      BY <1>4, <1>5
    <2>. QED  BY <1>1, <1>4, <2>1 DEF ContinuationsOwn
  <1>11. WorkersOwn'
    <2>1. /\ \A v \in Workers : l_CurrentJob'[v] = IF v = w THEN j ELSE l_CurrentJob[v]
          /\ \A v \in Workers : pc'[v] = IF v = w THEN "run" ELSE pc[v]
      BY <1>1, <1>2, Started DEF MovedTo
    <2>2. \A v \in Workers : pc[v] = "run" => l_CurrentJob[v] # j
      BY <1>1, <1>5 DEF WorkersOwn
    <2>3. \A v \in Workers : pc'[v] = "run" => l_CurrentJob'[v] \in InPhase("running")'
      BY <1>1, <1>4, <2>1 DEF WorkersOwn
    <2>4. \A u, v \in Workers :
            pc'[u] = "run" /\ pc'[v] = "run" /\ l_CurrentJob'[u] = l_CurrentJob'[v] => u = v
      BY <1>1, <2>1, <2>2 DEF WorkersOwn
    <2>5. \A v \in Workers : completing'[v] = IF pc'[v] = "complete" THEN <<l_CurrentJob'[v]>> ELSE <<>>
      <3>. SUFFICES ASSUME NEW v \in Workers
                    PROVE  completing'[v] = IF pc'[v] = "complete" THEN <<l_CurrentJob'[v]>> ELSE <<>>
        OBVIOUS
      <3>1. completing[v] = IF pc[v] = "complete" THEN <<l_CurrentJob[v]>> ELSE <<>>
        BY <1>1 DEF WorkersOwn
      <3>. QED  BY <2>1, <3>1
    <2>6. \A v \in Workers : continuation'[v] # NULL => pc'[v] = "complete"
      BY <1>1, <2>1 DEF WorkersOwn
    <2>. QED  BY <2>3, <2>4, <2>5, <2>6 DEF WorkersOwn
  <1>. QED  BY <1>3, <1>6, <1>7, <1>8, <1>9, <1>10, <1>11 DEF Ownership

LEMMA PopLocalOwns ==
  ASSUME OInv, NEW w \in Workers, PopLocal(w)
  PROVE  Ownership'
  <1>1. /\ IInv /\ QueuesOwn
        /\ m_LocalQueues \in [Workers -> Seq(Jobs)] /\ pc[w] = "local"
        /\ UNCHANGED <<fields, allocated, bins, continuation, completing, handle, m_GlobalQueues>>
    BY DEF OInv, Ownership, IInv, TypeOK, PopLocal
  <1>2. CASE m_LocalQueues[w] = <<>>
    <2>1. /\ Goto(w, "global") /\ "global" \in WorkerLabels \ {"last", "stopped"}
          /\ UNCHANGED <<m_LocalQueues, l_CurrentJob, task>>
      BY <1>2 DEF PopLocal, WorkerLabels
    <2>2. \A v \in Workers : pc'[v] = IF v = w THEN "global" ELSE pc[v]
      BY <1>1, <2>1, WorkerGoes DEF MovedTo
    <2>3. \A v \in Workers : /\ pc'[v] = "run" <=> pc[v] = "run"
                             /\ pc'[v] = "complete" <=> pc[v] = "complete"
      BY <1>1, <2>2
    <2>. QED  BY <1>1, <2>1, <2>3, QuietStepOwns
  <1>3. CASE m_LocalQueues[w] # <<>>
    <2>. DEFINE j == Head(m_LocalQueues[w])
    <2>1. /\ m_LocalQueues' = [m_LocalQueues EXCEPT ![w] = Tail(m_LocalQueues[w])]
          /\ Start(w, j)
      BY <1>3 DEF PopLocal
    <2>2. /\ Apart(m_LocalQueues') /\ Listed(m_LocalQueues') \subseteq Listed(m_LocalQueues)
          /\ j \in Listed(m_LocalQueues) /\ j \notin Listed(m_LocalQueues')
      BY <1>1, <1>3, <2>1, TailApart DEF QueuesOwn
    <2>. HIDE DEF j
    <2>3. /\ j \in InPhase("queued") /\ j \notin Listed(m_GlobalQueues)
          /\ Apart(m_GlobalQueues') /\ m_GlobalQueues' = m_GlobalQueues
      BY <1>1, <2>2 DEF QueuesOwn
    <2>. QED  BY <1>1, <2>1, <2>2, <2>3, QueuedStartOwns
  <1>. QED  BY <1>2, <1>3

(* Worker w takes a job of global queue i. *)
LEMMA GlobalStartOwns ==
  ASSUME OInv, NEW w \in Workers, NEW i \in Workers, m_GlobalQueues[i] # <<>>,
         pc[w] \in {"global", "steal"},
         m_GlobalQueues' = [m_GlobalQueues EXCEPT ![i] = Tail(m_GlobalQueues[i])],
         Start(w, Head(m_GlobalQueues[i])),
         UNCHANGED <<fields, allocated, bins, continuation, completing, handle, m_LocalQueues>>
  PROVE  Ownership'
  <1>. DEFINE j == Head(m_GlobalQueues[i])
  <1>1. QueuesOwn /\ m_GlobalQueues \in [Workers -> Seq(Jobs)] /\ Start(w, j)
    BY DEF OInv, Ownership, IInv, TypeOK
  <1>2. /\ Apart(m_GlobalQueues') /\ Listed(m_GlobalQueues') \subseteq Listed(m_GlobalQueues)
        /\ j \in Listed(m_GlobalQueues) /\ j \notin Listed(m_GlobalQueues')
    BY <1>1, TailApart DEF QueuesOwn
  <1>. HIDE DEF j
  <1>3. /\ j \in InPhase("queued") /\ j \notin Listed(m_LocalQueues)
        /\ Apart(m_LocalQueues') /\ m_LocalQueues' = m_LocalQueues
    BY <1>1, <1>2 DEF QueuesOwn
  <1>. QED  BY <1>1, <1>2, <1>3, QueuedStartOwns

(* The other steps of the search. *)
LEMMA SearchOwns ==
  ASSUME OInv, NEW w \in Workers, pc[w] \in {"global", "steal"},
         NEW label \in {"steal", "idle"}, Goto(w, label),
         UNCHANGED <<queues, fields, allocated, bins, running, handle, task>>
  PROVE  Ownership'
  <1>1. label \in WorkerLabels \ {"last", "stopped"} /\ IInv
    BY DEF WorkerLabels, OInv
  <1>2. \A v \in Workers : pc'[v] = IF v = w THEN label ELSE pc[v]
    BY <1>1, WorkerGoes DEF MovedTo
  <1>3. \A v \in Workers : /\ pc'[v] = "run" <=> pc[v] = "run"
                           /\ pc'[v] = "complete" <=> pc[v] = "complete"
    BY <1>2
  <1>. QED  BY <1>3, QuietStepOwns

LEMMA PopGlobalOwns ==
  ASSUME OInv, NEW w \in Workers, PopGlobal(w)
  PROVE  Ownership'
  <1>1. /\ pc[w] = "global"
        /\ UNCHANGED <<fields, allocated, bins, continuation, completing, handle, m_LocalQueues>>
    BY DEF PopGlobal
  <1>2. CASE m_GlobalQueues[w] = <<>>
    <2>1. Goto(w, "steal") /\ UNCHANGED <<m_GlobalQueues, l_CurrentJob, task>>
      BY <1>2 DEF PopGlobal
    <2>. QED  BY <1>1, <2>1, SearchOwns
  <1>3. CASE m_GlobalQueues[w] # <<>>
    <2>1. /\ m_GlobalQueues' = [m_GlobalQueues EXCEPT ![w] = Tail(m_GlobalQueues[w])]
          /\ Start(w, Head(m_GlobalQueues[w]))
      BY <1>3 DEF PopGlobal
    <2>. QED  BY <1>1, <1>3, <2>1, GlobalStartOwns
  <1>. QED  BY <1>2, <1>3

LEMMA StealOwns ==
  ASSUME OInv, NEW w \in Workers, Steal(w)
  PROVE  Ownership'
  <1>. DEFINE i == IF steal_from[w] + 1 >= m_NumThreads THEN 0 ELSE steal_from[w] + 1
              q == m_GlobalQueues[i]
  <1>1. /\ pc[w] = "steal" /\ IInv /\ steal_from[w] \in Workers
        /\ UNCHANGED <<fields, allocated, bins, continuation, completing, handle, m_LocalQueues>>
    BY DEF OInv, IInv, TypeOK, Steal
  <1>2. i \in Workers
    BY <1>1, NextWorker
  <1>3. \/ Goto(w, "idle") /\ UNCHANGED <<m_GlobalQueues, l_CurrentJob, task>>
        \/ UNCHANGED <<m_GlobalQueues, l_CurrentJob, task, pc>>
        \/ /\ q # <<>>
           /\ m_GlobalQueues' = [m_GlobalQueues EXCEPT ![i] = Tail(q)]
           /\ Start(w, Head(q))
    BY DEF Steal
  <1>. HIDE DEF i
  <1>4. CASE Goto(w, "idle") /\ UNCHANGED <<m_GlobalQueues, l_CurrentJob, task>>
    BY <1>1, <1>4, SearchOwns
  <1>5. CASE UNCHANGED <<m_GlobalQueues, l_CurrentJob, task, pc>>
    BY <1>1, <1>5, QuietStepOwns
  <1>6. CASE /\ q # <<>>
             /\ m_GlobalQueues' = [m_GlobalQueues EXCEPT ![i] = Tail(q)]
             /\ Start(w, Head(q))
    BY <1>1, <1>2, <1>6, GlobalStartOwns
  <1>. QED  BY <1>3, <1>4, <1>5, <1>6

LEMMA FinishWorkOwns ==
  ASSUME OInv, NEW w \in Workers, FinishWork(w)
  PROVE  Ownership'
  <1>0. PICK j : j = l_CurrentJob[w]
    OBVIOUS
  <1>1. /\ IInv /\ NoParents /\ WorkOfOneJob /\ QueuesOwn /\ BinsOwn /\ WorkersOwn
        /\ ContinuationsOwn /\ HandlesOwn /\ pc[w] = "run"
    BY DEF OInv, Ownership, FinishWork
  <1>2. /\ j \in InPhase("running") /\ j \in allocated /\ j \in Created /\ j \in Jobs
        /\ Unfinished(j) /\ m_Parent[j] = NULL /\ "done" \in Phases \ {"unused"}
    BY <1>0, <1>1 DEF WorkersOwn, WorkOfOneJob, InPhase, Unfinished, Phase, Created, NoParents, Phases
  <1>3. /\ continuation' = [continuation EXCEPT ![w] = m_Continuation[j]]
        /\ completing' = [completing EXCEPT ![w] = <<j>>]
        /\ task' = [task EXCEPT ![m_Work[j]].phase = "done"]
        /\ handle' = [handle EXCEPT ![w] = NULL]
        /\ Goto(w, "complete")
        /\ UNCHANGED <<m_Work, allocated>>
        /\ UNCHANGED <<m_Work, allocated, m_Continuation>>
        /\ UNCHANGED <<queues, m_NumChildren, m_Parent, bins, l_CurrentJob>>
    BY <1>0, <1>2 DEF FinishWork
  <1>4. /\ \A q : InPhase(q)' = IF q = "done" THEN InPhase(q) \cup {j} ELSE InPhase(q) \ {j}
        /\ WorkOfOneJob'
        /\ \A k \in Created : Phase(k)' = IF k = j THEN "done" ELSE Phase(k)
        /\ \A k : k # j => (Unfinished(k)' <=> Unfinished(k))
        /\ Unfinished(j)' <=> "done" \in {"waiting", "queued", "running"}
    BY <1>1, <1>2, <1>3, PhaseMoves
  <1>5. /\ InPhase("queued")' = InPhase("queued") \ {j}
        /\ InPhase("waiting")' = InPhase("waiting") \ {j}
        /\ InPhase("running")' = InPhase("running") \ {j}
        /\ InPhase("done")' = InPhase("done") \cup {j}
        /\ \A k : Unfinished(k)' => k # j /\ Unfinished(k)
    <2>1. ~Unfinished(j)'
      BY <1>4
    <2>2. \A k : Unfinished(k)' => k # j /\ Unfinished(k)
      BY <1>4, <2>1
    <2>. QED  BY <1>4, <2>2
  <1>6. j \notin InPhase("waiting") /\ j \notin InPhase("queued") /\ j \notin InPhase("done")
    BY <1>2 DEF InPhase
  <1>7. HandlesOwn'
    <2>1. \A t \in Threads : handle'[t] = handle[t] \/ handle'[t] = NULL
      BY <1>1, <1>3 DEF IInv, TypeOK
    <2>. QED  BY <1>1, <1>2, <1>3, <2>1, HandlesStay
  <1>9. QueuesOwn'
    <2>1. InPhase("queued")' = InPhase("queued")
      BY <1>5, <1>6
    <2>. QED  BY <1>1, <1>3, <2>1 DEF QueuesOwn
  <1>10. BinsOwn' /\ NoParents'
    <2>1. completing \in [Workers -> Seq(Jobs)] /\ completing[w] = <<>>
      BY <1>1 DEF IInv, TypeOK, WorkersOwn
    <2>2. completing' = [completing EXCEPT ![w] = Append(completing[w], j)]
      <3>1. Append(<<>>, j) = <<j>>
        OBVIOUS
      <3>. QED  BY <1>3, <2>1, <3>1
    <2>3. j \notin Listed(completing)
      BY <1>1, <1>6 DEF BinsOwn
    <2>4. Apart(completing') /\ Listed(completing') \subseteq Listed(completing) \cup {j}
      BY <1>1, <1>2, <2>1, <2>2, <2>3, AppendApart DEF BinsOwn
    <2>5. NoParents'
      <3>1. Phase(j) # "done" /\ Created' = Created
        BY <1>2, <1>3 DEF InPhase, Created
      <3>. QED  BY <1>1, <1>3, <1>4, <2>4, <3>1 DEF NoParents
    <2>. QED  BY <1>1, <1>3, <1>5, <1>6, <2>4, <2>5 DEF BinsOwn
  <1>11. \A v \in Workers : pc'[v] = IF v = w THEN "complete" ELSE pc[v]
    <2>1. "complete" \in WorkerLabels \ {"last", "stopped"}
      BY DEF WorkerLabels
    <2>. QED  BY <1>1, <1>3, <2>1, WorkerGoes DEF MovedTo
  <1>12. \A v \in Workers : continuation'[v] = IF v = w THEN m_Continuation[j] ELSE continuation[v]
    BY <1>1, <1>3 DEF IInv, TypeOK
  <1>13. ContinuationsOwn'
    <2>0. InPhase("waiting")' = InPhase("waiting")
      BY <1>5, <1>6
    <2>1. m_Continuation[j] # NULL => /\ m_Continuation[j] \in InPhase("waiting")
                                      /\ \A v \in Workers : continuation[v] # m_Continuation[j]
      BY <1>1, <1>2 DEF ContinuationsOwn
    <2>2. \A v \in Workers : continuation'[v] # NULL => continuation'[v] \in InPhase("waiting")'
      BY <1>1, <1>12, <2>0, <2>1 DEF ContinuationsOwn
    <2>3. \A u, v \in Workers : continuation'[u] # NULL /\ continuation'[u] = continuation'[v] => u = v
      BY <1>1, <1>12, <2>1 DEF ContinuationsOwn
    <2>4. \A k \in Jobs : Unfinished(k)' /\ m_Continuation'[k] # NULL =>
            /\ m_Continuation'[k] \in InPhase("waiting")'
            /\ \A v \in Workers : continuation'[v] # m_Continuation'[k]
      <3>. SUFFICES ASSUME NEW k \in Jobs, Unfinished(k)', m_Continuation[k] # NULL
                    PROVE  /\ m_Continuation[k] \in InPhase("waiting")
                           /\ \A v \in Workers : continuation'[v] # m_Continuation[k]
        BY <1>3, <2>0
      <3>1. k # j /\ Unfinished(k)
        BY <1>5
      <3>2. m_Continuation[k] # m_Continuation[j]
        BY <1>1, <1>2, <3>1 DEF ContinuationsOwn
      <3>. QED  BY <1>1, <1>12, <3>1, <3>2 DEF ContinuationsOwn
    <2>5. \A k, l \in Jobs :
            Unfinished(k)' /\ Unfinished(l)' /\ m_Continuation'[k] # NULL =>
              (m_Continuation'[l] = m_Continuation'[k] => k = l)
      BY <1>1, <1>3, <1>5 DEF ContinuationsOwn
    <2>. QED  BY <2>2, <2>3, <2>4, <2>5 DEF ContinuationsOwn
  <1>14. WorkersOwn'
    <2>1. \A v \in Workers : pc'[v] = "run" => pc[v] = "run" /\ v # w
      BY <1>11
    <2>2. \A v \in Workers : v # w /\ pc[v] = "run" => l_CurrentJob[v] # j
      BY <1>0, <1>1 DEF WorkersOwn
    <2>3. \A v \in Workers : pc'[v] = "run" => l_CurrentJob'[v] \in InPhase("running")'
      BY <1>1, <1>3, <1>5, <2>1, <2>2 DEF WorkersOwn
    <2>4. \A u, v \in Workers :
            pc'[u] = "run" /\ pc'[v] = "run" /\ l_CurrentJob'[u] = l_CurrentJob'[v] => u = v
      BY <1>1, <1>3, <2>1 DEF WorkersOwn
    <2>5. \A v \in Workers : completing'[v] = IF pc'[v] = "complete" THEN <<l_CurrentJob'[v]>> ELSE <<>>
      <3>. SUFFICES ASSUME NEW v \in Workers
                    PROVE  completing'[v] = IF pc'[v] = "complete" THEN <<l_CurrentJob'[v]>> ELSE <<>>
        OBVIOUS
      <3>1. completing[v] = IF pc[v] = "complete" THEN <<l_CurrentJob[v]>> ELSE <<>>
        BY <1>1 DEF WorkersOwn
      <3>2. completing'[v] = IF v = w THEN <<j>> ELSE completing[v]
        BY <1>1, <1>3 DEF IInv, TypeOK
      <3>. QED  BY <1>0, <1>3, <1>11, <3>1, <3>2
    <2>6. \A v \in Workers : continuation'[v] # NULL => pc'[v] = "complete"
      BY <1>1, <1>11, <1>12 DEF WorkersOwn
    <2>. QED  BY <2>3, <2>4, <2>5, <2>6 DEF WorkersOwn
  <1>. QED  BY <1>4, <1>7, <1>9, <1>10, <1>13, <1>14 DEF Ownership

(* One job is recycled: it goes to the end of one of the two bins. *)
LEMMA RecycleOne ==
  ASSUME IInv, NEW w \in Workers, NEW j \in Jobs, Recycle(w, <<j>>)
  PROVE  \/ /\ l_RecyclingBin' = [l_RecyclingBin EXCEPT ![w] = Append(l_RecyclingBin[w], j)]
            /\ l_GarbageBin' = l_GarbageBin
         \/ /\ l_RecyclingBin' = l_RecyclingBin
            /\ l_GarbageBin' = [l_GarbageBin EXCEPT ![w] = Append(l_GarbageBin[w], j)]
  <1>. DEFINE bin == l_RecyclingBin[w]
              garbage == l_GarbageBin[w]
              room == k_RecyclingCapacity + 1 - Len(bin)
              kept == IF Len(<<j>>) <= room THEN Len(<<j>>) ELSE room
  <1>1. /\ l_RecyclingBin \in [Threads -> Seq(Jobs)] /\ l_GarbageBin \in [Workers -> Seq(Jobs)]
        /\ bin \in Seq(Jobs) /\ garbage \in Seq(Jobs) /\ Len(bin) <= k_RecyclingCapacity + 1
    BY ThreadsAreDisjoint DEF IInv, TypeOK, BinsBounded
  <1>2. Len(<<j>>) = 1 /\ Len(bin) \in Nat
    BY <1>1
  <1>3. room \in Nat
    BY <1>1, <1>2, SystemAssumption
  <1>4. /\ SubSeq(<<j>>, 1, 1) = <<j>> /\ SubSeq(<<j>>, 2, 1) = <<>>
        /\ SubSeq(<<j>>, 1, 0) = <<>>
    <2>1. <<j>> \in Seq(Jobs) /\ Len(<<j>>) = 1
      OBVIOUS
    <2>2. SubSeq(<<j>>, 1, Len(<<j>>)) = <<j>>
      BY <2>1, SubSeqFull
    <2>3. SubSeq(<<j>>, 2, 1) = <<>> /\ SubSeq(<<j>>, 1, 0) = <<>>
      BY SubSeqEmpty
    <2>. QED  BY <2>1, <2>2, <2>3
  <1>5. /\ bin \o <<j>> = Append(bin, j) /\ bin \o <<>> = bin
        /\ garbage \o <<j>> = Append(garbage, j) /\ garbage \o <<>> = garbage
    BY <1>1, ConcatEmptySeq
  <1>6. /\ l_RecyclingBin' = [l_RecyclingBin EXCEPT ![w] = bin \o SubSeq(<<j>>, 1, kept)]
        /\ l_GarbageBin' = [l_GarbageBin EXCEPT ![w] = garbage \o SubSeq(<<j>>, kept + 1, Len(<<j>>))]
    BY DEF Recycle
  <1>. HIDE DEF room
  <1>7. CASE 1 <= room
    <2>1. kept = 1 /\ kept + 1 = 2
      BY <1>2, <1>7
    <2>2. garbage \o SubSeq(<<j>>, kept + 1, Len(<<j>>)) = garbage
      BY <1>2, <1>4, <1>5, <2>1
    <2>3. bin \o SubSeq(<<j>>, 1, kept) = Append(bin, j)
      BY <1>4, <1>5, <2>1
    <2>4. [l_GarbageBin EXCEPT ![w] = garbage] = l_GarbageBin
      BY <1>1
    <2>. QED  BY <1>6, <2>2, <2>3, <2>4
  <1>8. CASE room = 0
    <2>1. kept = 0 /\ kept + 1 = 1
      BY <1>2, <1>8
    <2>2. garbage \o SubSeq(<<j>>, kept + 1, Len(<<j>>)) = Append(garbage, j)
      <3>1. SubSeq(<<j>>, kept + 1, Len(<<j>>)) = <<j>>
        BY <1>2, <1>4, <2>1
      <3>. QED  BY <1>5, <3>1
    <2>3. bin \o SubSeq(<<j>>, 1, kept) = bin
      <3>1. SubSeq(<<j>>, 1, kept) = <<>>
        BY <1>4, <2>1
      <3>. QED  BY <1>5, <3>1
    <2>4. [l_RecyclingBin EXCEPT ![w] = bin] = l_RecyclingBin
      BY <1>1
    <2>. QED  BY <1>6, <2>2, <2>3, <2>4
  <1>. QED  BY <1>3, <1>7, <1>8

(* Nobody is a parent, so what has completed is one job, and it is recycled. *)
LEMMA OneJobCompletes ==
  ASSUME OInv, NEW w \in Workers, JobCompleted(w), NEW j, j = l_CurrentJob[w]
  PROVE  /\ j \in InPhase("done") /\ j \in Jobs
         /\ m_NumChildren' = [m_NumChildren EXCEPT ![j] = 0]
         /\ completing' = [completing EXCEPT ![w] = <<>>]
         /\ continuation' = [continuation EXCEPT ![w] = NULL]
         /\ Recycle(w, <<j>>)
         /\ TurnToContinuation(w)
         /\ BinsOwn' <=> /\ Listed(l_RecyclingBin)' \subseteq InPhase("done")'
                         /\ Listed(l_GarbageBin)' \subseteq InPhase("done")'
                         /\ Listed(completing)' \subseteq InPhase("done")'
         /\ Listed(l_RecyclingBin)' \subseteq InPhase("done")
         /\ Listed(l_GarbageBin)' \subseteq InPhase("done")
         /\ Listed(completing)' \subseteq Listed(completing)
         /\ j \notin Listed(completing)'
  <1>1. /\ IInv /\ NoParents /\ BinsOwn /\ WorkersOwn /\ pc[w] = "complete"
        /\ completing \in [Workers -> Seq(Jobs)]
        /\ l_RecyclingBin \in [Threads -> Seq(Jobs)] /\ l_GarbageBin \in [Workers -> Seq(Jobs)]
        /\ m_NumChildren \in [Jobs -> 0..(UInt32 - 1)]
        /\ w \in Threads
    BY ThreadsAreDisjoint DEF OInv, Ownership, IInv, TypeOK, JobCompleted
  <1>2. completing[w] = <<j>>
    BY <1>1 DEF WorkersOwn
  <1>3. Len(<<j>>) = 1 /\ <<j>>[1] = j /\ j \in Elements(<<j>>)
    BY DEF Elements
  <1>4. /\ Apart(completing) /\ Listed(completing) \subseteq InPhase("done")
        /\ Listed(l_RecyclingBin) \cap Listed(completing) = {}
        /\ Listed(l_GarbageBin) \cap Listed(completing) = {}
        /\ Listed(l_RecyclingBin) \cap Listed(l_GarbageBin) = {}
        /\ Apart(l_RecyclingBin) /\ Apart(l_GarbageBin)
        /\ Listed(l_RecyclingBin) \subseteq InPhase("done")
        /\ Listed(l_GarbageBin) \subseteq InPhase("done")
    BY <1>1 DEF BinsOwn
  <1>5. j \in Listed(completing)
    <2>1. \A x \in Elements(completing[w]) : x \in Listed(completing)
      BY <1>1 DEF Listed
    <2>. QED  BY <1>2, <1>3, <2>1
  <1>6. j \in InPhase("done") /\ j \in Jobs
    BY <1>1, <1>4, <1>5 DEF InPhase, IInv, TypeOK
  <1>7. m_NumChildren[j] = 1 /\ m_Parent[j] = NULL
    BY <1>1, <1>5, <1>6 DEF NoParents
  <1>8. /\ m_NumChildren' = [m_NumChildren EXCEPT ![j] = 0]
        /\ completing' = [completing EXCEPT ![w] = <<>>]
        /\ continuation' = [continuation EXCEPT ![w] = NULL]
        /\ TurnToContinuation(w)
        /\ Recycle(w, Reversed(<<j>>))
    <2>1. completing[w][Len(completing[w])] = j
      BY <1>2, <1>3
    <2>2. (m_NumChildren[j] - 1) % UInt32 = 0
      <3>1. 0 % UInt32 = 0
        BY SystemAssumption
      <3>. QED  BY <1>7, <3>1
    <2>3. m_NumChildren[j] <= 1
      BY <1>7
    <2>. QED  BY <1>2, <1>7, <2>1, <2>2, <2>3 DEF JobCompleted
  <1>9. Recycle(w, <<j>>)
    <2>1. Reversed(<<j>>) = <<j>>
      BY <1>3 DEF Reversed
    <2>. QED  BY <1>8, <2>1
  <1>10. /\ Apart(completing') /\ Listed(completing') \subseteq Listed(completing)
         /\ j \notin Listed(completing')
    BY <1>1, <1>2, <1>3, <1>4, <1>8, EmptiedApart
  <1>11. /\ Apart(l_RecyclingBin') /\ Apart(l_GarbageBin')
         /\ Listed(l_RecyclingBin') \cap Listed(l_GarbageBin') = {}
         /\ Listed(l_RecyclingBin') \subseteq Listed(l_RecyclingBin) \cup {j}
         /\ Listed(l_GarbageBin') \subseteq Listed(l_GarbageBin) \cup {j}
    <2>1. j \notin Listed(l_RecyclingBin) /\ j \notin Listed(l_GarbageBin)
      BY <1>4, <1>5
    <2>2. CASE /\ l_RecyclingBin' = [l_RecyclingBin EXCEPT ![w] = Append(l_RecyclingBin[w], j)]
               /\ l_GarbageBin' = l_GarbageBin
      <3>1. Apart(l_RecyclingBin') /\ Listed(l_RecyclingBin') \subseteq Listed(l_RecyclingBin) \cup {j}
        <4>1. /\ l_RecyclingBin \in [Threads -> Seq(Jobs)] /\ w \in Threads /\ j \in Jobs
              /\ Apart(l_RecyclingBin) /\ j \notin Listed(l_RecyclingBin)
          BY <1>1, <1>4, <1>6, <2>1
        <4>2. /\ Apart([l_RecyclingBin EXCEPT ![w] = Append(l_RecyclingBin[w], j)])
              /\ Listed([l_RecyclingBin EXCEPT ![w] = Append(l_RecyclingBin[w], j)]) \subseteq Listed(l_RecyclingBin) \cup {j}
          BY <4>1, AppendApart
        <4>. QED  BY <2>2, <4>2
      <3>. QED  BY <1>4, <2>1, <2>2, <3>1
    <2>3. CASE /\ l_RecyclingBin' = l_RecyclingBin
               /\ l_GarbageBin' = [l_GarbageBin EXCEPT ![w] = Append(l_GarbageBin[w], j)]
      <3>1. Apart(l_GarbageBin') /\ Listed(l_GarbageBin') \subseteq Listed(l_GarbageBin) \cup {j}
        <4>1. /\ l_GarbageBin \in [Workers -> Seq(Jobs)] /\ j \in Jobs
              /\ Apart(l_GarbageBin) /\ j \notin Listed(l_GarbageBin)
          BY <1>1, <1>4, <1>6, <2>1
        <4>2. /\ Apart([l_GarbageBin EXCEPT ![w] = Append(l_GarbageBin[w], j)])
              /\ Listed([l_GarbageBin EXCEPT ![w] = Append(l_GarbageBin[w], j)]) \subseteq Listed(l_GarbageBin) \cup {j}
          BY <4>1, AppendApart
        <4>. QED  BY <2>3, <4>2
      <3>. QED  BY <1>4, <2>1, <2>3, <3>1
    <2>. QED  BY <1>1, <1>6, <1>9, <2>2, <2>3, RecycleOne
  <1>12. /\ Listed(l_RecyclingBin') \cap Listed(completing') = {}
         /\ Listed(l_GarbageBin') \cap Listed(completing') = {}
    BY <1>4, <1>10, <1>11
  <1>13. BinsOwn' <=> /\ Listed(l_RecyclingBin)' \subseteq InPhase("done")'
                      /\ Listed(l_GarbageBin)' \subseteq InPhase("done")'
                      /\ Listed(completing)' \subseteq InPhase("done")'
    BY <1>10, <1>11, <1>12 DEF BinsOwn
  <1>14. /\ Listed(l_RecyclingBin') \subseteq InPhase("done")
         /\ Listed(l_GarbageBin') \subseteq InPhase("done")
    BY <1>4, <1>6, <1>11
  <1>. QED  BY <1>6, <1>8, <1>9, <1>10, <1>13, <1>14

LEMMA JobCompletedOwns ==
  ASSUME OInv, NEW w \in Workers, JobCompleted(w)
  PROVE  Ownership'
  <1>1. PICK j : j = l_CurrentJob[w]
    OBVIOUS
  <1>2. /\ j \in InPhase("done") /\ j \in Jobs
        /\ m_NumChildren' = [m_NumChildren EXCEPT ![j] = 0]
        /\ completing' = [completing EXCEPT ![w] = <<>>]
        /\ continuation' = [continuation EXCEPT ![w] = NULL]
        /\ TurnToContinuation(w)
        /\ BinsOwn' <=> /\ Listed(l_RecyclingBin)' \subseteq InPhase("done")'
                        /\ Listed(l_GarbageBin)' \subseteq InPhase("done")'
                        /\ Listed(completing)' \subseteq InPhase("done")'
        /\ Listed(l_RecyclingBin)' \subseteq InPhase("done")
        /\ Listed(l_GarbageBin)' \subseteq InPhase("done")
        /\ Listed(completing)' \subseteq Listed(completing)
        /\ j \notin Listed(completing)'
    BY <1>1, OneJobCompletes
  <1>3. /\ IInv /\ NoParents /\ WorkOfOneJob /\ QueuesOwn /\ BinsOwn /\ WorkersOwn
        /\ ContinuationsOwn /\ HandlesOwn /\ pc[w] = "complete"
        /\ m_NumChildren \in [Jobs -> 0..(UInt32 - 1)]
        /\ completing \in [Workers -> Seq(Jobs)]
        /\ continuation \in [Workers -> Jobs \cup {NULL}]
        /\ l_CurrentJob \in [Workers -> Jobs \cup {NULL}]
    BY DEF OInv, Ownership, IInv, TypeOK, JobCompleted
  <1>4. /\ UNCHANGED <<m_Work, allocated>>
        /\ UNCHANGED <<m_Work, allocated, m_Continuation>>
        /\ UNCHANGED <<queues, m_Parent, handle>>
        /\ Created' = Created
    BY DEF JobCompleted, Created
  <1>5. /\ \A k \in Jobs : m_NumChildren'[k] = IF k = j THEN 0 ELSE m_NumChildren[k]
        /\ \A v \in Workers : completing'[v] = IF v = w THEN <<>> ELSE completing[v]
        /\ \A v \in Workers : continuation'[v] = IF v = w THEN NULL ELSE continuation[v]
    BY <1>2, <1>3
  <1>6. j \in Created /\ Phase(j) = "done" /\ j \in allocated
    BY <1>2, <1>3 DEF InPhase, WorkOfOneJob
  <1>7. Listed(completing)' \subseteq InPhase("done")
    BY <1>2, <1>3 DEF BinsOwn
  <1>8. CASE continuation[w] = NULL
    <2>1. /\ l_CurrentJob' = [l_CurrentJob EXCEPT ![w] = NULL]
          /\ Goto(w, "idle") /\ UNCHANGED task
      BY <1>2, <1>8 DEF TurnToContinuation
    <2>2. \A v \in Workers : pc'[v] = IF v = w THEN "idle" ELSE pc[v]
      <3>1. "idle" \in WorkerLabels \ {"last", "stopped"}
        BY DEF WorkerLabels
      <3>. QED  BY <1>3, <2>1, <3>1, WorkerGoes DEF MovedTo
    <2>3. \A v \in Workers \ {w} : l_CurrentJob'[v] = l_CurrentJob[v]
      BY <1>3, <2>1
    <2>4. /\ \A q : InPhase(q)' = InPhase(q)
          /\ \A k : Phase(k)' = Phase(k)
          /\ \A k : Unfinished(k)' <=> Unfinished(k)
      BY <1>4, <2>1 DEF InPhase, Phase, Unfinished
    <2>5. NoParents'
      BY <1>2, <1>3, <1>4, <1>5, <1>6, <2>4 DEF NoParents
    <2>6. WorkOfOneJob'
      BY <1>3, <1>4, <2>4 DEF WorkOfOneJob
    <2>7. QueuesOwn' /\ BinsOwn'
      BY <1>2, <1>3, <1>4, <1>7, <2>4 DEF QueuesOwn
    <2>8. WorkersOwn'
      <3>1. \A v \in Workers : pc'[v] = "run" => pc[v] = "run" /\ v # w
        BY <2>2
      <3>2. \A v \in Workers : pc'[v] = "run" => l_CurrentJob'[v] \in InPhase("running")'
        BY <1>3, <2>3, <2>4, <3>1 DEF WorkersOwn
      <3>3. \A u, v \in Workers :
              pc'[u] = "run" /\ pc'[v] = "run" /\ l_CurrentJob'[u] = l_CurrentJob'[v] => u = v
        BY <1>3, <2>3, <3>1 DEF WorkersOwn
      <3>4. \A v \in Workers : completing'[v] = IF pc'[v] = "complete" THEN <<l_CurrentJob'[v]>> ELSE <<>>
        BY <1>3, <1>5, <2>2, <2>3 DEF WorkersOwn
      <3>5. \A v \in Workers : continuation'[v] # NULL => pc'[v] = "complete"
        BY <1>3, <1>5, <2>2 DEF WorkersOwn
      <3>. QED  BY <3>2, <3>3, <3>4, <3>5 DEF WorkersOwn
    <2>9. ContinuationsOwn'
      BY <1>3, <1>4, <1>5, <2>4 DEF ContinuationsOwn
    <2>10. HandlesOwn'
      BY <1>3, <1>4, <2>1 DEF HandlesOwn, Over
    <2>. QED  BY <2>5, <2>6, <2>7, <2>8, <2>9, <2>10 DEF Ownership
  <1>9. CASE continuation[w] # NULL
    <2>1. PICK c : c = continuation[w]
      OBVIOUS
    <2>2. Start(w, c) /\ task' = [task EXCEPT ![m_Work[c]].phase = "running"]
      BY <1>2, <1>9, <2>1 DEF TurnToContinuation, Start
    <2>3. /\ c \in InPhase("waiting") /\ c \in allocated /\ c \in Created /\ c # NULL
          /\ Unfinished(c) /\ "running" \in Phases \ {"unused"}
      BY <1>3, <1>9, <2>1 DEF ContinuationsOwn, InPhase, WorkOfOneJob, Unfinished, Phase, Phases
    <2>4. /\ \A v \in Workers : l_CurrentJob'[v] = IF v = w THEN c ELSE l_CurrentJob[v]
          /\ \A v \in Workers : pc'[v] = IF v = w THEN "run" ELSE pc[v]
      BY <1>3, <2>2, <2>3, Started DEF MovedTo
    <2>5. /\ \A q : InPhase(q)' = IF q = "running" THEN InPhase(q) \cup {c} ELSE InPhase(q) \ {c}
          /\ WorkOfOneJob'
          /\ \A k \in Created : Phase(k)' = IF k = c THEN "running" ELSE Phase(k)
          /\ \A k : k # c => (Unfinished(k)' <=> Unfinished(k))
          /\ Unfinished(c)' <=> "running" \in {"waiting", "queued", "running"}
      BY <1>3, <1>4, <2>2, <2>3, PhaseMoves
    <2>6. /\ InPhase("queued")' = InPhase("queued") \ {c}
          /\ InPhase("waiting")' = InPhase("waiting") \ {c}
          /\ InPhase("running")' = InPhase("running") \cup {c}
          /\ InPhase("done")' = InPhase("done") \ {c}
          /\ \A k : Unfinished(k)' <=> Unfinished(k)
      BY <2>3, <2>5
    <2>7. /\ c \notin InPhase("queued") /\ c \notin InPhase("running") /\ c \notin InPhase("done")
          /\ c # j
      BY <1>2, <2>3 DEF InPhase
    <2>8. NoParents'
      <3>1. Phase(c) = "waiting"
        BY <2>3 DEF InPhase
      <3>2. ASSUME NEW k \in Jobs, m_NumChildren'[k] = 0
            PROVE  k \in Created /\ Phase(k)' = "done" /\ k \notin Listed(completing)'
        <4>1. k \in Created /\ Phase(k) = "done" /\ k \notin Listed(completing)'
          BY <1>2, <1>3, <1>5, <1>6, <3>2 DEF NoParents
        <4>. QED  BY <2>5, <3>1, <4>1
      <3>3. \A k \in Jobs : m_Parent'[k] = NULL /\ m_NumChildren'[k] \in {0, 1}
        BY <1>3, <1>4, <1>5 DEF NoParents
      <3>. QED  BY <1>4, <3>2, <3>3 DEF NoParents
    <2>9. QueuesOwn' /\ BinsOwn'
      <3>1. InPhase("queued")' = InPhase("queued") /\ InPhase("done")' = InPhase("done")
        BY <2>6, <2>7
      <3>. QED  BY <1>2, <1>3, <1>4, <1>7, <3>1 DEF QueuesOwn
    <2>10. ContinuationsOwn'
      <3>1. \A v \in Workers \ {w} : continuation[v] # c
        BY <1>3, <1>9, <2>1 DEF ContinuationsOwn
      <3>2. \A k \in Jobs : Unfinished(k) /\ m_Continuation[k] # NULL => m_Continuation[k] # c
        BY <1>3, <2>1 DEF ContinuationsOwn
      <3>. QED  BY <1>3, <1>4, <1>5, <2>6, <3>1, <3>2 DEF ContinuationsOwn
    <2>11. HandlesOwn'
      <3>1. \A t \in Threads : handle'[t] = handle[t]
        BY <1>4
      <3>. QED  BY <1>3, <1>4, <2>2, <2>3, <3>1, HandlesStay
    <2>12. WorkersOwn'
      <3>1. \A v \in Workers : pc[v] = "run" => l_CurrentJob[v] # c
        BY <1>3, <2>7 DEF WorkersOwn
      <3>2. \A v \in Workers : pc'[v] = "run" => l_CurrentJob'[v] \in InPhase("running")'
        BY <1>3, <2>4, <2>6 DEF WorkersOwn
      <3>3. \A u, v \in Workers :
              pc'[u] = "run" /\ pc'[v] = "run" /\ l_CurrentJob'[u] = l_CurrentJob'[v] => u = v
        BY <1>3, <2>4, <3>1 DEF WorkersOwn
      <3>4. \A v \in Workers : completing'[v] = IF pc'[v] = "complete" THEN <<l_CurrentJob'[v]>> ELSE <<>>
        BY <1>3, <1>5, <2>4 DEF WorkersOwn
      <3>5. \A v \in Workers : continuation'[v] # NULL => pc'[v] = "complete"
        BY <1>3, <1>5, <2>4 DEF WorkersOwn
      <3>. QED  BY <3>2, <3>3, <3>4, <3>5 DEF WorkersOwn
    <2>. QED  BY <2>5, <2>8, <2>9, <2>10, <2>11, <2>12 DEF Ownership
  <1>. QED  BY <1>8, <1>9

(* The steps of a thread that touch no job. *)
LEMMA LoopOwns ==
  ASSUME OInv, NEW w \in Workers, Loop(w) \/ Awake(w)
  PROVE  Ownership'
  <1>1. /\ IInv /\ pc[w] \notin {"run", "complete", "last", "stopped"}
        /\ UNCHANGED <<queues, fields, allocated, bins, running, handle, task>>
    BY DEF OInv, Loop, Awake, WaitForReturns
  <1>2. PICK label \in {"drainGlobal", "local", "loop"} : Goto(w, label)
    BY DEF Loop, Awake
  <1>3. label \in WorkerLabels \ {"last", "stopped"}
    BY DEF WorkerLabels
  <1>4. \A v \in Workers : pc'[v] = IF v = w THEN label ELSE pc[v]
    BY <1>1, <1>2, <1>3, WorkerGoes DEF MovedTo
  <1>5. \A v \in Workers : /\ pc'[v] = "run" <=> pc[v] = "run"
                           /\ pc'[v] = "complete" <=> pc[v] = "complete"
    BY <1>1, <1>4
  <1>. QED  BY <1>1, <1>5, QuietStepOwns

LEMMA CompleteShutdownOwns ==
  ASSUME OInv, NEW w \in Workers, CompleteShutdown(w)
  PROVE  Ownership'
  <1>1. /\ pc \in [Threads -> WorkerLabels \cup {"ready", "waitJob", "waitShutdown"}]
        /\ pc[w] = "last" /\ pc' = [pc EXCEPT ![w] = "stopped"]
        /\ UNCHANGED <<queues, fields, allocated, bins, running, handle, task>>
    BY DEF OInv, IInv, TypeOK, CompleteShutdown, Goto
  <1>2. \A v \in Workers : pc'[v] = IF v = w THEN "stopped" ELSE pc[v]
    BY <1>1, ThreadsAreDisjoint
  <1>3. \A v \in Workers : /\ pc'[v] = "run" <=> pc[v] = "run"
                           /\ pc'[v] = "complete" <=> pc[v] = "complete"
    BY <1>1, <1>2
  <1>. QED  BY <1>1, <1>3, QuietStepOwns

LEMMA ClientStepOwns ==
  ASSUME OInv, NEW c \in Clients, Wait(c) \/ WaitEnds(c)
  PROVE  Ownership'
  <1>1. /\ pc \in [Threads -> WorkerLabels \cup {"ready", "waitJob", "waitShutdown"}]
        /\ \E label : pc' = [pc EXCEPT ![c] = label]
        /\ UNCHANGED <<queues, fields, allocated, bins, running, handle, task>>
    BY DEF OInv, IInv, TypeOK, Wait, WaitEnds, Goto
  <1>2. \A v \in Workers : pc'[v] = pc[v]
    BY <1>1, ThreadsAreDisjoint
  <1>. QED  BY <1>1, <1>2, QuietStepOwns

LEMMA ShutdownOwns ==
  ASSUME OInv, NEW t \in Threads, Shutdown(t)
  PROVE  Ownership'
  <1>1. UNCHANGED <<queues, fields, allocated, bins, running, handle, task, pc>>
    BY DEF Shutdown
  <1>. QED  BY <1>1, QuietStepOwns

(* A step of worker w that changes only the lists, and makes them shorter. *)
LEMMA ShorterListsOwn ==
  ASSUME OInv, NEW w \in Workers, pc[w] \notin {"run", "complete", "last", "stopped"},
         NEW label \in WorkerLabels \ {"run", "complete", "last", "stopped"}, Goto(w, label),
         UNCHANGED <<fields, allocated, running, handle, task>>,
         Apart(m_GlobalQueues)', Listed(m_GlobalQueues)' \subseteq Listed(m_GlobalQueues),
         Apart(m_LocalQueues)', Listed(m_LocalQueues)' \subseteq Listed(m_LocalQueues),
         Apart(l_GarbageBin)', Listed(l_GarbageBin)' \subseteq Listed(l_GarbageBin),
         UNCHANGED l_RecyclingBin
  PROVE  Ownership'
  <1>1. /\ IInv /\ NoParents /\ WorkOfOneJob /\ QueuesOwn /\ BinsOwn /\ WorkersOwn
        /\ ContinuationsOwn /\ HandlesOwn
    BY DEF OInv, Ownership
  <1>2. /\ \A q : InPhase(q)' = InPhase(q)
        /\ \A k : Phase(k)' = Phase(k)
        /\ \A k : Unfinished(k)' <=> Unfinished(k)
        /\ Created' = Created
        /\ Listed(completing)' = Listed(completing)
    BY DEF InPhase, Phase, Unfinished, Created
  <1>3. \A v \in Workers : /\ pc'[v] = "run" <=> pc[v] = "run"
                           /\ pc'[v] = "complete" <=> pc[v] = "complete"
    <2>1. \A v \in Workers : pc'[v] = IF v = w THEN label ELSE pc[v]
      BY <1>1, WorkerGoes DEF MovedTo
    <2>. QED  BY <2>1
  <1>4. NoParents' /\ WorkOfOneJob'
    BY <1>1, <1>2 DEF NoParents, WorkOfOneJob
  <1>5. QueuesOwn'
    BY <1>1, <1>2 DEF QueuesOwn
  <1>6. BinsOwn'
    BY <1>1, <1>2 DEF BinsOwn
  <1>7. WorkersOwn'
    <2>1. \A v \in Workers : completing'[v] = IF pc'[v] = "complete" THEN <<l_CurrentJob'[v]>> ELSE <<>>
      BY <1>1, <1>3 DEF WorkersOwn
    <2>. QED  BY <1>1, <1>2, <1>3, <2>1 DEF WorkersOwn
  <1>8. ContinuationsOwn'
    BY <1>1, <1>2 DEF ContinuationsOwn
  <1>9. HandlesOwn'
    BY <1>1 DEF HandlesOwn, Over
  <1>. QED  BY <1>4, <1>5, <1>6, <1>7, <1>8, <1>9 DEF Ownership

LEMMA IdleOwns ==
  ASSUME OInv, NEW w \in Workers, Idle(w)
  PROVE  Ownership'
  <1>1. /\ QueuesOwn /\ BinsOwn /\ l_GarbageBin \in [Workers -> Seq(Jobs)] /\ pc[w] = "idle"
        /\ UNCHANGED <<queues, fields, allocated, l_RecyclingBin, running, handle, task>>
    BY DEF OInv, Ownership, IInv, TypeOK, Idle
  <1>2. PICK label \in {"wait", "loop"} : Goto(w, label)
    BY DEF Idle
  <1>3. label \in WorkerLabels \ {"run", "complete", "last", "stopped"}
    BY DEF WorkerLabels
  <1>4. Apart(l_GarbageBin)' /\ Listed(l_GarbageBin)' \subseteq Listed(l_GarbageBin)
    <2>1. CASE l_GarbageBin' = [l_GarbageBin EXCEPT ![w] = <<>>]
      <3>1. Apart(l_GarbageBin)
        BY <1>1 DEF BinsOwn
      <3>2. /\ Apart([l_GarbageBin EXCEPT ![w] = <<>>])
            /\ Listed([l_GarbageBin EXCEPT ![w] = <<>>]) \subseteq Listed(l_GarbageBin)
        BY <1>1, <3>1, EmptiedApart
      <3>. QED  BY <2>1, <3>2
    <2>2. CASE l_GarbageBin' = l_GarbageBin
      BY <1>1, <2>2 DEF BinsOwn
    <2>. QED  BY <2>1, <2>2 DEF Idle
  <1>5. /\ Apart(m_GlobalQueues)' /\ Listed(m_GlobalQueues)' \subseteq Listed(m_GlobalQueues)
        /\ Apart(m_LocalQueues)' /\ Listed(m_LocalQueues)' \subseteq Listed(m_LocalQueues)
    BY <1>1 DEF QueuesOwn
  <1>. QED  BY <1>1, <1>2, <1>3, <1>4, <1>5, ShorterListsOwn

(* A job of a queue is thrown away. *)
LEMMA DropOwns ==
  ASSUME OInv, NEW j \in InPhase("queued"), Deallocate({j}),
         UNCHANGED <<pc, fields, bins, running, handle>>,
         Apart(m_GlobalQueues)', Listed(m_GlobalQueues)' \subseteq Listed(m_GlobalQueues) \ {j},
         Apart(m_LocalQueues)', Listed(m_LocalQueues)' \subseteq Listed(m_LocalQueues) \ {j}
  PROVE  Ownership'
  <1>1. /\ IInv /\ NoParents /\ WorkOfOneJob /\ QueuesOwn /\ BinsOwn /\ WorkersOwn
        /\ ContinuationsOwn /\ HandlesOwn /\ task \in [Works -> Task]
    BY DEF OInv, Ownership, IInv, TypeOK, Task
  <1>2. /\ j \in allocated /\ j \in Created /\ Phase(j) = "queued" /\ m_Work[j] \in Works
        /\ Created' = Created /\ allocated \subseteq Created
        /\ allocated' = allocated \ {j}
    BY <1>1 DEF InPhase, WorkOfOneJob, Created, IInv, TypeOK, Deallocate
  <1>3. \A k \in Works : task'[k].phase = IF k = m_Work[j] THEN "dropped" ELSE task[k].phase
    <2>1. {m_Work[i] : i \in {j}} = {m_Work[j]}
      OBVIOUS
    <2>2. \A k \in Works : task'[k] = IF k = m_Work[j] THEN [task[k] EXCEPT !.phase = "dropped"]
                                                       ELSE task[k]
      BY <2>1 DEF Deallocate
    <2>. QED  BY <1>1, <2>2 DEF Task
  <1>4. \A k \in Created : Phase(k)' = IF k = j THEN "dropped" ELSE Phase(k)
    <2>1. \A k \in Created : m_Work[k] \in Works
      BY <1>1 DEF Created, IInv, TypeOK
    <2>. QED  BY <1>1, <1>2, <1>3, <2>1 DEF Phase, WorkOfOneJob
  <1>5. \A q : InPhase(q)' = InPhase(q) \ {j}
    BY <1>2, <1>4 DEF InPhase
  <1>6. j \notin InPhase("waiting") /\ j \notin InPhase("running") /\ j \notin InPhase("done")
    BY <1>2 DEF InPhase
  <1>7. \A k : Unfinished(k)' => Unfinished(k) /\ k # j
    <2>1. \A k \in allocated \ {j} : task'[m_Work[k]].phase = task[m_Work[k]].phase
      BY <1>2, <1>4 DEF Phase
    <2>. QED  BY <1>2, <2>1 DEF Unfinished
  <1>8. NoParents'
    <2>1. Listed(completing)' = Listed(completing)
      OBVIOUS
    <2>. QED  BY <1>1, <1>2, <1>4, <2>1 DEF NoParents
  <1>9. WorkOfOneJob'
    BY <1>1, <1>2, <1>4 DEF WorkOfOneJob
  <1>10. QueuesOwn'
    BY <1>1, <1>5 DEF QueuesOwn
  <1>11. InPhase("done")' = InPhase("done") /\ InPhase("running")' = InPhase("running")
         /\ InPhase("waiting")' = InPhase("waiting")
    BY <1>5, <1>6
  <1>12. BinsOwn' /\ WorkersOwn'
    <2>1. BinsOwn'
      BY <1>1, <1>11 DEF BinsOwn
    <2>2. WorkersOwn'
      BY <1>1, <1>11 DEF WorkersOwn
    <2>. QED  BY <2>1, <2>2
  <1>13. ContinuationsOwn'
    BY <1>1, <1>7, <1>11 DEF ContinuationsOwn
  <1>14. HandlesOwn'
    <2>1. \A t \in Threads : handle[t] # NULL => handle[t].work \in Works
      BY <1>1 DEF IInv, TypeOK
    <2>2. \A t \in Threads : handle[t] # NULL =>
            /\ task'[handle[t].work].phase # "unused"
            /\ task'[handle[t].work].phase \notin {"done", "dropped"} =>
                 ~Over(handle[t]) /\ handle[t].work # m_Work[j]
      BY <1>1, <1>3, <2>1 DEF HandlesOwn, Over
    <2>. QED  BY <1>1, <1>2, <2>2 DEF HandlesOwn, Over
  <1>. QED  BY <1>8, <1>9, <1>10, <1>12, <1>13, <1>14 DEF Ownership

LEMMA DrainGlobalOwns ==
  ASSUME OInv, NEW w \in Workers, DrainGlobal(w)
  PROVE  Ownership'
  <1>1. /\ IInv /\ QueuesOwn /\ BinsOwn /\ m_GlobalQueues \in [Workers -> Seq(Jobs)]
        /\ Apart(m_GlobalQueues) /\ Apart(l_GarbageBin) /\ Apart(m_LocalQueues)
        /\ UNCHANGED <<m_LocalQueues, fields, bins, running, handle>>
    BY DEF OInv, Ownership, QueuesOwn, BinsOwn, IInv, TypeOK, DrainGlobal
  <1>2. /\ Apart(m_LocalQueues)' /\ Apart(l_GarbageBin)'
        /\ Listed(m_LocalQueues)' = Listed(m_LocalQueues)
        /\ Listed(l_GarbageBin)' = Listed(l_GarbageBin)
    BY <1>1
  <1>3. CASE /\ pc[w] = "drainGlobal" /\ m_GlobalQueues[w] # <<>>
             /\ Deallocate({Head(m_GlobalQueues[w])})
             /\ m_GlobalQueues' = [m_GlobalQueues EXCEPT ![w] = Tail(m_GlobalQueues[w])]
             /\ UNCHANGED pc
    <2>1. PICK j : j = Head(m_GlobalQueues[w])
      OBVIOUS
    <2>2. LET G == [m_GlobalQueues EXCEPT ![w] = Tail(m_GlobalQueues[w])]
          IN  /\ Apart(G) /\ Listed(G) \subseteq Listed(m_GlobalQueues)
              /\ Head(m_GlobalQueues[w]) \in Listed(m_GlobalQueues)
              /\ Head(m_GlobalQueues[w]) \notin Listed(G)
      BY <1>1, <1>3, TailApart
    <2>3. /\ Apart(m_GlobalQueues)' /\ Listed(m_GlobalQueues)' \subseteq Listed(m_GlobalQueues)
          /\ j \in Listed(m_GlobalQueues) /\ j \notin Listed(m_GlobalQueues)'
      BY <1>3, <2>1, <2>2
    <2>4. /\ j \in InPhase("queued") /\ j \notin Listed(m_LocalQueues)
          /\ Deallocate({j})
      BY <1>1, <1>3, <2>1, <2>3 DEF QueuesOwn
    <2>. QED  BY <1>1, <1>2, <1>3, <2>3, <2>4, DropOwns
  <1>4. CASE /\ pc[w] = "drainGlobal" /\ Goto(w, "clearGlobal")
             /\ UNCHANGED <<m_GlobalQueues, allocated, task>>
    <2>1. "clearGlobal" \in WorkerLabels \ {"run", "complete", "last", "stopped"}
      BY DEF WorkerLabels
    <2>. QED  BY <1>1, <1>2, <1>4, <2>1, ShorterListsOwn
  <1>5. CASE /\ pc[w] = "clearGlobal" /\ Goto(w, "drainLocal")
             /\ m_GlobalQueues' = [m_GlobalQueues EXCEPT ![w] = <<>>]
             /\ UNCHANGED <<allocated, task>>
    <2>1. "drainLocal" \in WorkerLabels \ {"run", "complete", "last", "stopped"}
      BY DEF WorkerLabels
    <2>2. /\ Apart([m_GlobalQueues EXCEPT ![w] = <<>>])
          /\ Listed([m_GlobalQueues EXCEPT ![w] = <<>>]) \subseteq Listed(m_GlobalQueues)
      BY <1>1, EmptiedApart
    <2>3. Apart(m_GlobalQueues)' /\ Listed(m_GlobalQueues)' \subseteq Listed(m_GlobalQueues)
      BY <1>5, <2>2
    <2>. QED  BY <1>1, <1>2, <1>5, <2>1, <2>3, ShorterListsOwn
  <1>. QED  BY <1>3, <1>4, <1>5 DEF DrainGlobal

LEMMA DrainLocalOwns ==
  ASSUME OInv, NEW w \in Workers, DrainLocal(w)
  PROVE  Ownership'
  <1>1. /\ IInv /\ QueuesOwn /\ BinsOwn /\ m_LocalQueues \in [Workers -> Seq(Jobs)]
        /\ Apart(m_GlobalQueues) /\ Apart(l_GarbageBin) /\ Apart(m_LocalQueues)
        /\ UNCHANGED <<m_GlobalQueues, fields, bins, running, handle>>
    BY DEF OInv, Ownership, QueuesOwn, BinsOwn, IInv, TypeOK, DrainLocal
  <1>2. /\ Apart(m_GlobalQueues)' /\ Apart(l_GarbageBin)'
        /\ Listed(m_GlobalQueues)' = Listed(m_GlobalQueues)
        /\ Listed(l_GarbageBin)' = Listed(l_GarbageBin)
    BY <1>1
  <1>3. CASE /\ pc[w] = "drainLocal" /\ m_LocalQueues[w] # <<>>
             /\ Deallocate({Head(m_LocalQueues[w])})
             /\ m_LocalQueues' = [m_LocalQueues EXCEPT ![w] = Tail(m_LocalQueues[w])]
             /\ UNCHANGED pc
    <2>1. PICK j : j = Head(m_LocalQueues[w])
      OBVIOUS
    <2>2. LET G == [m_LocalQueues EXCEPT ![w] = Tail(m_LocalQueues[w])]
          IN  /\ Apart(G) /\ Listed(G) \subseteq Listed(m_LocalQueues)
              /\ Head(m_LocalQueues[w]) \in Listed(m_LocalQueues)
              /\ Head(m_LocalQueues[w]) \notin Listed(G)
      BY <1>1, <1>3, TailApart
    <2>3. /\ Apart(m_LocalQueues)' /\ Listed(m_LocalQueues)' \subseteq Listed(m_LocalQueues)
          /\ j \in Listed(m_LocalQueues) /\ j \notin Listed(m_LocalQueues)'
      BY <1>3, <2>1, <2>2
    <2>4. /\ j \in InPhase("queued") /\ j \notin Listed(m_GlobalQueues)
          /\ Deallocate({j})
      BY <1>1, <1>3, <2>1, <2>3 DEF QueuesOwn
    <2>. QED  BY <1>1, <1>2, <1>3, <2>3, <2>4, DropOwns
  <1>4. CASE /\ pc[w] = "drainLocal" /\ Goto(w, "clearLocal")
             /\ UNCHANGED <<m_LocalQueues, allocated, task>>
    <2>1. "clearLocal" \in WorkerLabels \ {"run", "complete", "last", "stopped"}
      BY DEF WorkerLabels
    <2>. QED  BY <1>1, <1>2, <1>4, <2>1, ShorterListsOwn
  <1>5. CASE /\ pc[w] = "clearLocal" /\ Goto(w, "exit")
             /\ m_LocalQueues' = [m_LocalQueues EXCEPT ![w] = <<>>]
             /\ UNCHANGED <<allocated, task>>
    <2>1. "exit" \in WorkerLabels \ {"run", "complete", "last", "stopped"}
      BY DEF WorkerLabels
    <2>2. /\ Apart([m_LocalQueues EXCEPT ![w] = <<>>])
          /\ Listed([m_LocalQueues EXCEPT ![w] = <<>>]) \subseteq Listed(m_LocalQueues)
      BY <1>1, EmptiedApart
    <2>3. Apart(m_LocalQueues)' /\ Listed(m_LocalQueues)' \subseteq Listed(m_LocalQueues)
      BY <1>5, <2>2
    <2>. QED  BY <1>1, <1>2, <1>5, <2>1, <2>3, ShorterListsOwn
  <1>. QED  BY <1>3, <1>4, <1>5 DEF DrainLocal

(* Worker w frees the jobs of its bins. *)
LEMMA ExitOwns ==
  ASSUME OInv, NEW w \in Workers, Exit(w)
  PROVE  Ownership'
  <1>. DEFINE label == IF LastActive THEN "last" ELSE "stopped"
              D == Elements(l_RecyclingBin[w]) \cup Elements(l_GarbageBin[w])
  <1>1. /\ IInv /\ NoParents /\ WorkOfOneJob /\ QueuesOwn /\ BinsOwn /\ WorkersOwn
        /\ ContinuationsOwn /\ HandlesOwn
    BY DEF OInv, Ownership
  <1>2. /\ pc[w] = "exit" /\ pc' = [pc EXCEPT ![w] = label] /\ allocated' = allocated \ D
        /\ l_RecyclingBin' = [l_RecyclingBin EXCEPT ![w] = <<>>]
        /\ l_GarbageBin' = [l_GarbageBin EXCEPT ![w] = <<>>]
        /\ UNCHANGED <<queues, fields, running, handle, task>>
    BY DEF Exit, Goto
  <1>3. /\ pc \in [Threads -> WorkerLabels \cup {"ready", "waitJob", "waitShutdown"}]
        /\ l_RecyclingBin \in [Threads -> Seq(Jobs)] /\ l_GarbageBin \in [Workers -> Seq(Jobs)]
        /\ w \in Threads
    BY <1>1, ThreadsAreDisjoint DEF IInv, TypeOK
  <1>4. \A v \in Workers : /\ pc'[v] = "run" <=> pc[v] = "run"
                           /\ pc'[v] = "complete" <=> pc[v] = "complete"
    <2>1. \A v \in Workers : pc'[v] = IF v = w THEN label ELSE pc[v]
      BY <1>2, <1>3, ThreadsAreDisjoint
    <2>. QED  BY <1>2, <2>1
  <1>5. /\ Apart(l_RecyclingBin)' /\ Listed(l_RecyclingBin)' \subseteq Listed(l_RecyclingBin)
        /\ \A x \in Elements(l_RecyclingBin[w]) :
             x \in Listed(l_RecyclingBin) /\ x \notin Listed(l_RecyclingBin)'
    <2>1. Apart(l_RecyclingBin)
      BY <1>1 DEF BinsOwn
    <2>2. LET G == [l_RecyclingBin EXCEPT ![w] = <<>>]
          IN  /\ Apart(G) /\ Listed(G) \subseteq Listed(l_RecyclingBin)
              /\ \A x \in Elements(l_RecyclingBin[w]) :
                   x \in Listed(l_RecyclingBin) /\ x \notin Listed(G)
      BY <1>3, <2>1, EmptiedApart
    <2>. QED  BY <1>2, <2>2
  <1>6. /\ Apart(l_GarbageBin)' /\ Listed(l_GarbageBin)' \subseteq Listed(l_GarbageBin)
        /\ \A x \in Elements(l_GarbageBin[w]) :
             x \in Listed(l_GarbageBin) /\ x \notin Listed(l_GarbageBin)'
    <2>1. Apart(l_GarbageBin)
      BY <1>1 DEF BinsOwn
    <2>2. LET G == [l_GarbageBin EXCEPT ![w] = <<>>]
          IN  /\ Apart(G) /\ Listed(G) \subseteq Listed(l_GarbageBin)
              /\ \A x \in Elements(l_GarbageBin[w]) :
                   x \in Listed(l_GarbageBin) /\ x \notin Listed(G)
      BY <1>3, <2>1, EmptiedApart
    <2>. QED  BY <1>2, <2>2
  <1>7. /\ D \subseteq InPhase("done") /\ D \cap Listed(completing) = {}
        /\ D \cap Listed(l_RecyclingBin)' = {} /\ D \cap Listed(l_GarbageBin)' = {}
    <2>1. D \subseteq InPhase("done")
      BY <1>1, <1>5, <1>6 DEF BinsOwn
    <2>2. D \cap Listed(completing) = {}
      BY <1>1, <1>5, <1>6 DEF BinsOwn
    <2>3. D \cap Listed(l_RecyclingBin)' = {} /\ D \cap Listed(l_GarbageBin)' = {}
      BY <1>1, <1>5, <1>6 DEF BinsOwn
    <2>. QED  BY <2>1, <2>2, <2>3
  <1>. HIDE DEF label, D
  <1>8. /\ \A k : Phase(k)' = Phase(k)
        /\ \A q : InPhase(q)' = InPhase(q) \ D
        /\ \A q : q # "done" => InPhase(q)' = InPhase(q)
        /\ Created' = Created
        /\ Listed(completing)' = Listed(completing)
        /\ Listed(m_GlobalQueues)' = Listed(m_GlobalQueues)
        /\ Listed(m_LocalQueues)' = Listed(m_LocalQueues)
    <2>1. \A k : Phase(k)' = Phase(k)
      BY <1>2 DEF Phase
    <2>2. \A q : InPhase(q)' = InPhase(q) \ D
      BY <1>2, <2>1 DEF InPhase
    <2>3. \A q : q # "done" => InPhase(q) \cap D = {}
      BY <1>7 DEF InPhase
    <2>. QED  BY <1>2, <2>1, <2>2, <2>3 DEF Created
  <1>9. \A k : Unfinished(k)' <=> Unfinished(k)
    <2>1. \A k \in D : ~Unfinished(k)
      BY <1>7 DEF InPhase, Phase, Unfinished
    <2>. QED  BY <1>2, <2>1 DEF Unfinished
  <1>10. NoParents'
    BY <1>1, <1>2, <1>8 DEF NoParents
  <1>11. WorkOfOneJob'
    <2>1. \A k \in D : Phase(k) = "done"
      BY <1>7 DEF InPhase
    <2>. QED  BY <1>1, <1>2, <1>8, <2>1 DEF WorkOfOneJob
  <1>12. QueuesOwn'
    BY <1>1, <1>2, <1>8 DEF QueuesOwn
  <1>13. BinsOwn'
    BY <1>1, <1>2, <1>5, <1>6, <1>7, <1>8 DEF BinsOwn
  <1>14. WorkersOwn'
    <2>1. \A v \in Workers : completing'[v] = IF pc'[v] = "complete" THEN <<l_CurrentJob'[v]>> ELSE <<>>
      BY <1>1, <1>2, <1>4 DEF WorkersOwn
    <2>. QED  BY <1>1, <1>2, <1>4, <1>8, <2>1 DEF WorkersOwn
  <1>15. ContinuationsOwn'
    BY <1>1, <1>2, <1>8, <1>9 DEF ContinuationsOwn
  <1>16. HandlesOwn'
    <2>1. \A t \in Threads : handle[t] # NULL /\ ~Over(handle[t]) => handle[t].job \in allocated'
      <3>1. \A t \in Threads : handle[t] # NULL /\ ~Over(handle[t]) =>
              handle[t].job \in allocated /\ m_Work[handle[t].job] = handle[t].work
        BY <1>1 DEF HandlesOwn
      <3>2. \A k \in D : task[m_Work[k]].phase = "done"
        BY <1>7 DEF InPhase, Phase
      <3>. QED  BY <1>2, <3>1, <3>2 DEF Over
    <2>. QED  BY <1>1, <1>2, <2>1 DEF HandlesOwn, Over
  <1>. QED  BY <1>10, <1>11, <1>12, <1>13, <1>14, <1>15, <1>16 DEF Ownership

-----------------------------------------------------------------------------
(* The calls that create a job. *)

(* The job that create_job returns is free, or done with and no longer in the bin. *)
LEMMA FreshJob ==
  ASSUME OInv, NEW t \in Threads, NEW j \in Jobs, CreateJob(t, j)
  PROVE  /\ allocated' = allocated \cup {j}
         /\ Apart(l_RecyclingBin)' /\ Listed(l_RecyclingBin)' \subseteq Listed(l_RecyclingBin)
         /\ j \notin Listed(l_RecyclingBin)' /\ j \notin Listed(l_GarbageBin)
         /\ j \notin Listed(completing)
         /\ j \notin Listed(m_GlobalQueues) /\ j \notin Listed(m_LocalQueues)
         /\ \A q : q # "done" => j \notin InPhase(q)
         /\ ~Unfinished(j)
  <1>1. /\ QueuesOwn /\ BinsOwn /\ Apart(l_RecyclingBin)
        /\ l_RecyclingBin \in [Threads -> Seq(Jobs)] /\ allocated \subseteq Jobs
        /\ allocated \subseteq Created
    BY DEF OInv, Ownership, IInv, TypeOK, BinsOwn, WorkOfOneJob
  <1>2. CASE l_RecyclingBin[t] = <<>>
    <2>1. /\ j \in MayAllocate(Jobs \ allocated) /\ allocated' = allocated \cup {j}
          /\ UNCHANGED l_RecyclingBin
      BY <1>2 DEF CreateJob
    <2>2. MayAllocate(Jobs \ allocated) \subseteq Jobs \ allocated
      BY SystemAssumption
    <2>3. j \notin allocated
      BY <2>1, <2>2
    <2>4. \A q : j \notin InPhase(q)
      BY <2>3 DEF InPhase
    <2>5. ~Unfinished(j)
      BY <2>3 DEF Unfinished
    <2>6. Apart(l_RecyclingBin)' /\ Listed(l_RecyclingBin)' = Listed(l_RecyclingBin)
      BY <1>1, <2>1
    <2>. QED  BY <1>1, <2>1, <2>4, <2>5, <2>6 DEF QueuesOwn, BinsOwn
  <1>3. CASE l_RecyclingBin[t] # <<>>
    <2>1. /\ j = Head(l_RecyclingBin[t])
          /\ l_RecyclingBin' = [l_RecyclingBin EXCEPT ![t] = Tail(l_RecyclingBin[t])]
          /\ UNCHANGED allocated
      BY <1>3 DEF CreateJob
    <2>2. LET G == [l_RecyclingBin EXCEPT ![t] = Tail(l_RecyclingBin[t])]
          IN  /\ Apart(G) /\ Listed(G) \subseteq Listed(l_RecyclingBin)
              /\ Head(l_RecyclingBin[t]) \in Listed(l_RecyclingBin)
              /\ Head(l_RecyclingBin[t]) \notin Listed(G)
      BY <1>1, <1>3, TailApart
    <2>3. /\ Apart(l_RecyclingBin)' /\ Listed(l_RecyclingBin)' \subseteq Listed(l_RecyclingBin)
          /\ j \in Listed(l_RecyclingBin) /\ j \notin Listed(l_RecyclingBin)'
      BY <2>1, <2>2
    <2>4. j \in InPhase("done") /\ j \in allocated
      BY <1>1, <2>3 DEF BinsOwn, InPhase
    <2>5. \A q : q # "done" => j \notin InPhase(q)
      BY <2>4 DEF InPhase
    <2>6. ~Unfinished(j)
      BY <2>4 DEF InPhase, Phase, Unfinished
    <2>7. j \notin Listed(m_GlobalQueues) /\ j \notin Listed(m_LocalQueues)
      BY <1>1, <2>5 DEF QueuesOwn
    <2>8. j \notin Listed(l_GarbageBin) /\ j \notin Listed(completing)
      BY <1>1, <2>3 DEF BinsOwn
    <2>. QED  BY <2>1, <2>3, <2>4, <2>5, <2>6, <2>7, <2>8
  <1>. QED  BY <1>2, <1>3

(* A job is set up and given new work, in phase p. *)
LEMMA CreationOwns ==
  ASSUME OInv, NEW t \in Threads, NEW j \in Jobs, NEW thread_index \in Pins, Unused # {},
         CreateJob(t, j), SetFields(j, NULL, thread_index),
         NEW record \in Task, record.phase \in {"queued", "waiting"},
         task' = [task EXCEPT ![NewWork] = record],
         UNCHANGED <<l_GarbageBin, completing>>
  PROVE  /\ NewWork \in Works /\ NewWork # NULL /\ task[NewWork].phase = "unused"
         /\ \A k \in Works : task'[k] = IF k = NewWork THEN record ELSE task[k]
         /\ \A k \in Jobs : m_Work'[k] = IF k = j THEN NewWork ELSE m_Work[k]
         /\ \A q : q # record.phase /\ q # "done" => InPhase(q)' = InPhase(q)
         /\ InPhase(record.phase)' = InPhase(record.phase) \cup {j}
         /\ \A k : k # j => (Unfinished(k)' <=> Unfinished(k))
         /\ NoParents' /\ WorkOfOneJob' /\ BinsOwn'
  <1>1. /\ IInv /\ NoParents /\ WorkOfOneJob /\ BinsOwn
        /\ task \in [Works -> Task] /\ m_Work \in [Jobs -> Works \cup {NULL}]
        /\ m_NumChildren \in [Jobs -> 0..(UInt32 - 1)] /\ m_Parent \in [Jobs -> Jobs \cup {NULL}]
        /\ allocated \subseteq Created /\ Created \subseteq Jobs
    BY DEF OInv, Ownership, IInv, TypeOK, Task, WorkOfOneJob, Created
  <1>2. /\ allocated' = allocated \cup {j}
        /\ Apart(l_RecyclingBin)' /\ Listed(l_RecyclingBin)' \subseteq Listed(l_RecyclingBin)
        /\ j \notin Listed(l_RecyclingBin)' /\ j \notin Listed(l_GarbageBin)
        /\ j \notin Listed(completing)
        /\ \A q : q # "done" => j \notin InPhase(q)
    BY FreshJob
  <1>3. NewWork \in Works /\ NewWork # NULL /\ task[NewWork].phase = "unused"
    BY NewWorkIsUnused, SystemAssumption
  <1>4. \A k \in Works : task'[k] = IF k = NewWork THEN record ELSE task[k]
    BY <1>1
  <1>5. /\ \A k \in Jobs : m_Work'[k] = IF k = j THEN NewWork ELSE m_Work[k]
        /\ \A k \in Jobs : m_NumChildren'[k] = IF k = j THEN 1 ELSE m_NumChildren[k]
        /\ \A k \in Jobs : m_Parent'[k] = IF k = j THEN NULL ELSE m_Parent[k]
    <2>1. /\ m_Work' = [m_Work EXCEPT ![j] = NewWork]
          /\ m_NumChildren' = [m_NumChildren EXCEPT ![j] = 1]
          /\ m_Parent' = [m_Parent EXCEPT ![j] = NULL]
      BY DEF SetFields
    <2>. QED  BY <1>1, <2>1
  <1>6. Created' = Created \cup {j}
    BY <1>3, <1>5 DEF Created
  <1>7. \A k \in Created : m_Work[k] \in Works /\ m_Work[k] # NULL /\ m_Work[k] # NewWork
    <2>1. \A k \in Created : m_Work[k] \in Works /\ m_Work[k] # NULL
      BY <1>1 DEF Created
    <2>2. \A k \in Created : task[m_Work[k]].phase # "unused"
      BY <1>1 DEF WorkOfOneJob, Phase
    <2>. QED  BY <1>3, <2>1, <2>2
  <1>8. /\ \A k \in Created \ {j} : Phase(k)' = Phase(k) /\ m_Work'[k] = m_Work[k]
        /\ Phase(j)' = record.phase /\ m_Work'[j] = NewWork
    BY <1>1, <1>3, <1>4, <1>5, <1>7 DEF Phase
  <1>9. \A q : InPhase(q)' = IF q = record.phase THEN InPhase(q) \cup {j} ELSE InPhase(q) \ {j}
    BY <1>1, <1>2, <1>3, <1>8 DEF InPhase
  <1>10. \A q : q # record.phase /\ q # "done" => InPhase(q)' = InPhase(q)
    BY <1>2, <1>9
  <1>11. \A k : k # j => (Unfinished(k)' <=> Unfinished(k))
    <2>1. \A k \in allocated \ {j} : task'[m_Work'[k]].phase = task[m_Work[k]].phase
      BY <1>1, <1>8 DEF Phase
    <2>. QED  BY <1>2, <2>1 DEF Unfinished
  <1>12. NoParents'
    <2>1. Listed(completing)' = Listed(completing)
      OBVIOUS
    <2>. QED  BY <1>1, <1>5, <1>6, <1>8, <2>1 DEF NoParents
  <1>13. WorkOfOneJob'
    <2>1. allocated' \subseteq Created'
      BY <1>1, <1>2, <1>6
    <2>2. \A k, l \in Created' : m_Work'[k] = m_Work'[l] => k = l
      BY <1>1, <1>6, <1>7, <1>8 DEF WorkOfOneJob
    <2>3. \A k \in Created' : /\ Phase(k)' # "unused"
                              /\ k \notin allocated' => Phase(k)' \in {"done", "dropped"}
      BY <1>1, <1>2, <1>6, <1>8 DEF WorkOfOneJob
    <2>. QED  BY <2>1, <2>2, <2>3 DEF WorkOfOneJob
  <1>14. BinsOwn'
    <2>1. /\ Listed(completing)' = Listed(completing)
          /\ Listed(l_GarbageBin)' = Listed(l_GarbageBin)
          /\ Apart(completing)' /\ Apart(l_GarbageBin)'
      BY <1>1 DEF BinsOwn
    <2>2. InPhase("done")' = InPhase("done") \ {j}
      BY <1>9
    <2>. QED  BY <1>1, <1>2, <2>1, <2>2 DEF BinsOwn
  <1>. QED  BY <1>3, <1>4, <1>5, <1>9, <1>10, <1>11, <1>12, <1>13, <1>14

(* The job is put on one list of the queues. *)
LEMMA ScheduleWorkOwns ==
  ASSUME OInv, NEW t \in Threads, NEW j \in Jobs, NEW thread_index \in Pins,
         ScheduleWork(t, j, thread_index),
         j \notin Listed(m_GlobalQueues), j \notin Listed(m_LocalQueues),
         InPhase("queued")' = InPhase("queued") \cup {j}
  PROVE  QueuesOwn'
  <1>1. /\ QueuesOwn /\ tidx \in [Threads -> Workers]
        /\ m_GlobalQueues \in [Workers -> Seq(Jobs)] /\ m_LocalQueues \in [Workers -> Seq(Jobs)]
        /\ Apart(m_GlobalQueues) /\ Apart(m_LocalQueues)
    BY DEF OInv, Ownership, QueuesOwn, IInv, TypeOK
  <1>2. CASE thread_index = NULL \/ thread_index >= m_NumThreads
    <2>1. PICK i : i = IF tidx[t] + 1 >= m_NumThreads THEN 0 ELSE tidx[t] + 1
      OBVIOUS
    <2>2. /\ m_GlobalQueues' = [m_GlobalQueues EXCEPT ![i] = Append(m_GlobalQueues[i], j)]
          /\ UNCHANGED m_LocalQueues
      BY <1>2, <2>1 DEF ScheduleWork
    <2>3. i \in Workers
      BY <2>1, <1>1, NextWorker DEF OInv
    <2>4. LET G == [m_GlobalQueues EXCEPT ![i] = Append(m_GlobalQueues[i], j)]
          IN  /\ Apart(G) /\ Listed(G) \subseteq Listed(m_GlobalQueues) \cup {j}
              /\ Listed(m_GlobalQueues) \subseteq Listed(G) /\ j \in Listed(G)
      BY <1>1, <2>3, AppendApart
    <2>5. /\ Apart(m_GlobalQueues)'
          /\ Listed(m_GlobalQueues)' \subseteq Listed(m_GlobalQueues) \cup {j}
          /\ Apart(m_LocalQueues)' /\ Listed(m_LocalQueues)' = Listed(m_LocalQueues)
      BY <1>1, <2>2, <2>4
    <2>. QED  BY <1>1, <2>5 DEF QueuesOwn
  <1>3. CASE ~(thread_index = NULL \/ thread_index >= m_NumThreads)
    <2>1. PICK i : i = l_ThreadIndex(t)
      OBVIOUS
    <2>2. /\ m_LocalQueues' = [m_LocalQueues EXCEPT ![i] = Append(m_LocalQueues[i], j)]
          /\ UNCHANGED m_GlobalQueues
      BY <1>3, <2>1 DEF ScheduleWork
    <2>3. i \in Workers
      BY <2>1, SystemAssumption DEF l_ThreadIndex, Workers
    <2>4. LET G == [m_LocalQueues EXCEPT ![i] = Append(m_LocalQueues[i], j)]
          IN  /\ Apart(G) /\ Listed(G) \subseteq Listed(m_LocalQueues) \cup {j}
              /\ Listed(m_LocalQueues) \subseteq Listed(G) /\ j \in Listed(G)
      BY <1>1, <2>3, AppendApart
    <2>5. /\ Apart(m_LocalQueues)'
          /\ Listed(m_LocalQueues)' \subseteq Listed(m_LocalQueues) \cup {j}
          /\ Apart(m_GlobalQueues)' /\ Listed(m_GlobalQueues)' = Listed(m_GlobalQueues)
      BY <1>1, <2>2, <2>4
    <2>. QED  BY <1>1, <2>5 DEF QueuesOwn
  <1>. QED  BY <1>2, <1>3

LEMMA ScheduleOwns ==
  ASSUME OInv, NEW t \in Threads, NEW j \in Jobs, NEW thread_index \in Pins,
         Schedule(t, j, FALSE, thread_index)
  PROVE  Ownership'
  <1>0. PICK record : record = [phase |-> "queued", after |-> NULL, early |-> ~m_Shutdown, parent |-> NULL]
    OBVIOUS
  <1>1. /\ IInv /\ NoParents /\ WorkOfOneJob /\ QueuesOwn /\ BinsOwn /\ WorkersOwn
        /\ ContinuationsOwn /\ HandlesOwn
    BY DEF OInv, Ownership
  <1>2. /\ Unused # {} /\ CreateJob(t, j) /\ SetFields(j, NULL, thread_index)
        /\ m_Continuation' = [m_Continuation EXCEPT ![j] = NULL]
        /\ ScheduleWork(t, j, thread_index) /\ NotifyOne
        /\ handle' = [handle EXCEPT ![t] = [job |-> j, work |-> NewWork]]
        /\ task' = [task EXCEPT ![NewWork] = record]
        /\ UNCHANGED <<l_GarbageBin, running>> /\ UNCHANGED <<l_GarbageBin, completing>>
    BY <1>0 DEF Schedule
  <1>3. /\ record \in Task /\ record.phase = "queued" /\ record.phase \in {"queued", "waiting"}
    BY <1>0 DEF Task, Phases, OInv, IInv, TypeOK
  <1>4. /\ allocated' = allocated \cup {j}
        /\ j \notin Listed(m_GlobalQueues) /\ j \notin Listed(m_LocalQueues)
        /\ \A q : q # "done" => j \notin InPhase(q)
        /\ ~Unfinished(j)
    BY <1>2, FreshJob
  <1>5. /\ NewWork \in Works /\ NewWork # NULL /\ task[NewWork].phase = "unused"
        /\ \A k \in Works : task'[k] = IF k = NewWork THEN record ELSE task[k]
        /\ \A k \in Jobs : m_Work'[k] = IF k = j THEN NewWork ELSE m_Work[k]
        /\ \A q : q # record.phase /\ q # "done" => InPhase(q)' = InPhase(q)
        /\ InPhase(record.phase)' = InPhase(record.phase) \cup {j}
        /\ \A k : k # j => (Unfinished(k)' <=> Unfinished(k))
        /\ NoParents' /\ WorkOfOneJob' /\ BinsOwn'
    BY <1>2, <1>3, CreationOwns
  <1>6. QueuesOwn'
    <2>1. InPhase("queued")' = InPhase("queued") \cup {j}
      BY <1>3, <1>5
    <2>. QED  BY <1>2, <1>4, <2>1, ScheduleWorkOwns
  <1>7. /\ InPhase("waiting")' = InPhase("waiting") /\ InPhase("running")' = InPhase("running")
        /\ \A k \in Jobs : m_Continuation'[k] = IF k = j THEN NULL ELSE m_Continuation[k]
    <2>1. m_Continuation \in [Jobs -> Jobs \cup {NULL}]
      BY <1>1 DEF IInv, TypeOK
    <2>. QED  BY <1>2, <1>3, <1>5, <2>1
  <1>8. \A w \in Workers : /\ pc'[w] = "run" <=> pc[w] = "run"
                           /\ pc'[w] = "complete" <=> pc[w] = "complete"
    BY <1>1, <1>2, NotifyOneControl, ThreadsAreDisjoint
  <1>9. WorkersOwn'
    <2>1. \A v \in Workers : completing'[v] = IF pc'[v] = "complete" THEN <<l_CurrentJob'[v]>> ELSE <<>>
      BY <1>1, <1>2, <1>8 DEF WorkersOwn
    <2>. QED  BY <1>1, <1>2, <1>7, <1>8, <2>1 DEF WorkersOwn
  <1>10. ContinuationsOwn'
    BY <1>1, <1>2, <1>5, <1>7 DEF ContinuationsOwn
  <1>11. HandlesOwn'
    <2>1. /\ handle'[t] = [job |-> j, work |-> NewWork]
          /\ \A u \in Threads \ {t} : handle'[u] = handle[u]
      BY <1>1, <1>2 DEF IInv, TypeOK
    <2>2. \A u \in Threads : handle[u] # NULL =>
            /\ handle[u].work \in Works /\ handle[u].work # NewWork
            /\ ~Over(handle[u]) => handle[u].job # j /\ handle[u].job \in Jobs
      <3>1. \A u \in Threads : handle[u] # NULL => handle[u].work \in Works /\ handle[u].job \in Jobs
        BY <1>1 DEF IInv, TypeOK
      <3>2. \A u \in Threads : handle[u] # NULL => handle[u].work # NewWork
        BY <1>1, <1>5 DEF HandlesOwn
      <3>3. \A u \in Threads : handle[u] # NULL /\ ~Over(handle[u]) => Unfinished(handle[u].job)
        <4>1. \A k \in Works : task[k].phase \in Phases
          BY <1>1 DEF IInv, TypeOK
        <4>. QED  BY <1>1, <3>1, <4>1 DEF HandlesOwn, Over, Unfinished, Phases
      <3>. QED  BY <1>4, <3>1, <3>2, <3>3
    <2>3. ASSUME NEW u \in Threads, handle'[u] # NULL
          PROVE  /\ task'[handle'[u].work].phase # "unused"
                 /\ task'[handle'[u].work].phase \notin {"done", "dropped"} =>
                      /\ handle'[u].job \in allocated'
                      /\ m_Work'[handle'[u].job] = handle'[u].work
                      /\ m_Continuation'[handle'[u].job] = NULL
                 /\ \A v \in Threads \ {u} : handle'[v] # NULL => handle'[v].work # handle'[u].work
      <3>1. CASE u = t
        <4>1. handle'[u].job = j /\ handle'[u].work = NewWork
          BY <2>1, <3>1
        <4>2. task'[NewWork].phase = "queued"
          BY <1>3, <1>5
        <4>3. \A v \in Threads \ {u} : handle'[v] # NULL => handle'[v].work # NewWork
          BY <2>1, <2>2, <3>1
        <4>. QED  BY <1>4, <1>5, <1>7, <4>1, <4>2, <4>3
      <3>2. CASE u # t
        <4>1. handle'[u] = handle[u] /\ handle[u] # NULL /\ task'[handle[u].work] = task[handle[u].work]
          BY <1>5, <2>1, <2>2, <2>3, <3>2
        <4>2. \A v \in Threads \ {u} : handle'[v] # NULL => handle'[v].work # handle[u].work
          BY <1>1, <2>1, <2>2, <4>1 DEF HandlesOwn
        <4>3. ~Over(handle[u]) => /\ handle[u].job \in allocated'
                                  /\ m_Work'[handle[u].job] = handle[u].work
                                  /\ m_Continuation'[handle[u].job] = NULL
          BY <1>1, <1>4, <1>5, <1>7, <2>2, <4>1 DEF HandlesOwn
        <4>4. task[handle[u].work].phase # "unused"
          BY <1>1, <4>1 DEF HandlesOwn
        <4>. QED  BY <4>1, <4>2, <4>3, <4>4 DEF Over
      <3>. QED  BY <3>1, <3>2
    <2>. QED  BY <2>3 DEF HandlesOwn, Over
  <1>. QED  BY <1>5, <1>6, <1>9, <1>10, <1>11 DEF Ownership

LEMMA ThenOwns ==
  ASSUME OInv, ~MayChainLate, NEW t \in Threads, NEW j \in Jobs, NEW thread_index \in Pins,
         Then(t, j, thread_index)
  PROVE  Ownership'
  <1>1. /\ IInv /\ NoParents /\ WorkOfOneJob /\ QueuesOwn /\ BinsOwn /\ WorkersOwn
        /\ ContinuationsOwn /\ HandlesOwn
    BY DEF OInv, Ownership
  <1>0. PICK record : record = [phase |-> "waiting", after |-> handle[t].work,
                                early |-> ~m_Shutdown, parent |-> NULL]
    OBVIOUS
  <1>h. PICK h : h = handle[t].job
    OBVIOUS
  <1>2. /\ handle[t] # NULL /\ ~Over(handle[t])
        /\ Unused # {} /\ CreateJob(t, j) /\ SetFields(j, NULL, thread_index)
        /\ m_Continuation' = [m_Continuation EXCEPT ![j] = NULL, ![h] = j]
        /\ handle' = [handle EXCEPT ![t] = [job |-> j, work |-> NewWork]]
        /\ task' = [task EXCEPT ![NewWork] = record]
        /\ UNCHANGED <<queues, l_GarbageBin, running, pc>>
        /\ UNCHANGED <<l_GarbageBin, completing>>
    BY <1>0, <1>h DEF Then
  <1>3. /\ record \in Task /\ record.phase = "waiting" /\ record.phase \in {"queued", "waiting"}
    <2>1. handle[t].work \in Works
      BY <1>1, <1>2 DEF IInv, TypeOK
    <2>. QED  BY <1>0, <1>1, <2>1 DEF Task, Phases, IInv, TypeOK
  <1>4. /\ allocated' = allocated \cup {j}
        /\ j \notin Listed(m_GlobalQueues) /\ j \notin Listed(m_LocalQueues)
        /\ \A q : q # "done" => j \notin InPhase(q)
        /\ ~Unfinished(j)
    BY <1>2, FreshJob
  <1>5. /\ NewWork \in Works /\ NewWork # NULL /\ task[NewWork].phase = "unused"
        /\ \A k \in Works : task'[k] = IF k = NewWork THEN record ELSE task[k]
        /\ \A k \in Jobs : m_Work'[k] = IF k = j THEN NewWork ELSE m_Work[k]
        /\ \A q : q # record.phase /\ q # "done" => InPhase(q)' = InPhase(q)
        /\ InPhase(record.phase)' = InPhase(record.phase) \cup {j}
        /\ \A k : k # j => (Unfinished(k)' <=> Unfinished(k))
        /\ NoParents' /\ WorkOfOneJob' /\ BinsOwn'
    BY <1>2, <1>3, CreationOwns
  <1>6. /\ InPhase("waiting")' = InPhase("waiting") \cup {j}
        /\ InPhase("running")' = InPhase("running")
        /\ InPhase("queued")' = InPhase("queued")
    BY <1>3, <1>5
  <1>7. \A u \in Threads : handle[u] # NULL =>
          /\ handle[u].work \in Works /\ handle[u].work # NewWork
          /\ ~Over(handle[u]) => /\ handle[u].job # j /\ handle[u].job \in Jobs
                                 /\ Unfinished(handle[u].job)
    <2>1. \A u \in Threads : handle[u] # NULL => handle[u].work \in Works /\ handle[u].job \in Jobs
      BY <1>1 DEF IInv, TypeOK
    <2>2. \A u \in Threads : handle[u] # NULL => handle[u].work # NewWork
      BY <1>1, <1>5 DEF HandlesOwn
    <2>3. \A u \in Threads : handle[u] # NULL /\ ~Over(handle[u]) => Unfinished(handle[u].job)
      <3>1. \A k \in Works : task[k].phase \in Phases
        BY <1>1 DEF IInv, TypeOK
      <3>. QED  BY <1>1, <2>1, <3>1 DEF HandlesOwn, Over, Unfinished, Phases
    <2>. QED  BY <1>4, <2>1, <2>2, <2>3
  <1>8. h \in Jobs /\ h # j /\ Unfinished(h) /\ m_Continuation[h] = NULL /\ m_Work[h] = handle[t].work
    BY <1>1, <1>2, <1>7, <1>h DEF HandlesOwn
  <1>9. \A k \in Jobs : m_Continuation'[k] = IF k = h THEN j ELSE IF k = j THEN NULL ELSE m_Continuation[k]
    <2>1. m_Continuation \in [Jobs -> Jobs \cup {NULL}]
      BY <1>1 DEF IInv, TypeOK
    <2>. QED  BY <1>2, <1>8, <2>1
  <1>10. QueuesOwn'
    BY <1>1, <1>2, <1>6 DEF QueuesOwn
  <1>11. WorkersOwn'
    <2>1. \A v \in Workers : completing'[v] = IF pc'[v] = "complete" THEN <<l_CurrentJob'[v]>> ELSE <<>>
      BY <1>1, <1>2 DEF WorkersOwn
    <2>. QED  BY <1>1, <1>2, <1>6, <2>1 DEF WorkersOwn
  <1>12. ContinuationsOwn'
    <2>1. \A w \in Workers : continuation[w] # NULL => continuation[w] \in InPhase("waiting") /\ continuation[w] # j
      BY <1>1, <1>4 DEF ContinuationsOwn
    <2>2. \A k \in Jobs : Unfinished(k) /\ m_Continuation[k] # NULL => m_Continuation[k] # j
      BY <1>1, <1>4 DEF ContinuationsOwn
    <2>3. j # NULL
      BY SystemAssumption
    <2>4. \A w \in Workers : continuation'[w] = continuation[w]
      BY <1>2
    <2>5. \A w \in Workers : continuation'[w] # NULL => continuation'[w] \in InPhase("waiting")'
      BY <1>6, <2>1, <2>4
    <2>6. \A v, w \in Workers : continuation'[v] # NULL /\ continuation'[v] = continuation'[w] => v = w
      BY <1>1, <2>4 DEF ContinuationsOwn
    <2>7. ASSUME NEW k \in Jobs, Unfinished(k)', m_Continuation'[k] # NULL
          PROVE  /\ m_Continuation'[k] \in InPhase("waiting")'
                 /\ \A w \in Workers : continuation'[w] # m_Continuation'[k]
      <3>1. CASE k = h
        BY <1>6, <1>9, <2>1, <2>3, <2>4, <3>1
      <3>2. CASE k # h
        <4>1. k # j /\ Unfinished(k) /\ m_Continuation'[k] = m_Continuation[k] /\ m_Continuation[k] # NULL
          BY <1>5, <1>9, <2>7, <3>2
        <4>. QED  BY <1>1, <1>6, <2>4, <4>1 DEF ContinuationsOwn
      <3>. QED  BY <3>1, <3>2
    <2>8. ASSUME NEW k \in Jobs, NEW l \in Jobs, Unfinished(k)', Unfinished(l)',
                 m_Continuation'[k] # NULL, m_Continuation'[l] = m_Continuation'[k]
          PROVE  k = l
      <3>1. k # j /\ l # j
        BY <1>8, <1>9, <2>8
      <3>2. Unfinished(k) /\ Unfinished(l)
        BY <1>5, <2>8, <3>1
      <3>. QED  BY <1>1, <1>9, <2>2, <2>8, <3>1, <3>2 DEF ContinuationsOwn
    <2>. QED  BY <2>5, <2>6, <2>7, <2>8 DEF ContinuationsOwn
  <1>13. HandlesOwn'
    <2>1. /\ handle'[t] = [job |-> j, work |-> NewWork]
          /\ \A u \in Threads \ {t} : handle'[u] = handle[u]
      BY <1>1, <1>2 DEF IInv, TypeOK
    <2>3. ASSUME NEW u \in Threads, handle'[u] # NULL
          PROVE  /\ task'[handle'[u].work].phase # "unused"
                 /\ task'[handle'[u].work].phase \notin {"done", "dropped"} =>
                      /\ handle'[u].job \in allocated'
                      /\ m_Work'[handle'[u].job] = handle'[u].work
                      /\ m_Continuation'[handle'[u].job] = NULL
                 /\ \A v \in Threads \ {u} : handle'[v] # NULL => handle'[v].work # handle'[u].work
      <3>1. CASE u = t
        <4>1. handle'[u].job = j /\ handle'[u].work = NewWork
          BY <2>1, <3>1
        <4>2. task'[NewWork].phase = "waiting"
          BY <1>3, <1>5
        <4>3. \A v \in Threads \ {u} : handle'[v] # NULL => handle'[v].work # NewWork
          BY <2>1, <1>7, <3>1
        <4>. QED  BY <1>4, <1>5, <1>8, <1>9, <4>1, <4>2, <4>3
      <3>2. CASE u # t
        <4>1. handle'[u] = handle[u] /\ handle[u] # NULL /\ task'[handle[u].work] = task[handle[u].work]
          BY <1>5, <2>1, <1>7, <2>3, <3>2
        <4>2. \A v \in Threads \ {u} : handle'[v] # NULL => handle'[v].work # handle[u].work
          BY <1>1, <2>1, <1>7, <4>1 DEF HandlesOwn
        <4>3. ~Over(handle[u]) => /\ handle[u].job \in allocated'
                                  /\ m_Work'[handle[u].job] = handle[u].work
                                  /\ m_Continuation'[handle[u].job] = NULL
          <5>. SUFFICES ASSUME ~Over(handle[u])
                        PROVE  /\ handle[u].job \in allocated'
                               /\ m_Work'[handle[u].job] = handle[u].work
                               /\ m_Continuation'[handle[u].job] = NULL
            OBVIOUS
          <5>1. /\ handle[u].job \in allocated /\ m_Work[handle[u].job] = handle[u].work
                /\ m_Continuation[handle[u].job] = NULL
                /\ handle[u].work # handle[t].work
            BY <1>1, <1>2, <3>2, <4>1 DEF HandlesOwn
          <5>2. handle[u].job # h
            BY <1>8, <5>1
          <5>. QED  BY <1>4, <1>5, <1>7, <1>9, <4>1, <5>1, <5>2
        <4>4. task[handle[u].work].phase # "unused"
          BY <1>1, <4>1 DEF HandlesOwn
        <4>. QED  BY <4>1, <4>2, <4>3, <4>4 DEF Over
      <3>. QED  BY <3>1, <3>2
    <2>. QED  BY <2>3 DEF HandlesOwn, Over
  <1>. QED  BY <1>5, <1>10, <1>11, <1>12, <1>13 DEF Ownership

-----------------------------------------------------------------------------
LEMMA NextOwns ==
  ASSUME OInv, ~MayUseParent, ~MayChainLate, [Next]_vars
  PROVE  OInv'
  <1>1. ASSUME NEW t \in Threads, Call(t) PROVE Ownership'
    <2>1. CASE \E j \in Jobs, thread_index \in Pins, useParent \in {FALSE, MayUseParent} :
                 Schedule(t, j, useParent, thread_index)
      <3>1. \A useParent \in {FALSE, MayUseParent} : useParent = FALSE
        BY SystemAssumption
      <3>. QED  BY <2>1, <3>1, ScheduleOwns
    <2>2. CASE \E j \in Jobs, thread_index \in Pins : Then(t, j, thread_index)
      BY <2>2, ThenOwns
    <2>3. CASE Shutdown(t)
      BY <2>3, ShutdownOwns
    <2>. QED  BY <1>1, <2>1, <2>2, <2>3 DEF Call
  <1>2. ASSUME NEW c \in Clients, Wait(c) \/ WaitEnds(c) PROVE Ownership'
    BY <1>2, ClientStepOwns
  <1>3. ASSUME NEW w \in Workers, WorkerStep(w) \/ FinishWork(w) PROVE Ownership'
    BY <1>3, LoopOwns, PopLocalOwns, PopGlobalOwns, StealOwns, FinishWorkOwns,
       JobCompletedOwns, IdleOwns, DrainGlobalOwns, DrainLocalOwns, ExitOwns,
       CompleteShutdownOwns
       DEF WorkerStep
  <1>4. ASSUME UNCHANGED vars PROVE Ownership'
    <2>1. UNCHANGED <<queues, fields, allocated, bins, running, handle, task, pc>>
      BY <1>4 DEF vars
    <2>2. \A w \in Workers : /\ pc'[w] = "run" <=> pc[w] = "run"
                             /\ pc'[w] = "complete" <=> pc[w] = "complete"
      BY <2>1
    <2>3. UNCHANGED <<queues, fields, allocated, bins, running, handle, task>>
      BY <2>1
    <2>. QED  BY <2>2, <2>3, QuietStepOwns
  <1>5. Ownership'
    <2>1. CASE \E t \in Threads : Call(t)
      BY <1>1, <2>1
    <2>2. CASE \E c \in Clients : Wait(c) \/ WaitEnds(c)
      BY <1>2, <2>2
    <2>3. CASE \E w \in Workers : WorkerStep(w) \/ FinishWork(w)
      BY <1>3, <2>3
    <2>. QED  BY <1>4, <2>1, <2>2, <2>3 DEF Next
  <1>6. IInv'
    BY NextPreserves DEF OInv
  <1>. QED  BY <1>5, <1>6 DEF OInv

(***************************************************************************)
(* The inductive invariant, for callers that schedule no job under a       *)
(* parent and chain only onto work that has not finished.  With a parent   *)
(* it is false: nobody counts the children, so a parent is completed and   *)
(* recycled a second time when its child completes.                        *)
(***************************************************************************)
THEOREM OwnershipHolds ==
  ASSUME ~MayUseParent, ~MayChainLate
  PROVE  Spec => []OInv
  <1>1. Init => OInv
    BY InitHolds, InitOwns DEF OInv
  <1>2. OInv /\ [Next]_vars => OInv'
    BY NextOwns
  <1>. QED  BY <1>1, <1>2, PTL DEF Spec

-----------------------------------------------------------------------------
(* The places of a job are what Ownership keeps apart. *)
LEMMA PositionsOf ==
  ASSUME NEW list, NEW s, NEW w, NEW j
  PROVE  \A p \in Positions(list, s, w, j) : \E i \in 1..Len(s) : s[i] = j /\ p = <<list, w, i>>
  BY DEF Positions

At(p, list, F, w, j) == \E i \in 1..Len(F[w]) : F[w][i] = j /\ p = <<list, w, i>>

LEMMA PlacesOf ==
  ASSUME NEW j, NEW p \in Places(j)
  PROVE  \/ \E w \in Workers : At(p, "global", m_GlobalQueues, w, j)
         \/ \E w \in Workers : At(p, "local", m_LocalQueues, w, j)
         \/ \E w \in Workers : At(p, "recycling", l_RecyclingBin, w, j)
         \/ \E w \in Workers : At(p, "garbage", l_GarbageBin, w, j)
         \/ \E w \in Workers : At(p, "completing", completing, w, j)
         \/ \E w \in Workers : p = <<"running", w, 0>> /\ pc[w] = "run" /\ l_CurrentJob[w] = j
         \/ \E w \in Workers : p = <<"turnsTo", w, 0>> /\ continuation[w] = j
         \/ \E k \in Jobs : p = <<"continues", k, 0>> /\ Unfinished(k) /\ m_Continuation[k] = j
  <1>1. ASSUME NEW w \in Workers,
               p \in Positions("global", m_GlobalQueues[w], w, j)
                     \cup Positions("local", m_LocalQueues[w], w, j)
                     \cup Positions("recycling", l_RecyclingBin[w], w, j)
                     \cup Positions("garbage", l_GarbageBin[w], w, j)
                     \cup Positions("completing", completing[w], w, j)
        PROVE  \/ At(p, "global", m_GlobalQueues, w, j)
               \/ At(p, "local", m_LocalQueues, w, j)
               \/ At(p, "recycling", l_RecyclingBin, w, j)
               \/ At(p, "garbage", l_GarbageBin, w, j)
               \/ At(p, "completing", completing, w, j)
    BY <1>1, PositionsOf DEF At
  <1>2. CASE \E w \in Workers :
               p \in Positions("global", m_GlobalQueues[w], w, j)
                     \cup Positions("local", m_LocalQueues[w], w, j)
                     \cup Positions("recycling", l_RecyclingBin[w], w, j)
                     \cup Positions("garbage", l_GarbageBin[w], w, j)
                     \cup Positions("completing", completing[w], w, j)
    BY <1>1, <1>2
  <1>3. CASE p \in {<<"running", w, 0>> : w \in {w \in Workers : pc[w] = "run" /\ l_CurrentJob[w] = j}}
    BY <1>3
  <1>4. CASE p \in {<<"turnsTo", w, 0>> : w \in {w \in Workers : continuation[w] = j}}
    BY <1>4
  <1>5. CASE p \in {<<"continues", k, 0>> : k \in {k \in Jobs : Unfinished(k) /\ m_Continuation[k] = j}}
    BY <1>5
  <1>. DEFINE Lists == UNION { Positions("global", m_GlobalQueues[w], w, j)
                                 \cup Positions("local", m_LocalQueues[w], w, j)
                                 \cup Positions("recycling", l_RecyclingBin[w], w, j)
                                 \cup Positions("garbage", l_GarbageBin[w], w, j)
                                 \cup Positions("completing", completing[w], w, j) : w \in Workers }
              Current == {<<"running", w, 0>> : w \in {w \in Workers : pc[w] = "run" /\ l_CurrentJob[w] = j}}
              TurnsTo == {<<"turnsTo", w, 0>> : w \in {w \in Workers : continuation[w] = j}}
              Continues == {<<"continues", k, 0>> : k \in {k \in Jobs : Unfinished(k) /\ m_Continuation[k] = j}}
  <1>6. Places(j) = Lists \cup Current \cup TurnsTo \cup Continues
    BY DEF Places
  <1>7. CASE p \in Lists
    BY <1>2, <1>7
  <1>8. p \in Lists \/ p \in Current \/ p \in TurnsTo \/ p \in Continues
    <2>. HIDE DEF Lists, Current, TurnsTo, Continues
    <2>. QED  BY <1>6
  <1>. QED  BY <1>3, <1>4, <1>5, <1>7, <1>8

(* Two positions of a job on the lists of one kind are one. *)
LEMMA OnePosition ==
  ASSUME NEW F, Apart(F), Workers \subseteq DOMAIN F, NEW list, NEW j, NEW p, NEW q,
         \E w \in Workers : At(p, list, F, w, j), \E w \in Workers : At(q, list, F, w, j)
  PROVE  p = q /\ j \in Listed(F)
  <1>1. PICK v \in Workers : At(p, list, F, v, j)
    OBVIOUS
  <1>2. PICK w \in Workers : At(q, list, F, w, j)
    OBVIOUS
  <1>3. PICK i \in 1..Len(F[v]) : F[v][i] = j /\ p = <<list, v, i>>
    BY <1>1 DEF At
  <1>4. PICK k \in 1..Len(F[w]) : F[w][k] = j /\ q = <<list, w, k>>
    BY <1>2 DEF At
  <1>5. F[v][i] = F[w][k]
    BY <1>3, <1>4
  <1>6. v = w /\ i = k
    BY <1>5, ApartSame
  <1>. QED  BY <1>3, <1>4, <1>6, ListedAt

LEMMA OwnedOnce ==
  ASSUME OInv, NEW j \in Jobs, NEW p \in Places(j), NEW q \in Places(j)
  PROVE  p = q /\ j \in allocated
  <1>1. /\ QueuesOwn /\ BinsOwn /\ WorkersOwn /\ ContinuationsOwn /\ j # NULL
        /\ Apart(m_GlobalQueues) /\ Apart(m_LocalQueues)
        /\ Apart(l_RecyclingBin) /\ Apart(l_GarbageBin) /\ Apart(completing)
    BY SystemAssumption DEF OInv, Ownership, QueuesOwn, BinsOwn
  <1>2. /\ Workers \subseteq DOMAIN m_GlobalQueues /\ Workers \subseteq DOMAIN m_LocalQueues
        /\ Workers \subseteq DOMAIN l_RecyclingBin /\ Workers \subseteq DOMAIN l_GarbageBin
        /\ Workers \subseteq DOMAIN completing
    BY ThreadsAreDisjoint DEF OInv, IInv, TypeOK
  <1>. DEFINE On(r, n) ==
                CASE n = 1 -> \E w \in Workers : At(r, "global", m_GlobalQueues, w, j)
                  [] n = 2 -> \E w \in Workers : At(r, "local", m_LocalQueues, w, j)
                  [] n = 3 -> \E w \in Workers : At(r, "recycling", l_RecyclingBin, w, j)
                  [] n = 4 -> \E w \in Workers : At(r, "garbage", l_GarbageBin, w, j)
                  [] n = 5 -> \E w \in Workers : At(r, "completing", completing, w, j)
                  [] n = 6 -> \E w \in Workers : r = <<"running", w, 0>> /\ pc[w] = "run" /\ l_CurrentJob[w] = j
                  [] n = 7 -> \E w \in Workers : r = <<"turnsTo", w, 0>> /\ continuation[w] = j
                  [] n = 8 -> \E k \in Jobs : r = <<"continues", k, 0>> /\ Unfinished(k) /\ m_Continuation[k] = j
  <1>3. \E n \in 1..8 : On(p, n)
    BY PlacesOf
  <1>4. \E n \in 1..8 : On(q, n)
    BY PlacesOf
  <1>5. ASSUME NEW r
        PROVE  /\ On(r, 1) => j \in Listed(m_GlobalQueues)
               /\ On(r, 2) => j \in Listed(m_LocalQueues)
               /\ On(r, 3) => j \in Listed(l_RecyclingBin)
               /\ On(r, 4) => j \in Listed(l_GarbageBin)
               /\ On(r, 5) => j \in Listed(completing)
               /\ On(r, 6) => j \in InPhase("running")
               /\ On(r, 7) => j \in InPhase("waiting") /\ \E w \in Workers : continuation[w] = j
               /\ On(r, 8) => j \in InPhase("waiting") /\ \A w \in Workers : continuation[w] # j
    <2>1. On(r, 1) => j \in Listed(m_GlobalQueues)
      BY <1>1, <1>2, OnePosition
    <2>2. On(r, 2) => j \in Listed(m_LocalQueues)
      BY <1>1, <1>2, OnePosition
    <2>3. On(r, 3) => j \in Listed(l_RecyclingBin)
      BY <1>1, <1>2, OnePosition
    <2>4. On(r, 4) => j \in Listed(l_GarbageBin)
      BY <1>1, <1>2, OnePosition
    <2>5. On(r, 5) => j \in Listed(completing)
      BY <1>1, <1>2, OnePosition
    <2>6. On(r, 6) => j \in InPhase("running")
      BY <1>1 DEF WorkersOwn
    <2>7. On(r, 7) => j \in InPhase("waiting") /\ \E w \in Workers : continuation[w] = j
      BY <1>1 DEF ContinuationsOwn
    <2>8. On(r, 8) => j \in InPhase("waiting") /\ \A w \in Workers : continuation[w] # j
      BY <1>1 DEF ContinuationsOwn
    <2>. QED  BY <2>1, <2>2, <2>3, <2>4, <2>5, <2>6, <2>7, <2>8
  <1>6. \A n, m \in 1..8 : On(p, n) /\ On(q, m) => n = m
    <2>1. /\ j \in Listed(m_GlobalQueues) => j \in InPhase("queued") /\ j \notin Listed(m_LocalQueues)
          /\ j \in Listed(m_LocalQueues) => j \in InPhase("queued")
          /\ j \in Listed(l_RecyclingBin) => j \in InPhase("done") /\ j \notin Listed(l_GarbageBin)
          /\ j \in Listed(l_GarbageBin) => j \in InPhase("done") /\ j \notin Listed(completing)
          /\ j \in Listed(completing) => j \in InPhase("done") /\ j \notin Listed(l_RecyclingBin)
      BY <1>1 DEF QueuesOwn, BinsOwn
    <2>2. \A f, g : j \in InPhase(f) /\ j \in InPhase(g) => f = g
      BY DEF InPhase
    <2>3. /\ ~(j \in InPhase("queued") /\ j \in InPhase("done"))
          /\ ~(j \in InPhase("queued") /\ j \in InPhase("running"))
          /\ ~(j \in InPhase("queued") /\ j \in InPhase("waiting"))
          /\ ~(j \in InPhase("done") /\ j \in InPhase("running"))
          /\ ~(j \in InPhase("done") /\ j \in InPhase("waiting"))
          /\ ~(j \in InPhase("running") /\ j \in InPhase("waiting"))
      BY <2>2
    <2>. HIDE DEF On
    <2>. QED  BY <1>5, <2>1, <2>3
  <1>7. \A n \in 1..8 : On(p, n) /\ On(q, n) => p = q
    <2>1. On(p, 1) /\ On(q, 1) => p = q
      BY <1>1, <1>2, OnePosition
    <2>2. On(p, 2) /\ On(q, 2) => p = q
      BY <1>1, <1>2, OnePosition
    <2>3. On(p, 3) /\ On(q, 3) => p = q
      BY <1>1, <1>2, OnePosition
    <2>4. On(p, 4) /\ On(q, 4) => p = q
      BY <1>1, <1>2, OnePosition
    <2>5. On(p, 5) /\ On(q, 5) => p = q
      BY <1>1, <1>2, OnePosition
    <2>6. On(p, 6) /\ On(q, 6) => p = q
      BY <1>1 DEF WorkersOwn
    <2>7. On(p, 7) /\ On(q, 7) => p = q
      BY <1>1 DEF ContinuationsOwn
    <2>8. On(p, 8) /\ On(q, 8) => p = q
      BY <1>1 DEF ContinuationsOwn
    <2>. HIDE DEF On
    <2>. QED  BY <2>1, <2>2, <2>3, <2>4, <2>5, <2>6, <2>7, <2>8
  <1>8. j \in allocated
    <2>1. \A f : InPhase(f) \subseteq allocated
      BY DEF InPhase
    <2>. HIDE DEF On
    <2>. QED  BY <1>1, <1>3, <1>5, <2>1 DEF QueuesOwn, BinsOwn
  <1>. HIDE DEF On
  <1>. QED  BY <1>3, <1>4, <1>6, <1>7, <1>8

(***************************************************************************)
(* Every job is in one place at most, and what is in a place has not been  *)
(* freed: the queues, the bins, the current jobs and the continuations of  *)
(* job_system.cpp never share a job, and none of them holds a dead one.    *)
(***************************************************************************)
THEOREM OneOwnerHolds ==
  ASSUME ~MayUseParent, ~MayChainLate
  PROVE  Spec => []OneOwner
  <1>1. OInv => OneOwner
    BY OwnedOnce DEF OneOwner
  <1>. QED  BY <1>1, OwnershipHolds, PTL
=============================================================================
