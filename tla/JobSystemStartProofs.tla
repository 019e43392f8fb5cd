------------------------ MODULE JobSystemStartProofs ------------------------
(***************************************************************************)
(* The safety properties of JobSystemStart for any number of callers and   *)
(* workers, from one inductive invariant, IInv.                            *)
(***************************************************************************)
EXTENDS JobSystemStart, FiniteSetTheorems, TLAPS

CallerLabels == InConstructor \cup {"ready", "claim", "constructed", "place", "push", "broken"}
WorkerLabels == BeforeBarrier \cup AfterBarrier \cup {"none"}

(* The part of the constructor before the threads are made. *)
Early == InConstructor \ {"launch"}

(* The constructor still has to reach the end of `labels`. *)
Ahead(labels) == m_InitOnce = 0 \/ \E c \in Callers : pc[c] \in labels

(* The workers that have arrived at the barrier, and those that have left the loop. *)
Arrived == {w \in Workers : pc[w] \in AfterBarrier \cup {"barrier"}}
Stopped == {w \in Workers : pc[w] = "stopped"}

LabelsOK ==
  /\ pc \in [Callers \cup Workers -> CallerLabels \cup WorkerLabels]
  /\ \A c \in Callers : pc[c] \in CallerLabels
  /\ \A w \in Workers : pc[w] \in WorkerLabels

Types ==
  /\ m_InitOnce \in Nat
  /\ m_MemoryResource \in {NULL, "resource"}
  /\ m_NumThreads \in 0..MaxWorkers
  /\ m_Shutdown \in BOOLEAN
  /\ \/ m_GlobalQueues = NULL
     \/ \E n \in 1..MaxWorkers : m_GlobalQueues \in [0..(n - 1) -> Nat]
  /\ m_LocalQueues \in 0..MaxWorkers
  /\ m_Mutexes \in 0..MaxWorkers
  /\ m_Traces \in 0..MaxWorkers
  /\ remaining_workers \in {NULL} \cup Nat
  /\ steal_from \in [Workers -> Workers \cup {NULL}]
  /\ tidx \in [Callers -> Workers]
  /\ i \in [Callers -> 0..MaxWorkers]
  /\ scheduled \in 0..MaxJobs
  /\ LabelsOK

(* One caller at most is in the part of the constructor that is done once. *)
OneConstructor ==
  /\ \A c, d \in Callers : pc[c] \in InConstructor /\ pc[d] \in InConstructor => c = d
  /\ m_InitOnce = 0 => \A c \in Callers : pc[c] \in {"ready", "claim"} /\ i[c] = 0
  /\ \A c \in Callers : pc[c] \in Early => i[c] = 0

(* What the constructor has set, from its position; before it, nothing is there. *)
SetInOrder ==
  /\ ~Ahead({"resource"}) => m_MemoryResource # NULL
  /\ Ahead({"resource", "threads"}) => m_NumThreads = 0
  /\ Ahead({"resource", "threads", "atLeastOne", "globals"}) => m_GlobalQueues = NULL
  /\ \A c \in Callers :
       /\ pc[c] \in {"globals", "locals", "mutexes", "traces"} => m_NumThreads > 0
       /\ pc[c] \in {"locals", "mutexes", "traces"} =>
            /\ m_GlobalQueues # NULL
            /\ DOMAIN m_GlobalQueues = 0..(m_NumThreads - 1)
       /\ pc[c] \in {"mutexes", "traces"} => m_LocalQueues = m_NumThreads
       /\ pc[c] = "traces" => m_Mutexes = m_NumThreads
  /\ ~Ahead(Early) =>
       /\ m_GlobalQueues # NULL
       /\ DOMAIN m_GlobalQueues = 0..(m_Traces - 1)
       /\ m_Traces > 0 /\ m_LocalQueues = m_Traces /\ m_Mutexes = m_Traces

(* The workers that have been started. *)
StartedInOrder ==
  /\ Ahead(Early) => \A w \in Workers : pc[w] = "none"
  /\ \A w \in Workers : pc[w] # "none" => w < m_Traces
  /\ \A c \in Callers :
       pc[c] = "launch" => /\ i[c] <= m_Traces
                           /\ \A w \in Workers : pc[w] # "none" => w < i[c]

(* The barrier counts the workers that have still to arrive. *)
BarrierCounts ==
  /\ remaining_workers = NULL => \A w \in Workers : pc[w] \in {"none", "entry"}
  /\ remaining_workers # NULL => /\ ~Ahead(Early)
                                 /\ remaining_workers = m_Traces - Cardinality(Arrived)
  /\ \A w \in Workers : pc[w] \in AfterBarrier => Arrived = 0..(m_Traces - 1)

(* m_NumThreads counts the workers that have not stopped; they stop only after a shutdown. *)
ThreadsAreCounted ==
  /\ ~Ahead(Early) => m_NumThreads = m_Traces - Cardinality(Stopped)
  /\ \A w \in Workers : pc[w] \in {"exit", "stopped"} => m_Shutdown

(* Indices of queues are below the number of queues, also of queues that are still to come. *)
IndicesInRange ==
  /\ \A c \in Callers : tidx[c] = 0 \/ tidx[c] < IF Ahead(Early) THEN m_NumThreads ELSE m_Traces
  /\ \A w \in Workers :
       steal_from[w] # NULL => /\ ~Ahead(Early)
                               /\ steal_from[w] < m_Traces
                               /\ ~m_Shutdown => steal_from[w] = (w + 1) % m_Traces

IInv ==
  /\ Types /\ OneConstructor /\ SetInOrder /\ StartedInOrder
  /\ BarrierCounts /\ ThreadsAreCounted /\ IndicesInRange
-----------------------------------------------------------------------------
LEMMA WorkersAreFinite == IsFiniteSet(Workers)
  BY StartAssumption, FS_Interval DEF Workers

LEMMA IndicesAreFinite ==
  ASSUME NEW n \in Nat
  PROVE  IsFiniteSet(0..(n - 1)) /\ Cardinality(0..(n - 1)) = n
  BY FS_Interval

(* The counts of the workers that have arrived and stopped are within bounds. *)
LEMMA CountsInRange ==
  ASSUME IInv, ~Ahead(Early)
  PROVE  /\ m_Traces \in Nat \ {0}
         /\ IsFiniteSet(Arrived) /\ IsFiniteSet(Stopped)
         /\ Arrived \subseteq 0..(m_Traces - 1) /\ Stopped \subseteq Arrived
         /\ Cardinality(Arrived) \in 0..m_Traces /\ Cardinality(Stopped) \in 0..m_Traces
         /\ m_NumThreads <= m_Traces
  <1>1. m_Traces \in Nat \ {0}
    BY DEF IInv, Types, SetInOrder
  <1>2. Arrived \subseteq 0..(m_Traces - 1) /\ Stopped \subseteq Arrived
    BY <1>1, StartAssumption DEF IInv, StartedInOrder, Arrived, Stopped, AfterBarrier, Workers
  <1>3. IsFiniteSet(0..(m_Traces - 1)) /\ Cardinality(0..(m_Traces - 1)) = m_Traces
    BY <1>1, IndicesAreFinite
  <1>4. /\ IsFiniteSet(Arrived) /\ IsFiniteSet(Stopped)
        /\ Cardinality(Arrived) <= m_Traces /\ Cardinality(Stopped) <= m_Traces
    <2>1. Arrived \in SUBSET (0..(m_Traces - 1)) /\ Stopped \in SUBSET (0..(m_Traces - 1))
      BY <1>2
    <2>2. IsFiniteSet(Arrived) /\ Cardinality(Arrived) <= Cardinality(0..(m_Traces - 1))
      BY <2>1, <1>3, FS_Subset
    <2>3. IsFiniteSet(Stopped) /\ Cardinality(Stopped) <= Cardinality(0..(m_Traces - 1))
      BY <2>1, <1>3, FS_Subset
    <2>. QED  BY <1>3, <2>2, <2>3
  <1>5. Cardinality(Arrived) \in Nat /\ Cardinality(Stopped) \in Nat
    BY <1>4, FS_CardinalityType
  <1>6. m_NumThreads = m_Traces - Cardinality(Stopped)
    BY DEF IInv, ThreadsAreCounted
  <1>. QED  BY <1>1, <1>2, <1>4, <1>5, <1>6

LEMMA InitHolds == Init => IInv
  <1>. SUFFICES ASSUME Init PROVE IInv
    OBVIOUS
  <1>. USE DEF Init
  <1>1. /\ \A c \in Callers : pc[c] = "ready"
        /\ \A w \in Workers : pc[w] = "none"
    <2>1. \A w \in Workers : w \notin Callers
      BY StartAssumption DEF Workers
    <2>. QED  BY <2>1
  <1>2. pc \in [Callers \cup Workers -> CallerLabels \cup WorkerLabels]
    BY DEF CallerLabels, WorkerLabels
  <1>3. Types
    <2>1. /\ m_NumThreads \in 0..MaxWorkers /\ m_LocalQueues \in 0..MaxWorkers
          /\ m_Mutexes \in 0..MaxWorkers /\ m_Traces \in 0..MaxWorkers
          /\ scheduled \in 0..MaxJobs
      BY StartAssumption
    <2>2. /\ steal_from \in [Workers -> Workers \cup {NULL}]
          /\ tidx \in [Callers -> Workers]
          /\ i \in [Callers -> 0..MaxWorkers]
      BY StartAssumption DEF Workers
    <2>. QED  BY <1>1, <1>2, <2>1, <2>2 DEF Types, LabelsOK, CallerLabels, WorkerLabels
  <1>4. OneConstructor
    BY <1>1 DEF OneConstructor, InConstructor, Early
  <1>5. Ahead({"resource"}) /\ Ahead(Early)
    BY DEF Ahead
  <1>6. SetInOrder /\ StartedInOrder /\ BarrierCounts
    BY <1>1, <1>5 DEF SetInOrder, StartedInOrder, BarrierCounts, AfterBarrier
  <1>7. ThreadsAreCounted /\ IndicesInRange
    BY <1>1, <1>5 DEF ThreadsAreCounted, IndicesInRange
  <1>. QED  BY <1>3, <1>4, <1>6, <1>7 DEF IInv

(***************************************************************************)
(* A step of a caller that neither enters nor leaves the constructor and   *)
(* replaces no queue keeps the invariant, if it keeps the types and the    *)
(* range of tidx.                                                          *)
(***************************************************************************)
OutsideConstructor ==
  /\ UNCHANGED <<m_MemoryResource, m_NumThreads, m_LocalQueues, m_Mutexes, m_Traces,
                 remaining_workers, steal_from, i>>
  /\ m_InitOnce' = 0 <=> m_InitOnce = 0
  /\ m_GlobalQueues' = NULL <=> m_GlobalQueues = NULL
  /\ m_GlobalQueues # NULL => DOMAIN m_GlobalQueues' = DOMAIN m_GlobalQueues
  /\ m_Shutdown => m_Shutdown'
  /\ \A w \in Workers : pc'[w] = pc[w]
  /\ \A c \in Callers : \/ pc'[c] = pc[c]
                        \/ /\ pc[c] \notin InConstructor /\ pc'[c] \notin InConstructor
                           /\ m_InitOnce = 0 => pc'[c] \in {"ready", "claim"}

LEMMA OutsideKeeps ==
  ASSUME IInv, Types', OutsideConstructor,
         \A c \in Callers : \/ tidx'[c] = tidx[c] \/ tidx'[c] = 0
                           \/ tidx'[c] < IF Ahead(Early) THEN m_NumThreads ELSE m_Traces
  PROVE  IInv'
  <1>. USE DEF IInv, OutsideConstructor
  <1>1. ASSUME NEW labels \in SUBSET InConstructor PROVE Ahead(labels)' <=> Ahead(labels)
    BY DEF Ahead
  <1>2. /\ Ahead({"resource"})' <=> Ahead({"resource"})
        /\ Ahead({"resource", "threads"})' <=> Ahead({"resource", "threads"})
        /\ Ahead({"resource", "threads", "atLeastOne", "globals"})'
             <=> Ahead({"resource", "threads", "atLeastOne", "globals"})
        /\ Ahead(Early)' <=> Ahead(Early)
    BY <1>1 DEF InConstructor, Early
  <1>3. OneConstructor'
    BY DEF OneConstructor, Early
  <1>4. SetInOrder'
    BY <1>2 DEF SetInOrder, InConstructor
  <1>5. StartedInOrder'
    BY <1>2 DEF StartedInOrder, InConstructor
  <1>6. Arrived' = Arrived /\ Stopped' = Stopped
    BY DEF Arrived, Stopped
  <1>7. BarrierCounts'
    BY <1>2, <1>6 DEF BarrierCounts
  <1>8. ThreadsAreCounted'
    BY <1>2, <1>6 DEF ThreadsAreCounted
  <1>9. IndicesInRange'
    BY <1>2 DEF IndicesInRange
  <1>. QED  BY <1>3, <1>4, <1>5, <1>7, <1>8, <1>9

(* The steps of the callers are of that kind, except those inside the constructor. *)
LEMMA TestInitOncePreserves == ASSUME IInv, NEW c \in Callers, TestInitOnce(c) PROVE IInv'
  <1>. USE StartAssumption DEF IInv, TestInitOnce, arrays
  <1>1. \A w \in Workers : w \notin Callers
    BY DEF Workers
  <1>0. /\ LabelsOK' /\ pc'[c] = IF m_InitOnce > 0 THEN "constructed" ELSE "claim"
        /\ \A u \in Callers \cup Workers : u # c => pc'[u] = pc[u]
    BY <1>1 DEF Types, LabelsOK, Goto, CallerLabels
  <1>2. Types'
    BY <1>0 DEF Types, CallerLabels
  <1>3. OutsideConstructor
    BY <1>0, <1>1 DEF Types, LabelsOK, OutsideConstructor, InConstructor, OneConstructor, CallerLabels
  <1>. QED  BY <1>2, <1>3, OutsideKeeps

LEMMA CreateJobPreserves == ASSUME IInv, NEW c \in Callers, CreateJob(c) PROVE IInv'
  <1>. USE StartAssumption DEF IInv, CreateJob, arrays
  <1>1. \A w \in Workers : w \notin Callers
    BY DEF Workers
  <1>0. /\ LabelsOK' /\ pc'[c] \in {"broken", "place"}
        /\ \A u \in Callers \cup Workers : u # c => pc'[u] = pc[u]
    BY <1>1 DEF Types, LabelsOK, Goto, CallerLabels
  <1>2. Types'
    <2>1. scheduled' \in 0..MaxJobs
      BY DEF Types
    <2>. QED  BY <2>1, <1>0 DEF Types, CallerLabels
  <1>3. OutsideConstructor
    BY <1>0, <1>1 DEF Types, LabelsOK, OutsideConstructor, InConstructor, OneConstructor, CallerLabels
  <1>. QED  BY <1>2, <1>3, OutsideKeeps

LEMMA PlacePreserves == ASSUME IInv, NEW c \in Callers, Place(c) PROVE IInv'
  <1>. USE StartAssumption DEF IInv, Place, arrays
  <1>1. \A w \in Workers : w \notin Callers
    BY DEF Workers
  <1>0. /\ LabelsOK' /\ pc'[c] = "push"
        /\ \A u \in Callers \cup Workers : u # c => pc'[u] = pc[u]
    BY <1>1 DEF Types, LabelsOK, Goto, CallerLabels
  <1>2. tidx' \in [Callers -> Workers]
    BY DEF Types, Workers
  <1>3. Types'
    BY <1>2, <1>0 DEF Types, CallerLabels
  <1>4. OutsideConstructor
    BY <1>0, <1>1 DEF Types, LabelsOK, OutsideConstructor, InConstructor, OneConstructor, CallerLabels
  <1>5. ASSUME NEW d \in Callers
        PROVE  \/ tidx'[d] = tidx[d] \/ tidx'[d] = 0
               \/ tidx'[d] < IF Ahead(Early) THEN m_NumThreads ELSE m_Traces
    <2>1. ~Ahead(Early) => m_NumThreads <= m_Traces
      BY CountsInRange
    <2>. QED  BY <2>1 DEF Types, Workers
  <1>. QED  BY <1>3, <1>4, <1>5, OutsideKeeps

LEMMA PushPreserves == ASSUME IInv, NEW c \in Callers, Push(c) PROVE IInv'
  <1>. USE StartAssumption DEF IInv, Push, arrays
  <1>1. \A w \in Workers : w \notin Callers
    BY DEF Workers
  <1>0. /\ LabelsOK' /\ pc'[c] \in {"broken", "ready"}
        /\ \A u \in Callers \cup Workers : u # c => pc'[u] = pc[u]
    <2>1. \E label \in {"broken", "ready"} : Goto(c, label)
      OBVIOUS
    <2>. QED  BY <1>1, <2>1 DEF Types, LabelsOK, Goto, CallerLabels
  <1>2. CASE m_GlobalQueues # NULL /\ tidx[c] \in DOMAIN m_GlobalQueues
    <2>1. PICK n \in 1..MaxWorkers : m_GlobalQueues \in [0..(n - 1) -> Nat]
      BY <1>2 DEF Types
    <2>2. m_GlobalQueues' \in [0..(n - 1) -> Nat]
      <3>1. m_GlobalQueues[tidx[c]] + 1 \in Nat
        BY <1>2, <2>1
      <3>. QED  BY <1>2, <2>1, <3>1
    <2>3. m_GlobalQueues' # NULL
      BY <2>2
    <2>4. Types'
      BY <1>2, <2>2, <1>0 DEF Types, CallerLabels
    <2>5. OutsideConstructor
      BY <1>1, <1>2, <2>1, <2>2, <2>3, <1>0
      DEF OutsideConstructor, InConstructor, OneConstructor, CallerLabels
    <2>. QED  BY <2>4, <2>5, OutsideKeeps
  <1>3. CASE ~(m_GlobalQueues # NULL /\ tidx[c] \in DOMAIN m_GlobalQueues)
    <2>1. Types'
      BY <1>3, <1>0 DEF Types, CallerLabels
    <2>2. OutsideConstructor
      BY <1>1, <1>3, <1>0 DEF OutsideConstructor, InConstructor, OneConstructor, CallerLabels
    <2>. QED  BY <2>1, <2>2, OutsideKeeps
  <1>. QED  BY <1>2, <1>3

LEMMA ShutdownPreserves == ASSUME IInv, NEW c \in Callers, Shutdown(c) PROVE IInv'
  <1>. USE DEF IInv, Shutdown, arrays
  <1>1. Types'
    BY DEF Types, LabelsOK
  <1>2. OutsideConstructor
    BY DEF OutsideConstructor
  <1>. QED  BY <1>1, <1>2, OutsideKeeps
-----------------------------------------------------------------------------
(* The constructor.  With a caller inside, its position says how far it has come. *)
LEMMA Position ==
  ASSUME IInv, NEW c \in Callers, pc[c] \in InConstructor
  PROVE  /\ m_InitOnce # 0
         /\ \A labels \in SUBSET InConstructor : Ahead(labels) <=> pc[c] \in labels
  <1>1. m_InitOnce # 0
    BY DEF IInv, OneConstructor, InConstructor
  <1>. QED  BY <1>1 DEF IInv, OneConstructor, Ahead

(* A step of c from a position before the threads are made to another one in the constructor. *)
Inside(c) ==
  /\ pc[c] \in Early /\ pc'[c] \in InConstructor
  /\ \A t \in Callers \cup Workers : t # c => pc'[t] = pc[t]
  /\ UNCHANGED <<m_InitOnce, m_Shutdown, remaining_workers, steal_from, tidx, i, scheduled>>

(* What c's position says about the sets of labels of SetInOrder. *)
Placed(c) ==
  /\ Ahead({"resource"}) <=> pc[c] = "resource"
  /\ Ahead({"resource", "threads"}) <=> pc[c] \in {"resource", "threads"}
  /\ Ahead({"resource", "threads", "atLeastOne", "globals"})
       <=> pc[c] \in {"resource", "threads", "atLeastOne", "globals"}
  /\ Ahead(Early) <=> pc[c] # "launch"

LEMMA InsideKeeps ==
  ASSUME IInv, NEW c \in Callers, Inside(c), Types',
         m_NumThreads' = m_NumThreads \/ \A d \in Callers : tidx[d] = 0,
         pc'[c] = "launch" => m_Traces' > 0 /\ m_NumThreads' = m_Traces' /\ m_NumThreads' = m_NumThreads
  PROVE  /\ m_InitOnce # 0 /\ m_InitOnce' # 0
         /\ Placed(c) /\ Placed(c)'
         /\ \A d \in Callers : d # c => pc'[d] \notin InConstructor
         /\ OneConstructor' /\ StartedInOrder' /\ BarrierCounts'
         /\ ThreadsAreCounted' /\ IndicesInRange'
  <1>. USE DEF IInv, Inside
  <1>1. /\ m_InitOnce # 0 /\ m_InitOnce' # 0
        /\ \A labels \in SUBSET InConstructor : Ahead(labels) <=> pc[c] \in labels
    BY Position DEF Early
  <1>2. \A d \in Callers : d # c => pc[d] \notin InConstructor /\ pc'[d] \notin InConstructor
    BY DEF OneConstructor, Early
  <1>3. \A labels \in SUBSET InConstructor : Ahead(labels)' <=> pc'[c] \in labels
    BY <1>1, <1>2 DEF Ahead
  <1>4. Early \in SUBSET InConstructor /\ "launch" \notin Early
    BY DEF Early
  <1>5. Ahead(Early) /\ (Ahead(Early)' <=> pc'[c] # "launch")
    BY <1>1, <1>3, <1>4 DEF Early
  <1>6. \A w \in Workers : w \notin Callers
    BY StartAssumption DEF Workers
  <1>7. \A w \in Workers : pc[w] = "none" /\ pc'[w] = "none"
    BY <1>5, <1>6 DEF StartedInOrder
  <1>8. OneConstructor'
    BY <1>1, <1>2 DEF OneConstructor, Early
  <1>9. StartedInOrder'
    BY <1>2, <1>7 DEF StartedInOrder, OneConstructor, InConstructor, Types
  <1>10. BarrierCounts'
    BY <1>5, <1>7 DEF BarrierCounts, AfterBarrier
  <1>11. ThreadsAreCounted'
    <2>1. Stopped' = {}
      BY <1>7 DEF Stopped
    <2>2. Cardinality(Stopped') = 0
      BY <2>1, FS_EmptySet
    <2>3. m_Traces' \in Nat
      BY DEF Types
    <2>4. ~Ahead(Early)' => m_NumThreads' = m_Traces' - 0
      BY <1>5, <2>3
    <2>. QED  BY <1>7, <2>2, <2>4 DEF ThreadsAreCounted
  <1>12. IndicesInRange'
    BY <1>5 DEF IndicesInRange
  <1>13. Placed(c) /\ Placed(c)'
    <2>1. /\ {"resource"} \in SUBSET InConstructor
          /\ {"resource", "threads"} \in SUBSET InConstructor
          /\ {"resource", "threads", "atLeastOne", "globals"} \in SUBSET InConstructor
      BY DEF InConstructor
    <2>. QED  BY <1>1, <1>3, <1>5, <2>1 DEF Placed, Early
  <1>. QED  BY <1>1, <1>2, <1>8, <1>9, <1>10, <1>11, <1>12, <1>13

(* The labels after a step of a caller. *)
LEMMA ClaimPreserves == ASSUME IInv, NEW c \in Callers, Claim(c) PROVE IInv'
  <1>. USE DEF IInv, Claim, arrays
  <1>1. \A w \in Workers : w \notin Callers
    BY StartAssumption DEF Workers
  <1>0. /\ LabelsOK' /\ pc'[c] = IF m_InitOnce > 0 THEN "constructed" ELSE "resource"
        /\ \A u \in Callers \cup Workers : u # c => pc'[u] = pc[u]
    BY <1>1 DEF Types, LabelsOK, Goto, CallerLabels, InConstructor
  <1>2. Types' /\ m_InitOnce' > 0
    BY <1>0 DEF Types
  <1>3. CASE m_InitOnce > 0
    <2>1. OutsideConstructor
      BY <1>0, <1>1, <1>2, <1>3 DEF Types, LabelsOK, OutsideConstructor, InConstructor, CallerLabels
    <2>. QED  BY <1>2, <2>1, OutsideKeeps
  <1>4. CASE m_InitOnce = 0
    <2>1. /\ pc'[c] = "resource"
          /\ \A d \in Callers : d # c => pc'[d] \in {"ready", "claim"}
          /\ \A d \in Callers : i'[d] = 0
      BY <1>0, <1>4 DEF OneConstructor
    <2>2. \A labels \in SUBSET InConstructor : "resource" \in labels => Ahead(labels) /\ Ahead(labels)'
      BY <1>4, <2>1 DEF Ahead
    <2>3. /\ Ahead({"resource"}) /\ Ahead({"resource"})'
          /\ Ahead({"resource", "threads"}) /\ Ahead({"resource", "threads"})'
          /\ Ahead({"resource", "threads", "atLeastOne", "globals"})
          /\ Ahead({"resource", "threads", "atLeastOne", "globals"})'
          /\ Ahead(Early) /\ Ahead(Early)'
      BY <2>2 DEF InConstructor, Early
    <2>4. OneConstructor'
      BY <1>2, <2>1 DEF OneConstructor, InConstructor, Early
    <2>5. SetInOrder'
      BY <2>1, <2>3 DEF SetInOrder
    <2>6. \A w \in Workers : pc[w] = "none" /\ pc'[w] = "none"
      BY <1>0, <1>1, <2>3 DEF StartedInOrder
    <2>7. StartedInOrder' /\ BarrierCounts'
      BY <2>1, <2>3, <2>6 DEF StartedInOrder, BarrierCounts, AfterBarrier
    <2>8. ThreadsAreCounted' /\ IndicesInRange'
      BY <2>3, <2>6 DEF ThreadsAreCounted, IndicesInRange
    <2>. QED  BY <1>2, <2>4, <2>5, <2>7, <2>8
  <1>. QED  BY <1>3, <1>4 DEF Types

LEMMA SetMemoryResourcePreserves ==
  ASSUME IInv, NEW c \in Callers, SetMemoryResource(c) PROVE IInv'
  <1>. USE DEF IInv, SetMemoryResource, arrays
  <1>1. \A w \in Workers : w \notin Callers
    BY StartAssumption DEF Workers
  <1>2. /\ LabelsOK' /\ pc'[c] = "threads"
        /\ \A u \in Callers \cup Workers : u # c => pc'[u] = pc[u]
    BY <1>1 DEF Types, LabelsOK, Goto, CallerLabels, InConstructor
  <1>3. Types' /\ Inside(c)
    BY <1>2 DEF Types, Inside, InConstructor, Early
  <1>4. /\ m_InitOnce # 0 /\ m_InitOnce' # 0
        /\ Placed(c) /\ Placed(c)'
        /\ \A d \in Callers : d # c => pc'[d] \notin InConstructor
        /\ OneConstructor' /\ StartedInOrder' /\ BarrierCounts'
        /\ ThreadsAreCounted' /\ IndicesInRange'
    BY <1>2, <1>3, InsideKeeps
  <1>5. SetInOrder'
    BY <1>2, <1>4, StartAssumption DEF SetInOrder, Placed, InConstructor, Early
  <1>. QED  BY <1>3, <1>4, <1>5

LEMMA SetNumThreadsPreserves ==
  ASSUME IInv, NEW c \in Callers, SetNumThreads(c) PROVE IInv'
  <1>. USE DEF IInv, SetNumThreads, arrays
  <1>1. \A w \in Workers : w \notin Callers
    BY StartAssumption DEF Workers
  <1>2. /\ LabelsOK' /\ pc'[c] = "atLeastOne"
        /\ \A u \in Callers \cup Workers : u # c => pc'[u] = pc[u]
    BY <1>1 DEF Types, LabelsOK, Goto, CallerLabels, InConstructor
  <1>3. m_NumThreads' \in 0..MaxWorkers
    BY StartAssumption
  <1>4. Types' /\ Inside(c)
    BY <1>2, <1>3 DEF Types, Inside, InConstructor, Early
  <1>5. \A d \in Callers : tidx[d] = 0
    <2>1. m_NumThreads = 0 /\ Ahead(Early)
      BY Position DEF SetInOrder, InConstructor, Early
    <2>. QED  BY <2>1 DEF IndicesInRange, Types, Workers
  <1>6. /\ m_InitOnce # 0 /\ m_InitOnce' # 0
        /\ Placed(c) /\ Placed(c)'
        /\ \A d \in Callers : d # c => pc'[d] \notin InConstructor
        /\ OneConstructor' /\ StartedInOrder' /\ BarrierCounts'
        /\ ThreadsAreCounted' /\ IndicesInRange'
    BY <1>2, <1>4, <1>5, InsideKeeps
  <1>7. SetInOrder'
    BY <1>2, <1>6 DEF SetInOrder, Placed, InConstructor, Early
  <1>. QED  BY <1>4, <1>6, <1>7

LEMMA AtLeastOnePreserves ==
  ASSUME IInv, NEW c \in Callers, AtLeastOne(c) PROVE IInv'
  <1>. USE DEF IInv, AtLeastOne, arrays
  <1>1. \A w \in Workers : w \notin Callers
    BY StartAssumption DEF Workers
  <1>2. /\ LabelsOK' /\ pc'[c] = "globals"
        /\ \A u \in Callers \cup Workers : u # c => pc'[u] = pc[u]
    BY <1>1 DEF Types, LabelsOK, Goto, CallerLabels, InConstructor
  <1>3. m_NumThreads' \in 1..MaxWorkers
    BY StartAssumption DEF Types
  <1>4. Types' /\ Inside(c)
    <2>1. m_NumThreads' \in 0..MaxWorkers
      BY <1>3
    <2>. QED  BY <1>2, <2>1 DEF Types, Inside, InConstructor, Early
  <1>5. m_NumThreads' = m_NumThreads \/ \A d \in Callers : tidx[d] = 0
    <2>1. Ahead(Early)
      BY Position DEF InConstructor, Early
    <2>. QED  BY <2>1 DEF IndicesInRange, Types, Workers
  <1>6. /\ m_InitOnce # 0 /\ m_InitOnce' # 0
        /\ Placed(c) /\ Placed(c)'
        /\ \A d \in Callers : d # c => pc'[d] \notin InConstructor
        /\ OneConstructor' /\ StartedInOrder' /\ BarrierCounts'
        /\ ThreadsAreCounted' /\ IndicesInRange'
    BY <1>2, <1>4, <1>5, InsideKeeps
  <1>7. SetInOrder'
    BY <1>2, <1>3, <1>6 DEF SetInOrder, Placed, InConstructor, Early
  <1>. QED  BY <1>4, <1>6, <1>7

LEMMA AllocatePreserves ==
  ASSUME IInv, NEW c \in Callers, Allocate(c) PROVE IInv'
  <1>. USE DEF IInv, Allocate, arrays
  <1>1. \A w \in Workers : w \notin Callers
    BY StartAssumption DEF Workers
  <1>2. /\ LabelsOK' /\ pc[c] \in {"globals", "locals", "mutexes", "traces"}
        /\ pc'[c] = CASE pc[c] = "globals" -> "locals" [] pc[c] = "locals" -> "mutexes"
                       [] pc[c] = "mutexes" -> "traces" [] pc[c] = "traces" -> "launch"
        /\ \A u \in Callers \cup Workers : u # c => pc'[u] = pc[u]
    BY <1>1 DEF Types, LabelsOK, Goto, CallerLabels, InConstructor
  <1>3. m_NumThreads \in 1..MaxWorkers
    BY <1>2 DEF Types, SetInOrder
  <1>4. /\ m_GlobalQueues' = NULL \/ \E n \in 1..MaxWorkers : m_GlobalQueues' \in [0..(n - 1) -> Nat]
        /\ pc[c] = "globals" => m_GlobalQueues' # NULL /\ DOMAIN m_GlobalQueues' = 0..(m_NumThreads - 1)
    <2>1. CASE pc[c] = "globals"
      <3>1. m_GlobalQueues' \in [0..(m_NumThreads - 1) -> Nat]
        BY <2>1
      <3>. QED  BY <1>3, <2>1, <3>1, StartAssumption
    <2>2. CASE pc[c] # "globals"
      BY <2>2 DEF Types
    <2>. QED  BY <2>1, <2>2
  <1>5. Types'
    BY <1>2, <1>4 DEF Types
  <1>6. Inside(c)
    BY <1>2 DEF Inside, InConstructor, Early
  <1>7. pc'[c] = "launch" => m_Traces' > 0 /\ m_NumThreads' = m_Traces' /\ m_NumThreads' = m_NumThreads
    BY <1>2, <1>3
  <1>8. /\ m_InitOnce # 0 /\ m_InitOnce' # 0
        /\ Placed(c) /\ Placed(c)'
        /\ \A d \in Callers : d # c => pc'[d] \notin InConstructor
        /\ OneConstructor' /\ StartedInOrder' /\ BarrierCounts'
        /\ ThreadsAreCounted' /\ IndicesInRange'
    BY <1>5, <1>6, <1>7, InsideKeeps
  <1>9. SetInOrder'
    <2>1. \A d \in Callers : d # c => pc'[d] \notin {"globals", "locals", "mutexes", "traces"}
      BY <1>8 DEF InConstructor
    <2>2. CASE pc[c] = "globals"
      BY <1>2, <1>3, <1>4, <1>8, <2>1, <2>2 DEF SetInOrder, Placed
    <2>3. CASE pc[c] = "locals"
      BY <1>2, <1>3, <1>8, <2>1, <2>3 DEF SetInOrder, Placed
    <2>4. CASE pc[c] = "mutexes"
      BY <1>2, <1>3, <1>8, <2>1, <2>4 DEF SetInOrder, Placed
    <2>5. CASE pc[c] = "traces"
      BY <1>2, <1>3, <1>8, <2>1, <2>5 DEF SetInOrder, Placed
    <2>. QED  BY <1>2, <2>2, <2>3, <2>4, <2>5
  <1>. QED  BY <1>5, <1>8, <1>9

LEMMA LaunchPreserves == ASSUME IInv, NEW c \in Callers, Launch(c) PROVE IInv'
  <1>. USE DEF IInv, Launch, arrays
  <1>1. \A w \in Workers : w \notin Callers
    BY StartAssumption DEF Workers
  <1>2. /\ m_InitOnce # 0 /\ ~Ahead(Early)
        /\ \A d \in Callers : d # c => pc[d] \notin InConstructor
    BY Position DEF OneConstructor, InConstructor, Early
  <1>3. /\ m_Traces \in 1..MaxWorkers /\ m_NumThreads <= m_Traces
        /\ m_NumThreads \in Nat
        /\ i[c] \in 0..m_Traces /\ \A w \in Workers : pc[w] # "none" => w < i[c]
    <2>1. m_Traces \in 1..MaxWorkers /\ m_NumThreads <= m_Traces /\ m_NumThreads \in Nat
      <3>1. m_Traces \in Nat \ {0} /\ m_NumThreads <= m_Traces
        BY <1>2, CountsInRange
      <3>2. m_Traces \in 0..MaxWorkers /\ m_NumThreads \in 0..MaxWorkers
        BY DEF Types
      <3>. QED  BY <3>1, <3>2, StartAssumption
    <2>2. i[c] \in Nat
      BY DEF Types
    <2>. QED  BY <2>1, <2>2 DEF StartedInOrder
  <1>4. CASE i[c] < m_NumThreads
    <2>1. i[c] \in Workers /\ i[c] \notin Callers /\ pc[i[c]] = "none"
      <3>1. i[c] \in Workers
        BY <1>3, <1>4, StartAssumption DEF Workers
      <3>2. ~(i[c] < i[c])
        BY <1>3
      <3>. QED  BY <1>1, <1>3, <3>1, <3>2
    <2>2. /\ LabelsOK' /\ pc'[i[c]] = "entry"
          /\ \A u \in Callers \cup Workers : u # i[c] => pc'[u] = pc[u]
      BY <1>4, <2>1 DEF Types, LabelsOK, WorkerLabels, BeforeBarrier
    <2>3. i' \in [Callers -> 0..MaxWorkers] /\ i'[c] = i[c] + 1
      <3>1. i[c] + 1 \in 0..MaxWorkers
        BY <1>3, <1>4, StartAssumption
      <3>. QED  BY <1>4, <3>1 DEF Types
    <2>4. Types'
      BY <1>4, <2>2, <2>3 DEF Types
    <2>5. \A d \in Callers : pc'[d] = pc[d]
      BY <2>1, <2>2
    <2>6. \A labels \in SUBSET InConstructor : Ahead(labels)' <=> Ahead(labels)
      BY <2>5 DEF Ahead
    <2>7. Ahead(Early)' <=> Ahead(Early)
      BY <2>6 DEF Early
    <2>8. OneConstructor'
      BY <1>2, <2>5, <1>4 DEF OneConstructor, Early, Types
    <2>9. SetInOrder'
      <3>1. /\ Ahead({"resource"})' <=> Ahead({"resource"})
            /\ Ahead({"resource", "threads"})' <=> Ahead({"resource", "threads"})
            /\ Ahead({"resource", "threads", "atLeastOne", "globals"})'
                 <=> Ahead({"resource", "threads", "atLeastOne", "globals"})
        BY <2>6 DEF InConstructor
      <3>. QED  BY <2>5, <2>7, <3>1 DEF SetInOrder
    <2>10. StartedInOrder'
      <3>1. \A w \in Workers : pc'[w] # "none" => w <= i[c] /\ w < m_Traces
        <4>1. \A w \in Workers : w \in Nat
          BY StartAssumption DEF Workers
        <4>2. \A w \in Workers : w # i[c] => pc'[w] = pc[w]
          BY <2>2
        <4>. QED  BY <1>3, <1>4, <4>1, <4>2
      <3>2. \A d \in Callers : pc'[d] = "launch" => d = c
        BY <1>2, <2>5 DEF InConstructor
      <3>. QED  BY <1>2, <1>3, <1>4, <2>3, <2>7, <3>1, <3>2 DEF StartedInOrder, Workers
    <2>11. Arrived' = Arrived /\ Stopped' = Stopped
      BY <2>1, <2>2 DEF Arrived, Stopped, AfterBarrier
    <2>12. BarrierCounts'
      BY <2>1, <2>2, <2>7, <2>11 DEF BarrierCounts, AfterBarrier
    <2>13. ThreadsAreCounted'
      BY <2>1, <2>2, <2>7, <2>11 DEF ThreadsAreCounted
    <2>14. IndicesInRange'
      BY <2>7 DEF IndicesInRange
    <2>. QED  BY <2>4, <2>8, <2>9, <2>10, <2>12, <2>13, <2>14
  <1>5. CASE ~(i[c] < m_NumThreads)
    <2>1. /\ LabelsOK' /\ pc'[c] = "constructed"
          /\ \A u \in Callers \cup Workers : u # c => pc'[u] = pc[u]
      BY <1>1, <1>5 DEF Types, LabelsOK, Goto, CallerLabels
    <2>2. Types'
      BY <1>5, <2>1 DEF Types
    <2>3. \A labels \in SUBSET Early : Ahead(labels)' <=> Ahead(labels)
      BY <1>2, <2>1 DEF Ahead, Early, InConstructor
    <2>4. /\ Ahead({"resource"})' <=> Ahead({"resource"})
          /\ Ahead({"resource", "threads"})' <=> Ahead({"resource", "threads"})
          /\ Ahead({"resource", "threads", "atLeastOne", "globals"})'
               <=> Ahead({"resource", "threads", "atLeastOne", "globals"})
          /\ Ahead(Early)' <=> Ahead(Early)
      BY <2>3 DEF InConstructor, Early
    <2>5. OneConstructor'
      BY <1>2, <1>5, <2>1 DEF OneConstructor, Early, InConstructor
    <2>6. SetInOrder'
      BY <1>2, <2>1, <2>4 DEF SetInOrder
    <2>7. \A w \in Workers : pc'[w] = pc[w]
      BY <1>1, <2>1
    <2>8. StartedInOrder'
      BY <1>5, <2>1, <2>4, <2>7 DEF StartedInOrder
    <2>9. Arrived' = Arrived /\ Stopped' = Stopped
      BY <2>7 DEF Arrived, Stopped
    <2>10. BarrierCounts' /\ ThreadsAreCounted' /\ IndicesInRange'
      BY <2>4, <2>7, <2>9 DEF BarrierCounts, ThreadsAreCounted, IndicesInRange
    <2>. QED  BY <2>2, <2>5, <2>6, <2>8, <2>10
  <1>. QED  BY <1>4, <1>5
-----------------------------------------------------------------------------
(* The workers.  When one of them runs, every member is set. *)
WorkerMoves(w) ==
  /\ UNCHANGED <<m_InitOnce, m_MemoryResource, m_LocalQueues, m_Mutexes, m_Traces,
                 m_Shutdown, tidx, i>>
  /\ m_GlobalQueues' = NULL <=> m_GlobalQueues = NULL
  /\ m_GlobalQueues # NULL => DOMAIN m_GlobalQueues' = DOMAIN m_GlobalQueues
  /\ pc[w] # "none"
  /\ \A t \in Callers \cup Workers : t # w => pc'[t] = pc[t]

LEMMA WorkerKeeps ==
  ASSUME IInv, NEW w \in Workers, WorkerMoves(w)
  PROVE  /\ ~Ahead(Early) /\ ~Ahead(Early)'
         /\ OneConstructor' /\ SetInOrder' /\ StartedInOrder'
         /\ \A c \in Callers : tidx'[c] = 0 \/ tidx'[c] < IF Ahead(Early)' THEN m_NumThreads' ELSE m_Traces'
  <1>. USE DEF IInv, WorkerMoves
  <1>1. \A c \in Callers : pc'[c] = pc[c]
    BY StartAssumption DEF Workers
  <1>2. \A labels \in SUBSET InConstructor : Ahead(labels)' <=> Ahead(labels)
    BY <1>1 DEF Ahead
  <1>3. /\ Ahead({"resource"})' <=> Ahead({"resource"})
        /\ Ahead({"resource", "threads"})' <=> Ahead({"resource", "threads"})
        /\ Ahead({"resource", "threads", "atLeastOne", "globals"})'
             <=> Ahead({"resource", "threads", "atLeastOne", "globals"})
        /\ Ahead(Early)' <=> Ahead(Early)
    BY <1>2 DEF InConstructor, Early
  <1>4. ~Ahead(Early) /\ ~Ahead(Early)'
    BY <1>3 DEF StartedInOrder
  <1>5. /\ ~Ahead({"resource"}) /\ ~Ahead({"resource", "threads"})
        /\ ~Ahead({"resource", "threads", "atLeastOne", "globals"})
        /\ \A c \in Callers : pc[c] \notin {"globals", "locals", "mutexes", "traces"}
    BY <1>4 DEF Ahead, Early, InConstructor
  <1>6. OneConstructor'
    BY <1>1 DEF OneConstructor
  <1>7. SetInOrder'
    BY <1>1, <1>3, <1>4, <1>5 DEF SetInOrder
  <1>8. StartedInOrder'
    BY <1>1, <1>4 DEF StartedInOrder
  <1>9. \A c \in Callers : tidx'[c] = 0 \/ tidx'[c] < IF Ahead(Early)' THEN m_NumThreads' ELSE m_Traces'
    BY <1>4 DEF IndicesInRange
  <1>. QED  BY <1>4, <1>6, <1>7, <1>8, <1>9

(* The labels after a step of a worker. *)
LEMMA WorkerGoes ==
  ASSUME LabelsOK, NEW w \in Workers, NEW label \in WorkerLabels, Goto(w, label)
  PROVE  /\ LabelsOK' /\ pc'[w] = label
         /\ \A t \in Callers \cup Workers : t # w => pc'[t] = pc[t]
  BY StartAssumption DEF LabelsOK, Goto, Workers

LEMMA InitBarrierPreserves == ASSUME IInv, NEW w \in Workers, InitBarrier(w) PROVE IInv'
  <1>. USE DEF IInv, InitBarrier, arrays
  <1>1. /\ LabelsOK' /\ pc'[w] = "arrive"
        /\ \A t \in Callers \cup Workers : t # w => pc'[t] = pc[t]
    BY WorkerGoes DEF Types, WorkerLabels, BeforeBarrier
  <1>2. Types'
    BY <1>1 DEF Types
  <1>3. WorkerMoves(w)
    BY <1>1 DEF WorkerMoves
  <1>4. /\ ~Ahead(Early) /\ ~Ahead(Early)'
        /\ OneConstructor' /\ SetInOrder' /\ StartedInOrder'
        /\ \A c \in Callers : tidx'[c] = 0 \/ tidx'[c] < IF Ahead(Early)' THEN m_NumThreads' ELSE m_Traces'
    BY <1>3, WorkerKeeps
  <1>5. Arrived' = Arrived /\ Stopped' = Stopped
    BY <1>1 DEF Arrived, Stopped, AfterBarrier
  <1>6. remaining_workers' # NULL /\ remaining_workers' = m_Traces - Cardinality(Arrived)
    <2>1. CASE remaining_workers = NULL
      <3>1. Arrived = {} /\ Stopped = {}
        BY <2>1 DEF BarrierCounts, Arrived, Stopped, AfterBarrier
      <3>2. Cardinality(Arrived) = 0 /\ Cardinality(Stopped) = 0
        BY <3>1, FS_EmptySet
      <3>3. m_Traces \in Nat /\ m_NumThreads \in Nat
        BY DEF Types
      <3>4. m_NumThreads = m_Traces
        BY <1>4, <3>2, <3>3 DEF ThreadsAreCounted
      <3>. QED  BY <2>1, <3>2, <3>3, <3>4, StartAssumption
    <2>2. CASE remaining_workers # NULL
      BY <2>2 DEF BarrierCounts
    <2>. QED  BY <2>1, <2>2
  <1>7. BarrierCounts'
    BY <1>1, <1>4, <1>5, <1>6 DEF BarrierCounts, AfterBarrier
  <1>8. ThreadsAreCounted' /\ IndicesInRange'
    BY <1>1, <1>4, <1>5 DEF ThreadsAreCounted, IndicesInRange
  <1>. QED  BY <1>2, <1>4, <1>7, <1>8

LEMMA ArrivePreserves == ASSUME IInv, NEW w \in Workers, Arrive(w) PROVE IInv'
  <1>. USE DEF IInv, Arrive, arrays
  <1>1. /\ LabelsOK' /\ pc'[w] = "barrier"
        /\ \A t \in Callers \cup Workers : t # w => pc'[t] = pc[t]
    BY WorkerGoes DEF Types, WorkerLabels, BeforeBarrier
  <1>2. WorkerMoves(w)
    BY <1>1 DEF WorkerMoves
  <1>3. /\ ~Ahead(Early) /\ ~Ahead(Early)'
        /\ OneConstructor' /\ SetInOrder' /\ StartedInOrder'
        /\ \A c \in Callers : tidx'[c] = 0 \/ tidx'[c] < IF Ahead(Early)' THEN m_NumThreads' ELSE m_Traces'
    BY <1>2, WorkerKeeps
  <1>4. /\ w \notin Arrived /\ Arrived' = Arrived \cup {w}
        /\ Stopped' = Stopped
    BY <1>1 DEF Arrived, Stopped, AfterBarrier
  <1>5. /\ m_Traces \in Nat \ {0} /\ IsFiniteSet(Arrived) /\ Cardinality(Arrived) \in 0..m_Traces
        /\ Arrived \subseteq 0..(m_Traces - 1) /\ w \in 0..(m_Traces - 1)
    <2>1. /\ m_Traces \in Nat \ {0} /\ IsFiniteSet(Arrived) /\ Cardinality(Arrived) \in 0..m_Traces
          /\ Arrived \subseteq 0..(m_Traces - 1)
      BY <1>3, CountsInRange
    <2>2. w < m_Traces /\ w \in Nat
      BY StartAssumption DEF StartedInOrder, Workers
    <2>. QED  BY <2>1, <2>2
  <1>6. Cardinality(Arrived') = Cardinality(Arrived) + 1 /\ Cardinality(Arrived') <= m_Traces
    <2>1. Cardinality(Arrived') = Cardinality(Arrived) + 1
      BY <1>4, <1>5, FS_AddElement
    <2>2. Arrived' \in SUBSET (0..(m_Traces - 1))
      BY <1>4, <1>5
    <2>3. IsFiniteSet(0..(m_Traces - 1)) /\ Cardinality(0..(m_Traces - 1)) = m_Traces
      BY <1>5, IndicesAreFinite
    <2>. QED  BY <2>1, <2>2, <2>3, FS_Subset
  <1>7. remaining_workers # NULL /\ remaining_workers = m_Traces - Cardinality(Arrived)
    BY DEF BarrierCounts
  <1>8. /\ remaining_workers' \in Nat /\ remaining_workers' # NULL
        /\ remaining_workers' = m_Traces' - Cardinality(Arrived')
    BY <1>5, <1>6, <1>7, StartAssumption
  <1>9. Types'
    BY <1>1, <1>8 DEF Types
  <1>10. \A v \in Workers : pc'[v] \notin AfterBarrier
    <2>1. \A v \in Workers : pc[v] \notin AfterBarrier
      BY <1>4, <1>5 DEF BarrierCounts
    <2>. QED  BY <1>1, <2>1 DEF AfterBarrier
  <1>11. BarrierCounts'
    BY <1>3, <1>8, <1>10 DEF BarrierCounts
  <1>12. ThreadsAreCounted' /\ IndicesInRange'
    BY <1>1, <1>3, <1>4 DEF ThreadsAreCounted, IndicesInRange
  <1>. QED  BY <1>3, <1>9, <1>11, <1>12

LEMMA LeaveBarrierPreserves == ASSUME IInv, NEW w \in Workers, LeaveBarrier(w) PROVE IInv'
  <1>. USE DEF IInv, LeaveBarrier, arrays
  <1>1. /\ LabelsOK' /\ pc'[w] = "index"
        /\ \A t \in Callers \cup Workers : t # w => pc'[t] = pc[t]
    BY WorkerGoes DEF Types, WorkerLabels, AfterBarrier
  <1>2. Types' /\ WorkerMoves(w)
    BY <1>1 DEF Types, WorkerMoves
  <1>3. /\ ~Ahead(Early) /\ ~Ahead(Early)'
        /\ OneConstructor' /\ SetInOrder' /\ StartedInOrder'
        /\ \A c \in Callers : tidx'[c] = 0 \/ tidx'[c] < IF Ahead(Early)' THEN m_NumThreads' ELSE m_Traces'
    BY <1>2, WorkerKeeps
  <1>4. Arrived' = Arrived /\ Stopped' = Stopped
    BY <1>1 DEF Arrived, Stopped, AfterBarrier
  <1>5. Arrived = 0..(m_Traces - 1)
    <2>1. /\ m_Traces \in Nat \ {0} /\ Cardinality(Arrived) \in 0..m_Traces
          /\ Arrived \subseteq 0..(m_Traces - 1)
      BY <1>3, CountsInRange
    <2>2. remaining_workers # NULL /\ remaining_workers = m_Traces - Cardinality(Arrived)
      BY DEF BarrierCounts
    <2>3. Cardinality(Arrived) = m_Traces
      BY <2>1, <2>2 DEF EveryoneIsThere
    <2>4. IsFiniteSet(0..(m_Traces - 1)) /\ Cardinality(0..(m_Traces - 1)) = m_Traces
      BY <2>1, IndicesAreFinite
    <2>5. Arrived \in SUBSET (0..(m_Traces - 1))
      BY <2>1
    <2>. QED  BY <2>3, <2>4, <2>5, FS_Subset
  <1>6. BarrierCounts'
    BY <1>1, <1>3, <1>4, <1>5 DEF BarrierCounts
  <1>7. ThreadsAreCounted' /\ IndicesInRange'
    BY <1>1, <1>3, <1>4 DEF ThreadsAreCounted, IndicesInRange
  <1>. QED  BY <1>2, <1>3, <1>6, <1>7

(* A worker that has passed the barrier and not stopped is one that m_NumThreads counts. *)
LEMMA SomeoneIsLeft ==
  ASSUME IInv, NEW w \in Workers, pc[w] \in AfterBarrier \ {"stopped"}
  PROVE  /\ m_Traces \in 1..MaxWorkers /\ m_NumThreads \in 1..m_Traces
         /\ ~m_Shutdown => m_NumThreads = m_Traces
  <1>. USE DEF IInv
  <1>1. ~Ahead(Early)
    BY DEF StartedInOrder, AfterBarrier
  <1>2. /\ m_Traces \in Nat \ {0} /\ IsFiniteSet(Arrived) /\ IsFiniteSet(Stopped)
        /\ Arrived \subseteq 0..(m_Traces - 1) /\ Stopped \subseteq Arrived
    BY <1>1, CountsInRange
  <1>3. IsFiniteSet(0..(m_Traces - 1)) /\ Cardinality(0..(m_Traces - 1)) = m_Traces
    BY <1>2, IndicesAreFinite
  <1>4. m_NumThreads = m_Traces - Cardinality(Stopped) /\ Cardinality(Stopped) \in Nat
    BY <1>1, <1>2, FS_CardinalityType DEF ThreadsAreCounted
  <1>5. Cardinality(Stopped) # m_Traces
    <2>1. w \in Arrived /\ w \notin Stopped
      BY DEF Arrived, Stopped
    <2>2. Stopped \in SUBSET (0..(m_Traces - 1)) /\ Stopped # 0..(m_Traces - 1)
      BY <1>2, <2>1
    <2>. QED  BY <1>3, <2>2, FS_Subset
  <1>6. m_Traces \in 0..MaxWorkers /\ m_NumThreads \in 0..MaxWorkers
    BY DEF Types
  <1>7. Cardinality(Stopped) <= m_Traces
    BY <1>1, CountsInRange
  <1>8. ~m_Shutdown => Cardinality(Stopped) = 0
    <2>1. ~m_Shutdown => Stopped = {}
      BY DEF ThreadsAreCounted, Stopped
    <2>. QED  BY <2>1, FS_EmptySet
  <1>. QED  BY <1>2, <1>4, <1>5, <1>6, <1>7, <1>8, StartAssumption

LEMMA QueueIsThere ==
  ASSUME IInv, NEW w \in Workers, pc[w] # "none"
  PROVE  \E n \in 1..MaxWorkers : m_GlobalQueues \in [0..(n - 1) -> Nat] /\ w \in 0..(n - 1)
  <1>. USE DEF IInv
  <1>1. ~Ahead(Early)
    BY DEF StartedInOrder
  <1>2. m_GlobalQueues # NULL /\ DOMAIN m_GlobalQueues = 0..(m_Traces - 1) /\ m_Traces \in Nat
    BY <1>1 DEF SetInOrder, Types
  <1>3. w \in 0..(m_Traces - 1)
    BY <1>2, StartAssumption DEF StartedInOrder, Workers
  <1>4. PICK n \in 1..MaxWorkers : m_GlobalQueues \in [0..(n - 1) -> Nat]
    BY <1>2 DEF Types
  <1>. QED  BY <1>2, <1>3, <1>4

LEMMA SetUpPreserves == ASSUME IInv, NEW w \in Workers, SetUp(w) PROVE IInv'
  <1>. USE DEF IInv, SetUp, arrays
  <1>1. /\ LabelsOK' /\ pc'[w] = "loop"
        /\ \A t \in Callers \cup Workers : t # w => pc'[t] = pc[t]
    BY WorkerGoes DEF Types, WorkerLabels, AfterBarrier
  <1>2. WorkerMoves(w)
    BY <1>1 DEF WorkerMoves
  <1>3. /\ ~Ahead(Early) /\ ~Ahead(Early)'
        /\ OneConstructor' /\ SetInOrder' /\ StartedInOrder'
        /\ \A c \in Callers : tidx'[c] = 0 \/ tidx'[c] < IF Ahead(Early)' THEN m_NumThreads' ELSE m_Traces'
    BY <1>2, WorkerKeeps
  <1>4. Arrived' = Arrived /\ Stopped' = Stopped
    BY <1>1 DEF Arrived, Stopped, AfterBarrier
  <1>5. /\ m_Traces \in 1..MaxWorkers /\ m_NumThreads \in 1..m_Traces
        /\ ~m_Shutdown => m_NumThreads = m_Traces
    BY <1>3, SomeoneIsLeft DEF AfterBarrier
  <1>6. /\ FirstVictim(w) \in 0..(m_NumThreads - 1)
        /\ ~m_Shutdown => FirstVictim(w) = (w + 1) % m_Traces
    BY <1>5, StartAssumption DEF FirstVictim, Workers
  <1>7. FirstVictim(w) \in Workers /\ FirstVictim(w) < m_Traces
    BY <1>5, <1>6, StartAssumption DEF Workers
  <1>8. Types'
    BY <1>1, <1>7 DEF Types
  <1>9. BarrierCounts' /\ ThreadsAreCounted'
    BY <1>1, <1>3, <1>4 DEF BarrierCounts, ThreadsAreCounted, AfterBarrier
  <1>10. IndicesInRange'
    <2>1. steal_from'[w] = FirstVictim(w) /\ \A v \in Workers : v # w => steal_from'[v] = steal_from[v]
      BY DEF Types
    <2>. QED  BY <1>3, <1>6, <1>7, <2>1 DEF IndicesInRange
  <1>. QED  BY <1>3, <1>8, <1>9, <1>10

LEMMA LoopPreserves == ASSUME IInv, NEW w \in Workers, Loop(w) PROVE IInv'
  <1>. USE DEF IInv, Loop, arrays
  <1>1. /\ LabelsOK' /\ pc'[w] \in {"loop", "exit"} /\ pc[w] = "loop"
        /\ pc'[w] = "exit" => m_Shutdown
        /\ \A t \in Callers \cup Workers : t # w => pc'[t] = pc[t]
    <2>1. CASE Goto(w, "exit") /\ m_Shutdown
      BY <2>1, WorkerGoes DEF Types, WorkerLabels, AfterBarrier
    <2>2. CASE UNCHANGED pc
      BY <2>2 DEF Types, LabelsOK
    <2>. QED  BY <2>1, <2>2
  <1>2. \E n \in 1..MaxWorkers :
          m_GlobalQueues \in [0..(n - 1) -> Nat] /\ m_GlobalQueues' \in [0..(n - 1) -> Nat]
    <2>1. PICK n \in 1..MaxWorkers : m_GlobalQueues \in [0..(n - 1) -> Nat] /\ w \in 0..(n - 1)
      BY QueueIsThere
    <2>2. CASE UNCHANGED m_GlobalQueues
      BY <2>1, <2>2
    <2>3. CASE m_GlobalQueues[w] > 0 /\ m_GlobalQueues' = [m_GlobalQueues EXCEPT ![w] = @ - 1]
      <3>1. m_GlobalQueues[w] \in Nat
        BY <2>1
      <3>2. m_GlobalQueues[w] - 1 \in Nat
        BY <2>3, <3>1
      <3>. QED  BY <2>1, <2>3, <3>2
    <2>. QED  BY <2>2, <2>3
  <1>3. m_GlobalQueues # NULL /\ m_GlobalQueues' # NULL /\ DOMAIN m_GlobalQueues' = DOMAIN m_GlobalQueues
    BY <1>2, StartAssumption
  <1>4. Types'
    BY <1>1, <1>2 DEF Types
  <1>5. WorkerMoves(w)
    BY <1>1, <1>3 DEF WorkerMoves
  <1>6. /\ ~Ahead(Early) /\ ~Ahead(Early)'
        /\ OneConstructor' /\ SetInOrder' /\ StartedInOrder'
        /\ \A c \in Callers : tidx'[c] = 0 \/ tidx'[c] < IF Ahead(Early)' THEN m_NumThreads' ELSE m_Traces'
    BY <1>5, WorkerKeeps
  <1>7. Arrived' = Arrived /\ Stopped' = Stopped
    BY <1>1 DEF Arrived, Stopped, AfterBarrier
  <1>8. BarrierCounts' /\ ThreadsAreCounted' /\ IndicesInRange'
    BY <1>1, <1>6, <1>7 DEF BarrierCounts, ThreadsAreCounted, IndicesInRange, AfterBarrier
  <1>. QED  BY <1>4, <1>6, <1>8

LEMMA LeavePreserves == ASSUME IInv, NEW w \in Workers, Leave(w) PROVE IInv'
  <1>. USE DEF IInv, Leave, arrays
  <1>1. /\ LabelsOK' /\ pc'[w] = "stopped"
        /\ \A t \in Callers \cup Workers : t # w => pc'[t] = pc[t]
    BY WorkerGoes DEF Types, WorkerLabels, AfterBarrier
  <1>2. \E n \in 1..MaxWorkers :
          m_GlobalQueues \in [0..(n - 1) -> Nat] /\ m_GlobalQueues' \in [0..(n - 1) -> Nat]
    BY QueueIsThere
  <1>3. m_GlobalQueues # NULL /\ m_GlobalQueues' # NULL /\ DOMAIN m_GlobalQueues' = DOMAIN m_GlobalQueues
    BY <1>2, StartAssumption
  <1>4. WorkerMoves(w)
    BY <1>1, <1>3 DEF WorkerMoves
  <1>5. /\ ~Ahead(Early) /\ ~Ahead(Early)'
        /\ OneConstructor' /\ SetInOrder' /\ StartedInOrder'
        /\ \A c \in Callers : tidx'[c] = 0 \/ tidx'[c] < IF Ahead(Early)' THEN m_NumThreads' ELSE m_Traces'
    BY <1>4, WorkerKeeps
  <1>6. Arrived' = Arrived /\ w \notin Stopped /\ Stopped' = Stopped \cup {w}
    BY <1>1 DEF Arrived, Stopped, AfterBarrier
  <1>7. m_NumThreads \in 1..m_Traces /\ m_Traces \in 1..MaxWorkers
    BY <1>5, SomeoneIsLeft DEF AfterBarrier
  <1>8. m_NumThreads' = m_Traces' - Cardinality(Stopped')
    <2>1. IsFiniteSet(Stopped) /\ Cardinality(Stopped) \in Nat
      BY <1>5, CountsInRange, FS_CardinalityType
    <2>2. Cardinality(Stopped') = Cardinality(Stopped) + 1
      BY <1>6, <2>1, FS_AddElement
    <2>3. m_NumThreads = m_Traces - Cardinality(Stopped)
      BY <1>5 DEF ThreadsAreCounted
    <2>. QED  BY <1>7, <2>1, <2>2, <2>3
  <1>9. Types'
    <2>1. m_NumThreads' \in 0..MaxWorkers
      BY <1>7, StartAssumption
    <2>. QED  BY <1>1, <1>2, <2>1 DEF Types
  <1>10. BarrierCounts'
    BY <1>1, <1>5, <1>6 DEF BarrierCounts, AfterBarrier
  <1>11. ThreadsAreCounted'
    BY <1>1, <1>8 DEF ThreadsAreCounted
  <1>12. IndicesInRange'
    BY <1>5 DEF IndicesInRange
  <1>. QED  BY <1>5, <1>9, <1>10, <1>11, <1>12
-----------------------------------------------------------------------------
LEMMA NextPreserves == IInv /\ [Next]_vars => IInv'
  <1>. SUFFICES ASSUME IInv, [Next]_vars PROVE IInv'
    OBVIOUS
  <1>1. ASSUME NEW c \in Callers, TestInitOnce(c) PROVE IInv'
    BY <1>1, TestInitOncePreserves
  <1>2. ASSUME NEW c \in Callers, ConstructorStep(c) PROVE IInv'
    BY <1>2, ClaimPreserves, SetMemoryResourcePreserves, SetNumThreadsPreserves,
       AtLeastOnePreserves, AllocatePreserves, LaunchPreserves DEF ConstructorStep
  <1>3. ASSUME NEW c \in Callers, CreateJob(c) \/ Place(c) \/ Push(c) \/ Shutdown(c) PROVE IInv'
    BY <1>3, CreateJobPreserves, PlacePreserves, PushPreserves, ShutdownPreserves
  <1>4. ASSUME NEW w \in Workers, WorkerStep(w) PROVE IInv'
    BY <1>4, InitBarrierPreserves, ArrivePreserves, LeaveBarrierPreserves,
       SetUpPreserves, LoopPreserves, LeavePreserves DEF WorkerStep
  <1>5. CASE UNCHANGED vars
    BY <1>5 DEF vars, arrays, IInv, Types, LabelsOK, OneConstructor, SetInOrder, StartedInOrder,
                BarrierCounts, ThreadsAreCounted, IndicesInRange, Ahead, Arrived, Stopped
  <1>. QED  BY <1>1, <1>2, <1>3, <1>4, <1>5 DEF Next

(* The invariant holds of every state of every behaviour. *)
THEOREM Inductive == Spec => []IInv
  BY InitHolds, NextPreserves, PTL DEF Spec

(* Every variable keeps its type: the barrier, for one, never counts below zero. *)
THEOREM TypeCorrect == Spec => []TypeOK
  <1>1. IInv => TypeOK
    <2>. SUFFICES ASSUME IInv PROVE TypeOK
      OBVIOUS
    <2>. USE DEF IInv
    <2>1. remaining_workers \in {NULL} \cup 0..MaxWorkers
      <3>1. CASE remaining_workers # NULL
        <4>1. ~Ahead(Early) /\ remaining_workers = m_Traces - Cardinality(Arrived)
          BY <3>1 DEF BarrierCounts
        <4>2. m_Traces \in Nat /\ Cardinality(Arrived) \in 0..m_Traces
          BY <4>1, CountsInRange
        <4>3. m_Traces \in 0..MaxWorkers
          BY DEF Types
        <4>. QED  BY <4>1, <4>2, <4>3, StartAssumption
      <3>. QED  BY <3>1
    <2>2. pc \in [Callers \cup Workers ->
                    InConstructor \cup BeforeBarrier \cup AfterBarrier
                      \cup {"ready", "claim", "constructed", "place", "push", "broken", "none"}]
      <3>1. CallerLabels \cup WorkerLabels
              = InConstructor \cup BeforeBarrier \cup AfterBarrier
                  \cup {"ready", "claim", "constructed", "place", "push", "broken", "none"}
        BY DEF CallerLabels, WorkerLabels
      <3>. QED  BY <3>1 DEF Types, LabelsOK
    <2>. QED  BY <2>1, <2>2 DEF Types, TypeOK
  <1>. QED  BY <1>1, Inductive, PTL

(***************************************************************************)
(* A worker that runs finds every array with an element for each worker,   *)
(* although worker uses them without a test.                               *)
(***************************************************************************)
THEOREM WorkersFindEverythingHolds == Spec => []WorkersFindEverything
  <1>1. IInv => WorkersFindEverything
    <2>. SUFFICES ASSUME IInv, NEW w \in Workers, pc[w] # "none"
                  PROVE  /\ m_MemoryResource # NULL /\ m_GlobalQueues # NULL
                         /\ w \in DOMAIN m_GlobalQueues
                         /\ \A size \in {m_LocalQueues, m_Mutexes, m_Traces} :
                              DOMAIN m_GlobalQueues = 0..(size - 1)
      BY DEF WorkersFindEverything
    <2>. USE DEF IInv
    <2>1. ~Ahead(Early)
      BY DEF StartedInOrder
    <2>2. ~Ahead({"resource"})
      BY <2>1 DEF Ahead, Early, InConstructor
    <2>3. /\ m_GlobalQueues # NULL /\ DOMAIN m_GlobalQueues = 0..(m_Traces - 1)
          /\ m_LocalQueues = m_Traces /\ m_Mutexes = m_Traces
      BY <2>1 DEF SetInOrder
    <2>4. w \in DOMAIN m_GlobalQueues
      BY QueueIsThere
    <2>. QED  BY <2>2, <2>3, <2>4 DEF SetInOrder
  <1>. QED  BY <1>1, Inductive, PTL

(* The barrier of worker: nobody passes it before every worker of the pool is in it. *)
THEOREM StartTogetherHolds == Spec => []StartTogether
  <1>1. IInv => StartTogether
    <2>. SUFFICES ASSUME IInv, NEW w \in Workers, pc[w] \in AfterBarrier,
                         NEW v \in DOMAIN m_GlobalQueues
                  PROVE  pc[v] \in AfterBarrier \cup {"barrier"}
      BY DEF StartTogether
    <2>. USE DEF IInv
    <2>1. ~Ahead(Early)
      BY DEF StartedInOrder, AfterBarrier
    <2>2. v \in Arrived
      BY <2>1 DEF SetInOrder, BarrierCounts
    <2>. QED  BY <2>2 DEF Arrived
  <1>. QED  BY <1>1, Inductive, PTL

(***************************************************************************)
(* A worker begins to steal from a worker of the pool, and from its        *)
(* neighbour unless others have left before it computes the index.         *)
(***************************************************************************)
THEOREM StealsFromAWorkerHolds == Spec => []StealsFromAWorker
  <1>1. IInv => StealsFromAWorker
    <2>. SUFFICES ASSUME IInv, NEW w \in Workers
                  PROVE  /\ pc[w] = "index" => m_NumThreads > 0
                         /\ steal_from[w] # NULL =>
                              /\ steal_from[w] \in DOMAIN m_GlobalQueues
                              /\ ~m_Shutdown => steal_from[w] = (w + 1) % m_Traces
      BY DEF StealsFromAWorker
    <2>. USE DEF IInv
    <2>1. ASSUME pc[w] = "index" PROVE m_NumThreads > 0
      <3>1. m_NumThreads \in 1..m_Traces /\ m_Traces \in 1..MaxWorkers
        BY <2>1, SomeoneIsLeft DEF AfterBarrier
      <3>. QED  BY <3>1, StartAssumption
    <2>2. ASSUME steal_from[w] # NULL
          PROVE  /\ steal_from[w] \in DOMAIN m_GlobalQueues
                 /\ ~m_Shutdown => steal_from[w] = (w + 1) % m_Traces
      <3>1. steal_from[w] \in Nat /\ m_Traces \in Nat
        BY <2>2, StartAssumption DEF Types, Workers
      <3>. QED  BY <2>2, <3>1 DEF IndicesInRange, SetInOrder
    <2>. QED  BY <2>1, <2>2
  <1>. QED  BY <1>1, Inductive, PTL

(***************************************************************************)
(* No worker is started twice, and no queue is replaced: from a queue that *)
(* exists jobs disappear only by its own worker.                           *)
(***************************************************************************)
THEOREM InitialisedOnceHolds == Spec => InitialisedOnce
  <1>. DEFINE Once ==
         /\ \A w \in Workers : pc'[w] = "entry" => pc[w] \in {"none", "entry"}
         /\ m_GlobalQueues # NULL =>
              /\ DOMAIN m_GlobalQueues' = DOMAIN m_GlobalQueues
              /\ \A w \in DOMAIN m_GlobalQueues :
                   m_GlobalQueues'[w] < m_GlobalQueues[w] => pc[w] \in {"loop", "exit"}
  <1>1. IInv /\ [Next]_vars => [Once]_vars
    <2>. SUFFICES ASSUME IInv, Next PROVE Once
      OBVIOUS
    <2>. USE DEF IInv
    <2>1. \A w \in Workers : w \notin Callers
      BY StartAssumption DEF Workers
    <2>2. ASSUME NEW q, m_GlobalQueues # NULL, q \in DOMAIN m_GlobalQueues
          PROVE  m_GlobalQueues[q] \in Nat /\ q \in Workers
      BY <2>2, StartAssumption DEF Types, Workers
    <2>3. CASE UNCHANGED m_GlobalQueues /\ \A w \in Workers : pc'[w] = "entry" => pc[w] \in {"none", "entry"}
      BY <2>2, <2>3
    <2>4. ASSUME NEW c \in Callers,
                 TestInitOnce(c) \/ Claim(c) \/ SetMemoryResource(c) \/ SetNumThreads(c)
                   \/ AtLeastOne(c) \/ CreateJob(c) \/ Place(c) \/ Shutdown(c)
          PROVE  Once
      <3>1. UNCHANGED m_GlobalQueues /\ \A w \in Workers : pc'[w] = pc[w]
        BY <2>1, <2>4 DEF Types, LabelsOK, Goto, TestInitOnce, Claim, SetMemoryResource,
             SetNumThreads, AtLeastOne, CreateJob, Place, Shutdown, arrays
      <3>. QED  BY <2>3, <3>1
    <2>5. ASSUME NEW c \in Callers, Allocate(c) PROVE Once
      <3>1. \A w \in Workers : pc'[w] = pc[w]
        BY <2>1, <2>5 DEF Types, LabelsOK, Goto, Allocate
      <3>2. CASE pc[c] = "globals"
        <4>1. Ahead({"resource", "threads", "atLeastOne", "globals"})
          BY <3>2 DEF Ahead
        <4>. QED  BY <3>1, <4>1 DEF SetInOrder
      <3>3. CASE pc[c] # "globals"
        BY <2>3, <2>5, <3>1, <3>3 DEF Allocate
      <3>. QED  BY <3>2, <3>3
    <2>6. ASSUME NEW c \in Callers, Launch(c) PROVE Once
      <3>1. \A w \in Workers : pc[w] # "none" => w < i[c]
        BY <2>6 DEF Launch, StartedInOrder
      <3>2. i[c] \in Nat /\ \A w \in Workers : w \in Nat
        BY StartAssumption DEF Types, Workers
      <3>3. \A w \in Workers : w # i[c] => pc'[w] = pc[w]
        BY <2>1, <2>6 DEF Types, LabelsOK, Goto, Launch
      <3>4. \A w \in Workers : w = i[c] => pc[w] = "none"
        BY <3>1, <3>2
      <3>. QED  BY <2>3, <2>6, <3>3, <3>4 DEF Launch, arrays
    <2>7. ASSUME NEW c \in Callers, Push(c) PROVE Once
      <3>1. \A w \in Workers : pc'[w] = pc[w]
        BY <2>1, <2>7 DEF Types, LabelsOK, Goto, Push
      <3>2. CASE m_GlobalQueues # NULL /\ tidx[c] \in DOMAIN m_GlobalQueues
        <4>1. m_GlobalQueues' = [m_GlobalQueues EXCEPT ![tidx[c]] = @ + 1]
          BY <2>7, <3>2 DEF Push
        <4>2. \A q \in DOMAIN m_GlobalQueues : ~(m_GlobalQueues'[q] < m_GlobalQueues[q])
          BY <2>2, <3>2, <4>1
        <4>. QED  BY <3>1, <4>1, <4>2
      <3>3. CASE ~(m_GlobalQueues # NULL /\ tidx[c] \in DOMAIN m_GlobalQueues)
        BY <2>3, <2>7, <3>1, <3>3 DEF Push
      <3>. QED  BY <3>2, <3>3
    <2>8. ASSUME NEW w \in Workers, InitBarrier(w) \/ Arrive(w) \/ LeaveBarrier(w) \/ SetUp(w)
          PROVE  Once
      <3>1. UNCHANGED m_GlobalQueues /\ \A v \in Workers : pc'[v] = pc[v] \/ pc'[v] # "entry"
        BY <2>8 DEF Types, LabelsOK, Goto, InitBarrier, Arrive, LeaveBarrier, SetUp, arrays
      <3>. QED  BY <2>3, <3>1
    <2>9. ASSUME NEW w \in Workers, Loop(w) \/ Leave(w) PROVE Once
      <3>1. \A v \in Workers : pc'[v] = pc[v] \/ pc'[v] # "entry"
        BY <2>9 DEF Types, LabelsOK, Goto, Loop, Leave
      <3>2. pc[w] \in {"loop", "exit"}
        BY <2>9 DEF Loop, Leave
      <3>3. m_GlobalQueues # NULL =>
              /\ DOMAIN m_GlobalQueues' = DOMAIN m_GlobalQueues
              /\ \A q \in DOMAIN m_GlobalQueues : q # w => m_GlobalQueues'[q] = m_GlobalQueues[q]
        BY <2>9, <2>2 DEF Loop, Leave, Types
      <3>. QED  BY <2>2, <3>1, <3>2, <3>3
    <2>. QED  BY <2>4, <2>5, <2>6, <2>7, <2>8, <2>9 DEF Next, ConstructorStep, WorkerStep
  <1>. QED  BY <1>1, Inductive, PTL DEF Spec, InitialisedOnce

LEMMA BreaksWhen ==
  ASSUME IInv, Next, NEW c \in Callers, pc[c] # "broken", pc'[c] = "broken"
  PROVE  CreateJob(c) \/ Push(c)
  <1>. USE DEF IInv
  <1>1. \A w \in Workers : w \notin Callers
    BY StartAssumption DEF Workers
  <1>2. ASSUME NEW d \in Callers,
               TestInitOnce(d) \/ Claim(d) \/ SetMemoryResource(d) \/ SetNumThreads(d)
                 \/ AtLeastOne(d) \/ Place(d) \/ Shutdown(d)
        PROVE  FALSE
    BY <1>2 DEF Types, LabelsOK, Goto, TestInitOnce, Claim, SetMemoryResource,
                SetNumThreads, AtLeastOne, Place, Shutdown
  <1>3. ASSUME NEW d \in Callers, Allocate(d) PROVE FALSE
    BY <1>3 DEF Types, LabelsOK, Goto, Allocate
  <1>4. ASSUME NEW d \in Callers, Launch(d) PROVE FALSE
    BY <1>4 DEF Types, LabelsOK, Goto, Launch
  <1>5. ASSUME NEW d \in Callers, CreateJob(d) \/ Push(d) PROVE CreateJob(c) \/ Push(c)
    BY <1>5 DEF Types, LabelsOK, Goto, CreateJob, Push
  <1>6. ASSUME NEW w \in Workers, WorkerStep(w) PROVE FALSE
    BY <1>1, <1>6 DEF Types, LabelsOK, Goto, WorkerStep, InitBarrier, Arrive, LeaveBarrier,
                      SetUp, Loop, Leave
  <1>. QED  BY <1>2, <1>3, <1>4, <1>5, <1>6 DEF Next, ConstructorStep

(***************************************************************************)
(* A caller uses statics that are not there only while another one is      *)
(* still in the constructor: with one thread that constructs, or once the  *)
(* constructor has returned, nobody does.                                  *)
(***************************************************************************)
THEOREM BreaksOnlyIfOvertakenHolds == Spec => BreaksOnlyIfOvertaken
  <1>. DEFINE Overtaken ==
         \A c \in Callers : pc[c] # "broken" /\ pc'[c] = "broken" =>
           \E d \in Callers \ {c} : pc[d] \in InConstructor
  <1>1. IInv /\ [Next]_vars => [Overtaken]_vars
    <2>. SUFFICES ASSUME IInv, Next, NEW c \in Callers, pc[c] # "broken", pc'[c] = "broken"
                  PROVE  \E d \in Callers \ {c} : pc[d] \in InConstructor
      OBVIOUS
    <2>. USE DEF IInv
    <2>1. m_InitOnce # 0 /\ pc[c] \notin InConstructor
      <3>1. CreateJob(c) \/ Push(c)
        BY BreaksWhen
      <3>. QED  BY <3>1 DEF CreateJob, Push, OneConstructor, InConstructor
    <2>2. CASE CreateJob(c)
      <3>1. m_MemoryResource = NULL
        BY <2>2 DEF CreateJob, Goto, Types, LabelsOK
      <3>2. Ahead({"resource"})
        BY <3>1 DEF SetInOrder
      <3>. QED  BY <2>1, <3>2 DEF Ahead, InConstructor
    <2>3. CASE Push(c)
      <3>1. ~(m_GlobalQueues # NULL /\ tidx[c] \in DOMAIN m_GlobalQueues)
        BY <2>3 DEF Push, Goto, Types, LabelsOK
      <3>2. Ahead(Early)
        <4>1. SUFFICES ASSUME ~Ahead(Early) PROVE FALSE
          OBVIOUS
        <4>2. m_GlobalQueues # NULL /\ DOMAIN m_GlobalQueues = 0..(m_Traces - 1) /\ m_Traces > 0
          BY <4>1 DEF SetInOrder
        <4>3. tidx[c] \in Nat /\ m_Traces \in Nat
          BY StartAssumption DEF Types, Workers
        <4>. QED  BY <3>1, <4>1, <4>2, <4>3 DEF IndicesInRange
      <3>. QED  BY <2>1, <3>2 DEF Ahead, Early
    <2>. QED  BY <2>2, <2>3, BreaksWhen
  <1>. QED  BY <1>1, Inductive, PTL DEF Spec, BreaksOnlyIfOvertaken
=============================================================================
