-------------------------- MODULE SpinlocksProofs --------------------------
(***************************************************************************)
(* Proofs about the locks of module Spinlocks, for any number of threads   *)
(* and any depth of reentrance.                                            *)
(***************************************************************************)
EXTENDS Spinlocks, TLAPS

(* The flag of the Spinlock is set exactly while a thread holds it. *)
OneHolder ==
  /\ m_Lock <=> holds # {}
  /\ \A t, u \in holds : t = u

(* Threads that have a hash have different ones, which are not 0. *)
HashesDiffer ==
  /\ \A t \in Threads : t_hash[t] < s_shared_id
  /\ \A t, u \in Threads : t_hash[t] = t_hash[u] /\ t_hash[t] # 0 => t = u

(* A thread in an operation of the recursive lock has a hash. *)
Prepared(t) ==
  /\ pc[t] \in {"cas", "wait", "try", "count", "release"} => t_hash[t] # 0
  /\ pc[t] = "release" => depth[t] > 0

IInv == TypeOK /\ OneHolder /\ HashesDiffer /\ CountIsDepth /\ \A t \in Threads : Prepared(t)

(* Owners have the hash that m_Semaphore holds, so there is one at most. *)
LEMMA OneOwner == ASSUME IInv, NEW t \in Threads, NEW u \in Threads, Owns(t), Owns(u) PROVE t = u
  <1>1. t_hash[t] = t_hash[u] /\ t_hash[t] # 0
    BY DEF IInv, CountIsDepth
  <1>. QED  BY <1>1 DEF IInv, HashesDiffer

(* A thread that finds its own hash in m_Semaphore owns the lock. *)
LEMMA OwnHash ==
  ASSUME IInv, NEW t \in Threads, m_Semaphore = LocalHash(t)
  PROVE  Owns(t) /\ t_hash[t] = LocalHash(t)
  <1>1. LocalHash(t) # 0
    BY DEF IInv, TypeOK, LocalHash
  <1>2. PICK u \in Threads : Owns(u) /\ m_Semaphore = t_hash[u]
    BY <1>1 DEF IInv, CountIsDepth
  <1>3. t_hash[u] < s_shared_id /\ t_hash[u] \in Nat /\ s_shared_id \in Nat
    BY DEF IInv, TypeOK, HashesDiffer
  <1>4. t_hash[t] = LocalHash(t)
    BY <1>2, <1>3 DEF LocalHash
  <1>5. t = u
    BY <1>1, <1>2, <1>4 DEF IInv, HashesDiffer
  <1>. QED  BY <1>2, <1>4, <1>5

(* A step that makes no owner, takes no hash of one and ends no release. *)
OwnersKept ==
  /\ m_Semaphore' = m_Semaphore /\ m_Count' = m_Count /\ depth' = depth
  /\ \A u \in Threads : /\ Owns(u)' <=> Owns(u)
                        /\ pc'[u] = "release" <=> pc[u] = "release"
                        /\ Owns(u) => t_hash'[u] = t_hash[u]

(* Such a step keeps what m_Count counts. *)
LEMMA CountKept == ASSUME CountIsDepth, OwnersKept PROVE CountIsDepth'
  <1>. USE DEF OwnersKept
  <1>1. ASSUME NEW u \in Threads, Owns(u)'
        PROVE  /\ m_Semaphore' = t_hash'[u] /\ m_Semaphore' # 0
               /\ m_Count' = IF pc'[u] = "release" THEN depth'[u] - 1 ELSE depth'[u]
    BY <1>1 DEF CountIsDepth
  <1>2. (\A u \in Threads : ~Owns(u)') => m_Semaphore' = 0 /\ m_Count' = 0
    BY DEF CountIsDepth
  <1>. QED  BY <1>1, <1>2 DEF CountIsDepth

(* The locks start with the invariant: nobody holds them. *)
LEMMA InitInv == Init => IInv
  <1>. SUFFICES ASSUME Init PROVE IInv
    OBVIOUS
  <1>1. TypeOK
    <2>1. m_Lock \in BOOLEAN
      BY Zenon DEF Init
    <2>. QED  BY <2>1 DEF Init, TypeOK, Labels
  <1>2. OneHolder /\ HashesDiffer
    BY DEF Init, OneHolder, HashesDiffer
  <1>3. ASSUME NEW t \in Threads PROVE ~Owns(t) /\ Prepared(t)
    <2>1. pc[t] = "idle" /\ depth[t] = 0
      BY DEF Init
    <2>. QED  BY <2>1 DEF Owns, Prepared
  <1>4. CountIsDepth
    BY <1>3 DEF Init, CountIsDepth
  <1>. QED  BY <1>1, <1>2, <1>3, <1>4 DEF IInv

(* The operations of the Spinlock leave the recursive lock alone. *)
LEMMA SpinlockStep ==
  ASSUME IInv, NEW t \in Threads,
         Lock(t) \/ Exchange(t) \/ SpinEnds(t) \/ TryLock(t) \/ Unlock(t)
  PROVE  IInv'
  <1>. USE DEF Lock, Exchange, SpinEnds, TryLock, Unlock, From, Goto, recursive
  <1>1. TypeOK'
    BY DEF IInv, TypeOK, Labels
  <1>2. OneHolder'
    BY DEF IInv, TypeOK, OneHolder
  <1>3. UNCHANGED recursive
    OBVIOUS
  <1>4. \A u \in Threads : pc'[u] = pc[u]
                         \/ {pc[u], pc'[u]} \subseteq {"idle", "exchange", "spin"}
    BY DEF IInv, TypeOK
  <1>5. HashesDiffer'
    BY <1>3 DEF IInv, HashesDiffer
  <1>6. CountIsDepth'
    <2>1. \A u \in Threads : /\ Owns(u)' <=> Owns(u)
                             /\ pc'[u] = "release" <=> pc[u] = "release"
      BY <1>3, <1>4 DEF Owns
    <2>2. OwnersKept
      BY <1>3, <2>1 DEF OwnersKept
    <2>. QED  BY <2>2, CountKept DEF IInv
  <1>7. \A u \in Threads : Prepared(u)'
    BY <1>3, <1>4 DEF IInv, Prepared
  <1>. QED  BY <1>1, <1>2, <1>5, <1>6, <1>7 DEF IInv

(* The call of lock() or try_lock() of the recursive lock. *)
LEMMA BeginStep ==
  ASSUME IInv, NEW t \in Threads, RLock(t) \/ RTryLock(t)
  PROVE  IInv'
  <1>1. /\ pc[t] = "idle" /\ GetLocalHash(t)
        /\ UNCHANGED <<m_Lock, m_Semaphore, m_Count, depth, holds>>
        /\ \/ pc' = [pc EXCEPT ![t] = "count"] /\ m_Semaphore = LocalHash(t)
           \/ pc' = [pc EXCEPT ![t] = "cas"] \/ pc' = [pc EXCEPT ![t] = "try"] \/ pc' = pc
    BY DEF RLock, RTryLock, Goto, Loaded
  <1>2. LocalHash(t) \in Nat \ {0} /\ s_shared_id \in Nat \ {0}
    BY DEF IInv, TypeOK, LocalHash
  <1>3. /\ t_hash' = [t_hash EXCEPT ![t] = LocalHash(t)]
        /\ t_hash'[t] = LocalHash(t)
        /\ \A u \in Threads \ {t} : t_hash'[u] = t_hash[u] /\ pc'[u] = pc[u]
    BY <1>1 DEF GetLocalHash, IInv, TypeOK
  <1>4. TypeOK'
    BY <1>1, <1>2 DEF IInv, TypeOK, Labels, GetLocalHash
  <1>5. OneHolder'
    BY <1>1 DEF IInv, OneHolder
  <1>6. HashesDiffer'
    <2>1. CASE t_hash[t] # 0
      <3>1. t_hash' = t_hash /\ s_shared_id' = s_shared_id
        BY <1>1, <2>1 DEF GetLocalHash, LocalHash, IInv, TypeOK
      <3>. QED  BY <3>1 DEF IInv, HashesDiffer
    <2>2. CASE t_hash[t] = 0
      <3>1. LocalHash(t) = s_shared_id /\ s_shared_id' = s_shared_id + 1
        BY <1>1, <2>2 DEF GetLocalHash, LocalHash
      <3>2. \A u \in Threads : t_hash[u] \in Nat /\ t_hash[u] < s_shared_id
        BY DEF IInv, TypeOK, HashesDiffer
      <3>. QED  BY <1>2, <1>3, <3>1, <3>2 DEF IInv, HashesDiffer
    <2>. QED  BY <2>1, <2>2
  <1>7. \A u \in Threads : /\ Owns(u)' <=> Owns(u)
                           /\ pc'[u] = "release" <=> pc[u] = "release"
    <2>1. m_Semaphore = LocalHash(t) => Owns(t) /\ depth[t] > 0
      BY <1>1, OwnHash DEF Owns
    <2>2. (pc'[t] = "count" => m_Semaphore = LocalHash(t)) /\ pc'[t] # "release"
      BY <1>1 DEF IInv, TypeOK
    <2>. QED  BY <1>1, <1>3, <2>1, <2>2 DEF Owns
  <1>8. \A u \in Threads : Owns(u) => t_hash'[u] = t_hash[u]
    <2>1. Owns(t) => t_hash[t] # 0
      BY DEF IInv, CountIsDepth
    <2>. QED  BY <1>3, <2>1 DEF LocalHash
  <1>9. CountIsDepth'
    <2>1. OwnersKept
      BY <1>1, <1>7, <1>8 DEF OwnersKept
    <2>. QED  BY <2>1, CountKept DEF IInv
  <1>10. \A u \in Threads : Prepared(u)'
    BY <1>1, <1>2, <1>3 DEF IInv, TypeOK, Prepared
  <1>. QED  BY <1>4, <1>5, <1>6, <1>9, <1>10 DEF IInv

(* The steps of lock() and try_lock() that try to take a free lock. *)
LEMMA CompareExchangeStep ==
  ASSUME IInv, NEW t \in Threads, CompareExchange(t) \/ TryCompareExchange(t) \/ WaitEnds(t)
  PROVE  IInv'
  <1>. USE DEF CompareExchange, TryCompareExchange, WaitEnds, From, Goto, recursive
  <1>1. /\ pc[t] \in {"cas", "try", "wait"}
        /\ UNCHANGED <<m_Lock, m_Count, s_shared_id, t_hash, depth, holds>>
        /\ \/ /\ m_Semaphore = 0 /\ m_Semaphore' = t_hash[t]
              /\ pc' = [pc EXCEPT ![t] = "count"]
           \/ /\ m_Semaphore' = m_Semaphore
              /\ \E label \in {"cas", "wait", "idle"} :
                   /\ pc' = [pc EXCEPT ![t] = label]
                   /\ label # "idle" \/ pc[t] = "try"
    OBVIOUS
  <1>2. TypeOK'
    BY <1>1 DEF IInv, TypeOK, Labels
  <1>3. OneHolder' /\ HashesDiffer'
    BY <1>1 DEF IInv, OneHolder, HashesDiffer
  <1>4. t_hash[t] # 0
    BY <1>1 DEF IInv, Prepared
  <1>5. CountIsDepth'
    <2>1. CASE m_Semaphore = 0 /\ m_Semaphore' = t_hash[t] /\ pc' = [pc EXCEPT ![t] = "count"]
      <3>1. \A u \in Threads : ~Owns(u)
        BY <2>1 DEF IInv, CountIsDepth
      <3>2. m_Count = 0 /\ depth[t] = 0
        BY <3>1 DEF IInv, CountIsDepth, Owns, TypeOK
      <3>3. /\ Owns(t)' /\ \A u \in Threads \ {t} : ~Owns(u)'
            /\ pc'[t] = "count"
        BY <1>1, <2>1, <3>1 DEF Owns, IInv, TypeOK
      <3>. QED  BY <1>1, <1>4, <2>1, <3>2, <3>3 DEF CountIsDepth
    <2>2. CASE m_Semaphore' = m_Semaphore /\ pc'[t] \in {"cas", "wait", "idle"}
      <3>1. \A u \in Threads : /\ Owns(u)' <=> Owns(u)
                               /\ pc'[u] = "release" <=> pc[u] = "release"
        BY <1>1, <2>2 DEF Owns, IInv, TypeOK
      <3>2. OwnersKept
        BY <1>1, <2>2, <3>1 DEF OwnersKept
      <3>. QED  BY <3>2, CountKept DEF IInv
    <2>. QED  BY <1>1, <2>1, <2>2 DEF IInv, TypeOK
  <1>6. \A u \in Threads : Prepared(u)'
    BY <1>1, <1>4 DEF IInv, TypeOK, Prepared
  <1>. QED  BY <1>2, <1>3, <1>5, <1>6 DEF IInv

(* The steps of the owner: it counts up, counts down, and lets go at 0. *)
LEMMA OwnerStep ==
  ASSUME IInv, NEW t \in Threads, Count(t) \/ RUnlock(t) \/ Release(t)
  PROVE  IInv'
  <1>. USE DEF Count, RUnlock, Release, From, Goto
  <1>1. /\ UNCHANGED <<m_Lock, s_shared_id, t_hash, holds>>
        /\ \A u \in Threads \ {t} : pc'[u] = pc[u] /\ depth'[u] = depth[u]
        /\ depth[t] \in Nat /\ m_Count \in Nat
    BY DEF IInv, TypeOK
  <1>2. Owns(t) /\ m_Count = IF pc[t] = "release" THEN depth[t] - 1 ELSE depth[t]
    <2>1. Owns(t)
      BY DEF IInv, Prepared, Owns
    <2>. QED  BY <2>1 DEF IInv, CountIsDepth
  <1>3. \A u \in Threads \ {t} : ~Owns(u) /\ ~Owns(u)'
    BY <1>1, <1>2, OneOwner DEF Owns
  <1>4. m_Semaphore = t_hash[t] /\ m_Semaphore # 0
    BY <1>2 DEF IInv, CountIsDepth
  <1>5. TypeOK'
    BY <1>1, <1>2 DEF IInv, TypeOK, Labels
  <1>6. OneHolder' /\ HashesDiffer'
    BY <1>1 DEF IInv, OneHolder, HashesDiffer
  <1>7. CountIsDepth'
    <2>1. CASE Count(t)
      <3>1. Owns(t)' /\ m_Count' = depth'[t] /\ pc'[t] = "idle" /\ m_Semaphore' = m_Semaphore
        BY <1>1, <1>2, <2>1 DEF IInv, TypeOK, Owns
      <3>. QED  BY <1>1, <1>3, <1>4, <3>1 DEF CountIsDepth
    <2>2. CASE RUnlock(t)
      <3>1. /\ Owns(t)' /\ m_Count' = depth'[t] - 1 /\ pc'[t] = "release"
            /\ m_Semaphore' = m_Semaphore
        BY <1>1, <1>2, <2>2 DEF IInv, TypeOK, Owns
      <3>. QED  BY <1>1, <1>3, <1>4, <3>1 DEF CountIsDepth
    <2>3. CASE Release(t)
      <3>1. /\ m_Count' = m_Count /\ m_Count = depth'[t] /\ pc'[t] = "idle"
            /\ m_Semaphore' = IF m_Count = 0 THEN 0 ELSE m_Semaphore
            /\ Owns(t)' <=> depth'[t] > 0
        BY <1>1, <1>2, <2>3 DEF IInv, TypeOK, Owns
      <3>. QED  BY <1>1, <1>3, <1>4, <3>1 DEF CountIsDepth
    <2>. QED  BY <2>1, <2>2, <2>3
  <1>8. \A u \in Threads : Prepared(u)'
    BY <1>1, <1>4 DEF IInv, TypeOK, Prepared
  <1>. QED  BY <1>5, <1>6, <1>7, <1>8 DEF IInv

(* The inductive invariant of the locks. *)
THEOREM Invariant == Spec => []IInv
  <1>1. ASSUME IInv, [Next]_vars PROVE IInv'
    <2>1. CASE UNCHANGED vars
      BY <1>1, <2>1 DEF vars, recursive, IInv, TypeOK, OneHolder, HashesDiffer, CountIsDepth,
                        Owns, Prepared
    <2>2. CASE Next
      BY <1>1, <2>2, SpinlockStep, BeginStep, CompareExchangeStep, OwnerStep DEF Next, Step
    <2>. QED  BY <1>1, <2>1, <2>2
  <1>. QED  BY <1>1, InitInv, PTL DEF Spec

(* Every variable keeps its type: unlocking never takes m_Count below 0. *)
THEOREM TypeCorrect == Spec => []TypeOK
  <1>1. IInv => TypeOK
    BY DEF IInv
  <1>. QED  BY <1>1, Invariant, PTL

(***************************************************************************)
(* m_Count counts the acquisitions of the owner, and m_Semaphore names it. *)
(***************************************************************************)
THEOREM CountIsDepthHolds == Spec => []CountIsDepth
  <1>1. IInv => CountIsDepth
    BY DEF IInv
  <1>. QED  BY <1>1, Invariant, PTL

(***************************************************************************)
(* Mutual exclusion of both locks, for any number of threads.  Of the      *)
(* recursive one it takes only that hashes differ: its decision about      *)
(* reentrance may use an old value of m_Semaphore.                         *)
(***************************************************************************)
THEOREM MutualExclusionHolds == Spec => []MutualExclusion
  <1>1. IInv => MutualExclusion
    BY OneOwner DEF IInv, OneHolder, MutualExclusion
  <1>. QED  BY <1>1, Invariant, PTL

-----------------------------------------------------------------------------
(* Each step of the implementation is a step of AbstractLock, or none. *)
SpinDepth == [t \in Threads |-> IF t \in holds THEN 1 ELSE 0]

Depth == [t \in Threads |-> IF pc[t] = "count" THEN depth[t] + 1 ELSE depth[t]]

(* A step that changes holds acquires the free Spinlock, or releases it. *)
LEMMA SpinLockSimulation ==
  ASSUME IInv, [Next]_vars
  PROVE  [SpinLock!Next]_SpinDepth
  <1>1. CASE UNCHANGED holds
    BY <1>1 DEF SpinDepth
  <1>2. ASSUME NEW t \in Threads, t \notin holds, ~m_Lock, holds' = holds \cup {t}
        PROVE  SpinLock!Next
    <2>1. holds = {}
      BY <1>2 DEF IInv, OneHolder
    <2>2. SpinDepth' = [SpinDepth EXCEPT ![t] = @ + 1]
      <3>1. SpinDepth' = [u \in Threads |-> IF u = t THEN 1 ELSE SpinDepth[u]]
        BY <1>2 DEF SpinDepth
      <3>2. SpinDepth[t] + 1 = 1
        BY <1>2 DEF SpinDepth
      <3>. QED  BY <3>1, <3>2 DEF SpinDepth
    <2>3. SpinLock!Acquire(t)
      BY <2>1, <2>2 DEF SpinLock!Acquire, SpinDepth
    <2>. QED  BY <2>3 DEF SpinLock!Next
  <1>3. ASSUME NEW t \in Threads, t \in holds, holds' = holds \ {t}
        PROVE  SpinLock!Next
    <2>1. SpinDepth' = [SpinDepth EXCEPT ![t] = @ - 1]
      <3>1. SpinDepth' = [u \in Threads |-> IF u = t THEN 0 ELSE SpinDepth[u]]
        BY <1>3 DEF SpinDepth
      <3>2. SpinDepth[t] - 1 = 0
        BY <1>3 DEF SpinDepth
      <3>. QED  BY <3>1, <3>2 DEF SpinDepth
    <2>2. SpinLock!Release(t)
      BY <1>3, <2>1 DEF SpinLock!Release, SpinDepth
    <2>. QED  BY <2>2 DEF SpinLock!Next
  <1>4. \/ UNCHANGED holds
        \/ \E t \in Threads : t \notin holds /\ ~m_Lock /\ holds' = holds \cup {t}
        \/ \E t \in Threads : t \in holds /\ holds' = holds \ {t}
    BY DEF Next, Step, vars, Lock, Exchange, SpinEnds, TryLock, Unlock, RLock, RTryLock, RUnlock,
           CompareExchange, WaitEnds, TryCompareExchange, Count, Release
  <1>. QED  BY <1>1, <1>2, <1>3, <1>4

(* A step that changes Depth is the owner's, or makes its thread the owner. *)
LEMMA RecursiveLockSimulation ==
  ASSUME IInv, [Next]_vars
  PROVE  [RecursiveLock!Next]_Depth
  <1>1. ASSUME UNCHANGED depth, \A t \in Threads : pc'[t] = "count" <=> pc[t] = "count"
        PROVE  UNCHANGED Depth
    BY <1>1 DEF Depth
  <1>2. ASSUME NEW t \in Threads, pc[t] # "count", \A u \in Threads \ {t} : ~Owns(u),
               pc' = [pc EXCEPT ![t] = "count"], UNCHANGED depth
        PROVE  RecursiveLock!Next
    <2>1. \A u \in Threads \ {t} : Depth[u] = 0
      BY <1>2 DEF IInv, TypeOK, Depth, Owns
    <2>2. Depth' = [Depth EXCEPT ![t] = @ + 1]
      BY <1>2 DEF IInv, TypeOK, Depth
    <2>3. RecursiveLock!Acquire(t)
      BY <2>1, <2>2 DEF RecursiveLock!Acquire, Depth
    <2>. QED  BY <2>3 DEF RecursiveLock!Next
  <1>3. ASSUME NEW t \in Threads, Release(t) PROVE RecursiveLock!Next
    <2>1. Depth[t] > 0 /\ Depth' = [Depth EXCEPT ![t] = @ - 1]
      BY <1>3 DEF Release, From, Goto, IInv, TypeOK, Prepared, Depth
    <2>2. RecursiveLock!Release(t)
      BY <2>1 DEF RecursiveLock!Release, Depth
    <2>. QED  BY <2>2 DEF RecursiveLock!Next
  <1>4. ASSUME NEW t \in Threads, Count(t) PROVE UNCHANGED Depth
    BY <1>4 DEF Count, From, Goto, IInv, TypeOK, Depth
  <1>5. ASSUME NEW t \in Threads,
               Lock(t) \/ Exchange(t) \/ SpinEnds(t) \/ TryLock(t) \/ Unlock(t)
               \/ WaitEnds(t) \/ RUnlock(t)
        PROVE  UNCHANGED Depth
    BY <1>1, <1>5 DEF Lock, Exchange, SpinEnds, TryLock, Unlock, WaitEnds, RUnlock, From, Goto,
                      recursive, IInv, TypeOK
  <1>6. ASSUME NEW t \in Threads, RLock(t) \/ RTryLock(t)
        PROVE  [RecursiveLock!Next]_Depth
    <2>1. /\ pc[t] = "idle" /\ UNCHANGED depth
          /\ \/ pc' = [pc EXCEPT ![t] = "count"] /\ m_Semaphore = LocalHash(t)
             \/ pc' = [pc EXCEPT ![t] = "cas"] \/ pc' = [pc EXCEPT ![t] = "try"] \/ pc' = pc
      BY <1>6 DEF RLock, RTryLock, Goto, Loaded
    <2>2. CASE pc' = [pc EXCEPT ![t] = "count"] /\ m_Semaphore = LocalHash(t)
      <3>1. \A u \in Threads \ {t} : ~Owns(u)
        BY <2>2, OwnHash, OneOwner
      <3>. QED  BY <1>2, <2>1, <2>2, <3>1
    <2>3. CASE pc' = [pc EXCEPT ![t] = "cas"] \/ pc' = [pc EXCEPT ![t] = "try"] \/ pc' = pc
      BY <1>1, <2>1, <2>3 DEF IInv, TypeOK
    <2>. QED  BY <2>1, <2>2, <2>3
  <1>7. ASSUME NEW t \in Threads, CompareExchange(t) \/ TryCompareExchange(t)
        PROVE  [RecursiveLock!Next]_Depth
    <2>. USE <1>7 DEF CompareExchange, TryCompareExchange, From, Goto
    <2>1. CASE m_Semaphore = 0
      <3>1. \A u \in Threads : ~Owns(u)
        BY <2>1 DEF IInv, CountIsDepth
      <3>2. pc[t] # "count" /\ pc' = [pc EXCEPT ![t] = "count"] /\ UNCHANGED depth
        BY <2>1
      <3>. QED  BY <1>2, <3>1, <3>2
    <2>2. CASE m_Semaphore # 0
      <3>1. UNCHANGED depth /\ \A u \in Threads : pc'[u] = "count" <=> pc[u] = "count"
        BY <2>2 DEF IInv, TypeOK
      <3>. QED  BY <1>1, <3>1
    <2>. QED  BY <2>1, <2>2
  <1>8. ASSUME UNCHANGED vars PROVE UNCHANGED Depth
    BY <1>8 DEF vars, recursive, Depth
  <1>. QED  BY <1>3, <1>4, <1>5, <1>6, <1>7, <1>8 DEF Next, Step

(***************************************************************************)
(* Both locks implement AbstractLock: whatever their threads do, it looks  *)
(* as if each acquisition and each release took effect in one instant.     *)
(***************************************************************************)
THEOREM ImplementsSpinLockHolds == Spec => ImplementsSpinLock
  <1>1. Init => SpinLock!Init
    BY DEF Init, SpinLock!Init
  <1>2. IInv /\ [Next]_vars => [SpinLock!Next]_SpinDepth
    BY SpinLockSimulation
  <1>. QED  BY <1>1, <1>2, Invariant, PTL DEF Spec, ImplementsSpinLock, SpinLock!Spec, SpinDepth

(* The reentrant lock: Acquire is taken by its owner, or when it is free. *)
THEOREM ImplementsRecursiveLockHolds == Spec => ImplementsRecursiveLock
  <1>1. Init => RecursiveLock!Init
    BY DEF Init, RecursiveLock!Init
  <1>2. IInv /\ [Next]_vars => [RecursiveLock!Next]_Depth
    BY RecursiveLockSimulation
  <1>. QED  BY <1>1, <1>2, Invariant, PTL DEF Spec, ImplementsRecursiveLock, RecursiveLock!Spec,
                                              Depth
=============================================================================
