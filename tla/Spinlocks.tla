----------------------------- MODULE Spinlocks -----------------------------
(***************************************************************************)
(* The locks of src/src/util/spinlock.{h,cpp}: a Spinlock and a            *)
(* RecursiveSpinLock, called by threads that release what they acquired.   *)
(*                                                                         *)
(* One action is one access to a shared variable.  exchange and            *)
(* compare_exchange act on the last value.  The relaxed load that lock()   *)
(* and try_lock() begin with may return an older one, but none older than  *)
(* the last write of its own thread, and an owner wrote last of all.  An   *)
(* old value that ends a loop of loads could have been loaded earlier.     *)
(***************************************************************************)
EXTENDS Naturals

CONSTANTS
  Threads,
  MaxDepth   \* bounds how often a thread calls lock before it unlocks

ASSUME LocksAssumption == MaxDepth \in Nat \ {0}

VARIABLES
  m_Lock,       \* Spinlock
  m_Semaphore,  \* RecursiveSpinLock
  m_Count,
  s_shared_id,  \* the statics of get_local_hash
  t_hash,       \* 0 until the thread has called it
  pc,           \* the next step of each thread's operation
  holds,        \* history: the threads whose lock of the Spinlock has returned
  depth         \* history: the same for the RecursiveSpinLock, counted

recursive == <<m_Semaphore, m_Count, s_shared_id, t_hash, depth>>
vars == <<m_Lock, recursive, pc, holds>>

Init ==
  /\ m_Lock = FALSE
  /\ m_Semaphore = 0
  /\ m_Count = 0
  /\ s_shared_id = 1
  /\ t_hash = [t \in Threads |-> 0]
  /\ pc = [t \in Threads |-> "idle"]
  /\ holds = {}
  /\ depth = [t \in Threads |-> 0]

Goto(t, label) == pc' = [pc EXCEPT ![t] = label]

From(t, here, there) == pc[t] = here /\ Goto(t, there)
-----------------------------------------------------------------------------
(* Spinlock *)

(* lock() is called, by a thread that does not hold the lock.  Callers that *)
(* wait for the one lock while they hold the other do so in one order.      *)
Lock(t) ==
  /\ t \notin holds /\ depth[t] = 0
  /\ From(t, "idle", "exchange")
  /\ UNCHANGED <<m_Lock, recursive, holds>>

(* if (!m_Lock.exchange(true, acquire)) return; *)
ExchangeIsTooLate(t) ==
  /\ \/ From(t, "exchange", "idle") /\ holds' = holds \cup {t}
     \/ m_Lock /\ From(t, "exchange", "spin") /\ UNCHANGED holds
  /\ m_Lock' = TRUE
  /\ UNCHANGED recursive

Exchange(t) ==
  /\ \/ ~m_Lock /\ From(t, "exchange", "idle") /\ holds' = holds \cup {t}
     \/ m_Lock /\ From(t, "exchange", "spin") /\ UNCHANGED holds
  /\ m_Lock' = TRUE
  /\ UNCHANGED recursive

(* while (m_Lock.load(relaxed)) yield();  the load that ends it *)
SpinEnds(t) ==
  /\ ~m_Lock
  /\ From(t, "spin", "exchange")
  /\ UNCHANGED <<m_Lock, recursive, holds>>

TryLock(t) ==
  /\ pc[t] = "idle" /\ t \notin holds
  /\ holds' = IF m_Lock THEN holds ELSE holds \cup {t}
  /\ m_Lock' = TRUE
  /\ UNCHANGED <<recursive, pc>>

Unlock(t) ==
  /\ pc[t] = "idle" /\ t \in holds
  /\ m_Lock' = FALSE
  /\ holds' = holds \ {t}
  /\ UNCHANGED <<recursive, pc>>
-----------------------------------------------------------------------------
(* RecursiveSpinLock *)

(* get_local_hash(): the thread_local t_hash is initialised on first use. *)
LocalHash(t) == IF t_hash[t] = 0 THEN s_shared_id ELSE t_hash[t]

GetLocalHash(t) ==
  /\ t_hash' = [t_hash EXCEPT ![t] = LocalHash(t)]
  /\ s_shared_id' = IF t_hash[t] = 0 THEN s_shared_id + 1 ELSE s_shared_id

(* What m_Semaphore.load(relaxed) may return to thread t. *)
Loaded(t) ==
  IF m_Semaphore = LocalHash(t) THEN {LocalHash(t)}
                                ELSE (0..(s_shared_id - 1)) \ {LocalHash(t)}

RLock(t) ==
  /\ pc[t] = "idle" /\ depth[t] < MaxDepth
  /\ GetLocalHash(t)
  /\ \E sema \in Loaded(t) : Goto(t, IF sema = LocalHash(t) THEN "count" ELSE "cas")
  /\ UNCHANGED <<m_Lock, m_Semaphore, m_Count, depth, holds>>

(* m_Semaphore.compare_exchange_strong(0, x, acquire, relaxed) in lock() *)
CompareExchangeIsTooLate(t) ==
  /\ \/ From(t, "cas", "count") /\ m_Semaphore' = t_hash[t]
     \/ m_Semaphore # 0 /\ From(t, "cas", "wait") /\ UNCHANGED m_Semaphore
  /\ UNCHANGED <<m_Lock, m_Count, s_shared_id, t_hash, depth, holds>>

CompareExchange(t) ==
  /\ \/ m_Semaphore = 0 /\ From(t, "cas", "count") /\ m_Semaphore' = t_hash[t]
     \/ m_Semaphore # 0 /\ From(t, "cas", "wait") /\ UNCHANGED m_Semaphore
  /\ UNCHANGED <<m_Lock, m_Count, s_shared_id, t_hash, depth, holds>>

(* while (m_Semaphore.load(relaxed) != 0) yield();  the load that ends it *)
WaitForTaken(t) ==
  /\ m_Semaphore # 0
  /\ From(t, "wait", "cas")
  /\ UNCHANGED <<m_Lock, recursive, holds>>

WaitEnds(t) ==
  /\ m_Semaphore = 0
  /\ From(t, "wait", "cas")
  /\ UNCHANGED <<m_Lock, recursive, holds>>

(* ++m_Count, and lock() or try_lock() returns with the lock. *)
CountOnlyFirst(t) ==
  /\ From(t, "count", "idle")
  /\ m_Count' = IF m_Count = 0 THEN 1 ELSE m_Count
  /\ depth' = [depth EXCEPT ![t] = @ + 1]
  /\ UNCHANGED <<m_Lock, m_Semaphore, s_shared_id, t_hash, holds>>

Count(t) ==
  /\ From(t, "count", "idle")
  /\ m_Count' = m_Count + 1
  /\ depth' = [depth EXCEPT ![t] = @ + 1]
  /\ UNCHANGED <<m_Lock, m_Semaphore, s_shared_id, t_hash, holds>>

RTryLock(t) ==
  /\ pc[t] = "idle" /\ depth[t] < MaxDepth
  /\ GetLocalHash(t)
  /\ \E sema \in Loaded(t) :
       \/ sema = 0 /\ Goto(t, "try")
       \/ sema = LocalHash(t) /\ Goto(t, "count")
       \/ sema \notin {0, LocalHash(t)} /\ UNCHANGED pc
  /\ UNCHANGED <<m_Lock, m_Semaphore, m_Count, depth, holds>>

(* compare_exchange_strong in try_lock(), which fails at once. *)
TryCompareExchange(t) ==
  /\ \/ m_Semaphore = 0 /\ From(t, "try", "count") /\ m_Semaphore' = t_hash[t]
     \/ m_Semaphore # 0 /\ From(t, "try", "idle") /\ UNCHANGED m_Semaphore
  /\ UNCHANGED <<m_Lock, m_Count, s_shared_id, t_hash, depth, holds>>

(* --m_Count; *)
RUnlock(t) ==
  /\ depth[t] > 0
  /\ From(t, "idle", "release")
  /\ m_Count' = m_Count - 1
  /\ UNCHANGED <<m_Lock, m_Semaphore, s_shared_id, t_hash, depth, holds>>

(* if (!m_Count) m_Semaphore.store(0, release); *)
ReleaseAtOnce(t) ==
  /\ From(t, "release", "idle")
  /\ m_Semaphore' = 0
  /\ depth' = [depth EXCEPT ![t] = @ - 1]
  /\ UNCHANGED <<m_Lock, m_Count, s_shared_id, t_hash, holds>>

Release(t) ==
  /\ From(t, "release", "idle")
  /\ m_Semaphore' = IF m_Count = 0 THEN 0 ELSE m_Semaphore
  /\ depth' = [depth EXCEPT ![t] = @ - 1]
  /\ UNCHANGED <<m_Lock, m_Count, s_shared_id, t_hash, holds>>
-----------------------------------------------------------------------------
(* The steps of an operation that has begun. *)
Step(t) ==
  \/ Exchange(t) \/ SpinEnds(t)
  \/ CompareExchange(t) \/ WaitEnds(t) \/ TryCompareExchange(t)
  \/ Count(t) \/ Release(t)

Next ==
  \E t \in Threads :
    \/ Lock(t) \/ TryLock(t) \/ Unlock(t)
    \/ RLock(t) \/ RTryLock(t) \/ RUnlock(t)
    \/ Step(t)

Spec == Init /\ [][Next]_vars

(* A thread inside an operation is scheduled again and again. *)
FairSpec == Spec /\ \A t \in Threads : WF_vars(Step(t))
-----------------------------------------------------------------------------
Labels == {"idle", "exchange", "spin", "cas", "wait", "try", "count", "release"}

(* The type of every variable. *)
TypeOK ==
  /\ m_Lock \in BOOLEAN
  /\ m_Semaphore \in Nat /\ m_Count \in Nat
  /\ s_shared_id \in Nat \ {0}
  /\ t_hash \in [Threads -> Nat]
  /\ pc \in [Threads -> Labels]
  /\ holds \in SUBSET Threads
  /\ depth \in [Threads -> Nat]

(* Thread t owns the RecursiveSpinLock: from its compare_exchange to its store. *)
Owns(t) == depth[t] > 0 \/ pc[t] = "count"

(***************************************************************************)
(* Mutual exclusion, for both locks.  For the recursive one it also keeps  *)
(* two threads from ever reaching the plain accesses to m_Count together.  *)
(***************************************************************************)
MutualExclusion ==
  \A t, u \in Threads : t # u => /\ ~(t \in holds /\ u \in holds)
                                 /\ ~(Owns(t) /\ Owns(u))

(***************************************************************************)
(* The recursive lock counts right: m_Semaphore holds the hash of the      *)
(* owner, or 0 when nobody owns it, and outside of an operation of the     *)
(* owner m_Count is how many of its calls of lock have still to be undone. *)
(***************************************************************************)
CountIsDepth ==
  /\ \A t \in Threads : Owns(t) => m_Semaphore = t_hash[t] /\ m_Semaphore # 0
  /\ \A t \in Threads : Owns(t) => m_Count = IF pc[t] = "release" THEN depth[t] - 1
                                                                  ELSE depth[t]
  /\ (\A t \in Threads : ~Owns(t)) => m_Semaphore = 0 /\ m_Count = 0

(***************************************************************************)
(* The locks implement AbstractLock.  An acquisition of the recursive lock *)
(* takes effect when m_Semaphore is set, or found to be the thread's own,  *)
(* and a release when it is stored, or found to be early.                  *)
(***************************************************************************)
SpinLock == INSTANCE AbstractLock WITH
              Reentrant <- FALSE,
              depth     <- [t \in Threads |-> IF t \in holds THEN 1 ELSE 0]

RecursiveLock == INSTANCE AbstractLock WITH
                   Reentrant <- TRUE,
                   depth     <- [t \in Threads |-> IF pc[t] = "count" THEN depth[t] + 1
                                                                      ELSE depth[t]]

ImplementsSpinLock == SpinLock!Spec

ImplementsRecursiveLock == RecursiveLock!Spec

(***************************************************************************)
(* No thread is kept out of a free lock: when one spins on it in lock(),   *)
(* some thread takes it.                                                   *)
(***************************************************************************)
FreeLockIsTaken ==
  /\ ~m_Lock /\ (\E t \in Threads : pc[t] \in {"exchange", "spin"}) ~> m_Lock
  /\ m_Semaphore = 0 /\ (\E t \in Threads : pc[t] \in {"cas", "wait"}) ~> m_Semaphore # 0
=============================================================================
