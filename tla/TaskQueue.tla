----------------------------- MODULE TaskQueue -----------------------------
(***************************************************************************)
(* TaskQueue of src/src/task/task_queue.{h,cpp}: a list of tasks linked    *)
(* through TaskBase::m_NextLink, whose operations hold m_Mutex, an         *)
(* atomic_flag, in a LockGuard.  Member by member and step by step it is   *)
(* the JobQueue of the job library, with other names; the destructor of    *)
(* the guard runs at the return of the operation.                          *)
(***************************************************************************)
EXTENDS Integers, Sequences

CONSTANTS Threads, Tasks, TaskQueues, NULL

VARIABLES m_Mutex, m_Head, m_Tail, m_NumEntries, m_NextLink, pc, call, result, hand, contents

List == INSTANCE JobQueue WITH
          Jobs <- Tasks, SharedQueues <- TaskQueues, Bins <- {}, Owner <- <<>>,
          m_Lock <- m_Mutex, m_Next <- m_NextLink

vars == List!vars

Init == List!Init

(* The caller of push holds the task; it begins at the constructor of the guard. *)
Begin(t, c) == List!CallShared(t, c)

(* LockGuard(m_Mutex) and ~LockGuard() *)
LockGuard(t) == List!Lock(t)
Unlock(t) == List!Return(t)

PushKeepsLink(t) == List!PushKeepsLink(t) \/ List!PushHead(t) \/ List!PushTail(t)

Push(t) == List!PushClearsLink(t) \/ List!PushHead(t) \/ List!PushTail(t)

Pop(t) == List!PopReadsHead(t) \/ List!PopAdvances(t) \/ List!PopTrimsTail(t)

Clear(t) == List!Clear(t)

Size(t) == List!Size(t)

Step(t) == LockGuard(t) \/ Push(t) \/ Pop(t) \/ Clear(t) \/ Size(t) \/ Unlock(t)

Next == \E t \in Threads : Step(t) \/ \E c \in List!CallRecord : Begin(t, c)

Spec == Init /\ [][Next]_vars
-----------------------------------------------------------------------------
(***************************************************************************)
(* Linearizability: every operation of a TaskQueue takes effect in one     *)
(* instant, as on a FIFO of tasks, while other threads call it too.        *)
(***************************************************************************)
ImplementsFifo == List!ImplementsFifo
=============================================================================
