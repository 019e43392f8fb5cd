--------------------------- MODULE JobQueueProofs ---------------------------
(***************************************************************************)
(* Proofs about the job queues of module JobQueue, for any number of       *)
(* threads, jobs, shared queues and thread_local bins.                     *)
(***************************************************************************)
EXTENDS JobQueue, TLAPS

(***************************************************************************)
(* TypeOK with integers for counts: that the counts are never negative     *)
(* takes the shape of the lists and comes last.                            *)
(***************************************************************************)
Typed ==
  /\ m_Lock \in [SharedQueues -> BOOLEAN]
  /\ m_Head \in [Queues -> Jobs \cup {NULL}]
  /\ m_Tail \in [Queues -> Jobs \cup {NULL}]
  /\ m_NumEntries \in [Queues -> Int]
  /\ m_Next \in [Jobs -> Jobs \cup {NULL}]
  /\ pc \in [Threads -> Labels]
  /\ call \in [Threads -> CallRecord \cup {NULL}]
  /\ result \in [Threads -> Jobs \cup Int \cup {NULL}]
  /\ hand \in [Threads -> SUBSET Jobs]
  /\ contents \in [Queues -> Seq(Jobs)]

(* What a thread's program counter says about the operation it is in. *)
CallMatches(t) ==
  /\ pc[t] = "idle" <=> call[t] = NULL
  /\ pc[t] = "lock" => call[t].queue \in SharedQueues
  /\ pc[t] \in {"push", "head", "tail"} => call[t].op = "push"
  /\ pc[t] \in {"pop", "advance", "trim"} => call[t].op = "pop"
  /\ pc[t] \in {"clear", "size"} => call[t].op = pc[t]
  /\ pc[t] # "idle" /\ call[t].queue \in Bins => Owner[call[t].queue] = t
  /\ pc[t] \notin {"advance", "trim", "return"} => result[t] = NULL
  /\ pc[t] \in {"advance", "trim"} => result[t] \in Jobs
  /\ pc[t] = "return" /\ call[t].op = "pop" => result[t] \in Jobs \cup {NULL}

IInv1 == Typed /\ \A t \in Threads : CallMatches(t)

(* A call is a record, not nullptr, of one of the four operations on a queue. *)
LEMMA CallIsTyped ==
  ASSUME NEW c \in CallRecord
  PROVE  /\ c # NULL
         /\ c.op \in {"push", "pop", "clear", "size"}
         /\ c.queue \in Queues
  BY QueueAssumption DEF QueueAssumption, CallRecord

(* What a pop leaves of a list is a list of the same jobs. *)
LEMMA RestIsSeq == ASSUME NEW S, NEW s \in Seq(S) PROVE Rest(s) \in Seq(S)
  BY DEF Rest

(* The queues, and the threads before their first call, start with IInv1. *)
THEOREM Init1 == Init => IInv1
  <1>. SUFFICES ASSUME Init PROVE IInv1
    OBVIOUS
  <1>1. Typed
    BY DEF Init, Typed, Labels
  <1>2. ASSUME NEW t \in Threads PROVE CallMatches(t)
    BY DEF Init, CallMatches
  <1>. QED  BY <1>1, <1>2 DEF IInv1

(* The start of an operation keeps IInv1. *)
LEMMA Begin1 ==
  ASSUME IInv1, NEW t \in Threads, NEW c \in CallRecord, CallShared(t, c) \/ CallBin(t, c)
  PROVE  IInv1'
  <1>. USE DEF IInv1, Begin, Goto, lists
  <1>1. Typed'
    <2>1. pc' = [pc EXCEPT ![t] = "lock"] \/ pc' = [pc EXCEPT ![t] = c.op]
      BY DEF CallShared, CallBin
    <2>2. pc' \in [Threads -> Labels]
      BY <2>1, CallIsTyped DEF Typed, Labels
    <2>3. hand' = [hand EXCEPT ![t] = @ \ {c.job}]
      BY DEF CallShared, CallBin
    <2>. QED  BY <2>2, <2>3 DEF Typed, CallShared, CallBin
  <1>2. ASSUME NEW u \in Threads PROVE CallMatches(u)'
    <2>1. CASE u # t
      BY <2>1 DEF Typed, CallMatches, CallShared, CallBin
    <2>2. CASE u = t
      <3>1. c # NULL /\ c.op \in {"push", "pop", "clear", "size"} /\ c.queue \in Queues
        BY CallIsTyped
      <3>2. CASE CallShared(t, c)
        BY <2>2, <3>1, <3>2, QueueAssumption DEF Typed, CallMatches, CallShared, QueueAssumption
      <3>3. CASE CallBin(t, c)
        BY <2>2, <3>1, <3>3, QueueAssumption DEF Typed, CallMatches, CallBin, QueueAssumption
      <3>. QED  BY <3>2, <3>3
    <2>. QED  BY <2>1, <2>2
  <1>. QED  BY <1>1, <1>2

(* Each step of an operation keeps IInv1. *)
LEMMA Step1 ==
  ASSUME IInv1, NEW t \in Threads, Step(t)
  PROVE  IInv1'
  <1>. USE DEF IInv1, Typed, Goto, lists
  <1>0. pc[t] # "idle" => call[t] \in CallRecord /\ call[t].queue \in Queues
    BY DEF CallMatches, CallRecord
  <1>1. CASE Lock(t)
    BY <1>0, <1>1 DEF Lock, CallMatches, Labels, CallRecord, Queues
  <1>2. CASE PushClearsLink(t)
    BY <1>0, <1>2 DEF PushClearsLink, CallMatches, Labels, CallRecord
  <1>3. CASE PushHead(t)
    BY <1>0, <1>3 DEF PushHead, CallMatches, Labels, CallRecord
  <1>4. CASE PushTail(t)
    BY <1>0, <1>4 DEF PushTail, CallMatches, Labels, CallRecord
  <1>5. CASE PopReadsHead(t)
    BY <1>0, <1>5 DEF PopReadsHead, CallMatches, Labels, CallRecord
  <1>6. CASE PopAdvances(t)
    BY <1>0, <1>6, RestIsSeq DEF PopAdvances, CallMatches, Labels, CallRecord
  <1>7. CASE PopTrimsTail(t)
    BY <1>0, <1>7 DEF PopTrimsTail, CallMatches, Labels, CallRecord
  <1>8. CASE Clear(t)
    BY <1>0, <1>8 DEF Clear, CallMatches, Labels, CallRecord
  <1>9. CASE Size(t)
    BY <1>0, <1>9 DEF Size, CallMatches, Labels, CallRecord
  <1>10. CASE Return(t)
    BY <1>0, <1>10, QueueAssumption DEF Return, CallMatches, Labels, CallRecord, QueueAssumption
  <1>. QED  BY <1>1, <1>2, <1>3, <1>4, <1>5, <1>6, <1>7, <1>8, <1>9, <1>10 DEF Step

(***************************************************************************)
(* Every variable has its type, counts being integers, and the operation   *)
(* each thread is in is the one its program counter stands in.             *)
(***************************************************************************)
THEOREM Spec1 == Spec => []IInv1
  <1>1. IInv1 /\ [Next]_vars => IInv1'
    <2>. SUFFICES ASSUME IInv1, [Next]_vars PROVE IInv1'
      OBVIOUS
    <2>1. CASE Next
      BY <2>1, Begin1, Step1 DEF Next
    <2>2. CASE UNCHANGED vars
      BY <2>2 DEF vars, IInv1, Typed, CallMatches
    <2>. QED  BY <2>1, <2>2
  <1>. QED  BY Init1, <1>1, PTL DEF Spec
-----------------------------------------------------------------------------
(***************************************************************************)
(* Mutual exclusion.  The steps in the middle of an operation neither      *)
(* enter nor leave a queue.                                                *)
(***************************************************************************)
Middle(t) ==
  \/ PushClearsLink(t) \/ PushHead(t) \/ PushTail(t)
  \/ PopReadsHead(t) \/ PopAdvances(t) \/ PopTrimsTail(t)
  \/ Clear(t) \/ Size(t)

(* A step between the first and the last of an operation stays inside it. *)
LEMMA MiddleStaysInside ==
  ASSUME IInv1, NEW t \in Threads, Middle(t)
  PROVE  /\ UNCHANGED <<m_Lock, call>>
         /\ pc[t] \notin {"idle", "lock"} /\ pc'[t] \notin {"idle", "lock"}
         /\ \A u \in Threads \ {t} : pc'[u] = pc[u]
  BY DEF Middle, IInv1, Typed, Goto, PushClearsLink, PushHead, PushTail, PopReadsHead,
         PopAdvances, PopTrimsTail, Clear, Size

(* Taking, holding and releasing the lock of a queue keep mutual exclusion. *)
LEMMA MutexStep ==
  ASSUME IInv1, MutualExclusion, [Next]_vars
  PROVE  MutualExclusion'
  <1>. USE DEF MutualExclusion, Inside, Goto
  <1>1. ASSUME NEW t \in Threads, NEW c \in CallRecord, CallShared(t, c)
        PROVE  MutualExclusion'
    BY <1>1, CallIsTyped DEF IInv1, Typed, CallMatches, CallShared, Begin
  <1>2. ASSUME NEW t \in Threads, NEW c \in CallRecord, CallBin(t, c)
        PROVE  MutualExclusion'
    <2>1. c.queue \in Bins /\ c.queue \notin SharedQueues /\ c.op \notin {"idle", "lock"}
      BY <1>2, CallIsTyped, QueueAssumption DEF CallBin, QueueAssumption
    <2>2. \A u \in Threads : ~Inside(u, c.queue) \/ u = t
      BY <1>2, <2>1 DEF IInv1, CallMatches, CallBin
    <2>3. \A u \in Threads, q \in Queues : Inside(u, q)' <=> Inside(u, q) \/ (u = t /\ q = c.queue)
      BY <1>2, <2>1 DEF IInv1, Typed, CallMatches, CallBin, Begin
    <2>4. m_Lock' = m_Lock
      BY <1>2 DEF CallBin, Begin
    <2>. QED  BY <2>1, <2>2, <2>3, <2>4 DEF Queues
  <1>3. ASSUME NEW t \in Threads, Lock(t)
        PROVE  MutualExclusion'
    <2>0. call[t].queue \in SharedQueues /\ call[t] \in CallRecord
      BY <1>3 DEF IInv1, Typed, CallMatches, Lock
    <2>1. call[t].queue \in SharedQueues /\ call[t].op \notin {"idle", "lock"}
      BY <2>0, CallIsTyped
    <2>2. \A u \in Threads, q \in Queues :
            Inside(u, q)' <=> Inside(u, q) \/ (u = t /\ q = call[t].queue)
      BY <1>3, <2>1 DEF IInv1, Typed, Lock
    <2>. QED  BY <1>3, <2>1, <2>2 DEF IInv1, Typed, Lock, Queues
  <1>4. ASSUME NEW t \in Threads, Middle(t)
        PROVE  MutualExclusion'
    <2>1. \A u \in Threads, q \in Queues : Inside(u, q)' <=> Inside(u, q)
      BY <1>4, MiddleStaysInside
    <2>. QED  BY <1>4, <2>1, MiddleStaysInside DEF Queues
  <1>5. ASSUME NEW t \in Threads, Return(t)
        PROVE  MutualExclusion'
    <2>1. \A u \in Threads, q \in Queues :
            Inside(u, q)' <=> Inside(u, q) /\ u # t
      BY <1>5 DEF IInv1, Typed, Return
    <2>2. Inside(t, call[t].queue) /\ call[t].queue \in Queues
      BY <1>5, CallIsTyped DEF IInv1, Typed, CallMatches, Return
    <2>3. \A q \in SharedQueues : m_Lock'[q] <=> m_Lock[q] /\ q # call[t].queue
      BY <1>5 DEF IInv1, Typed, Return
    <2>. QED  BY <2>1, <2>2, <2>3 DEF Queues
  <1>6. CASE UNCHANGED vars
    BY <1>6 DEF vars
  <1>. QED  BY <1>1, <1>2, <1>3, <1>4, <1>5, <1>6 DEF Next, Step, Middle

(***************************************************************************)
(* Two threads are never inside operations on one queue: the atomic_flag   *)
(* keeps them apart on a JobQueue, and thread_local storage on a bin.      *)
(***************************************************************************)
THEOREM MutualExclusionHolds == Spec => []MutualExclusion
  <1>1. Init => MutualExclusion
    BY DEF Init, MutualExclusion, Inside
  <1>. QED  BY <1>1, MutexStep, Spec1, PTL DEF Spec
-----------------------------------------------------------------------------
(***************************************************************************)
(* The shape of the lists, also of those that a thread is inside: m_Head   *)
(* of an empty list is set already at label "tail", m_Tail still at "trim".*)
(***************************************************************************)
At(t, label, q) == pc[t] = label /\ call[t].queue = q

Linked(q) ==
  LET c == contents[q]
  IN  /\ m_NumEntries[q] = Len(c)
      /\ c # <<>> => /\ m_Head[q] = c[1]
                     /\ m_Tail[q] = c[Len(c)]
                     /\ m_Next[c[Len(c)]] = NULL
      /\ \A i \in 1..(Len(c) - 1) : m_Next[c[i]] = c[i + 1]
      /\ c = <<>> /\ (\A t \in Threads : ~At(t, "tail", q)) => m_Head[q] = NULL
      /\ c = <<>> /\ (\A t \in Threads : ~At(t, "trim", q)) => m_Tail[q] = NULL

(* What a thread inside a queue knows of the list. *)
Knows(t) ==
  LET q == call[t].queue
  IN  /\ pc[t] \in {"head", "tail"} => m_Next[call[t].job] = NULL
      /\ pc[t] = "tail" /\ contents[q] = <<>> => m_Head[q] = call[t].job
      /\ pc[t] = "advance" => contents[q] # <<>> /\ result[t] = contents[q][1]
      /\ pc[t] = "trim" /\ contents[q] = <<>> => m_Tail[q] = result[t]

Shape ==
  /\ \A q \in Queues : Linked(q)
  /\ \A t \in Threads : Knows(t)
  /\ result \in [Threads -> Jobs \cup Nat \cup {NULL}]

IInv2 == IInv1 /\ MutualExclusion /\ OneListAtATime /\ Shape

Holds(t) == hand[t] \cup Carried(t)

(* The parts of OneListAtATime, in terms of what each thread holds. *)
LEMMA Apart ==
  ASSUME OneListAtATime
  PROVE  /\ \A q \in Queues : \A i, k \in 1..Len(contents[q]) :
              contents[q][i] = contents[q][k] => i = k
         /\ \A q, r \in Queues : q # r => Elements(contents[q]) \cap Elements(contents[r]) = {}
         /\ \A t \in Threads, q \in Queues : Holds(t) \cap Elements(contents[q]) = {}
         /\ \A t, u \in Threads : t # u => Holds(t) \cap Holds(u) = {}
         /\ \A t \in Threads : hand[t] \cap Carried(t) = {}
  BY DEF OneListAtATime, Holds

(* The queue of an operation is a queue, and the job of a push a job. *)
LEMMA InCall ==
  ASSUME IInv1, NEW t \in Threads, pc[t] # "idle"
  PROVE  /\ call[t] \in CallRecord
         /\ call[t].queue \in Queues
         /\ call[t].op = "push" => call[t].job \in Jobs
         /\ call[t].op \in {"push", "pop", "clear", "size"}
  <1>1. call[t] \in CallRecord
    BY DEF IInv1, Typed, CallMatches
  <1>. QED  BY <1>1 DEF CallRecord

(* Nobody else is inside the queue that t is inside. *)
LEMMA Alone ==
  ASSUME IInv1, MutualExclusion, NEW t \in Threads, pc[t] \notin {"idle", "lock"},
         NEW u \in Threads, u # t, pc[u] \notin {"idle", "lock"}
  PROVE  call[u].queue # call[t].queue
  BY InCall DEF MutualExclusion, Inside

(***************************************************************************)
(* Facts about sequences: what Append, Tail and the empty sequence do to   *)
(* the elements and to their being different.                              *)
(***************************************************************************)
LEMMA AppendElements ==
  ASSUME NEW S, NEW s \in Seq(S), NEW x \in S
  PROVE  /\ Elements(Append(s, x)) = Elements(s) \cup {x}
         /\ Append(s, x) \in Seq(S) /\ Len(Append(s, x)) = Len(s) + 1
         /\ Append(s, x)[Len(s) + 1] = x
         /\ \A i \in 1..Len(s) : Append(s, x)[i] = s[i]
  BY DEF Elements

(* The elements of the rest of a list: all but its first, if it has no duplicate. *)
LEMMA RestElements ==
  ASSUME NEW S, NEW s \in Seq(S), s # <<>>,
         \A i, k \in 1..Len(s) : s[i] = s[k] => i = k
  PROVE  /\ Elements(Rest(s)) \subseteq Elements(s)
         /\ s[1] \in Elements(s) \ Elements(Rest(s))
         /\ Len(Rest(s)) = Len(s) - 1
         /\ \A i \in 1..(Len(s) - 1) : Rest(s)[i] = s[i + 1]
  <1>1. Len(s) \in Nat /\ Len(s) > 0
    OBVIOUS
  <1>2. Rest(s) = Tail(s) /\ Len(Rest(s)) = Len(s) - 1
    BY <1>1 DEF Rest
  <1>3. \A i \in 1..(Len(s) - 1) : Rest(s)[i] = s[i + 1]
    BY <1>1, <1>2
  <1>4. Elements(Rest(s)) = {s[i + 1] : i \in 1..(Len(s) - 1)}
    BY <1>2, <1>3 DEF Elements
  <1>5. s[1] \in Elements(s)
    BY <1>1 DEF Elements
  <1>6. s[1] \notin Elements(Rest(s))
    BY <1>1, <1>4
  <1>7. Elements(Rest(s)) \subseteq Elements(s)
    BY <1>1, <1>4 DEF Elements
  <1>. QED  BY <1>2, <1>3, <1>5, <1>6, <1>7

(***************************************************************************)
(* Steps that move no job between lists and threads.                       *)
(***************************************************************************)
LEMMA QuietStep ==
  ASSUME OneListAtATime, contents' = contents,
         \A u \in Threads : Holds(u)' = Holds(u),
         \A u \in Threads : (hand[u] \cap Carried(u))' = {}
  PROVE  OneListAtATime'
  BY Apart DEF OneListAtATime, Holds

(* A job given to a push goes from the hand of the thread into the operation. *)
LEMMA BeginHolds ==
  ASSUME IInv2, NEW t \in Threads, NEW c \in CallRecord, CallShared(t, c) \/ CallBin(t, c)
  PROVE  OneListAtATime'
  <1>1. /\ c.op = "push" => c.job \in hand[t]
        /\ c.op # "push" => c.job = NULL
    BY DEF CallRecord, CallShared, CallBin, Begin
  <1>2. /\ pc[t] = "idle"
        /\ pc' = [pc EXCEPT ![t] = "lock"] \/ pc' = [pc EXCEPT ![t] = c.op]
        /\ call' = [call EXCEPT ![t] = c]
        /\ hand' = [hand EXCEPT ![t] = @ \ {c.job}]
        /\ result' = result /\ contents' = contents
    BY DEF CallShared, CallBin, Begin, Goto
  <1>3. Carried(t) = {}
    BY <1>2 DEF Carried
  <1>4. Carried(t)' = IF c.op = "push" THEN {c.job} ELSE {}
    BY <1>2, CallIsTyped DEF Carried, IInv2, IInv1, Typed
  <1>5. \A u \in Threads \ {t} : Carried(u)' = Carried(u) /\ hand'[u] = hand[u]
    BY <1>2 DEF Carried, IInv2, IInv1, Typed
  <1>6. hand'[t] = hand[t] \ {c.job} /\ NULL \notin hand[t]
    BY <1>2, QueueAssumption DEF QueueAssumption, IInv2, IInv1, Typed
  <1>7. Holds(t)' = Holds(t) /\ (hand[t] \cap Carried(t))' = {}
    BY <1>1, <1>3, <1>4, <1>6 DEF Holds
  <1>8. \A u \in Threads : Holds(u)' = Holds(u) /\ (hand[u] \cap Carried(u))' = {}
    BY <1>5, <1>7, Apart DEF Holds, IInv2
  <1>. QED  BY <1>2, <1>8, QuietStep DEF IInv2

(* The steps that only read or write links move no job. *)
LEMMA QuietHolds ==
  ASSUME IInv2, NEW t \in Threads,
         \/ Lock(t) \/ PushClearsLink(t) \/ PushHead(t) \/ PopReadsHead(t)
         \/ PopTrimsTail(t) \/ Size(t)
  PROVE  OneListAtATime'
  <1>. USE DEF IInv2, IInv1, Typed, Goto
  <1>0. /\ call[t].op \in {"push", "pop", "clear", "size"} /\ CallMatches(t)
    BY InCall DEF Lock, PushClearsLink, PushHead, PopReadsHead, PopTrimsTail, Size
  <1>1. /\ hand' = hand /\ contents' = contents /\ call' = call
        /\ \A u \in Threads \ {t} : pc'[u] = pc[u] /\ result'[u] = result[u]
    BY DEF Lock, PushClearsLink, PushHead, PopReadsHead, PopTrimsTail, Size
  <1>2. \A u \in Threads \ {t} : Carried(u)' = Carried(u)
    BY <1>1 DEF Carried
  <1>3. Carried(t)' = Carried(t)
    <2>1. CASE Lock(t)
      BY <1>0, <2>1 DEF Lock, Carried, CallMatches
    <2>2. CASE PushClearsLink(t)
      BY <1>0, <2>2 DEF PushClearsLink, Carried, CallMatches
    <2>3. CASE PushHead(t)
      BY <1>0, <2>3 DEF PushHead, Carried, CallMatches
    <2>4. CASE PopReadsHead(t)
      BY <1>0, <2>4 DEF PopReadsHead, Carried, CallMatches
    <2>5. CASE PopTrimsTail(t)
      BY <1>0, <2>5 DEF PopTrimsTail, Carried, CallMatches
    <2>6. CASE Size(t)
      BY <1>0, <2>6 DEF Size, Carried, CallMatches
    <2>. QED  BY <2>1, <2>2, <2>3, <2>4, <2>5, <2>6
  <1>. QED  BY <1>1, <1>2, <1>3, QuietStep, Apart DEF Holds

(* The return of a pop puts the job it carries into the hand of the thread. *)
LEMMA ReturnHolds ==
  ASSUME IInv2, NEW t \in Threads, Return(t)
  PROVE  OneListAtATime'
  <1>. USE DEF IInv2, IInv1, Typed, Goto
  <1>1. call[t].op \in {"push", "pop", "clear", "size"}
    BY InCall DEF Return
  <1>2. \A u \in Threads \ {t} : Carried(u)' = Carried(u) /\ hand'[u] = hand[u]
    BY DEF Return, Carried
  <1>3. Carried(t)' = {}
    BY DEF Return, Carried
  <1>4. hand'[t] = hand[t] \cup Carried(t)
    BY <1>1 DEF Return, Carried
  <1>5. \A u \in Threads : Holds(u)' = Holds(u) /\ (hand[u] \cap Carried(u))' = {}
    BY <1>2, <1>3, <1>4, Apart DEF Holds
  <1>. QED  BY <1>5, QuietStep DEF Return

(***************************************************************************)
(* Steps that move a job between thread t and list q.                      *)
(***************************************************************************)
LEMMA MoveStep ==
  ASSUME OneListAtATime, NEW t \in Threads, NEW q \in Queues,
         \A r \in Queues \ {q} : contents'[r] = contents[r],
         Elements(contents'[q]) \subseteq Elements(contents[q]) \cup Holds(t),
         \A i, k \in 1..Len(contents'[q]) : contents'[q][i] = contents'[q][k] => i = k,
         \A u \in Threads \ {t} : Holds(u)' = Holds(u),
         Holds(t)' \subseteq Holds(t) \cup Elements(contents[q]),
         Holds(t)' \cap Elements(contents'[q]) = {},
         \A u \in Threads : (hand[u] \cap Carried(u))' = {}
  PROVE  OneListAtATime'
  <1>1. \A r, s \in Queues : r # s => Elements(contents'[r]) \cap Elements(contents'[s]) = {}
    BY Apart
  <1>2. \A u \in Threads, r \in Queues : Holds(u)' \cap Elements(contents'[r]) = {}
    BY Apart
  <1>3. \A u, v \in Threads : u # v => Holds(u)' \cap Holds(v)' = {}
    BY Apart
  <1>4. \A r \in Queues : \A i, k \in 1..Len(contents'[r]) :
          contents'[r][i] = contents'[r][k] => i = k
    BY Apart
  <1>. QED  BY <1>1, <1>2, <1>3, <1>4 DEF OneListAtATime, Holds

(* A push moves the job it carries to the end of the list. *)
LEMMA PushTailHolds ==
  ASSUME IInv2, NEW t \in Threads, PushTail(t)
  PROVE  OneListAtATime'
  <1>. DEFINE q == call[t].queue
              work == call[t].job
  <1>1. pc[t] = "tail" /\ call[t].op = "push" /\ q \in Queues /\ work \in Jobs
    BY InCall DEF PushTail, IInv2, IInv1, CallMatches
  <1>2. /\ contents' = [contents EXCEPT ![q] = Append(@, work)]
        /\ contents \in [Queues -> Seq(Jobs)]
        /\ hand' = hand /\ call' = call /\ result' = result
        /\ pc' = [pc EXCEPT ![t] = "return"] /\ pc \in [Threads -> Labels]
    BY DEF PushTail, Goto, IInv2, IInv1, Typed
  <1>3. Carried(t) = {work} /\ Carried(t)' = {}
    BY <1>1, <1>2 DEF Carried
  <1>4. \A u \in Threads \ {t} : Carried(u)' = Carried(u)
    BY <1>2 DEF Carried
  <1>5. contents[q] \in Seq(Jobs) /\ contents'[q] = Append(contents[q], work)
    BY <1>1, <1>2
  <1>6. work \notin Elements(contents[q])
    BY <1>1, <1>3, Apart DEF IInv2, Holds
  <1>7. \A i, k \in 1..Len(contents'[q]) : contents'[q][i] = contents'[q][k] => i = k
    <2>1. \A i \in 1..Len(contents[q]) : contents[q][i] # work
      BY <1>6 DEF Elements
    <2>2. \A i, k \in 1..Len(contents[q]) : contents[q][i] = contents[q][k] => i = k
      BY <1>1, Apart DEF IInv2
    <2>. QED  BY <1>1, <1>5, <2>1, <2>2, AppendElements
  <1>8. Elements(contents'[q]) = Elements(contents[q]) \cup {work}
    BY <1>1, <1>5, AppendElements
  <1>9. \A r \in Queues \ {q} : contents'[r] = contents[r]
    BY <1>2
  <1>10. Holds(t)' \subseteq Holds(t) /\ Holds(t)' \cap Elements(contents'[q]) = {}
    BY <1>1, <1>2, <1>3, <1>8, Apart DEF Holds, IInv2
  <1>11. /\ \A u \in Threads \ {t} : Holds(u)' = Holds(u)
         /\ \A u \in Threads : (hand[u] \cap Carried(u))' = {}
    BY <1>2, <1>3, <1>4, Apart DEF Holds, IInv2
  <1>12. work \in Holds(t)
    BY <1>3 DEF Holds
  <1>. HIDE DEF q, work
  <1>. QED  BY <1>1, <1>7, <1>8, <1>9, <1>10, <1>11, <1>12, MoveStep DEF IInv2

(* A pop moves the first job of the list into the operation. *)
LEMMA PopAdvancesHolds ==
  ASSUME IInv2, NEW t \in Threads, PopAdvances(t)
  PROVE  OneListAtATime'
  <1>. DEFINE q == call[t].queue
              c == contents[q]
  <1>1. pc[t] = "advance" /\ call[t].op = "pop" /\ q \in Queues /\ result[t] \in Jobs
    BY InCall DEF PopAdvances, IInv2, IInv1, CallMatches
  <1>2. /\ contents' = [contents EXCEPT ![q] = Rest(@)]
        /\ contents \in [Queues -> Seq(Jobs)]
        /\ hand' = hand /\ call' = call /\ result' = result
        /\ pc' = [pc EXCEPT ![t] = "trim"] /\ pc \in [Threads -> Labels]
    BY DEF PopAdvances, Goto, IInv2, IInv1, Typed
  <1>3. c \in Seq(Jobs) /\ c # <<>> /\ result[t] = c[1]
    BY <1>1, <1>2 DEF IInv2, Shape, Knows
  <1>4. \A i, k \in 1..Len(c) : c[i] = c[k] => i = k
    BY <1>1, Apart DEF IInv2
  <1>5. /\ Elements(Rest(c)) \subseteq Elements(c)
        /\ c[1] \in Elements(c) \ Elements(Rest(c))
        /\ Len(Rest(c)) = Len(c) - 1
        /\ \A i \in 1..(Len(c) - 1) : Rest(c)[i] = c[i + 1]
    <2>. HIDE DEF c
    <2>. QED  BY <1>3, <1>4, RestElements
  <1>6. contents'[q] = Rest(c) /\ \A r \in Queues \ {q} : contents'[r] = contents[r]
    BY <1>1, <1>2
  <1>7. \A i, k \in 1..Len(contents'[q]) : contents'[q][i] = contents'[q][k] => i = k
    <2>. HIDE DEF c
    <2>. QED  BY <1>3, <1>4, <1>5, <1>6
  <1>8. Carried(t) = {} /\ Carried(t)' = {result[t]}
    BY <1>1, <1>2, QueueAssumption DEF Carried, QueueAssumption
  <1>9. \A u \in Threads \ {t} : Carried(u)' = Carried(u)
    BY <1>2 DEF Carried
  <1>10. \A u \in Threads : hand[u] \cap Elements(c) = {}
    BY <1>1, Apart DEF Holds, IInv2
  <1>11. /\ Holds(t)' = Holds(t) \cup {c[1]}
         /\ \A u \in Threads \ {t} : Holds(u)' = Holds(u)
         /\ \A u \in Threads : (hand[u] \cap Carried(u))' = {}
    BY <1>2, <1>3, <1>5, <1>8, <1>9, <1>10, Apart DEF Holds, IInv2
  <1>12. Holds(t) \cap Elements(c) = {}
    BY <1>1, Apart DEF IInv2
  <1>13. contents[q] = c
    OBVIOUS
  <1>. HIDE DEF q, c
  <1>. QED  BY <1>1, <1>5, <1>6, <1>7, <1>11, <1>12, <1>13, MoveStep DEF IInv2

(* A clear forgets the jobs of the list. *)
LEMMA ClearHolds ==
  ASSUME IInv2, NEW t \in Threads, Clear(t)
  PROVE  OneListAtATime'
  <1>. DEFINE q == call[t].queue
  <1>1. pc[t] = "clear" /\ call[t].op = "clear" /\ q \in Queues
    BY InCall DEF Clear, IInv2, IInv1, CallMatches
  <1>2. /\ contents' = [contents EXCEPT ![q] = <<>>]
        /\ contents \in [Queues -> Seq(Jobs)]
        /\ hand' = hand /\ call' = call
        /\ pc' = [pc EXCEPT ![t] = "return"] /\ pc \in [Threads -> Labels]
        /\ \A u \in Threads \ {t} : result'[u] = result[u]
    BY DEF Clear, Goto, IInv2, IInv1, Typed
  <1>3. Carried(t) = {} /\ Carried(t)' = {}
    BY <1>1, <1>2 DEF Carried
  <1>4. \A u \in Threads \ {t} : Carried(u)' = Carried(u)
    BY <1>2 DEF Carried
  <1>5. contents'[q] = <<>> /\ Elements(contents'[q]) = {}
    BY <1>1, <1>2 DEF Elements
  <1>6. \A r \in Queues \ {q} : contents'[r] = contents[r]
    BY <1>2
  <1>7. /\ \A u \in Threads : Holds(u)' = Holds(u)
        /\ \A u \in Threads : (hand[u] \cap Carried(u))' = {}
    BY <1>2, <1>3, <1>4, Apart DEF Holds, IInv2
  <1>. HIDE DEF q
  <1>. QED  BY <1>1, <1>5, <1>6, <1>7, MoveStep DEF IInv2

(* A thread holds a job of its own in each operation, and one list at a time. *)
THEOREM HoldsStep == ASSUME IInv2, [Next]_vars PROVE OneListAtATime'
  <1>1. CASE UNCHANGED vars
    BY <1>1 DEF vars, IInv2, OneListAtATime, Carried
  <1>. QED  BY <1>1, BeginHolds, QuietHolds, ReturnHolds, PushTailHolds, PopAdvancesHolds,
               ClearHolds DEF Next, Step
-----------------------------------------------------------------------------
(***************************************************************************)
(* The shape of the lists.  A step leaves a list alone whose queue and     *)
(* whose jobs' links it does not write, and what another thread knows of   *)
(* its own.                                                                *)
(***************************************************************************)
LEMMA LinkedFrame ==
  ASSUME NEW r \in Queues, Linked(r), contents[r] \in Seq(Jobs),
         contents'[r] = contents[r], m_Head'[r] = m_Head[r], m_Tail'[r] = m_Tail[r],
         m_NumEntries'[r] = m_NumEntries[r],
         \A j \in Elements(contents[r]) : m_Next'[j] = m_Next[j],
         \A u \in Threads : At(u, "tail", r) => At(u, "tail", r)',
         \A u \in Threads : At(u, "trim", r) => At(u, "trim", r)'
  PROVE  Linked(r)'
  <1>1. \A i \in 1..Len(contents[r]) : m_Next'[contents[r][i]] = m_Next[contents[r][i]]
    BY DEF Elements
  <1>2. contents[r] # <<>> => Len(contents[r]) \in 1..Len(contents[r])
    OBVIOUS
  <1>. QED  BY <1>1, <1>2 DEF Linked

(* What a thread knows of its own operation outlives a step elsewhere. *)
LEMMA KnowsFrame ==
  ASSUME NEW u \in Threads, Knows(u),
         pc'[u] = pc[u], call'[u] = call[u], result'[u] = result[u],
         pc[u] \in {"head", "tail"} /\ m_Next[call[u].job] = NULL => m_Next'[call[u].job] = NULL,
         pc[u] \notin {"idle", "lock"} =>
           /\ contents'[call[u].queue] = contents[call[u].queue]
           /\ m_Head'[call[u].queue] = m_Head[call[u].queue]
           /\ m_Tail'[call[u].queue] = m_Tail[call[u].queue]
  PROVE  Knows(u)'
  BY DEF Knows

(* An empty queue that t is inside, and not about to finish a push or a pop. *)
LEMMA EmptyQueue ==
  ASSUME IInv2, NEW t \in Threads, pc[t] \notin {"idle", "lock"}
  PROVE  /\ pc[t] # "tail" /\ contents[call[t].queue] = <<>> => m_Head[call[t].queue] = NULL
         /\ pc[t] # "trim" /\ contents[call[t].queue] = <<>> => m_Tail[call[t].queue] = NULL
         /\ contents[call[t].queue] # <<>> =>
              m_Head[call[t].queue] \in Jobs /\ m_Tail[call[t].queue] \in Jobs
  <1>. DEFINE q == call[t].queue
  <1>1. q \in Queues /\ Linked(q) /\ contents[q] \in Seq(Jobs)
    BY InCall DEF IInv2, IInv1, Typed, Shape
  <1>2. \A u \in Threads \ {t} : ~At(u, "tail", q) /\ ~At(u, "trim", q)
    BY Alone DEF At, IInv2
  <1>3. contents[q] # <<>> => contents[q][1] \in Jobs /\ contents[q][Len(contents[q])] \in Jobs
    BY <1>1
  <1>. QED  BY <1>1, <1>2, <1>3 DEF Linked, At

(* The steps that write neither a list nor a link. *)
LEMMA ReadingShape ==
  ASSUME IInv2, NEW t \in Threads,
         \/ \E c \in CallRecord : CallShared(t, c) \/ CallBin(t, c)
         \/ Lock(t) \/ PopReadsHead(t) \/ Size(t) \/ Return(t)
  PROVE  Shape'
  <1>. USE DEF IInv2, IInv1, Typed, Shape, Goto
  <1>1. /\ UNCHANGED <<m_Head, m_Tail, m_NumEntries, m_Next, contents>>
        /\ \A u \in Threads \ {t} : pc'[u] = pc[u] /\ call'[u] = call[u] /\ result'[u] = result[u]
    BY DEF lists, CallShared, CallBin, Begin, Lock, PopReadsHead, Size, Return
  <1>2. pc[t] \notin {"tail", "trim"}
    BY DEF CallShared, CallBin, Begin, Lock, PopReadsHead, Size, Return
  <1>3. \A r \in Queues : Linked(r)'
    BY <1>1, <1>2, LinkedFrame DEF At
  <1>4. \A u \in Threads \ {t} : Knows(u)'
    BY <1>1, KnowsFrame
  <1>5. Knows(t)'
    <2>1. ASSUME NEW c \in CallRecord, CallShared(t, c) \/ CallBin(t, c)
          PROVE  pc'[t] \in {"lock", "push", "pop", "clear", "size"}
      BY <2>1, CallIsTyped DEF CallShared, CallBin, Begin
    <2>2. CASE Lock(t)
      BY <2>2, InCall DEF Lock, Knows
    <2>3. CASE PopReadsHead(t)
      <3>1. m_Head[call[t].queue] # NULL => contents[call[t].queue] # <<>>
        BY <2>3, EmptyQueue DEF PopReadsHead
      <3>2. call[t].queue \in Queues
        BY <2>3, InCall DEF PopReadsHead
      <3>. QED  BY <2>3, <3>1, <3>2 DEF PopReadsHead, Knows, Linked
    <2>4. CASE Size(t) \/ Return(t)
      BY <2>4 DEF Size, Return, Knows
    <2>. QED  BY <2>1, <2>2, <2>3, <2>4 DEF Knows
  <1>6. result' \in [Threads -> Jobs \cup Nat \cup {NULL}]
    <2>1. CASE Size(t)
      <3>1. call[t].queue \in Queues
        BY <2>1, InCall DEF Size
      <3>2. m_NumEntries[call[t].queue] \in Nat
        BY <3>1 DEF Linked
      <3>. QED  BY <2>1, <3>2 DEF Size
    <2>2. CASE PopReadsHead(t)
      <3>1. call[t].queue \in Queues
        BY <2>2, InCall DEF PopReadsHead
      <3>. QED  BY <2>2, <3>1 DEF PopReadsHead
    <2>. QED  BY <2>1, <2>2 DEF CallShared, CallBin, Begin, Lock, Return
  <1>. QED  BY <1>3, <1>4, <1>5, <1>6

(* Clearing m_Next of the job to push disturbs no list: it is on none. *)
LEMMA PushClearsLinkShape ==
  ASSUME IInv2, NEW t \in Threads, PushClearsLink(t)
  PROVE  Shape'
  <1>. USE DEF IInv2, IInv1, Typed, Shape, Goto
  <1>. DEFINE work == call[t].job
  <1>1. pc[t] = "push" /\ call[t].op = "push" /\ work \in Jobs
    BY InCall DEF PushClearsLink, CallMatches
  <1>2. /\ UNCHANGED <<m_Head, m_Tail, m_NumEntries, call, result, contents>>
        /\ m_Next' = [m_Next EXCEPT ![work] = NULL]
        /\ \A u \in Threads \ {t} : pc'[u] = pc[u]
        /\ pc'[t] = "head"
    BY DEF PushClearsLink
  <1>3. work \in Holds(t)
    BY <1>1 DEF Holds, Carried
  <1>4. \A r \in Queues : work \notin Elements(contents[r])
    BY <1>3, Apart
  <1>5. ASSUME NEW r \in Queues PROVE Linked(r)'
    <2>1. \A j \in Elements(contents[r]) : m_Next'[j] = m_Next[j]
      BY <1>1, <1>2, <1>4 DEF Elements
    <2>2. contents[r] \in Seq(Jobs) /\ Linked(r)
      OBVIOUS
    <2>. QED  BY <1>1, <1>2, <2>1, <2>2, LinkedFrame DEF At
  <1>6. \A u \in Threads \ {t} : Knows(u)'
    BY <1>2, KnowsFrame, InCall DEF CallMatches
  <1>7. Knows(t)'
    BY <1>1, <1>2 DEF Knows
  <1>. QED  BY <1>2, <1>5, <1>6, <1>7

(* Setting m_Head of an empty queue disturbs no other list. *)
LEMMA PushHeadShape ==
  ASSUME IInv2, NEW t \in Threads, PushHead(t)
  PROVE  Shape'
  <1>. USE DEF IInv2, IInv1, Typed, Shape, Goto
  <1>. DEFINE q == call[t].queue
              work == call[t].job
  <1>1. pc[t] = "head" /\ q \in Queues /\ work \in Jobs
    BY InCall DEF PushHead, CallMatches
  <1>2. /\ UNCHANGED <<m_Tail, m_NumEntries, m_Next, call, result, contents>>
        /\ \A r \in Queues \ {q} : m_Head'[r] = m_Head[r]
        /\ m_Head'[q] = IF m_Head[q] = NULL THEN work ELSE m_Head[q]
        /\ \A u \in Threads \ {t} : pc'[u] = pc[u]
        /\ pc'[t] = "tail"
    BY <1>1 DEF PushHead
  <1>3. \A r \in Queues \ {q} : Linked(r)'
    BY <1>1, <1>2, LinkedFrame DEF At
  <1>4. contents[q] # <<>> => m_Head'[q] = m_Head[q]
    BY <1>1, <1>2, EmptyQueue, QueueAssumption DEF QueueAssumption
  <1>5. contents[q] = <<>> => m_Head'[q] = work
    BY <1>1, <1>2, EmptyQueue
  <1>6. \A u \in Threads : u # t /\ At(u, "trim", q) <=> At(u, "trim", q)'
    BY <1>1, <1>2 DEF At
  <1>7. Linked(q)'
    BY <1>1, <1>2, <1>4, <1>6 DEF Linked, At
  <1>8. \A u \in Threads \ {t} : Knows(u)'
    BY <1>1, <1>2, KnowsFrame, Alone, InCall
  <1>9. Knows(t)'
    BY <1>1, <1>2, <1>5 DEF Knows
  <1>. QED  BY <1>2, <1>3, <1>7, <1>8, <1>9

(* Linking the job behind m_Tail makes it the last of its list, and of no other. *)
LEMMA PushTailShape ==
  ASSUME IInv2, NEW t \in Threads, PushTail(t)
  PROVE  Shape'
  <1>. DEFINE q == call[t].queue
              work == call[t].job
              c == contents[q]
              last == c[Len(c)]
  <1>0. /\ \A r \in Queues : Linked(r) /\ contents[r] \in Seq(Jobs)
        /\ \A u \in Threads : Knows(u) /\ CallMatches(u)
        /\ result \in [Threads -> Jobs \cup Nat \cup {NULL}]
        /\ m_Next \in [Jobs -> Jobs \cup {NULL}]
        /\ IInv1 /\ MutualExclusion /\ OneListAtATime
    BY DEF IInv2, IInv1, Typed, Shape
  <1>1. pc[t] = "tail" /\ call[t].op = "push" /\ q \in Queues /\ work \in Jobs /\ c \in Seq(Jobs)
    BY <1>0, InCall DEF PushTail, CallMatches
  <1>2. /\ UNCHANGED <<m_Head, call, result>>
        /\ \A r \in Queues \ {q} : /\ m_Tail'[r] = m_Tail[r] /\ contents'[r] = contents[r]
                                   /\ m_NumEntries'[r] = m_NumEntries[r]
        /\ contents'[q] = Append(c, work) /\ m_Tail'[q] = work
        /\ m_NumEntries'[q] = m_NumEntries[q] + 1
        /\ \A u \in Threads \ {t} : pc'[u] = pc[u]
        /\ pc'[t] = "return"
        /\ m_Next' = IF m_Tail[q] = NULL THEN m_Next ELSE [m_Next EXCEPT ![m_Tail[q]] = work]
    BY <1>1 DEF PushTail, Goto, IInv2, IInv1, Typed
  <1>3. c # <<>> =>
          /\ Len(c) \in 1..Len(c)
          /\ last \in Elements(c) /\ last \in Jobs /\ m_Tail[q] = last /\ m_Head[q] = c[1]
    <2>1. c # <<>> => Len(c) \in 1..Len(c)
      BY <1>1
    <2>. QED  BY <1>0, <1>1, <2>1 DEF Linked, Elements
  <1>4. work \notin Elements(c) /\ work \in Holds(t)
    BY <1>0, <1>1, Apart DEF Holds, Carried
  <1>5. m_Next[work] = NULL /\ (c = <<>> => m_Head[q] = work)
    BY <1>0, <1>1 DEF Knows
  <1>6. /\ c = <<>> => m_Next' = m_Next
        /\ c # <<>> => m_Next' = [m_Next EXCEPT ![last] = work]
    <2>1. c = <<>> => m_Tail[q] = NULL
      BY <1>1, EmptyQueue
    <2>2. c # <<>> => m_Tail[q] # NULL
      BY <1>3, QueueAssumption DEF QueueAssumption
    <2>. QED  BY <1>2, <1>3, <2>1, <2>2
  <1>7. ASSUME NEW r \in Queues \ {q} PROVE Linked(r)'
    <2>1. c # <<>> => last \notin Elements(contents[r])
      BY <1>0, <1>1, <1>3, Apart
    <2>2. \A j \in Elements(contents[r]) : j \in Jobs
      BY <1>0 DEF Elements
    <2>3. \A j \in Elements(contents[r]) : m_Next'[j] = m_Next[j]
      BY <1>0, <1>6, <2>1, <2>2
    <2>. QED  BY <1>0, <1>1, <1>2, <2>3, LinkedFrame DEF At
  <1>8. ASSUME NEW r \in Queues, r = q PROVE Linked(r)'
    <2>1. /\ Len(contents'[q]) = Len(c) + 1
          /\ contents'[q][Len(c) + 1] = work
          /\ \A i \in 1..Len(c) : contents'[q][i] = c[i]
          /\ Len(c) \in Nat
      <3>. HIDE DEF c, work
      <3>. QED  BY <1>1, <1>2, AppendElements
    <2>2. m_NumEntries'[q] = Len(contents'[q])
      BY <1>0, <1>1, <1>2, <2>1 DEF Linked
    <2>3. m_Head'[q] = contents'[q][1]
      <3>1. CASE c = <<>>
        BY <1>2, <1>5, <2>1, <3>1
      <3>2. CASE c # <<>>
        BY <1>2, <1>3, <2>1, <3>2
      <3>. QED  BY <3>1, <3>2
    <2>4. m_Next'[work] = NULL
      <3>1. CASE c = <<>>
        BY <1>5, <1>6, <3>1
      <3>2. CASE c # <<>>
        <4>1. work # last
          BY <1>3, <1>4, <3>2
        <4>. QED  BY <1>0, <1>1, <1>5, <1>6, <3>2, <4>1
      <3>. QED  BY <3>1, <3>2
    <2>5. ASSUME NEW i \in 1..Len(c) PROVE m_Next'[contents'[q][i]] = contents'[q][i + 1]
      <3>0. c # <<>> /\ c[i] \in Jobs /\ contents'[q][i] = c[i]
        BY <1>1, <2>1
      <3>1. CASE i = Len(c)
        BY <1>0, <1>3, <1>6, <2>1, <3>0, <3>1
      <3>2. CASE i # Len(c)
        <4>1. i \in 1..(Len(c) - 1) /\ i + 1 \in 1..Len(c)
          BY <2>1, <3>2
        <4>2. c[i] # last
          BY <1>0, <1>1, <1>3, <3>0, <3>2, Apart
        <4>3. m_Next[c[i]] = c[i + 1]
          BY <1>0, <1>1, <4>1 DEF Linked
        <4>4. m_Next'[c[i]] = m_Next[c[i]]
          BY <1>0, <1>6, <3>0, <4>2
        <4>. QED  BY <2>1, <3>0, <4>1, <4>3, <4>4
      <3>. QED  BY <3>1, <3>2
    <2>6. contents'[q] # <<>> /\ m_Tail'[q] = contents'[q][Len(contents'[q])]
      BY <1>2, <2>1
    <2>7. m_Next'[contents'[q][Len(contents'[q])]] = NULL
      BY <2>1, <2>4
    <2>8. \A i \in 1..(Len(contents'[q]) - 1) : m_Next'[contents'[q][i]] = contents'[q][i + 1]
      BY <2>1, <2>5
    <2>. HIDE DEF c, q, work
    <2>. QED  BY <1>8, <2>2, <2>3, <2>6, <2>7, <2>8 DEF Linked
  <1>9. ASSUME NEW u \in Threads \ {t} PROVE Knows(u)'
    <2>1. pc[u] \in {"head", "tail"} => call[u].job \in Holds(u) /\ call[u].job \in Jobs
      BY <1>0, InCall DEF Holds, Carried, CallMatches
    <2>2. pc[u] \in {"head", "tail"} /\ c # <<>> => call[u].job # last
      BY <1>0, <1>1, <1>3, <2>1, Apart
    <2>3. pc[u] \in {"head", "tail"} => m_Next'[call[u].job] = m_Next[call[u].job]
      BY <1>0, <1>6, <2>1, <2>2
    <2>4. pc[u] \notin {"idle", "lock"} => call[u].queue \in Queues \ {q}
      BY <1>0, <1>1, Alone, InCall
    <2>. QED  BY <1>0, <1>2, <2>3, <2>4, KnowsFrame
  <1>10. Knows(t)'
    BY <1>2 DEF Knows
  <1>. QED  BY <1>0, <1>2, <1>7, <1>8, <1>9, <1>10 DEF Shape

(* Advancing m_Head leaves the rest of the list linked. *)
LEMMA PopAdvancesShape ==
  ASSUME IInv2, NEW t \in Threads, PopAdvances(t)
  PROVE  Shape'
  <1>. DEFINE q == call[t].queue
              c == contents[q]
  <1>0. /\ \A r \in Queues : Linked(r) /\ contents[r] \in Seq(Jobs)
        /\ \A u \in Threads : Knows(u) /\ CallMatches(u)
        /\ result \in [Threads -> Jobs \cup Nat \cup {NULL}]
        /\ m_Next \in [Jobs -> Jobs \cup {NULL}]
        /\ IInv1 /\ MutualExclusion /\ OneListAtATime
    BY DEF IInv2, IInv1, Typed, Shape
  <1>1. pc[t] = "advance" /\ q \in Queues /\ c \in Seq(Jobs)
    BY <1>0, InCall DEF PopAdvances
  <1>2. /\ UNCHANGED <<m_Tail, m_Next, call, result>>
        /\ \A r \in Queues \ {q} : /\ m_Head'[r] = m_Head[r] /\ contents'[r] = contents[r]
                                   /\ m_NumEntries'[r] = m_NumEntries[r]
        /\ contents'[q] = Rest(c) /\ m_Head'[q] = m_Next[result[t]]
        /\ m_NumEntries'[q] = m_NumEntries[q] - 1
        /\ \A u \in Threads \ {t} : pc'[u] = pc[u]
        /\ pc'[t] = "trim"
    BY <1>1 DEF PopAdvances, Goto, IInv2, IInv1, Typed
  <1>3. c # <<>> /\ result[t] = c[1]
    BY <1>0, <1>1 DEF Knows
  <1>4. Len(c) \in Nat /\ Len(c) > 0
    BY <1>1, <1>3
  <1>5. /\ Len(Rest(c)) = Len(c) - 1
        /\ \A i \in 1..(Len(c) - 1) : Rest(c)[i] = c[i + 1]
        /\ Rest(c) = <<>> <=> Len(c) = 1
    <2>1. \A i, k \in 1..Len(c) : c[i] = c[k] => i = k
      BY <1>0, <1>1, Apart
    <2>2. Rest(c) \in Seq(Jobs)
      BY <1>1, RestIsSeq
    <2>3. /\ Len(Rest(c)) = Len(c) - 1
          /\ \A i \in 1..(Len(c) - 1) : Rest(c)[i] = c[i + 1]
      <3>. HIDE DEF c
      <3>. QED  BY <1>1, <1>3, <2>1, RestElements
    <2>4. Rest(c) = <<>> <=> Len(Rest(c)) = 0
      BY <2>2
    <2>. HIDE DEF c
    <2>. QED  BY <1>4, <2>3, <2>4
  <1>6. /\ m_NumEntries[q] = Len(c) /\ m_Tail[q] = c[Len(c)] /\ m_Next[c[Len(c)]] = NULL
        /\ \A i \in 1..(Len(c) - 1) : m_Next[c[i]] = c[i + 1]
    BY <1>0, <1>1, <1>3 DEF Linked
  <1>7. ASSUME NEW r \in Queues \ {q} PROVE Linked(r)'
    BY <1>0, <1>1, <1>2, LinkedFrame DEF At
  <1>8. ASSUME NEW r \in Queues, r = q PROVE Linked(r)'
    <2>1. m_NumEntries'[q] = Len(contents'[q])
      BY <1>2, <1>4, <1>5, <1>6
    <2>2. CASE Len(c) = 1
      <3>1. contents'[q] = <<>> /\ m_Head'[q] = NULL
        BY <1>2, <1>3, <1>5, <1>6, <2>2
      <3>2. At(t, "trim", r)'
        BY <1>2, <1>8 DEF At
      <3>. HIDE DEF c, q
      <3>. QED  BY <1>8, <2>1, <3>1, <3>2 DEF Linked
    <2>3. CASE Len(c) > 1
      <3>1. contents'[q] # <<>> /\ m_Head'[q] = contents'[q][1]
        BY <1>2, <1>3, <1>4, <1>5, <1>6, <2>3
      <3>2. contents'[q][Len(contents'[q])] = c[Len(c)]
        BY <1>2, <1>4, <1>5, <2>3
      <3>3. m_Tail'[q] = contents'[q][Len(contents'[q])]
            /\ m_Next'[contents'[q][Len(contents'[q])]] = NULL
        BY <1>2, <1>6, <3>2
      <3>4. \A i \in 1..(Len(contents'[q]) - 1) : m_Next'[contents'[q][i]] = contents'[q][i + 1]
        BY <1>2, <1>4, <1>5, <1>6
      <3>5. /\ m_NumEntries'[r] = Len(contents'[r]) /\ contents'[r] # <<>>
            /\ m_Head'[r] = contents'[r][1] /\ m_Tail'[r] = contents'[r][Len(contents'[r])]
            /\ m_Next'[contents'[r][Len(contents'[r])]] = NULL
            /\ \A i \in 1..(Len(contents'[r]) - 1) : m_Next'[contents'[r][i]] = contents'[r][i + 1]
        BY <1>8, <2>1, <3>1, <3>3, <3>4
      <3>. HIDE DEF c, q
      <3>. QED  BY <3>5 DEF Linked
    <2>4. Len(c) = 1 \/ Len(c) > 1
      <3>1. \A n \in Nat : n > 0 => n = 1 \/ n > 1
        OBVIOUS
      <3>. HIDE DEF c
      <3>. QED  BY <1>4, <3>1
    <2>. QED  BY <2>2, <2>3, <2>4
  <1>9. ASSUME NEW u \in Threads \ {t} PROVE Knows(u)'
    BY <1>0, <1>1, <1>2, Alone, InCall, KnowsFrame
  <1>10. Knows(t)'
    <2>1. contents'[q] = <<>> => m_Tail[q] = result[t]
      BY <1>2, <1>3, <1>5, <1>6
    <2>. QED  BY <1>2, <2>1 DEF Knows
  <1>. QED  BY <1>0, <1>2, <1>7, <1>8, <1>9, <1>10 DEF Shape

(* Resetting m_Tail when the last job is popped restores the empty list. *)
LEMMA PopTrimsTailShape ==
  ASSUME IInv2, NEW t \in Threads, PopTrimsTail(t)
  PROVE  Shape'
  <1>. DEFINE q == call[t].queue
              c == contents[q]
  <1>0. /\ \A r \in Queues : Linked(r) /\ contents[r] \in Seq(Jobs)
        /\ \A u \in Threads : Knows(u) /\ CallMatches(u)
        /\ result \in [Threads -> Jobs \cup Nat \cup {NULL}]
        /\ m_Next \in [Jobs -> Jobs \cup {NULL}]
        /\ IInv1 /\ MutualExclusion /\ OneListAtATime
    BY DEF IInv2, IInv1, Typed, Shape
  <1>1. pc[t] = "trim" /\ call[t].op = "pop" /\ q \in Queues /\ c \in Seq(Jobs) /\ result[t] \in Jobs
    BY <1>0, InCall DEF PopTrimsTail, CallMatches
  <1>2. /\ UNCHANGED <<m_Head, m_NumEntries, m_Next, call, result, contents>>
        /\ \A r \in Queues \ {q} : m_Tail'[r] = m_Tail[r]
        /\ m_Tail'[q] = IF result[t] = m_Tail[q] THEN NULL ELSE m_Tail[q]
        /\ \A u \in Threads \ {t} : pc'[u] = pc[u]
        /\ pc'[t] = "return"
    BY <1>1 DEF PopTrimsTail, Goto, IInv2, IInv1, Typed
  <1>3. c = <<>> => m_Tail'[q] = NULL
    BY <1>0, <1>1, <1>2 DEF Knows
  <1>4. c # <<>> => m_Tail'[q] = m_Tail[q]
    <2>1. result[t] \in Holds(t)
      BY <1>1, QueueAssumption DEF Holds, Carried, QueueAssumption
    <2>2. c # <<>> => m_Tail[q] \in Elements(c)
      <3>1. c # <<>> => Len(c) \in 1..Len(c)
        BY <1>1
      <3>. QED  BY <1>0, <1>1, <3>1 DEF Linked, Elements
    <2>. QED  BY <1>0, <1>1, <1>2, <2>1, <2>2, Apart
  <1>5. ASSUME NEW r \in Queues \ {q} PROVE Linked(r)'
    BY <1>0, <1>1, <1>2, LinkedFrame DEF At
  <1>6. ASSUME NEW r \in Queues, r = q PROVE Linked(r)'
    <2>1. CASE c = <<>>
      <3>1. \A u \in Threads : ~At(u, "tail", q)
        BY <1>0, <1>1, Alone DEF At
      <3>. QED  BY <1>0, <1>1, <1>2, <1>3, <1>6, <2>1, <3>1 DEF Linked
    <2>2. CASE c # <<>>
      BY <1>0, <1>1, <1>2, <1>4, <1>6, <2>2 DEF Linked
    <2>. QED  BY <2>1, <2>2
  <1>7. ASSUME NEW u \in Threads \ {t} PROVE Knows(u)'
    BY <1>0, <1>1, <1>2, Alone, InCall, KnowsFrame
  <1>8. Knows(t)'
    BY <1>2 DEF Knows
  <1>. QED  BY <1>0, <1>2, <1>5, <1>6, <1>7, <1>8 DEF Shape

(* Resetting head, tail and count makes the list empty. *)
LEMMA ClearShape ==
  ASSUME IInv2, NEW t \in Threads, Clear(t)
  PROVE  Shape'
  <1>. DEFINE q == call[t].queue
  <1>0. /\ \A r \in Queues : Linked(r) /\ contents[r] \in Seq(Jobs)
        /\ \A u \in Threads : Knows(u) /\ CallMatches(u)
        /\ result \in [Threads -> Jobs \cup Nat \cup {NULL}]
        /\ m_Next \in [Jobs -> Jobs \cup {NULL}]
        /\ IInv1 /\ MutualExclusion /\ OneListAtATime
    BY DEF IInv2, IInv1, Typed, Shape
  <1>1. pc[t] = "clear" /\ q \in Queues
    BY <1>0, InCall DEF Clear
  <1>2. /\ UNCHANGED <<m_Next, call>>
        /\ \A r \in Queues \ {q} : /\ m_Head'[r] = m_Head[r] /\ m_Tail'[r] = m_Tail[r]
                                   /\ m_NumEntries'[r] = m_NumEntries[r]
                                   /\ contents'[r] = contents[r]
        /\ m_Head'[q] = NULL /\ m_Tail'[q] = NULL /\ m_NumEntries'[q] = 0 /\ contents'[q] = <<>>
        /\ \A u \in Threads \ {t} : pc'[u] = pc[u]
        /\ result' = [result EXCEPT ![t] = m_NumEntries[q]]
        /\ pc'[t] = "return"
    BY <1>1 DEF Clear, Goto, IInv2, IInv1, Typed
  <1>3. m_NumEntries[q] \in Nat
    BY <1>0, <1>1 DEF Linked
  <1>4. ASSUME NEW r \in Queues \ {q} PROVE Linked(r)'
    BY <1>0, <1>1, <1>2, LinkedFrame DEF At
  <1>5. ASSUME NEW r \in Queues, r = q PROVE Linked(r)'
    BY <1>2, <1>5 DEF Linked
  <1>6. ASSUME NEW u \in Threads \ {t} PROVE Knows(u)'
    BY <1>0, <1>1, <1>2, Alone, InCall, KnowsFrame
  <1>7. Knows(t)'
    BY <1>2 DEF Knows
  <1>8. result' \in [Threads -> Jobs \cup Nat \cup {NULL}]
    BY <1>0, <1>2, <1>3
  <1>. QED  BY <1>4, <1>5, <1>6, <1>7, <1>8 DEF Shape

(* Every step keeps the links of every list as Shape says they are. *)
THEOREM ShapeStep == ASSUME IInv2, [Next]_vars PROVE Shape'
  <1>1. CASE UNCHANGED vars
    BY <1>1 DEF vars, IInv2, Shape, Linked, Knows, At
  <1>. QED  BY <1>1, ReadingShape, PushClearsLinkShape, PushHeadShape, PushTailShape,
               PopAdvancesShape, PopTrimsTailShape, ClearShape DEF Next, Step
-----------------------------------------------------------------------------
(***************************************************************************)
(* The inductive invariant of the queues.                                  *)
(***************************************************************************)
THEOREM Spec2 == Spec => []IInv2
  <1>1. Init => IInv2
    <2>. SUFFICES ASSUME Init PROVE IInv2
      OBVIOUS
    <2>1. OneListAtATime
      BY DEF Init, OneListAtATime, Carried, Elements
    <2>2. Shape
      BY DEF Init, Shape, Linked, Knows, At
    <2>3. MutualExclusion
      BY DEF Init, MutualExclusion, Inside
    <2>. QED  BY Init1, <2>1, <2>2, <2>3 DEF IInv2
  <1>2. IInv2 /\ [Next]_vars => IInv2'
    <2>1. IInv1 /\ [Next]_vars => IInv1'
      BY Begin1, Step1 DEF Next, vars, IInv1, Typed, CallMatches
    <2>. QED  BY <2>1, MutexStep, HoldsStep, ShapeStep DEF IInv2
  <1>. QED  BY <1>1, <1>2, PTL DEF Spec

(***************************************************************************)
(* Every variable of the queues has its type; no count is ever negative,   *)
(* so the uint32_t m_NumEntries never wraps below 0.                       *)
(***************************************************************************)
THEOREM TypeCorrect == Spec => []TypeOK
  <1>1. IInv2 => TypeOK
    <2>. SUFFICES ASSUME IInv2 PROVE TypeOK
      OBVIOUS
    <2>1. \A q \in Queues : m_NumEntries[q] \in Nat
      BY DEF IInv2, IInv1, Typed, Shape, Linked
    <2>. QED  BY <2>1 DEF IInv2, IInv1, Typed, Shape, TypeOK
  <1>. QED  BY <1>1, Spec2, PTL

(***************************************************************************)
(* A job is on one list at a time, and on no list while a thread holds it: *)
(* no two pops return the same job without a push of it in between.        *)
(***************************************************************************)
THEOREM OneListAtATimeHolds == Spec => []OneListAtATime
  <1>1. IInv2 => OneListAtATime
    BY DEF IInv2
  <1>. QED  BY <1>1, Spec2, PTL

(***************************************************************************)
(* The list of a queue that no thread is inside is exactly its contents.   *)
(***************************************************************************)
THEOREM ListsAreWellLinkedHolds == Spec => []ListsAreWellLinked
  <1>1. IInv2 => ListsAreWellLinked
    <2>. SUFFICES ASSUME IInv2, NEW q \in Queues, \A t \in Threads : ~Inside(t, q)
                  PROVE  WellLinked(q)
      BY DEF ListsAreWellLinked
    <2>1. Linked(q) /\ contents[q] \in Seq(Jobs)
      BY DEF IInv2, IInv1, Typed, Shape
    <2>2. \A t \in Threads : ~At(t, "tail", q) /\ ~At(t, "trim", q)
      BY DEF Inside, At
    <2>. QED  BY <2>1, <2>2 DEF Linked, WellLinked
  <1>. QED  BY <1>1, Spec2, PTL
=============================================================================
