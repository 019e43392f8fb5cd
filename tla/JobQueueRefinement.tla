------------------------- MODULE JobQueueRefinement -------------------------
(***************************************************************************)
(* Proof that the queues of module JobQueue implement the FIFOs of module  *)
(* JobFifo: one step of an operation is the instant at which it takes      *)
(* effect, and the abstract state does not change in the others.           *)
(***************************************************************************)
EXTENDS JobQueueProofs

done     == [t \in Threads |-> Done(t)]
response == [t \in Threads |-> IF Done(t) THEN result[t] ELSE NULL]

(* The calls of the queues and those of the FIFOs are the same records. *)
LEMMA SameCalls ==
  /\ Fifo!Queues = Queues
  /\ Fifo!CallRecord = CallRecord
  BY DEF Queues, Fifo!Queues, CallRecord, Fifo!CallRecord

(* The empty lists are empty FIFOs that nobody calls. *)
LEMMA InitRefines == Init => Fifo!Init
  <1>. SUFFICES ASSUME Init PROVE Fifo!Init
    OBVIOUS
  <1>1. ASSUME NEW t \in Threads PROVE Done(t) = FALSE
    <2>1. pc[t] = "idle"
      BY DEF Init
    <2>. QED  BY <2>1 DEF Done
  <1>2. done = [t \in Threads |-> FALSE]
    BY <1>1, Zenon DEF done
  <1>3. response = [t \in Threads |-> NULL]
    BY <1>1 DEF response
  <1>4. /\ contents = [q \in Fifo!Queues |-> <<>>]
        /\ call = [t \in Threads |-> NULL]
        /\ \E holder \in [Jobs -> Threads] :
             hand = [t \in Threads |-> {j \in Jobs : holder[j] = t}]
    BY SameCalls DEF Init
  <1>. QED  BY <1>2, <1>3, <1>4 DEF Fifo!Init, done, response

(* The abstract state changes only where the program counter tells. *)
LEMMA Stutters ==
  ASSUME UNCHANGED <<contents, hand, call>>,
         \A u \in Threads : Done(u)' = Done(u),
         \A u \in Threads : Done(u) => result'[u] = result[u]
  PROVE  UNCHANGED Fifo!vars
  <1>1. done' = done
    BY DEF done
  <1>2. response' = response
    BY DEF response
  <1>. QED  BY <1>1, <1>2 DEF Fifo!vars, done, response

(* The start of an operation is the call of the FIFO. *)
LEMMA BeginRefines ==
  ASSUME IInv2, NEW t \in Threads, NEW c \in CallRecord, CallShared(t, c) \/ CallBin(t, c)
  PROVE  Fifo!Call(t, c)
  <1>1. /\ pc[t] = "idle" /\ call[t] = NULL
        /\ pc' = [pc EXCEPT ![t] = "lock"] \/ pc' = [pc EXCEPT ![t] = c.op]
        /\ call' = [call EXCEPT ![t] = c]
        /\ hand' = [hand EXCEPT ![t] = @ \ {c.job}]
        /\ result' = result /\ contents' = contents
        /\ c.op = "push" => c.job \in hand[t]
        /\ pc \in [Threads -> Labels]
    BY DEF CallShared, CallBin, Begin, Goto, IInv2, IInv1, Typed, CallMatches
  <1>2. c.queue \in Bins => Owner[c.queue] = t
    BY QueueAssumption DEF CallShared, CallBin, QueueAssumption
  <1>3. \A u \in Threads : Done(u)' = Done(u)
    BY <1>1, CallIsTyped DEF Done
  <1>4. done' = done /\ response' = response
    BY <1>1, <1>3 DEF done, response
  <1>. QED  BY <1>1, <1>2, <1>4 DEF Fifo!Call, Fifo!MayCall, done, response

(* The steps before and after the one that takes effect are invisible. *)
LEMMA SilentStepRefines ==
  ASSUME IInv2, NEW t \in Threads,
         \/ Lock(t) \/ PushClearsLink(t) \/ PushHead(t) \/ PopTrimsTail(t)
         \/ PopReadsHead(t) /\ m_Head[call[t].queue] # NULL
  PROVE  UNCHANGED Fifo!vars
  <1>1. UNCHANGED <<contents, hand, call>>
    BY DEF Lock, PushClearsLink, PushHead, PopTrimsTail, PopReadsHead
  <1>2. \A u \in Threads : Done(u)' = Done(u)
    <2>1. pc[t] # "idle" => call[t].op \in {"push", "pop", "clear", "size"}
      BY InCall DEF IInv2
    <2>. QED  BY <2>1 DEF Lock, PushClearsLink, PushHead, PopTrimsTail, PopReadsHead, Done, Goto,
                  IInv2, IInv1, Typed
  <1>3. \A u \in Threads : Done(u) => result'[u] = result[u]
    BY DEF Lock, PushClearsLink, PushHead, PopTrimsTail, PopReadsHead, Done, IInv2, IInv1, Typed
  <1>. QED  BY <1>1, <1>2, <1>3, Stutters

(* Where an operation takes effect, and what it will return. *)
LEMMA EffectState ==
  ASSUME IInv2, NEW t \in Threads, pc[t] \notin {"idle", "lock"}, ~Done(t), Done(t)',
         \A u \in Threads \ {t} : pc'[u] = pc[u] /\ result'[u] = result[u]
  PROVE  /\ ~done[t]
         /\ done' = [done EXCEPT ![t] = TRUE]
         /\ response' = [response EXCEPT ![t] = result'[t]]
         /\ result'[t] = NULL => response' = response
  <1>1. \A u \in Threads \ {t} : Done(u)' = Done(u)
    BY DEF Done
  <1>2. ~done[t] /\ response[t] = NULL
    BY DEF done, response
  <1>3. done' = [done EXCEPT ![t] = TRUE]
    BY <1>1, Zenon DEF done
  <1>4. response' = [response EXCEPT ![t] = result'[t]]
    BY <1>1 DEF response
  <1>5. result'[t] = NULL => response' = response
    BY <1>2, <1>4 DEF response
  <1>. QED  BY <1>2, <1>3, <1>4, <1>5

(* A push takes effect when it links its job behind the tail. *)
LEMMA PushTailRefines ==
  ASSUME IInv2, NEW t \in Threads, PushTail(t)
  PROVE  Fifo!TakesEffect(t)
  <1>1. /\ pc[t] = "tail" /\ call[t].op = "push" /\ call[t] # NULL
        /\ pc' = [pc EXCEPT ![t] = "return"] /\ pc \in [Threads -> Labels]
        /\ result' = result /\ result[t] = NULL
        /\ hand' = hand /\ call' = call
        /\ contents' = [contents EXCEPT ![call[t].queue] = Append(@, call[t].job)]
    BY DEF PushTail, Goto, IInv2, IInv1, Typed, CallMatches
  <1>2. pc[t] \notin {"idle", "lock"} /\ ~Done(t) /\ Done(t)'
    BY <1>1 DEF Done
  <1>3. ~done[t] /\ done' = [done EXCEPT ![t] = TRUE] /\ response' = response
    BY <1>1, <1>2, EffectState
  <1>. QED  BY <1>1, <1>3 DEF Fifo!TakesEffect, done, response

(* A pop that reads a null m_Head takes effect on an empty FIFO. *)
LEMMA PopFindsNothingRefines ==
  ASSUME IInv2, NEW t \in Threads, PopReadsHead(t), m_Head[call[t].queue] = NULL
  PROVE  Fifo!TakesEffect(t)
  <1>1. /\ pc[t] = "pop" /\ call[t].op = "pop" /\ call[t] # NULL
        /\ pc' = [pc EXCEPT ![t] = "return"] /\ pc \in [Threads -> Labels]
        /\ result' = [result EXCEPT ![t] = NULL] /\ result'[t] = NULL
        /\ hand' = hand /\ call' = call /\ contents' = contents
    BY DEF PopReadsHead, Goto, IInv2, IInv1, Typed, CallMatches
  <1>2. pc[t] \notin {"idle", "lock"} /\ ~Done(t) /\ Done(t)'
    BY <1>1 DEF Done
  <1>3. ~done[t] /\ done' = [done EXCEPT ![t] = TRUE] /\ response' = response
    BY <1>1, <1>2, EffectState
  <1>4. contents[call[t].queue] = <<>>
    <2>1. call[t].queue \in Queues /\ Linked(call[t].queue) /\ contents[call[t].queue] \in Seq(Jobs)
      BY <1>1, InCall DEF IInv2, IInv1, Typed, Shape
    <2>. QED  BY <1>2, <2>1, EmptyQueue, QueueAssumption DEF QueueAssumption
  <1>. QED  BY <1>1, <1>3, <1>4 DEF Fifo!TakesEffect, done, response

(* A pop that advances m_Head takes the head of the FIFO. *)
LEMMA PopAdvancesRefines ==
  ASSUME IInv2, NEW t \in Threads, PopAdvances(t)
  PROVE  Fifo!TakesEffect(t)
  <1>1. /\ pc[t] = "advance" /\ call[t].op = "pop" /\ call[t] # NULL
        /\ pc' = [pc EXCEPT ![t] = "trim"] /\ pc \in [Threads -> Labels]
        /\ result' = result
        /\ hand' = hand /\ call' = call
        /\ contents' = [contents EXCEPT ![call[t].queue] = Rest(@)]
    BY DEF PopAdvances, Goto, IInv2, IInv1, Typed, CallMatches
  <1>2. pc[t] \notin {"idle", "lock"} /\ ~Done(t) /\ Done(t)'
    BY <1>1 DEF Done
  <1>3. ~done[t] /\ done' = [done EXCEPT ![t] = TRUE]
          /\ response' = [response EXCEPT ![t] = result'[t]]
    BY <1>1, <1>2, EffectState
  <1>4. contents[call[t].queue] # <<>> /\ result[t] = Head(contents[call[t].queue])
    <2>1. contents[call[t].queue] # <<>> /\ result[t] = contents[call[t].queue][1]
      BY <1>1 DEF IInv2, Shape, Knows
    <2>2. contents[call[t].queue] \in Seq(Jobs)
      BY <1>1, InCall DEF IInv2, IInv1, Typed
    <2>. QED  BY <2>1, <2>2
  <1>5. contents' = [contents EXCEPT ![call[t].queue] = Tail(@)]
    BY <1>1, <1>4 DEF Rest
  <1>. QED  BY <1>1, <1>3, <1>4, <1>5 DEF Fifo!TakesEffect, done, response

(* Clear and size take effect when they read m_NumEntries. *)
LEMMA CountingRefines ==
  ASSUME IInv2, NEW t \in Threads, Clear(t) \/ Size(t)
  PROVE  Fifo!TakesEffect(t)
  <1>1. /\ pc[t] \in {"clear", "size"} /\ call[t].op = pc[t] /\ call[t] # NULL
        /\ pc' = [pc EXCEPT ![t] = "return"] /\ pc \in [Threads -> Labels]
        /\ result' = [result EXCEPT ![t] = m_NumEntries[call[t].queue]]
        /\ result'[t] = m_NumEntries[call[t].queue]
        /\ \A u \in Threads \ {t} : result'[u] = result[u]
        /\ hand' = hand /\ call' = call
        /\ contents' = IF pc[t] = "clear" THEN [contents EXCEPT ![call[t].queue] = <<>>]
                                          ELSE contents
    BY DEF Clear, Size, Goto, IInv2, IInv1, Typed, CallMatches
  <1>2. pc[t] \notin {"idle", "lock"} /\ ~Done(t) /\ Done(t)'
    BY <1>1 DEF Done
  <1>3. ~done[t] /\ done' = [done EXCEPT ![t] = TRUE]
          /\ response' = [response EXCEPT ![t] = result'[t]]
    BY <1>1, <1>2, EffectState
  <1>4. m_NumEntries[call[t].queue] = Len(contents[call[t].queue])
    BY <1>1, InCall DEF IInv2, Shape, Linked
  <1>. QED  BY <1>1, <1>3, <1>4 DEF Fifo!TakesEffect, done, response

(* The release of the lock and the return are the return of the FIFO. *)
LEMMA ReturnRefines ==
  ASSUME IInv2, NEW t \in Threads, Return(t)
  PROVE  Fifo!Return(t)
  <1>1. /\ pc[t] = "return" /\ pc \in [Threads -> Labels]
        /\ result \in [Threads -> Jobs \cup Int \cup {NULL}]
        /\ pc' = [pc EXCEPT ![t] = "idle"]
        /\ call' = [call EXCEPT ![t] = NULL]
        /\ result' = [result EXCEPT ![t] = NULL]
        /\ contents' = contents
        /\ hand' = IF call[t].op = "pop" /\ result[t] # NULL
                     THEN [hand EXCEPT ![t] = @ \cup {result[t]}]
                     ELSE hand
    BY DEF Return, Goto, IInv2, IInv1, Typed
  <1>2. Done(t) /\ ~Done(t)' /\ \A u \in Threads \ {t} : Done(u)' = Done(u)
    BY <1>1 DEF Done
  <1>3. done[t] /\ response[t] = result[t]
    BY <1>2 DEF done, response
  <1>4. done' = [done EXCEPT ![t] = FALSE]
    <2>1. Done(t)' = FALSE
      BY <1>1 DEF Done
    <2>2. \A u \in Threads \ {t} : done'[u] = done[u]
      BY <1>2 DEF done
    <2>3. done'[t] = FALSE
      BY <2>1, Zenon DEF done
    <2>4. /\ done' = [u \in Threads |-> done'[u]]
          /\ done = [u \in Threads |-> done[u]]
      BY DEF done
    <2>. QED  BY <2>2, <2>3, <2>4
  <1>5. response' = [response EXCEPT ![t] = NULL]
    BY <1>1, <1>2 DEF response
  <1>. QED  BY <1>1, <1>3, <1>4, <1>5 DEF Fifo!Return, done, response

(***************************************************************************)
(* Linearizability: whatever the interleaving of the spinning, locked and  *)
(* thread_local operations, the callers see atomic FIFO queues.            *)
(***************************************************************************)
THEOREM ImplementsFifoHolds == Spec => ImplementsFifo
  <1>1. ASSUME IInv2, [Next]_vars PROVE [Fifo!Next]_(Fifo!vars)
    <2>1. CASE UNCHANGED vars
      BY <2>1, Stutters DEF vars, Done
    <2>2. ASSUME NEW t \in Threads, NEW c \in CallRecord, CallShared(t, c) \/ CallBin(t, c)
          PROVE  Fifo!Next
      <3>1. Fifo!Call(t, c)
        BY <1>1, <2>2, BeginRefines
      <3>2. c \in Fifo!CallRecord
        BY SameCalls
      <3>. QED  BY <3>1, <3>2 DEF Fifo!Next
    <2>3. ASSUME NEW t \in Threads, Step(t)
          PROVE  Fifo!Next \/ UNCHANGED Fifo!vars
      BY <1>1, <2>3, SilentStepRefines, PushTailRefines, PopFindsNothingRefines,
         PopAdvancesRefines, CountingRefines, ReturnRefines DEF Step, Fifo!Next
    <2>. QED  BY <1>1, <2>1, <2>2, <2>3 DEF Next
  <1>. QED  BY <1>1, InitRefines, Spec2, PTL DEF Spec, ImplementsFifo, Fifo!Spec
=============================================================================
