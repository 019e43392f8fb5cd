------------------------------- MODULE CoJobs -------------------------------
(***************************************************************************)
(* CoJob and CoJobPromise of src/src/job/co_job.{h,inl} and                *)
(* co_job_promise.{h,inl}, for T and for void: a coroutine that starts     *)
(* suspended and runs when get is called.  Its promise disables co_await   *)
(* and has no yield_value, so it runs to its end in one go, and leaves a   *)
(* value (or nothing, for void) or an exception in the promise.            *)
(*                                                                         *)
(* The class declares a destructor and no copy operations: copies of a     *)
(* CoJob share its frame.  `copied` records the frames that they share.    *)
(***************************************************************************)
EXTENDS FiniteSets

CONSTANTS
  CoJobObjects,
  CoFrames,     \* the coroutine frames; each is allocated once
  NULL

VARIABLES
  coframe,   \* the state of each frame and the m_Payload of its promise
  m_Handle,  \* the frame of each CoJob within its lifetime, or NULL
  got,       \* what the last get of each frame came to, or NULL
  copied     \* history

vars == <<coframe, m_Handle, got, copied>>

Init ==
  /\ coframe = [f \in CoFrames |-> [state |-> "free", m_Payload |-> "empty"]]
  /\ m_Handle = [o \in CoJobObjects |-> NULL]
  /\ got = [f \in CoFrames |-> NULL]
  /\ copied = {}

(* A coroutine is called: get_return_object, initial_suspend. *)
CallCoroutine(o) ==
  /\ m_Handle[o] = NULL
  /\ \E f \in CoFrames :
       /\ coframe[f].state = "free"
       /\ coframe' = [coframe EXCEPT ![f].state = "start"]
       /\ m_Handle' = [m_Handle EXCEPT ![o] = f]
  /\ UNCHANGED <<got, copied>>

(* Resumption until done: return_value, return_void or unhandled_exception. *)
RunLosesExceptions(f) ==
  IF coframe[f].state = "start"
    THEN \E p \in {"value", "exception"} :
           coframe' = [coframe EXCEPT ![f] = [state |-> "final", m_Payload |->
                         IF p = "value" THEN p ELSE "empty"]]
    ELSE UNCHANGED coframe

(* A frame that has been destroyed is used: "broken". *)
RunToEnd(f) ==
  IF coframe[f].state = "start"
    THEN \E p \in {"value", "exception"} :
           coframe' = [coframe EXCEPT ![f] = [state |-> "final", m_Payload |-> p]]
    ELSE coframe' = [coframe EXCEPT ![f].state = IF @ = "final" THEN @ ELSE "broken"]

(* get, await_resume: the value, the exception, or "Job promise is in empty state". *)
Get(o) ==
  /\ m_Handle[o] # NULL
  /\ RunToEnd(m_Handle[o])
  /\ got' = [got EXCEPT ![m_Handle[o]] = coframe'[m_Handle[o]].m_Payload]
  /\ UNCHANGED <<m_Handle, copied>>

(* The implicit copy constructor. *)
Copy(o, p) ==
  /\ m_Handle[o] = NULL /\ m_Handle[p] # NULL
  /\ m_Handle' = [m_Handle EXCEPT ![o] = m_Handle[p]]
  /\ copied' = copied \cup {m_Handle[p]}
  /\ UNCHANGED <<coframe, got>>

(* ~CoJob destroys the frame; the second destruction is undefined: "broken". *)
LeaveFrame(o) ==
  /\ m_Handle[o] # NULL
  /\ m_Handle' = [m_Handle EXCEPT ![o] = NULL]
  /\ UNCHANGED <<coframe, got, copied>>

Destroy(o) ==
  /\ m_Handle[o] # NULL
  /\ coframe' = [coframe EXCEPT ![m_Handle[o]].state =
                   IF @ \in {"start", "final"} THEN "destroyed" ELSE "broken"]
  /\ m_Handle' = [m_Handle EXCEPT ![o] = NULL]
  /\ UNCHANGED <<got, copied>>

Next ==
  \E o \in CoJobObjects :
    \/ CallCoroutine(o) \/ Get(o) \/ Destroy(o)
    \/ \E p \in CoJobObjects : Copy(o, p)

Spec == Init /\ [][Next]_vars
-----------------------------------------------------------------------------
(***************************************************************************)
(* A CoJob of which no copy was made keeps its frame as long as it lives   *)
(* and destroys it once (copies destroy it again: class Generator deletes  *)
(* its copy operations, CoJob does not).  The body runs once: every get    *)
(* has the outcome of the first one, and never finds the promise empty.    *)
(***************************************************************************)
KeepsItsCoroutine ==
  /\ \A f \in CoFrames \ copied :
       /\ coframe[f].state # "broken"
       /\ Cardinality({o \in CoJobObjects : m_Handle[o] = f}) =
            IF coframe[f].state \in {"start", "final"} THEN 1 ELSE 0
  /\ \A f \in CoFrames :
       got[f] # NULL /\ coframe[f].state # "broken" =>
         got[f] # "empty" /\ coframe[f].m_Payload = got[f]
=============================================================================
