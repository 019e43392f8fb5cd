------------------------------ MODULE WorkPool ------------------------------
(***************************************************************************)
(* What the thread pool promises to its callers: the public operations of  *)
(* src/src/job/job_system.h and job.h, without queues, jobs and memory.    *)
(* Work that is submitted is started once, by one of NumWorkers workers;   *)
(* work that is chained is started after the work that it continues;       *)
(* nothing but the end of the pool drops work.  Module JobSystem           *)
(* implements this.                                                        *)
(***************************************************************************)
EXTENDS Naturals, FiniteSets

CONSTANTS Works, NumWorkers, NULL

VARIABLES
  phase,     \* of each piece of work
  after,     \* the work that it continues, or NULL
  closed,    \* shutdown() has been called
  complete   \* wait_for_shutdown() returns

vars == <<phase, after, closed, complete>>

Init ==
  /\ phase = [k \in Works |-> "unused"]
  /\ after = [k \in Works |-> NULL]
  /\ closed = FALSE /\ complete = FALSE

Moves(k, from, to) == phase[k] = from /\ phase' = [phase EXCEPT ![k] = to]

Running == {k \in Works : phase[k] = "running"}

(* schedule *)
Submit(k) == Moves(k, "unused", "queued") /\ UNCHANGED <<after, closed, complete>>

(* then: the caller continues work that is not over, once. *)
Chain(k, before) ==
  /\ phase[before] \in {"queued", "waiting", "running"}
  /\ \A other \in Works : after[other] # before
  /\ Moves(k, "unused", "waiting")
  /\ after' = [after EXCEPT ![k] = before]
  /\ UNCHANGED <<closed, complete>>

(* A worker that is free starts work whose turn has come. *)
Start(k) ==
  /\ ~complete
  /\ Cardinality(Running) < NumWorkers
  /\ \/ Moves(k, "queued", "running")
     \/ after[k] # NULL /\ phase[after[k]] = "done" /\ Moves(k, "waiting", "running")
  /\ UNCHANGED <<after, closed, complete>>

Finish(k) == Moves(k, "running", "done") /\ UNCHANGED <<after, closed, complete>>

(* shutdown, and what it does to work that has not been started. *)
Close == closed' = TRUE /\ UNCHANGED <<phase, after, complete>>

Drop(k) == closed /\ Moves(k, "queued", "dropped") /\ UNCHANGED <<after, closed, complete>>

Complete ==
  /\ closed /\ Running = {}
  /\ complete' = TRUE
  /\ UNCHANGED <<phase, after, closed>>

Next ==
  \/ \E k \in Works : \/ Submit(k) \/ Start(k) \/ Finish(k) \/ Drop(k)
                      \/ \E before \in Works : Chain(k, before)
  \/ Close \/ Complete

Spec == Init /\ [][Next]_vars
=============================================================================
