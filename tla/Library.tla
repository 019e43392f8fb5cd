------------------------------- MODULE Library -------------------------------
(***************************************************************************)
(* The parts of the library that do not depend on each other, in one       *)
(* specification: each behaviour explores one part, chosen by `part`, and  *)
(* leaves the others in their initial states.  The names without a prefix  *)
(* are those of Captures; the other parts are instances.                   *)
(***************************************************************************)
EXTENDS Captures, Sequences

CONSTANTS
  NULL,
  Threads, Tasks, TaskQueues,
  Generators, Frames, Ranges, UpTos, MaxI,
  CoJobObjects, CoFrames,
  Functions, Callables, TypeOf, MaxCalls

(* Elements of an unsigned type, a callable has a type, and NULL is none of the others. *)
ASSUME LibraryAssumption ==
  /\ MaxI \in Nat \ {0}
  /\ Ranges \subseteq (0..MaxI) \X (0..MaxI) \X (0..MaxI)
  /\ UpTos \subseteq 0..MaxI
  /\ NULL \notin Frames \cup CoFrames \cup Callables
  /\ \A c \in Callables : TypeOf[c] # NULL

VARIABLES
  part,
  m_Mutex, m_Head, m_Tail, m_NumEntries, m_NextLink, pc, call, result, hand, contents,
  frame, alive, m_Coroutine, iter,
  coframe, m_Handle, got, copied,
  scope, m_Invoker, m_Controller, m_StoredFn, callable, running

tasking == <<m_Mutex, m_Head, m_Tail, m_NumEntries, m_NextLink, pc, call, result, hand, contents>>
generators == <<frame, alive, m_Coroutine, iter>>
cojobs == <<coframe, m_Handle, got, copied>>
functions == <<scope, m_Invoker, m_Controller, m_StoredFn, callable, running>>

libraryVars == <<part, tasking, vars, generators, cojobs, functions>>

Tasking == INSTANCE TaskQueue
Gen == INSTANCE Generators
Co == INSTANCE CoJobs
Fn == INSTANCE FunctionStorage

LibraryInit ==
  /\ part \in {"tasks", "captures", "generators", "cojobs", "functions"}
  /\ Tasking!Init /\ Init /\ Gen!Init /\ Co!Init /\ Fn!Init
  /\ part # "tasks" => hand[CHOOSE t \in Threads : TRUE] = Tasks
  /\ part # "captures" => class = "CaptureSlots"

InTasks ==
  /\ part = "tasks" /\ Tasking!Next
  /\ UNCHANGED <<part, vars, generators, cojobs, functions>>
InCaptures ==
  /\ part = "captures" /\ Next
  /\ UNCHANGED <<part, tasking, generators, cojobs, functions>>
InGenerators ==
  /\ part = "generators" /\ Gen!Next
  /\ UNCHANGED <<part, tasking, vars, cojobs, functions>>
InCoJobs ==
  /\ part = "cojobs" /\ Co!Next
  /\ UNCHANGED <<part, tasking, vars, generators, functions>>
InFunctions ==
  /\ part = "functions" /\ Fn!Next
  /\ UNCHANGED <<part, tasking, vars, generators, cojobs>>

LibraryNext == InTasks \/ InCaptures \/ InGenerators \/ InCoJobs \/ InFunctions

(* The thread that loops over a generator goes on with its loop. *)
LoopGoesOn ==
  /\ part = "generators" /\ Gen!LoopStep
  /\ UNCHANGED <<part, tasking, vars, cojobs, functions>>

LibrarySpec == LibraryInit /\ [][LibraryNext]_libraryVars /\ WF_libraryVars(LoopGoesOn)

(* A coroutine frame has one Generator, and is destroyed once (Generators). *)
FrameHasOneOwner == Gen!FrameHasOneOwner

(* A range yields its elements once each, in order (Generators). *)
YieldsTheSequence == Gen!YieldsTheSequence

(* A loop over a range ends (Generators). *)
LoopEnds == Gen!LoopEnds

(* A CoJob that is not copied keeps its frame, and get its outcome (CoJobs). *)
KeepsItsCoroutine == Co!KeepsItsCoroutine

(* A callable lives in one Function, and is destroyed once (FunctionStorage). *)
CallableHasOneFunction == Fn!CallableHasOneFunction

(* A TaskQueue is a FIFO whose operations are atomic (TaskQueue). *)
TaskQueueImplementsFifo == Tasking!ImplementsFifo
=============================================================================
