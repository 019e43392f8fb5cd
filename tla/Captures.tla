------------------------------ MODULE Captures ------------------------------
(***************************************************************************)
(* CaptureSlots and CaptureLambda of src/src/main.cpp: a callable whose    *)
(* arguments are set one by one, by set_arg, and which call invokes when   *)
(* none is missing.  Both keep the number of missing arguments in an       *)
(* atomic: here a thread of its own sets each argument, and one more       *)
(* thread calls.  `class` says which of the two classes the object has.    *)
(*                                                                         *)
(* The assignment of an argument is two steps; in between it is "partial". *)
(* set_arg of a CaptureSlots counts every call, that of a CaptureLambda    *)
(* the first for each argument.                                            *)
(***************************************************************************)
EXTENDS Integers, FiniteSets

CONSTANTS
  Args,   \* the indices of the arguments
  SizeT   \* 2^64, the range of size_t

ASSUME CapturesAssumption ==
  IsFiniteSet(Args) /\ SizeT \in Nat /\ Cardinality(Args) < SizeT

VARIABLES
  class,
  m_Args,          \* each optional: "none", "partial" or "set"
  m_RemainingArgs,
  setter,          \* the next step of the set_arg of each argument
  unread,          \* the arguments the callable has still to read, while call invokes it
  again            \* history: an argument of a CaptureSlots was set again

vars == <<class, m_Args, m_RemainingArgs, setter, unread, again>>

Init ==
  /\ class \in {"CaptureSlots", "CaptureLambda"}
  /\ m_Args = [a \in Args |-> "none"]
  /\ m_RemainingArgs = Cardinality(Args)
  /\ setter = [a \in Args |-> "idle"]
  /\ unread = {}
  /\ again = FALSE

Goto(a, label) == setter' = [setter EXCEPT ![a] = label]

(* std::get<Idx>(m_Args) = value *)
BeginAssign(a) == m_Args' = [m_Args EXCEPT ![a] = "partial"] /\ Goto(a, "assigning")
EndAssign(a) == m_Args' = [m_Args EXCEPT ![a] = "set"]

(* --m_RemainingArgs *)
OneMissingLess == m_RemainingArgs' = (m_RemainingArgs - 1) % SizeT

SlotsCountsFirst(a) ==
  /\ class = "CaptureSlots"
  /\ \/ /\ setter[a] = "idle" /\ again' = (again \/ m_Args[a] # "none")
        /\ OneMissingLess /\ Goto(a, "assign") /\ UNCHANGED m_Args
     \/ /\ setter[a] = "assign" /\ BeginAssign(a) /\ UNCHANGED <<m_RemainingArgs, again>>
     \/ /\ setter[a] = "assigning" /\ EndAssign(a) /\ Goto(a, "idle")
        /\ UNCHANGED <<m_RemainingArgs, again>>
  /\ UNCHANGED <<class, unread>>

(* CaptureSlots::set_arg: the assignment, then the count. *)
SlotsSetArg(a) ==
  /\ class = "CaptureSlots"
  /\ \/ /\ setter[a] = "idle" /\ again' = (again \/ m_Args[a] # "none")
        /\ BeginAssign(a) /\ UNCHANGED m_RemainingArgs
     \/ /\ setter[a] = "assigning" /\ EndAssign(a) /\ Goto(a, "count")
        /\ UNCHANGED <<m_RemainingArgs, again>>
     \/ /\ setter[a] = "count" /\ OneMissingLess /\ Goto(a, "idle")
        /\ UNCHANGED <<m_Args, again>>
  /\ UNCHANGED <<class, unread>>

CountsAlways(a) == TRUE

HasNoValue(a) == m_Args[a] = "none"

(* CaptureLambda::set_arg: the count if there was no value, then the assignment. *)
LambdaSetArg(a) ==
  /\ class = "CaptureLambda"
  /\ \/ /\ setter[a] = "idle"
        /\ Goto(a, IF HasNoValue(a) THEN "count" ELSE "assign")
        /\ UNCHANGED <<m_Args, m_RemainingArgs>>
     \/ /\ setter[a] = "count" /\ OneMissingLess /\ Goto(a, "assign") /\ UNCHANGED m_Args
     \/ /\ setter[a] = "assign" /\ BeginAssign(a) /\ UNCHANGED m_RemainingArgs
     \/ /\ setter[a] = "assigning" /\ EndAssign(a) /\ Goto(a, "idle")
        /\ UNCHANGED m_RemainingArgs
  /\ UNCHANGED <<class, unread, again>>

(* call: if no argument is missing, the callable gets them all. *)
Call ==
  /\ unread = {}
  /\ m_RemainingArgs = 0
  /\ unread' = Args
  /\ UNCHANGED <<class, m_Args, m_RemainingArgs, setter, again>>

(* apply_unwrap: the arguments are read in any order. *)
ReadArg(a) ==
  /\ a \in unread
  /\ unread' = unread \ {a}
  /\ UNCHANGED <<class, m_Args, m_RemainingArgs, setter, again>>

Next == Call \/ \E a \in Args : SlotsSetArg(a) \/ LambdaSetArg(a) \/ ReadArg(a)

Spec == Init /\ [][Next]_vars
-----------------------------------------------------------------------------
TypeOK ==
  /\ class \in {"CaptureSlots", "CaptureLambda"}
  /\ m_Args \in [Args -> {"none", "partial", "set"}]
  /\ m_RemainingArgs \in Nat
  /\ setter \in [Args -> {"idle", "assign", "assigning", "count"}]
  /\ unread \subseteq Args
  /\ again \in BOOLEAN

(* The arguments that set_arg has not counted yet. *)
Uncounted ==
  {a \in Args : IF class = "CaptureSlots" THEN m_Args[a] # "set" \/ setter[a] = "count"
                                          ELSE m_Args[a] = "none" /\ setter[a] # "assign"}

(***************************************************************************)
(* m_RemainingArgs is the number of arguments that no set_arg has counted, *)
(* whatever the threads interleave: it does not miss one that was set, nor *)
(* count one twice, nor wrap below 0.  A CaptureSlots promises this only   *)
(* as long as no argument is set again.                                    *)
(***************************************************************************)
RemainingCountsMissing == ~again => m_RemainingArgs = Cardinality(Uncounted)

(***************************************************************************)
(* The callable reads only arguments that have been assigned, except that  *)
(* one of a CaptureLambda may be without a value while its first set_arg   *)
(* is between its count and its assignment; of a CaptureSlots, whose       *)
(* set_arg counts last, nobody assigns to an argument that is read, unless *)
(* one is set again.                                                       *)
(***************************************************************************)
CallFindsItsArguments ==
  ~again => \A a \in unread :
    CASE class = "CaptureSlots"  -> m_Args[a] = "set"
      [] class = "CaptureLambda" -> m_Args[a] = "none" => setter[a] = "assign"
=============================================================================
