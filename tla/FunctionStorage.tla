-------------------------- MODULE FunctionStorage --------------------------
(***************************************************************************)
(* Function of src/src/util/function.{h,inl}: a callable of any type in    *)
(* storage inside of the object, with two pointers to functions that know  *)
(* the type: m_Invoker calls it, m_Controller destroys it.                 *)
(*                                                                         *)
(* One thread uses the objects; a callable that runs may use them as well, *)
(* except that it does not replace, swap or destroy the Function through   *)
(* which it was called.  The copy and move operations, the assignment of   *)
(* nullptr and clone_data and destroy_data, which they rest on, are left   *)
(* out: their definitions do not compile when they are used.               *)
(***************************************************************************)
EXTENDS Sequences, FiniteSets, Integers

CONSTANTS
  Functions,  \* the Function objects
  Callables,  \* the callables that are stored; each is constructed once
  TypeOf,     \* the type of each callable
  MaxCalls,   \* bound: the depth of nested calls
  NULL

VARIABLES
  scope,        \* the Function objects within their lifetime
  m_Invoker, m_Controller, \* the type that each of the pointers knows, or NULL
  m_StoredFn,   \* the callable in the storage, or NULL for no callable
  callable,     \* "unused", "alive", "destroyed", or "broken" when misused
  running       \* the calls in progress: through which Function, which callable

vars == <<scope, m_Invoker, m_Controller, m_StoredFn, callable, running>>

Init ==
  /\ scope = {}
  /\ m_Invoker = [f \in Functions |-> NULL]
  /\ m_Controller = [f \in Functions |-> NULL]
  /\ m_StoredFn = [f \in Functions |-> NULL]
  /\ callable = [c \in Callables |-> "unused"]
  /\ running = <<>>

(* The callable that runs does not do away with itself. *)
InCall(f) == \E n \in 1..Len(running) : running[n].through = f

(* control<Fn>(..., destroy), with the type that the pointer knows. *)
Destroyed(table, type, c) ==
  IF type = NULL THEN table
  ELSE IF c # NULL /\ table[c] = "alive" /\ TypeOf[c] = type
         THEN [table EXCEPT ![c] = "destroyed"]
         ELSE [d \in Callables |-> IF d = c THEN "broken" ELSE table[d]]

(* Function() and Function(nullptr) *)
ConstructEmpty(f) ==
  /\ f \notin scope
  /\ scope' = scope \cup {f}
  /\ UNCHANGED <<m_Invoker, m_Controller, m_StoredFn, callable, running>>

(* The members of a Function(Fn&& fn), and what they are after a swap with it. *)
Store(f, c) ==
  /\ m_StoredFn' = [m_StoredFn EXCEPT ![f] = c]
  /\ m_Invoker' = [m_Invoker EXCEPT ![f] = TypeOf[c]]
  /\ m_Controller' = [m_Controller EXCEPT ![f] = TypeOf[c]]

Construct(f, c) ==
  /\ f \notin scope /\ callable[c] = "unused"
  /\ scope' = scope \cup {f}
  /\ Store(f, c)
  /\ callable' = [callable EXCEPT ![c] = "alive"]
  /\ UNCHANGED running

(* operator = (Fn&& fn): a temporary Function(fn) is swapped with this, and destroyed. *)
AssignInPlace(f, c) ==
  /\ f \in scope /\ callable[c] = "unused"
  /\ ~InCall(f)
  /\ Store(f, c)
  /\ callable' = [callable EXCEPT ![c] = "alive"]
  /\ UNCHANGED <<scope, running>>

Assign(f, c) ==
  /\ f \in scope /\ callable[c] = "unused"
  /\ ~InCall(f)
  /\ Store(f, c)
  /\ callable' = Destroyed([callable EXCEPT ![c] = "alive"], m_Controller[f], m_StoredFn[f])
  /\ UNCHANGED <<scope, running>>

Exchanged(member, f, g) == [member EXCEPT ![f] = member[g], ![g] = member[f]]

SwapKeepsController(f, g) ==
  /\ {f, g} \subseteq scope
  /\ ~InCall(f) /\ ~InCall(g)
  /\ m_Invoker' = Exchanged(m_Invoker, f, g)
  /\ m_StoredFn' = Exchanged(m_StoredFn, f, g)
  /\ UNCHANGED <<scope, m_Controller, callable, running>>

Swap(f, g) ==
  /\ {f, g} \subseteq scope
  /\ ~InCall(f) /\ ~InCall(g)
  /\ m_Invoker' = Exchanged(m_Invoker, f, g)
  /\ m_Controller' = Exchanged(m_Controller, f, g)
  /\ m_StoredFn' = Exchanged(m_StoredFn, f, g)
  /\ UNCHANGED <<scope, callable, running>>

(* ~Function(): whatever is constructed there later starts with null pointers. *)
Destroy(f) ==
  /\ f \in scope
  /\ ~InCall(f)
  /\ callable' = Destroyed(callable, m_Controller[f], m_StoredFn[f])
  /\ scope' = scope \ {f}
  /\ m_Invoker' = [m_Invoker EXCEPT ![f] = NULL]
  /\ m_Controller' = [m_Controller EXCEPT ![f] = NULL]
  /\ m_StoredFn' = [m_StoredFn EXCEPT ![f] = NULL]
  /\ UNCHANGED running

(* operator()(args): without m_Invoker it throws, which changes nothing here. *)
Call(f) ==
  /\ f \in scope
  /\ Len(running) < MaxCalls
  /\ m_Invoker[f] # NULL
  /\ running' = Append(running, [through |-> f, type |-> m_Invoker[f], fn |-> m_StoredFn[f]])
  /\ UNCHANGED <<scope, m_Invoker, m_Controller, m_StoredFn, callable>>

CallReturns ==
  /\ running # <<>>
  /\ running' = SubSeq(running, 1, Len(running) - 1)
  /\ UNCHANGED <<scope, m_Invoker, m_Controller, m_StoredFn, callable>>

Next ==
  \/ \E f \in Functions :
       \/ ConstructEmpty(f) \/ Destroy(f) \/ Call(f)
       \/ \E c \in Callables : Construct(f, c) \/ Assign(f, c)
       \/ \E g \in Functions : Swap(f, g)
  \/ CallReturns

Spec == Init /\ [][Next]_vars
-----------------------------------------------------------------------------
(***************************************************************************)
(* A callable lives in one Function until it is destroyed, once, and both  *)
(* pointers of the Function know its type; a Function without a callable   *)
(* has neither pointer, so that it converts to false and throws when it is *)
(* called.                                                                 *)
(***************************************************************************)
CallableHasOneFunction ==
  /\ \A c \in Callables :
       /\ callable[c] # "broken"
       /\ Cardinality({f \in scope : m_StoredFn[f] = c}) =
            IF callable[c] = "alive" THEN 1 ELSE 0
  /\ \A f \in scope :
       LET type == IF m_StoredFn[f] = NULL THEN NULL ELSE TypeOf[m_StoredFn[f]]
       IN  m_Invoker[f] = type /\ m_Controller[f] = type

=============================================================================
