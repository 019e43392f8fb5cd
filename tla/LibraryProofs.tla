--------------------------- MODULE LibraryProofs ---------------------------
(***************************************************************************)
(* The safety properties of the parts of Library, for any constants that   *)
(* LibraryAssumption and CapturesAssumption admit: the captures, CoJob,    *)
(* Function, and the generators.                                           *)
(***************************************************************************)
EXTENDS Library, FiniteSetTheorems, TLAPS

-----------------------------------------------------------------------------
(* Captures: CaptureSlots and CaptureLambda. *)

(* Where the set_arg of an argument is, against what has been assigned. *)
Positions ==
  \A a \in Args :
    /\ setter[a] = "idle" => m_Args[a] \in {"none", "set"}
    /\ class = "CaptureSlots" => /\ setter[a] # "assign"
                                 /\ setter[a] = "assigning" => m_Args[a] = "partial"
                                 /\ setter[a] = "count" => m_Args[a] = "set"
    /\ class = "CaptureLambda" => /\ setter[a] = "count" => m_Args[a] = "none"
                                  /\ setter[a] = "assign" => m_Args[a] # "partial"
                                  /\ setter[a] = "assigning" => m_Args[a] = "partial"

(* What call has passed on has been counted. *)
UnreadIsCounted == ~again => unread \cap Uncounted = {}

CapturesInv == TypeOK /\ Positions /\ RemainingCountsMissing /\ UnreadIsCounted

LEMMA CapturesInit == Init => CapturesInv
  <1>. SUFFICES ASSUME Init PROVE CapturesInv
    OBVIOUS
  <1>. USE DEF Init
  <1>1. TypeOK
    BY FS_CardinalityType, CapturesAssumption DEF TypeOK
  <1>2. Uncounted = Args
    BY DEF Uncounted
  <1>. QED  BY <1>1, <1>2 DEF CapturesInv, Positions, RemainingCountsMissing, UnreadIsCounted

LEMMA UncountedIsFinite ==
  /\ IsFiniteSet(Uncounted)
  /\ Cardinality(Uncounted) \in Nat /\ Cardinality(Uncounted) < SizeT
  <1>1. Uncounted \in SUBSET Args
    BY DEF Uncounted
  <1>2. IsFiniteSet(Uncounted) /\ Cardinality(Uncounted) <= Cardinality(Args)
    BY <1>1, FS_Subset, CapturesAssumption
  <1>3. Cardinality(Uncounted) \in Nat /\ Cardinality(Args) \in Nat
    BY <1>2, FS_CardinalityType, CapturesAssumption
  <1>. QED  BY <1>2, <1>3, CapturesAssumption

LEMMA SmallModulo == \A n \in Nat : \A k \in 0..(n - 1) : k % n = k
  <1>. SUFFICES ASSUME NEW n \in Nat \ {0}, NEW k \in 0..(n - 1) PROVE k % n = k
    OBVIOUS
  <1>. QED  BY SMTT(30)

LEMMA CountIsNatural ==
  ASSUME m_RemainingArgs \in Nat, OneMissingLess PROVE m_RemainingArgs' \in Nat
  <1>1. SizeT \in Nat \ {0}
    BY FS_CardinalityType, CapturesAssumption
  <1>. QED  BY <1>1 DEF OneMissingLess

(* A step that counts one argument makes it one fewer that is not counted. *)
LEMMA CountingCounts ==
  ASSUME NEW a \in Uncounted, m_RemainingArgs = Cardinality(Uncounted),
         OneMissingLess, Uncounted' = Uncounted \ {a}
  PROVE  m_RemainingArgs' = Cardinality(Uncounted')
  <1>1. /\ IsFiniteSet(Uncounted)
        /\ Cardinality(Uncounted) \in Nat /\ Cardinality(Uncounted) < SizeT
    BY UncountedIsFinite
  <1>2. Cardinality(Uncounted') = Cardinality(Uncounted) - 1
    BY <1>1, FS_RemoveElement
  <1>3. Cardinality(Uncounted) # 0
    BY <1>1, FS_EmptySet
  <1>4. (Cardinality(Uncounted) - 1) % SizeT = Cardinality(Uncounted) - 1
    <2>1. Cardinality(Uncounted) - 1 \in 0..(SizeT - 1) /\ SizeT \in Nat
      BY <1>1, <1>3, CapturesAssumption
    <2>. QED  BY <2>1, SmallModulo
  <1>. QED  BY <1>2, <1>4 DEF OneMissingLess

LEMMA SlotsKeeps ==
  ASSUME CapturesInv, NEW a \in Args, SlotsSetArg(a) PROVE CapturesInv'
  <1>. USE DEF CapturesInv
  <1>1. class = "CaptureSlots" /\ class' = class /\ unread' = unread
    BY DEF SlotsSetArg
  <1>2. \A b \in Args : b # a => m_Args'[b] = m_Args[b] /\ setter'[b] = setter[b]
    BY DEF SlotsSetArg, BeginAssign, EndAssign, Goto, TypeOK
  <1>3. CASE /\ setter[a] = "idle" /\ again' = (again \/ m_Args[a] # "none")
             /\ BeginAssign(a) /\ UNCHANGED m_RemainingArgs
    <2>1. TypeOK' /\ m_Args'[a] = "partial" /\ setter'[a] = "assigning"
      BY <1>1, <1>3 DEF TypeOK, BeginAssign, Goto
    <2>2. Positions'
      BY <1>1, <1>2, <2>1 DEF Positions
    <2>3. ~again' => ~again /\ Uncounted' = Uncounted
      BY <1>1, <1>2, <1>3, <2>1 DEF Uncounted
    <2>. QED  BY <1>1, <1>3, <2>1, <2>2, <2>3 DEF RemainingCountsMissing, UnreadIsCounted
  <1>4. CASE /\ setter[a] = "assigning" /\ EndAssign(a) /\ Goto(a, "count")
             /\ UNCHANGED <<m_RemainingArgs, again>>
    <2>1. TypeOK' /\ m_Args'[a] = "set" /\ setter'[a] = "count"
      BY <1>1, <1>4 DEF TypeOK, EndAssign, Goto
    <2>2. Positions'
      BY <1>1, <1>2, <2>1 DEF Positions
    <2>3. Uncounted' = Uncounted
      BY <1>1, <1>2, <1>4, <2>1 DEF Uncounted, Positions
    <2>. QED  BY <1>1, <1>4, <2>1, <2>2, <2>3 DEF RemainingCountsMissing, UnreadIsCounted
  <1>5. CASE /\ setter[a] = "count" /\ OneMissingLess /\ Goto(a, "idle")
             /\ UNCHANGED <<m_Args, again>>
    <2>1. TypeOK' /\ setter'[a] = "idle"
      BY <1>1, <1>5, CountIsNatural DEF TypeOK, Goto
    <2>2. Positions'
      BY <1>1, <1>2, <1>5, <2>1 DEF Positions
    <2>3. a \in Uncounted /\ Uncounted' = Uncounted \ {a}
      BY <1>1, <1>2, <1>5, <2>1 DEF Uncounted, Positions
    <2>4. RemainingCountsMissing'
      BY <1>5, <2>3, CountingCounts DEF RemainingCountsMissing
    <2>. QED  BY <1>1, <1>5, <2>1, <2>2, <2>3, <2>4 DEF UnreadIsCounted
  <1>. QED  BY <1>3, <1>4, <1>5 DEF SlotsSetArg

LEMMA LambdaKeeps ==
  ASSUME CapturesInv, NEW a \in Args, LambdaSetArg(a) PROVE CapturesInv'
  <1>. USE DEF CapturesInv
  <1>1. class = "CaptureLambda" /\ class' = class /\ unread' = unread /\ again' = again
    BY DEF LambdaSetArg
  <1>2. \A b \in Args : b # a => m_Args'[b] = m_Args[b] /\ setter'[b] = setter[b]
    BY DEF LambdaSetArg, BeginAssign, EndAssign, Goto, TypeOK
  <1>3. CASE /\ setter[a] = "idle" /\ Goto(a, IF HasNoValue(a) THEN "count" ELSE "assign")
             /\ UNCHANGED <<m_Args, m_RemainingArgs>>
    <2>1. TypeOK' /\ setter'[a] = IF HasNoValue(a) THEN "count" ELSE "assign"
      BY <1>1, <1>3 DEF TypeOK, Goto
    <2>2. Positions'
      BY <1>1, <1>2, <1>3, <2>1 DEF Positions, HasNoValue
    <2>3. Uncounted' = Uncounted
      BY <1>1, <1>2, <1>3, <2>1 DEF Uncounted, HasNoValue
    <2>. QED  BY <1>1, <1>3, <2>1, <2>2, <2>3 DEF RemainingCountsMissing, UnreadIsCounted
  <1>4. CASE setter[a] = "count" /\ OneMissingLess /\ Goto(a, "assign") /\ UNCHANGED m_Args
    <2>1. TypeOK' /\ setter'[a] = "assign"
      BY <1>1, <1>4, CountIsNatural DEF TypeOK, Goto
    <2>2. Positions'
      BY <1>1, <1>2, <1>4, <2>1 DEF Positions
    <2>3. a \in Uncounted /\ Uncounted' = Uncounted \ {a}
      BY <1>1, <1>2, <1>4, <2>1 DEF Uncounted, Positions
    <2>4. RemainingCountsMissing'
      BY <1>1, <1>4, <2>3, CountingCounts DEF RemainingCountsMissing
    <2>. QED  BY <1>1, <2>1, <2>2, <2>3, <2>4 DEF UnreadIsCounted
  <1>5. CASE setter[a] = "assign" /\ BeginAssign(a) /\ UNCHANGED m_RemainingArgs
    <2>1. TypeOK' /\ m_Args'[a] = "partial" /\ setter'[a] = "assigning"
      BY <1>1, <1>5 DEF TypeOK, BeginAssign, Goto
    <2>2. Positions'
      BY <1>1, <1>2, <2>1 DEF Positions
    <2>3. Uncounted' = Uncounted
      BY <1>1, <1>2, <1>5, <2>1 DEF Uncounted
    <2>. QED  BY <1>1, <1>5, <2>1, <2>2, <2>3 DEF RemainingCountsMissing, UnreadIsCounted
  <1>6. CASE setter[a] = "assigning" /\ EndAssign(a) /\ Goto(a, "idle") /\ UNCHANGED m_RemainingArgs
    <2>1. TypeOK' /\ m_Args'[a] = "set" /\ setter'[a] = "idle"
      BY <1>1, <1>6 DEF TypeOK, EndAssign, Goto
    <2>2. Positions'
      BY <1>1, <1>2, <2>1 DEF Positions
    <2>3. Uncounted' = Uncounted
      BY <1>1, <1>2, <1>6, <2>1 DEF Uncounted, Positions
    <2>. QED  BY <1>1, <1>6, <2>1, <2>2, <2>3 DEF RemainingCountsMissing, UnreadIsCounted
  <1>. QED  BY <1>3, <1>4, <1>5, <1>6 DEF LambdaSetArg

(* call finds nothing uncounted; reading an argument leaves the rest as it is. *)
LEMMA CallKeeps ==
  ASSUME CapturesInv, Call \/ \E a \in Args : ReadArg(a) PROVE CapturesInv'
  <1>. USE DEF CapturesInv
  <1>1. /\ UNCHANGED <<class, m_Args, m_RemainingArgs, setter, again>>
        /\ unread' \subseteq Args
        /\ unread' \subseteq unread \/ m_RemainingArgs = 0
    BY DEF Call, ReadArg, TypeOK
  <1>2. TypeOK' /\ Positions'
    BY <1>1 DEF TypeOK, Positions
  <1>3. Uncounted' = Uncounted
    BY <1>1 DEF Uncounted
  <1>4. ~again /\ m_RemainingArgs = 0 => Uncounted = {}
    BY UncountedIsFinite, FS_EmptySet DEF RemainingCountsMissing
  <1>. QED  BY <1>1, <1>2, <1>3, <1>4 DEF RemainingCountsMissing, UnreadIsCounted

LEMMA CapturesNext == CapturesInv /\ [Next]_vars => CapturesInv'
  <1>. SUFFICES ASSUME CapturesInv, [Next]_vars PROVE CapturesInv'
    OBVIOUS
  <1>1. CASE Next
    BY <1>1, SlotsKeeps, LambdaKeeps, CallKeeps DEF Next
  <1>2. CASE UNCHANGED vars
    BY <1>2 DEF vars, CapturesInv, TypeOK, Positions, RemainingCountsMissing, UnreadIsCounted, Uncounted
  <1>. QED  BY <1>1, <1>2

(* The invariant holds of every state of every behaviour. *)
THEOREM CapturesInductive == Spec => []CapturesInv
  <1>1. Init => CapturesInv
    BY CapturesInit
  <1>2. CapturesInv /\ [Next]_vars => CapturesInv'
    BY CapturesNext
  <1>. QED  BY <1>1, <1>2, PTL DEF Spec

(***************************************************************************)
(* The count of the missing arguments is right for any number of them that *)
(* a size_t can count, as long as no argument of a CaptureSlots is set     *)
(* again.                                                                  *)
(***************************************************************************)
THEOREM CountIsRight == Spec => []RemainingCountsMissing
  <1>1. Spec => []CapturesInv
    BY CapturesInductive
  <1>. QED  BY <1>1, PTL DEF CapturesInv

(***************************************************************************)
(* The callable reads arguments that have been assigned; the exception for *)
(* the first assignment to an argument of a CaptureLambda is part of the   *)
(* property.                                                               *)
(***************************************************************************)
THEOREM ArgumentsAreThere == Spec => []CallFindsItsArguments
  <1>1. CapturesInv => CallFindsItsArguments
    BY DEF CapturesInv, TypeOK, Positions, UnreadIsCounted, Uncounted, CallFindsItsArguments
  <1>2. Spec => []CapturesInv
    BY CapturesInductive
  <1>. QED  BY <1>1, <1>2, PTL

-----------------------------------------------------------------------------
(* How the parts make up the library. *)

(* Each part goes through its own steps, whatever part the behaviour is about. *)
LEMMA PartsOfInit == LibraryInit => Init /\ Co!Init /\ Fn!Init /\ Gen!Init
  BY DEF LibraryInit

LEMMA PartsOfNext ==
  [LibraryNext]_libraryVars => [Next]_vars /\ [Co!Next]_cojobs /\ [Fn!Next]_functions
                                           /\ [Gen!Next]_generators
  BY DEF LibraryNext, libraryVars, InTasks, InCaptures, InCoJobs, InFunctions, InGenerators

(* The instances and the theorems about finite sets mean the same number. *)
LEMMA CardinalityOfOwners ==
  ASSUME NEW S, NEW yes, \A a, b \in S : a = b, yes <=> S # {}
  PROVE  /\ Co!Cardinality(S) = IF yes THEN 1 ELSE 0
         /\ Fn!Cardinality(S) = IF yes THEN 1 ELSE 0
         /\ Gen!Cardinality(S) = IF yes THEN 1 ELSE 0
  <1>1. Cardinality(S) = IF yes THEN 1 ELSE 0
    <2>1. CASE S = {}
      BY <2>1, FS_EmptySet
    <2>2. CASE S # {}
      <3>1. PICK a \in S : S = {a}
        BY <2>2
      <3>. QED  BY <2>2, <3>1, FS_Singleton
    <2>. QED  BY <2>1, <2>2
  <1>. QED  BY <1>1 DEF Co!Cardinality, Fn!Cardinality, Gen!Cardinality, Cardinality

-----------------------------------------------------------------------------
(* CoJobs *)

CoTypeOK ==
  /\ coframe \in [CoFrames -> [state : {"free", "start", "final", "destroyed", "broken"},
                               m_Payload : {"empty", "value", "exception"}]]
  /\ m_Handle \in [CoJobObjects -> CoFrames \cup {NULL}]
  /\ got \in [CoFrames -> {NULL, "empty", "value", "exception"}]
  /\ copied \subseteq CoFrames

(* A frame of which no copy was made is held by one CoJob, while it can be used. *)
HeldOnce ==
  \A f \in CoFrames \ copied :
    /\ coframe[f].state # "broken"
    /\ \A o, p \in CoJobObjects : m_Handle[o] = f /\ m_Handle[p] = f => o = p
    /\ (\E o \in CoJobObjects : m_Handle[o] = f) <=> coframe[f].state \in {"start", "final"}

(* The body runs once, at the first get, and leaves something in the promise. *)
RunsOnce ==
  \A f \in CoFrames :
    /\ coframe[f].state \in {"free", "start"} => got[f] = NULL
    /\ coframe[f].state = "final" => coframe[f].m_Payload # "empty"
    /\ got[f] # NULL /\ coframe[f].state # "broken" =>
         got[f] # "empty" /\ coframe[f].m_Payload = got[f]

CoInv == CoTypeOK /\ HeldOnce /\ RunsOnce

LEMMA CoJobsInit == Co!Init => CoInv
  BY LibraryAssumption DEF Co!Init, CoInv, CoTypeOK, HeldOnce, RunsOnce

(* A coroutine is called: a free frame has no owner and has not been asked for its value. *)
LEMMA CallCoroutineKeeps ==
  ASSUME CoInv, NEW o \in CoJobObjects, Co!CallCoroutine(o) PROVE CoInv'
  <1>. USE DEF CoInv
  <1>1. PICK f \in CoFrames :
          /\ coframe[f].state = "free"
          /\ coframe' = [coframe EXCEPT ![f].state = "start"]
          /\ m_Handle' = [m_Handle EXCEPT ![o] = f]
    BY DEF Co!CallCoroutine
  <1>2. m_Handle[o] = NULL /\ UNCHANGED <<got, copied>>
    BY DEF Co!CallCoroutine
  <1>3. CoTypeOK'
    BY <1>1, <1>2 DEF CoTypeOK
  <1>4. HeldOnce'
    BY <1>1, <1>2, LibraryAssumption DEF CoTypeOK, HeldOnce
  <1>5. RunsOnce'
    BY <1>1, <1>2 DEF CoTypeOK, RunsOnce
  <1>. QED  BY <1>3, <1>4, <1>5

(* get: the first one runs the body; a frame that is gone has been copied. *)
LEMMA GetKeeps ==
  ASSUME CoInv, NEW o \in CoJobObjects, Co!Get(o) PROVE CoInv'
  <1>. USE DEF CoInv
  <1>1. PICK f \in CoFrames : m_Handle[o] = f
    BY DEF Co!Get, CoTypeOK
  <1>2. /\ Co!RunToEnd(f)
        /\ got' = [got EXCEPT ![f] = coframe'[f].m_Payload]
        /\ UNCHANGED <<m_Handle, copied>>
    BY <1>1 DEF Co!Get
  <1>3. CASE coframe[f].state = "start"
    <2>1. PICK p \in {"value", "exception"} :
            coframe' = [coframe EXCEPT ![f] = [state |-> "final", m_Payload |-> p]]
      BY <1>2, <1>3 DEF Co!RunToEnd
    <2>2. CoTypeOK'
      BY <1>2, <2>1 DEF CoTypeOK
    <2>3. HeldOnce'
      BY <1>1, <1>2, <1>3, <2>1 DEF CoTypeOK, HeldOnce
    <2>4. RunsOnce'
      BY <1>2, <2>1 DEF CoTypeOK, RunsOnce
    <2>. QED  BY <2>2, <2>3, <2>4
  <1>4. CASE coframe[f].state # "start"
    <2>1. coframe' = [coframe EXCEPT ![f].state = IF @ = "final" THEN @ ELSE "broken"]
      BY <1>2, <1>4 DEF Co!RunToEnd
    <2>2. CoTypeOK'
      BY <1>2, <2>1 DEF CoTypeOK
    <2>3. HeldOnce'
      BY <1>1, <1>2, <1>4, <2>1 DEF CoTypeOK, HeldOnce
    <2>4. RunsOnce'
      BY <1>2, <1>4, <2>1 DEF CoTypeOK, RunsOnce
    <2>. QED  BY <2>2, <2>3, <2>4
  <1>. QED  BY <1>3, <1>4

LEMMA CopyKeeps ==
  ASSUME CoInv, NEW o \in CoJobObjects, NEW p \in CoJobObjects, Co!Copy(o, p) PROVE CoInv'
  <1>. USE DEF CoInv
  <1>1. CoTypeOK'
    BY DEF Co!Copy, CoTypeOK
  <1>2. HeldOnce'
    BY LibraryAssumption DEF Co!Copy, CoTypeOK, HeldOnce
  <1>3. RunsOnce'
    BY DEF Co!Copy, RunsOnce
  <1>. QED  BY <1>1, <1>2, <1>3

LEMMA DestroyKeeps ==
  ASSUME CoInv, NEW o \in CoJobObjects, Co!Destroy(o) PROVE CoInv'
  <1>. USE DEF CoInv
  <1>1. PICK f \in CoFrames : m_Handle[o] = f
    BY DEF Co!Destroy, CoTypeOK
  <1>2. /\ coframe' = [coframe EXCEPT ![f].state =
                         IF @ \in {"start", "final"} THEN "destroyed" ELSE "broken"]
        /\ m_Handle' = [m_Handle EXCEPT ![o] = NULL]
        /\ UNCHANGED <<got, copied>>
    BY <1>1 DEF Co!Destroy
  <1>3. CoTypeOK'
    BY <1>2 DEF CoTypeOK
  <1>4. HeldOnce'
    BY <1>1, <1>2, LibraryAssumption DEF CoTypeOK, HeldOnce
  <1>5. RunsOnce'
    BY <1>1, <1>2 DEF CoTypeOK, RunsOnce
  <1>. QED  BY <1>3, <1>4, <1>5

LEMMA CoJobsNext == CoInv /\ [Co!Next]_cojobs => CoInv'
  <1>. SUFFICES ASSUME CoInv, [Co!Next]_cojobs PROVE CoInv'
    OBVIOUS
  <1>1. CASE Co!Next
    BY <1>1, CallCoroutineKeeps, GetKeeps, CopyKeeps, DestroyKeeps DEF Co!Next
  <1>2. CASE UNCHANGED cojobs
    BY <1>2 DEF cojobs, CoInv, CoTypeOK, HeldOnce, RunsOnce
  <1>. QED  BY <1>1, <1>2

(***************************************************************************)
(* A CoJob that is not copied keeps its frame while it lives and destroys  *)
(* it once, and every get has the outcome of the one run of its body.      *)
(***************************************************************************)
THEOREM KeepsItsCoroutineHolds == LibrarySpec => []KeepsItsCoroutine
  <1>1. LibraryInit => CoInv
    BY PartsOfInit, CoJobsInit
  <1>2. CoInv /\ [LibraryNext]_libraryVars => CoInv'
    BY PartsOfNext, CoJobsNext
  <1>3. CoInv => KeepsItsCoroutine
    <2>. SUFFICES ASSUME CoInv PROVE Co!KeepsItsCoroutine
      BY DEF KeepsItsCoroutine
    <2>1. ASSUME NEW f \in CoFrames \ copied
          PROVE  Co!Cardinality({o \in CoJobObjects : m_Handle[o] = f}) =
                   IF coframe[f].state \in {"start", "final"} THEN 1 ELSE 0
      <3>1. \A a, b \in {o \in CoJobObjects : m_Handle[o] = f} : a = b
        BY DEF CoInv, HeldOnce
      <3>2. coframe[f].state \in {"start", "final"} <=>
              {o \in CoJobObjects : m_Handle[o] = f} # {}
        BY DEF CoInv, HeldOnce
      <3>. QED  BY <3>1, <3>2, CardinalityOfOwners
    <2>. QED  BY <2>1 DEF CoInv, HeldOnce, RunsOnce, Co!KeepsItsCoroutine
  <1>. QED  BY <1>1, <1>2, <1>3, PTL DEF LibrarySpec

-----------------------------------------------------------------------------
(* FunctionStorage *)

FnTypeOK ==
  /\ scope \subseteq Functions
  /\ m_Invoker \in [Functions -> {TypeOf[c] : c \in Callables} \cup {NULL}]
  /\ m_Controller \in [Functions -> {TypeOf[c] : c \in Callables} \cup {NULL}]
  /\ m_StoredFn \in [Functions -> Callables \cup {NULL}]
  /\ callable \in [Callables -> {"unused", "alive", "destroyed", "broken"}]

(* Both pointers know the type of what is stored; nothing is stored before or after the lifetime. *)
KnowsItsCallable ==
  \A f \in Functions :
    /\ m_StoredFn[f] # NULL => f \in scope
    /\ m_StoredFn[f] = NULL => m_Invoker[f] = NULL /\ m_Controller[f] = NULL
    /\ m_StoredFn[f] # NULL => /\ m_Invoker[f] = TypeOf[m_StoredFn[f]]
                               /\ m_Controller[f] = TypeOf[m_StoredFn[f]]

StoredOnce ==
  \A c \in Callables :
    /\ callable[c] # "broken"
    /\ \A f, g \in Functions : m_StoredFn[f] = c /\ m_StoredFn[g] = c => f = g
    /\ (\E f \in Functions : m_StoredFn[f] = c) <=> callable[c] = "alive"

FnInv == FnTypeOK /\ KnowsItsCallable /\ StoredOnce

LEMMA FunctionsInit == Fn!Init => FnInv
  BY LibraryAssumption DEF Fn!Init, FnInv, FnTypeOK, KnowsItsCallable, StoredOnce

(* The controller of a Function finds its callable alive, and of the type that it knows. *)
LEMMA DestroysItsCallable ==
  ASSUME FnInv, NEW f \in Functions, NEW table \in [Callables -> {"unused", "alive", "destroyed"}],
         \A c \in Callables : callable[c] = "alive" => table[c] = "alive"
  PROVE  /\ m_StoredFn[f] = NULL => Fn!Destroyed(table, m_Controller[f], m_StoredFn[f]) = table
         /\ m_StoredFn[f] # NULL => Fn!Destroyed(table, m_Controller[f], m_StoredFn[f]) =
                                      [table EXCEPT ![m_StoredFn[f]] = "destroyed"]
  <1>1. CASE m_StoredFn[f] = NULL
    BY <1>1 DEF FnInv, KnowsItsCallable, Fn!Destroyed
  <1>2. CASE m_StoredFn[f] # NULL
    <2>1. m_StoredFn[f] \in Callables /\ callable[m_StoredFn[f]] = "alive"
      BY <1>2 DEF FnInv, FnTypeOK, StoredOnce
    <2>2. m_Controller[f] = TypeOf[m_StoredFn[f]] /\ TypeOf[m_StoredFn[f]] # NULL
      BY <1>2, <2>1, LibraryAssumption DEF FnInv, KnowsItsCallable
    <2>. QED  BY <1>2, <2>1, <2>2 DEF Fn!Destroyed
  <1>. QED  BY <1>1, <1>2

LEMMA ConstructEmptyKeeps ==
  ASSUME FnInv, NEW f \in Functions, Fn!ConstructEmpty(f) PROVE FnInv'
  BY DEF FnInv, FnTypeOK, KnowsItsCallable, StoredOnce, Fn!ConstructEmpty

LEMMA ConstructKeeps ==
  ASSUME FnInv, NEW f \in Functions, NEW c \in Callables, Fn!Construct(f, c) PROVE FnInv'
  <1>. USE DEF FnInv
  <1>1. /\ f \notin scope /\ callable[c] = "unused"
        /\ scope' = scope \cup {f}
        /\ m_StoredFn' = [m_StoredFn EXCEPT ![f] = c]
        /\ m_Invoker' = [m_Invoker EXCEPT ![f] = TypeOf[c]]
        /\ m_Controller' = [m_Controller EXCEPT ![f] = TypeOf[c]]
        /\ callable' = [callable EXCEPT ![c] = "alive"]
    BY DEF Fn!Construct, Fn!Store
  <1>2. FnTypeOK'
    BY <1>1 DEF FnTypeOK
  <1>3. KnowsItsCallable'
    BY <1>1, LibraryAssumption DEF FnTypeOK, KnowsItsCallable
  <1>4. StoredOnce'
    BY <1>1, LibraryAssumption DEF FnTypeOK, KnowsItsCallable, StoredOnce
  <1>. QED  BY <1>2, <1>3, <1>4

(* The new callable is stored before the old one, another one, is destroyed. *)
LEMMA AssignKeeps ==
  ASSUME FnInv, NEW f \in Functions, NEW c \in Callables, Fn!Assign(f, c) PROVE FnInv'
  <1>. USE DEF FnInv
  <1> DEFINE table == [callable EXCEPT ![c] = "alive"]
  <1>1. /\ f \in scope /\ callable[c] = "unused"
        /\ m_StoredFn' = [m_StoredFn EXCEPT ![f] = c]
        /\ m_Invoker' = [m_Invoker EXCEPT ![f] = TypeOf[c]]
        /\ m_Controller' = [m_Controller EXCEPT ![f] = TypeOf[c]]
        /\ callable' = Fn!Destroyed(table, m_Controller[f], m_StoredFn[f])
        /\ scope' = scope
    BY DEF Fn!Assign, Fn!Store
  <1>2. table \in [Callables -> {"unused", "alive", "destroyed"}]
    BY DEF FnTypeOK, StoredOnce
  <1>3. /\ m_StoredFn[f] = NULL => callable' = table
        /\ m_StoredFn[f] # NULL => callable' = [table EXCEPT ![m_StoredFn[f]] = "destroyed"]
    BY <1>1, <1>2, DestroysItsCallable DEF FnTypeOK
  <1>4. m_StoredFn[f] # c
    BY <1>1 DEF StoredOnce
  <1>5. FnTypeOK'
    BY <1>1, <1>2, <1>3 DEF FnTypeOK
  <1>6. KnowsItsCallable'
    BY <1>1, LibraryAssumption DEF FnTypeOK, KnowsItsCallable
  <1>7. StoredOnce'
    <2>1. \A g \in Functions : m_StoredFn'[g] = IF g = f THEN c ELSE m_StoredFn[g]
      BY <1>1 DEF FnTypeOK
    <2>2. \A g \in Functions : m_StoredFn[g] # c
      BY <1>1 DEF StoredOnce
    <2>3. callable'[c] = "alive"
      BY <1>3, <1>4 DEF FnTypeOK
    <2>4. \A e \in Callables \ {c} :
            callable'[e] = IF e = m_StoredFn[f] THEN "destroyed" ELSE callable[e]
      BY <1>3, LibraryAssumption DEF FnTypeOK
    <2>. QED  BY <1>4, <2>1, <2>2, <2>3, <2>4 DEF StoredOnce
  <1>. QED  BY <1>5, <1>6, <1>7

(* A Function may be swapped with itself. *)
LEMMA SwapKeeps ==
  ASSUME FnInv, NEW f \in Functions, NEW g \in Functions, Fn!Swap(f, g) PROVE FnInv'
  <1>. USE DEF FnInv
  <1>1. /\ f \in scope /\ g \in scope
        /\ m_Invoker' = [m_Invoker EXCEPT ![f] = m_Invoker[g], ![g] = m_Invoker[f]]
        /\ m_Controller' = [m_Controller EXCEPT ![f] = m_Controller[g], ![g] = m_Controller[f]]
        /\ m_StoredFn' = [m_StoredFn EXCEPT ![f] = m_StoredFn[g], ![g] = m_StoredFn[f]]
        /\ UNCHANGED <<scope, callable>>
    BY DEF Fn!Swap, Fn!Exchanged
  <1>2. FnTypeOK'
    BY <1>1 DEF FnTypeOK
  <1>3. KnowsItsCallable'
    BY <1>1 DEF FnTypeOK, KnowsItsCallable
  <1>4. StoredOnce'
    BY <1>1 DEF FnTypeOK, StoredOnce
  <1>. QED  BY <1>2, <1>3, <1>4

LEMMA DestroyFunctionKeeps ==
  ASSUME FnInv, NEW f \in Functions, Fn!Destroy(f) PROVE FnInv'
  <1>. USE DEF FnInv
  <1>1. /\ scope' = scope \ {f}
        /\ m_StoredFn' = [m_StoredFn EXCEPT ![f] = NULL]
        /\ m_Invoker' = [m_Invoker EXCEPT ![f] = NULL]
        /\ m_Controller' = [m_Controller EXCEPT ![f] = NULL]
        /\ callable' = Fn!Destroyed(callable, m_Controller[f], m_StoredFn[f])
    BY DEF Fn!Destroy
  <1>2. callable \in [Callables -> {"unused", "alive", "destroyed"}]
    BY DEF FnTypeOK, StoredOnce
  <1>3. /\ m_StoredFn[f] = NULL => callable' = callable
        /\ m_StoredFn[f] # NULL => callable' = [callable EXCEPT ![m_StoredFn[f]] = "destroyed"]
    BY <1>1, <1>2, DestroysItsCallable
  <1>4. FnTypeOK'
    BY <1>1, <1>2, <1>3 DEF FnTypeOK
  <1>5. KnowsItsCallable'
    BY <1>1 DEF FnTypeOK, KnowsItsCallable
  <1>6. StoredOnce'
    BY <1>1, <1>3, LibraryAssumption DEF FnTypeOK, StoredOnce
  <1>. QED  BY <1>4, <1>5, <1>6

LEMMA FunctionsNext == FnInv /\ [Fn!Next]_functions => FnInv'
  <1>. SUFFICES ASSUME FnInv, [Fn!Next]_functions PROVE FnInv'
    OBVIOUS
  <1>1. ASSUME NEW f \in Functions, Fn!Call(f) PROVE FnInv'
    BY <1>1 DEF Fn!Call, FnInv, FnTypeOK, KnowsItsCallable, StoredOnce
  <1>2. CASE Fn!CallReturns
    BY <1>2 DEF Fn!CallReturns, FnInv, FnTypeOK, KnowsItsCallable, StoredOnce
  <1>3. CASE UNCHANGED functions
    BY <1>3 DEF functions, FnInv, FnTypeOK, KnowsItsCallable, StoredOnce
  <1>. QED  BY <1>1, <1>2, <1>3, ConstructEmptyKeeps, ConstructKeeps, AssignKeeps, SwapKeeps,
               DestroyFunctionKeeps DEF Fn!Next

(***************************************************************************)
(* A callable lives in one Function until it is destroyed, once, whatever  *)
(* is assigned and swapped, and the pointers of a Function know the type   *)
(* of what it stores.                                                      *)
(***************************************************************************)
THEOREM CallableHasOneFunctionHolds == LibrarySpec => []CallableHasOneFunction
  <1>1. LibraryInit => FnInv
    BY PartsOfInit, FunctionsInit
  <1>2. FnInv /\ [LibraryNext]_libraryVars => FnInv'
    BY PartsOfNext, FunctionsNext
  <1>3. FnInv => CallableHasOneFunction
    <2>. SUFFICES ASSUME FnInv PROVE Fn!CallableHasOneFunction
      BY DEF CallableHasOneFunction
    <2>1. ASSUME NEW c \in Callables
          PROVE  Fn!Cardinality({f \in scope : m_StoredFn[f] = c}) =
                   IF callable[c] = "alive" THEN 1 ELSE 0
      <3>1. \A a, b \in {f \in scope : m_StoredFn[f] = c} : a = b
        BY DEF FnInv, FnTypeOK, StoredOnce
      <3>2. callable[c] = "alive" <=> {f \in scope : m_StoredFn[f] = c} # {}
        BY LibraryAssumption DEF FnInv, FnTypeOK, KnowsItsCallable, StoredOnce
      <3>. QED  BY <3>1, <3>2, CardinalityOfOwners
    <2>2. ASSUME NEW f \in scope
          PROVE  LET type == IF m_StoredFn[f] = NULL THEN NULL ELSE TypeOf[m_StoredFn[f]]
                 IN  m_Invoker[f] = type /\ m_Controller[f] = type
      BY DEF FnInv, FnTypeOK, KnowsItsCallable
    <2>. QED  BY <2>1, <2>2 DEF FnInv, StoredOnce, Fn!CallableHasOneFunction
  <1>. QED  BY <1>1, <1>2, <1>3, PTL DEF LibrarySpec

-----------------------------------------------------------------------------
(* Generators *)

Elements == 0..MaxI

FrameRecord ==
  [state : {"free", "start", "yield", "final", "destroyed", "broken"},
   first : Elements, last : Elements, step : Elements, from : Elements,
   m_CurrentValue : Elements \cup {NULL}, yields : 0..(MaxI + 1)]

GenTypeOK ==
  /\ frame \in [Frames -> FrameRecord]
  /\ alive \subseteq Generators
  /\ m_Coroutine \in [Generators -> Frames \cup {NULL}]
  /\ iter \in [at : {"none", "compare", "body"}, coroutine : Frames \cup {NULL}]

(* A frame that is not destroyed yet belongs to one Generator. *)
OwnedOnce ==
  /\ \A f \in Frames :
       /\ frame[f].state # "broken"
       /\ \A g, h \in Generators : m_Coroutine[g] = f /\ m_Coroutine[h] = f => g = h
       /\ (\E g \in Generators : m_Coroutine[g] = f) <=> Gen!Live(f)
  /\ \A g \in Generators : m_Coroutine[g] # NULL => g \in alive

(* The handle of the iterator leads to a frame that has been resumed, in the body to an element. *)
LoopsOverAFrame ==
  /\ iter.at = "none" => iter.coroutine = NULL
  /\ iter.at = "body" => iter.coroutine # NULL
  /\ iter.coroutine # NULL =>
       /\ frame[iter.coroutine].state \in {"yield", "final"}
       /\ iter.at = "body" => frame[iter.coroutine].state = "yield"

(* How far a frame has come, if its sums do not overflow. *)
InSequence(fr) ==
  Gen!Proper(fr) =>
    /\ fr.state = "start" => fr.first = fr.from /\ fr.yields = 0
    /\ fr.state = "yield" => /\ fr.first < fr.last
                             /\ fr.m_CurrentValue = fr.first
                             /\ fr.yields >= 1
                             /\ fr.first = fr.from + (fr.yields - 1) * fr.step
    /\ fr.state = "final" => fr.yields = Gen!Cardinality(Gen!InRange(fr))

GenInv ==
  /\ GenTypeOK /\ OwnedOnce /\ LoopsOverAFrame
  /\ \A f \in Frames : InSequence(frame[f])

LEMMA GeneratorsInit == Gen!Init => GenInv
  <1>. SUFFICES ASSUME Gen!Init PROVE GenInv
    OBVIOUS
  <1>1. GenTypeOK
    BY LibraryAssumption DEF Gen!Init, Gen!NoFrame, GenTypeOK, FrameRecord, Elements
  <1>2. OwnedOnce /\ LoopsOverAFrame
    BY LibraryAssumption DEF Gen!Init, Gen!NoFrame, OwnedOnce, LoopsOverAFrame, Gen!Live
  <1>3. \A f \in Frames : InSequence(frame[f])
    BY DEF Gen!Init, Gen!NoFrame, InSequence
  <1>. QED  BY <1>1, <1>2, <1>3 DEF GenInv

-----------------------------------------------------------------------------
(* Resuming a frame: arithmetic first. *)

LEMMA OneMoreStep ==
  ASSUME NEW n \in Nat, NEW s \in Nat PROVE (n - 1) * s + s = n * s
  BY SMT

LEMMA StepsAreMonotonic ==
  ASSUME NEW k \in Nat, NEW n \in Nat, NEW s \in Nat, k <= n PROVE k * s <= n * s
  <1>1. n * s - k * s = (n - k) * s
    BY SMT
  <1>2. (n - k) * s >= 0
    BY SMT
  <1>3. n * s \in Nat /\ k * s \in Nat
    BY SMT
  <1>. QED  BY <1>1, <1>2, <1>3

LEMMA StepsAreLong ==
  ASSUME NEW n \in Nat, NEW s \in Nat, s > 0 PROVE n * s >= n
  <1>1. n * s = n + n * (s - 1)
    BY SMT
  <1>2. n * (s - 1) >= 0
    BY SMT
  <1>. QED  BY <1>1, <1>2

LEMMA NoOverflow ==
  ASSUME NEW a \in Nat, a < MaxI + 1 PROVE a % (MaxI + 1) = a
  <1>1. MaxI + 1 \in Nat /\ a \in 0..((MaxI + 1) - 1)
    BY LibraryAssumption
  <1>. QED  BY <1>1, SmallModulo

LEMMA CountOfElements ==
  ASSUME NEW n \in Nat PROVE Gen!Cardinality(0..(n - 1)) = n
  <1>1. Cardinality(0..(n - 1)) = n
    BY FS_Interval
  <1>. QED  BY <1>1 DEF Gen!Cardinality, Cardinality

(* A resumed frame goes to its next element or to its end. *)
Resumed(fr) == fr \in FrameRecord /\ fr.state \in {"yield", "final"} /\ InSequence(fr)

LEMMA YieldOrReturnType ==
  ASSUME NEW fr \in FrameRecord, NEW value \in Elements
  PROVE  /\ Gen!YieldOrReturn(fr, value) \in FrameRecord
         /\ Gen!YieldOrReturn(fr, value).state \in {"yield", "final"}
  <1>1. CASE value < fr.last
    <2> DEFINE count == IF fr.yields <= MaxI THEN fr.yields + 1 ELSE fr.yields
    <2>1. count \in 0..(MaxI + 1)
      BY LibraryAssumption DEF FrameRecord
    <2>2. Gen!YieldOrReturn(fr, value) =
            [fr EXCEPT !.state = "yield", !.first = value, !.m_CurrentValue = value,
                       !.yields = count]
      BY <1>1 DEF Gen!YieldOrReturn, FrameRecord
    <2>. HIDE DEF count
    <2>. QED  BY <2>1, <2>2 DEF FrameRecord
  <1>2. CASE ~(value < fr.last)
    <2>1. Gen!YieldOrReturn(fr, value) =
            [fr EXCEPT !.state = "final", !.first = value, !.m_CurrentValue = NULL]
      BY <1>2 DEF Gen!YieldOrReturn
    <2>. QED  BY <2>1 DEF FrameRecord
  <1>. QED  BY <1>1, <1>2

LEMMA FirstElement ==
  ASSUME NEW fr \in FrameRecord, fr.state = "start", InSequence(fr)
  PROVE  Resumed(Gen!YieldOrReturn(fr, fr.first))
  <1> DEFINE next == Gen!YieldOrReturn(fr, fr.first)
  <1>1. next \in FrameRecord /\ next.state \in {"yield", "final"}
    <2>1. fr.first \in Elements
      BY DEF FrameRecord
    <2>. QED  BY <2>1, YieldOrReturnType
  <1>2. next.last = fr.last /\ next.step = fr.step /\ next.from = fr.from
    BY DEF Gen!YieldOrReturn, FrameRecord
  <1>3. ASSUME Gen!Proper(next), next.state = "yield"
        PROVE  /\ next.first < next.last /\ next.m_CurrentValue = next.first
               /\ next.yields >= 1
               /\ next.first = next.from + (next.yields - 1) * next.step
    <2>1. Gen!Proper(fr) /\ fr.first = fr.from /\ fr.yields = 0
      BY <1>2, <1>3 DEF InSequence, Gen!Proper
    <2>2. next.first = fr.first /\ next.m_CurrentValue = fr.first /\ fr.first < fr.last
      BY <1>3 DEF Gen!YieldOrReturn, FrameRecord
    <2>3. next.yields = 1
      BY <1>3, <2>1, LibraryAssumption DEF Gen!YieldOrReturn, FrameRecord
    <2>4. (next.yields - 1) * next.step = 0 /\ fr.from \in Int
      BY <1>2, <2>3, SMT DEF FrameRecord, Elements
    <2>. QED  BY <1>2, <2>1, <2>2, <2>3, <2>4
  <1>4. ASSUME Gen!Proper(next), next.state = "final"
        PROVE  next.yields = Gen!Cardinality(Gen!InRange(next))
    <2>1. Gen!Proper(fr) /\ fr.first = fr.from /\ fr.yields = 0
      BY <1>2, <1>4 DEF InSequence, Gen!Proper
    <2>2. next.yields = 0 /\ ~(fr.from < fr.last)
      BY <1>4, <2>1 DEF Gen!YieldOrReturn, FrameRecord
    <2>3. \A k \in 0..MaxI : k * fr.step >= 0
      BY LibraryAssumption, SMT DEF FrameRecord, Elements
    <2>4. \A k \in 0..MaxI : k * fr.step \in Int
      BY LibraryAssumption, SMT DEF FrameRecord, Elements
    <2>5. Gen!InRange(next) = 0..(0 - 1)
      BY <1>2, <2>2, <2>3, <2>4, LibraryAssumption DEF Gen!InRange, FrameRecord, Elements
    <2>. QED  BY <2>2, <2>5, CountOfElements
  <1>. HIDE DEF next
  <1>5. Resumed(next)
    BY <1>1, <1>3, <1>4 DEF Resumed, InSequence
  <1>. QED  BY <1>5 DEF next

LEMMA NextElement ==
  ASSUME NEW fr \in FrameRecord, fr.state = "yield", InSequence(fr)
  PROVE  Resumed(Gen!YieldOrReturn(fr, (fr.first + fr.step) % (MaxI + 1)))
  <1> DEFINE value == (fr.first + fr.step) % (MaxI + 1)
             next == Gen!YieldOrReturn(fr, value)
  <1>1. value \in Elements
    <2>1. MaxI + 1 \in Nat \ {0} /\ fr.first + fr.step \in Nat
      BY LibraryAssumption DEF FrameRecord, Elements
    <2>. QED  BY <2>1, LibraryAssumption DEF Elements
  <1>. HIDE DEF value
  <1>2. next \in FrameRecord /\ next.state \in {"yield", "final"}
    BY <1>1, YieldOrReturnType
  <1>3. next.last = fr.last /\ next.step = fr.step /\ next.from = fr.from
    BY DEF Gen!YieldOrReturn, FrameRecord
  <1>4. ASSUME Gen!Proper(next)
        PROVE  /\ fr.first \in Nat /\ fr.step \in Nat /\ fr.from \in Nat /\ fr.yields \in Nat
               /\ fr.last \in Nat /\ fr.last <= MaxI
               /\ fr.step > 0 /\ fr.first < fr.last /\ fr.yields >= 1
               /\ fr.first = fr.from + (fr.yields - 1) * fr.step
               /\ value = fr.from + fr.yields * fr.step
    <2>1. /\ fr.first \in Nat /\ fr.step \in Nat /\ fr.from \in Nat /\ fr.yields \in Nat
          /\ fr.last \in Nat /\ fr.last <= MaxI
      BY LibraryAssumption DEF FrameRecord, Elements
    <2>2. /\ fr.step > 0 /\ fr.last + fr.step <= MaxI + 1 /\ fr.first < fr.last /\ fr.yields >= 1
          /\ fr.first = fr.from + (fr.yields - 1) * fr.step
      BY <1>3, <1>4 DEF InSequence, Gen!Proper
    <2>3. fr.first + fr.step \in Nat /\ fr.first + fr.step < MaxI + 1
      BY <2>1, <2>2, LibraryAssumption
    <2>4. value = fr.first + fr.step
      BY <2>3, NoOverflow DEF value
    <2>5. (fr.yields - 1) * fr.step + fr.step = fr.yields * fr.step
      BY <2>1, OneMoreStep
    <2>6. (fr.yields - 1) * fr.step \in Int /\ fr.yields * fr.step \in Int
      BY <2>1, SMT
    <2>7. value = fr.from + fr.yields * fr.step
      BY <2>1, <2>2, <2>4, <2>5, <2>6
    <2>. QED  BY <2>1, <2>2, <2>7
  <1>5. ASSUME Gen!Proper(next), next.state = "yield"
        PROVE  /\ next.first < next.last /\ next.m_CurrentValue = next.first
               /\ next.yields >= 1
               /\ next.first = next.from + (next.yields - 1) * next.step
    <2>1. value < fr.last /\ next.first = value /\ next.m_CurrentValue = value
      BY <1>5 DEF Gen!YieldOrReturn, FrameRecord
    <2>2. fr.yields * fr.step >= fr.yields /\ fr.yields * fr.step \in Nat
      BY <1>4, <1>5, StepsAreLong, SMT
    <2>3. fr.yields <= MaxI
      BY <1>4, <1>5, <2>1, <2>2, LibraryAssumption
    <2>4. next.yields = fr.yields + 1
      BY <1>5, <2>1, <2>3 DEF Gen!YieldOrReturn, FrameRecord
    <2>5. next.yields - 1 = fr.yields
      BY <1>4, <1>5, <2>4
    <2>. QED  BY <1>3, <1>4, <1>5, <2>1, <2>4, <2>5
  <1>6. ASSUME Gen!Proper(next), next.state = "final"
        PROVE  next.yields = Gen!Cardinality(Gen!InRange(next))
    <2>1. ~(value < fr.last) /\ next.yields = fr.yields
      BY <1>6 DEF Gen!YieldOrReturn, FrameRecord
    <2>2. ASSUME NEW k \in 0..MaxI
          PROVE  fr.from + k * fr.step < fr.last <=> k <= fr.yields - 1
      <3>1. k \in Nat /\ k * fr.step \in Int /\ fr.yields * fr.step \in Int
            /\ (fr.yields - 1) * fr.step \in Int /\ fr.yields - 1 \in Nat
        BY <1>4, <1>6, <2>2, LibraryAssumption, SMT
      <3>2. CASE k <= fr.yields - 1
        <4>1. k * fr.step <= (fr.yields - 1) * fr.step
          BY <1>4, <1>6, <3>1, <3>2, StepsAreMonotonic
        <4>. QED  BY <1>4, <1>6, <3>1, <3>2, <4>1
      <3>3. CASE fr.yields <= k
        <4>1. fr.yields * fr.step <= k * fr.step
          BY <1>4, <1>6, <3>1, <3>3, StepsAreMonotonic
        <4>. QED  BY <1>4, <1>6, <2>1, <3>1, <3>3, <4>1
      <3>. QED  BY <1>4, <1>6, <3>1, <3>2, <3>3
    <2>3. fr.yields - 1 <= MaxI
      BY LibraryAssumption DEF FrameRecord
    <2>4. Gen!InRange(next) = 0..(fr.yields - 1)
      BY <1>3, <1>4, <1>6, <2>2, <2>3, LibraryAssumption DEF Gen!InRange
    <2>. QED  BY <1>4, <1>6, <2>1, <2>4, CountOfElements
  <1>. HIDE DEF next
  <1>7. Resumed(next)
    BY <1>2, <1>5, <1>6 DEF Resumed, InSequence
  <1>. QED  BY <1>7 DEF next, value

LEMMA ResumesFrame ==
  ASSUME GenInv, NEW f \in Frames, frame[f].state \in {"start", "yield"}
  PROVE  \E fr : Resumed(fr) /\ Gen!Resume(f) = [frame EXCEPT ![f] = fr]
  <1>1. frame[f] \in FrameRecord /\ InSequence(frame[f])
    BY DEF GenInv, GenTypeOK
  <1>2. CASE frame[f].state = "start"
    <2>1. Gen!Resume(f) = [frame EXCEPT ![f] = Gen!YieldOrReturn(frame[f], frame[f].first)]
      BY <1>2 DEF Gen!Resume
    <2>. QED  BY <1>1, <1>2, <2>1, FirstElement
  <1>3. CASE frame[f].state = "yield"
    <2>1. Gen!Resume(f) = [frame EXCEPT ![f] =
            Gen!YieldOrReturn(frame[f], (frame[f].first + frame[f].step) % (MaxI + 1))]
      BY <1>3 DEF Gen!Resume
    <2>. QED  BY <1>1, <1>3, <2>1, NextElement
  <1>. QED  BY <1>2, <1>3

-----------------------------------------------------------------------------
(* The steps of the generators and of the loop. *)

(* frame' has the types and the sequences of GenInv, and the states of `state`. *)
FramesAre(table, state) ==
  /\ table \in [Frames -> FrameRecord]
  /\ \A f \in Frames : InSequence(table[f]) /\ table[f].state = state[f]

(* The frame that a Generator owns is live, and destroyed once. *)
LEMMA DestroysItsFrame ==
  ASSUME GenInv, NEW g \in Generators
  PROVE  FramesAre(Gen!DestroyFrameOf(g),
           [f \in Frames |-> IF f = m_Coroutine[g] THEN "destroyed" ELSE frame[f].state])
  <1>1. frame \in [Frames -> FrameRecord] /\ \A f \in Frames : InSequence(frame[f])
    BY DEF GenInv, GenTypeOK
  <1>2. CASE m_Coroutine[g] = NULL
    BY <1>1, <1>2, LibraryAssumption DEF Gen!DestroyFrameOf, FramesAre
  <1>3. CASE m_Coroutine[g] # NULL
    <2>1. PICK f \in Frames : f = m_Coroutine[g]
      BY <1>3 DEF GenInv, GenTypeOK
    <2>2. Gen!Live(f)
      BY <2>1 DEF GenInv, OwnedOnce
    <2>3. Gen!DestroyFrameOf(g) = [frame EXCEPT ![f].state = "destroyed"]
      BY <1>3, <2>1, <2>2 DEF Gen!DestroyFrameOf
    <2>4. [frame EXCEPT ![f].state = "destroyed"] \in [Frames -> FrameRecord]
      BY <1>1 DEF FrameRecord
    <2>5. [frame EXCEPT ![f].state = "destroyed"][f].state = "destroyed"
      BY <1>1 DEF FrameRecord
    <2>6. InSequence([frame EXCEPT ![f].state = "destroyed"][f])
      BY <2>5 DEF InSequence
    <2>. QED  BY <1>1, <2>1, <2>3, <2>4, <2>5, <2>6 DEF FramesAre
  <1>. QED  BY <1>2, <1>3

LEMMA CallRangeKeeps ==
  ASSUME GenInv, NEW g \in Generators, NEW first \in Elements, NEW last \in Elements,
         NEW step \in Elements, Gen!CallRange(g, first, last, step)
  PROVE  GenInv'
  <1>. USE DEF GenInv
  <1> DEFINE new == [Gen!NoFrame EXCEPT !.state = "start", !.first = first, !.last = last,
                                        !.step = step, !.from = first]
  <1>1. PICK f \in Frames : /\ frame[f].state = "free"
                            /\ frame' = [frame EXCEPT ![f] = new]
                            /\ m_Coroutine' = [m_Coroutine EXCEPT ![g] = f]
    BY DEF Gen!CallRange
  <1>2. g \notin alive /\ alive' = alive \cup {g} /\ iter' = iter
    BY DEF Gen!CallRange
  <1>3. new \in FrameRecord /\ new.state = "start" /\ InSequence(new)
    <2>1. Gen!NoFrame \in FrameRecord /\ Gen!NoFrame.yields = 0
      BY LibraryAssumption DEF Gen!NoFrame, FrameRecord, Elements
    <2>2. /\ new.state = "start" /\ new.first = first /\ new.from = first
          /\ new.yields = 0
      BY <2>1 DEF FrameRecord
    <2>3. new \in FrameRecord
      BY <2>1 DEF FrameRecord
    <2>. HIDE DEF new
    <2>. QED  BY <2>2, <2>3 DEF InSequence
  <1>. HIDE DEF new
  <1>4. GenTypeOK' /\ \A e \in Frames : InSequence(frame'[e])
    BY <1>1, <1>2, <1>3 DEF GenTypeOK
  <1>5. \A e \in Frames : frame'[e].state = IF e = f THEN "start" ELSE frame[e].state
    BY <1>1, <1>3 DEF GenTypeOK
  <1>6. \A h \in Generators : m_Coroutine'[h] = IF h = g THEN f ELSE m_Coroutine[h]
    BY <1>1 DEF GenTypeOK
  <1>7. m_Coroutine[g] = NULL
    BY <1>2 DEF OwnedOnce
  <1>8. OwnedOnce'
    BY <1>1, <1>2, <1>5, <1>6, <1>7, LibraryAssumption DEF OwnedOnce, Gen!Live
  <1>9. LoopsOverAFrame'
    BY <1>1, <1>2, <1>5, LibraryAssumption DEF GenTypeOK, LoopsOverAFrame
  <1>. QED  BY <1>4, <1>8, <1>9

LEMMA MoveConstructKeeps ==
  ASSUME GenInv, NEW g \in Generators, NEW h \in Generators, Gen!MoveConstruct(g, h)
  PROVE  GenInv'
  <1>. USE DEF GenInv
  <1>1. /\ g \notin alive /\ h \in alive /\ alive' = alive \cup {g}
        /\ m_Coroutine' = [m_Coroutine EXCEPT ![g] = m_Coroutine[h], ![h] = NULL]
        /\ UNCHANGED <<frame, iter>>
    BY DEF Gen!MoveConstruct
  <1>2. GenTypeOK' /\ LoopsOverAFrame' /\ \A f \in Frames : InSequence(frame'[f])
    BY <1>1 DEF GenTypeOK, LoopsOverAFrame
  <1>3. OwnedOnce'
    BY <1>1, LibraryAssumption DEF GenTypeOK, OwnedOnce, Gen!Live
  <1>. QED  BY <1>2, <1>3

(* The frame that is dropped is not the one that the loop is in. *)
LEMMA DropKeepsLoop ==
  ASSUME GenInv, NEW g \in Generators, Gen!MayDrop(g),
         \A f \in Frames : frame'[f].state = IF f = m_Coroutine[g] THEN "destroyed"
                                                                   ELSE frame[f].state,
         iter' = iter
  PROVE  LoopsOverAFrame'
  BY LibraryAssumption DEF GenInv, GenTypeOK, LoopsOverAFrame, Gen!MayDrop

LEMMA MoveAssignKeeps ==
  ASSUME GenInv, NEW g \in Generators, NEW h \in Generators, Gen!MoveAssign(g, h)
  PROVE  GenInv'
  <1>. USE DEF GenInv
  <1>1. /\ g \in alive /\ h \in alive /\ g # h /\ Gen!MayDrop(g)
        /\ m_Coroutine' = [m_Coroutine EXCEPT ![g] = m_Coroutine[h], ![h] = NULL]
        /\ UNCHANGED <<alive, iter>>
    BY DEF Gen!MoveAssign
  <1>2. /\ frame' \in [Frames -> FrameRecord] /\ \A f \in Frames : InSequence(frame'[f])
        /\ \A f \in Frames : frame'[f].state = IF f = m_Coroutine[g] THEN "destroyed"
                                                                     ELSE frame[f].state
    BY DestroysItsFrame DEF Gen!MoveAssign, FramesAre
  <1>3. GenTypeOK'
    BY <1>1, <1>2 DEF GenTypeOK
  <1>4. LoopsOverAFrame'
    BY <1>1, <1>2, DropKeepsLoop
  <1>5. \A e \in Generators : m_Coroutine'[e] = CASE e = h -> NULL
                                                  [] e = g -> m_Coroutine[h]
                                                  [] OTHER -> m_Coroutine[e]
    BY <1>1 DEF GenTypeOK
  <1>6. OwnedOnce'
    BY <1>1, <1>2, <1>5, LibraryAssumption DEF GenTypeOK, OwnedOnce, Gen!Live
  <1>. QED  BY <1>2, <1>3, <1>4, <1>6

LEMMA DestroyGeneratorKeeps ==
  ASSUME GenInv, NEW g \in Generators, Gen!Destroy(g) PROVE GenInv'
  <1>. USE DEF GenInv
  <1>1. /\ Gen!MayDrop(g)
        /\ m_Coroutine' = [m_Coroutine EXCEPT ![g] = NULL]
        /\ alive' = alive \ {g} /\ iter' = iter
    BY DEF Gen!Destroy
  <1>2. /\ frame' \in [Frames -> FrameRecord] /\ \A f \in Frames : InSequence(frame'[f])
        /\ \A f \in Frames : frame'[f].state = IF f = m_Coroutine[g] THEN "destroyed"
                                                                     ELSE frame[f].state
    BY DestroysItsFrame DEF Gen!Destroy, FramesAre
  <1>3. GenTypeOK'
    BY <1>1, <1>2 DEF GenTypeOK
  <1>4. LoopsOverAFrame'
    BY <1>1, <1>2, DropKeepsLoop
  <1>5. OwnedOnce'
    BY <1>1, <1>2, LibraryAssumption DEF GenTypeOK, OwnedOnce, Gen!Live
  <1>. QED  BY <1>2, <1>3, <1>4, <1>5

(* A frame that is resumed keeps its owner; the loop is in it, and not in its body. *)
LEMMA ResumingKeeps ==
  ASSUME GenInv, NEW f \in Frames, frame[f].state \in {"start", "yield"},
         frame' = Gen!Resume(f), UNCHANGED <<alive, m_Coroutine>>,
         iter'.coroutine \in {f, NULL}, iter' \in [at : {"compare"}, coroutine : Frames \cup {NULL}]
  PROVE  GenInv'
  <1>. USE DEF GenInv
  <1>1. PICK fr : Resumed(fr) /\ frame' = [frame EXCEPT ![f] = fr]
    BY ResumesFrame
  <1>2. fr \in FrameRecord /\ fr.state \in {"yield", "final"} /\ InSequence(fr)
    BY <1>1 DEF Resumed
  <1>3. GenTypeOK' /\ \A e \in Frames : InSequence(frame'[e])
    BY <1>1, <1>2 DEF GenTypeOK
  <1>4. \A e \in Frames : frame'[e].state = IF e = f THEN fr.state ELSE frame[e].state
    BY <1>1 DEF GenTypeOK
  <1>5. OwnedOnce'
    BY <1>2, <1>4 DEF OwnedOnce, Gen!Live
  <1>6. LoopsOverAFrame'
    BY <1>2, <1>4 DEF LoopsOverAFrame
  <1>. QED  BY <1>3, <1>5, <1>6

LEMMA BeginKeeps ==
  ASSUME GenInv, NEW g \in Generators, Gen!Begin(g) PROVE GenInv'
  <1>. USE DEF GenInv
  <1>1. /\ iter' = [at |-> "compare", coroutine |-> m_Coroutine[g]]
        /\ UNCHANGED <<alive, m_Coroutine>>
    BY DEF Gen!Begin
  <1>2. CASE m_Coroutine[g] = NULL
    <2>1. frame' = frame
      BY <1>2 DEF Gen!Begin
    <2>. QED  BY <1>1, <1>2, <2>1 DEF GenTypeOK, OwnedOnce, LoopsOverAFrame, Gen!Live
  <1>3. CASE m_Coroutine[g] # NULL
    <2>1. PICK f \in Frames : f = m_Coroutine[g]
      BY <1>3 DEF GenTypeOK
    <2>2. frame[f].state # "final" /\ frame' = Gen!Resume(f)
      BY <1>3, <2>1 DEF Gen!Begin
    <2>3. frame[f].state \in {"start", "yield"}
      BY <2>1, <2>2 DEF OwnedOnce, Gen!Live
    <2>. QED  BY <1>1, <2>1, <2>2, <2>3, ResumingKeeps
  <1>. QED  BY <1>2, <1>3

LEMMA IncrementKeeps ==
  ASSUME GenInv, Gen!Increment PROVE GenInv'
  <1>1. PICK f \in Frames : f = iter.coroutine /\ frame[f].state = "yield"
    BY DEF Gen!Increment, GenInv, GenTypeOK, LoopsOverAFrame
  <1>2. /\ frame' = Gen!Resume(f) /\ UNCHANGED <<alive, m_Coroutine>>
        /\ iter' = [at |-> "compare",
                    coroutine |-> IF frame'[f].state = "final" THEN NULL ELSE f]
    BY <1>1 DEF Gen!Increment
  <1>. QED  BY <1>1, <1>2, ResumingKeeps

LEMMA CompareKeeps ==
  ASSUME GenInv, Gen!Compare \/ Gen!Break PROVE GenInv'
  <1>. USE DEF GenInv
  <1>1. UNCHANGED <<frame, alive, m_Coroutine>>
    BY DEF Gen!Compare, Gen!Break
  <1>2. \/ iter' = [at |-> "none", coroutine |-> NULL]
        \/ /\ iter' = [iter EXCEPT !.at = "body"]
           /\ iter.coroutine # NULL /\ frame[iter.coroutine].state # "final"
    BY DEF Gen!Compare, Gen!Break, Gen!AtEnd
  <1>3. GenTypeOK' /\ \A f \in Frames : InSequence(frame'[f])
    BY <1>1, <1>2 DEF GenTypeOK
  <1>4. LoopsOverAFrame'
    BY <1>1, <1>2 DEF GenTypeOK, LoopsOverAFrame
  <1>5. OwnedOnce'
    BY <1>1 DEF OwnedOnce, Gen!Live
  <1>. QED  BY <1>3, <1>4, <1>5

LEMMA GeneratorsNext == GenInv /\ [Gen!Next]_generators => GenInv'
  <1>. SUFFICES ASSUME GenInv, [Gen!Next]_generators PROVE GenInv'
    OBVIOUS
  <1>1. ASSUME NEW g \in Generators, NEW r \in Ranges, Gen!CallRange(g, r[1], r[2], r[3])
        PROVE  GenInv'
    <2>1. r[1] \in Elements /\ r[2] \in Elements /\ r[3] \in Elements
      BY LibraryAssumption DEF Elements
    <2>. QED  BY <1>1, <2>1, CallRangeKeeps
  <1>2. ASSUME NEW g \in Generators, NEW n \in UpTos, Gen!CallIota(g, n) PROVE GenInv'
    <2>1. 0 \in Elements /\ n \in Elements /\ 1 \in Elements
      BY LibraryAssumption DEF Elements
    <2>. QED  BY <1>2, <2>1, CallRangeKeeps DEF Gen!CallIota
  <1>3. CASE UNCHANGED generators
    BY <1>3 DEF generators, GenInv, GenTypeOK, OwnedOnce, LoopsOverAFrame, Gen!Live
  <1>4. CASE Gen!Next
    BY <1>1, <1>2, <1>4, MoveConstructKeeps, MoveAssignKeeps, DestroyGeneratorKeeps, BeginKeeps,
       IncrementKeeps, CompareKeeps DEF Gen!Next, Gen!LoopStep
  <1>. QED  BY <1>3, <1>4

(* The inductive invariant of the generators. *)
THEOREM GeneratorsInductive == LibrarySpec => []GenInv
  <1>1. LibraryInit => GenInv
    BY PartsOfInit, GeneratorsInit
  <1>2. GenInv /\ [LibraryNext]_libraryVars => GenInv'
    BY PartsOfNext, GeneratorsNext
  <1>. QED  BY <1>1, <1>2, PTL DEF LibrarySpec

(***************************************************************************)
(* Every coroutine frame is destroyed once, by the one Generator that owns *)
(* it, and none is resumed after its end or its destruction, however the   *)
(* generators are moved while a loop is inside.                            *)
(***************************************************************************)
THEOREM FrameHasOneOwnerHolds == LibrarySpec => []FrameHasOneOwner
  <1>1. GenInv => FrameHasOneOwner
    <2>. SUFFICES ASSUME GenInv PROVE Gen!FrameHasOneOwner
      BY DEF FrameHasOneOwner
    <2>1. ASSUME NEW f \in Frames
          PROVE  Gen!Cardinality({g \in alive : m_Coroutine[g] = f}) = IF Gen!Live(f) THEN 1 ELSE 0
      <3>1. \A a, b \in {g \in alive : m_Coroutine[g] = f} : a = b
        BY DEF GenInv, GenTypeOK, OwnedOnce
      <3>2. Gen!Live(f) <=> {g \in alive : m_Coroutine[g] = f} # {}
        BY LibraryAssumption DEF GenInv, GenTypeOK, OwnedOnce
      <3>. QED  BY <3>1, <3>2, CardinalityOfOwners
    <2>2. iter.coroutine # NULL => Gen!Live(iter.coroutine)
      BY DEF GenInv, LoopsOverAFrame, Gen!Live
    <2>. QED  BY <2>1, <2>2 DEF GenInv, OwnedOnce, Gen!FrameHasOneOwner
  <1>. QED  BY <1>1, GeneratorsInductive, PTL

(***************************************************************************)
(* A range whose sums do not overflow yields all its elements, in order,   *)
(* and then ends, for any unsigned type.                                   *)
(***************************************************************************)
THEOREM YieldsTheSequenceHolds == LibrarySpec => []YieldsTheSequence
  <1>1. GenInv => YieldsTheSequence
    <2>. SUFFICES ASSUME GenInv, NEW f \in Frames, Gen!Proper(frame[f])
                  PROVE  /\ frame[f].state = "yield" =>
                              /\ frame[f].yields - 1 \in Gen!InRange(frame[f])
                              /\ frame[f].m_CurrentValue =
                                   frame[f].from + (frame[f].yields - 1) * frame[f].step
                         /\ frame[f].state = "final" =>
                              frame[f].yields = Gen!Cardinality(Gen!InRange(frame[f]))
      BY DEF YieldsTheSequence, Gen!YieldsTheSequence
    <2>1. frame[f] \in FrameRecord /\ InSequence(frame[f])
      BY DEF GenInv, GenTypeOK
    <2>2. frame[f].state = "yield" => frame[f].yields - 1 \in 0..MaxI
      BY <2>1, LibraryAssumption DEF FrameRecord, InSequence
    <2>. QED  BY <2>1, <2>2 DEF InSequence, Gen!InRange
  <1>. QED  BY <1>1, GeneratorsInductive, PTL

=============================================================================
