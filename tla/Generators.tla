----------------------------- MODULE Generators -----------------------------
(***************************************************************************)
(* Generator, iota and range of src/src/job/co_generator.{h,inl}: a        *)
(* coroutine that yields values, the move-only object that owns its frame, *)
(* and the iterator of a range-based for loop, which does not.             *)
(*                                                                         *)
(* One thread creates, moves, assigns and destroys generators, and loops   *)
(* over one of them at a time; the body of the loop may do all this, too,  *)
(* but not destroy the frame it loops over.  The elements are unsigned     *)
(* integers of a type with MaxI as its largest value.                      *)
(***************************************************************************)
EXTENDS Integers, FiniteSets

CONSTANTS
  Generators, \* the Generator objects
  Frames,     \* the coroutine frames; each is allocated once
  Ranges,     \* the <<first, last, step>> that range is called with
  UpTos,      \* the arguments of iota
  MaxI,       \* the largest value of the type I
  NULL        \* nullptr and nullopt

VARIABLES
  frame,       \* the state of each frame, its locals and its promise
  alive,       \* the Generator objects within their lifetime
  m_Coroutine, \* the frame that each of them owns, or NULL
  iter         \* the loop: its next step and the m_Coroutine of its iterator

vars == <<frame, alive, m_Coroutine, iter>>

NoFrame == [state |-> "free", first |-> 0, last |-> 0, step |-> 0,
            m_CurrentValue |-> NULL, from |-> 0, yields |-> 0]

Init ==
  /\ frame = [f \in Frames |-> NoFrame]
  /\ alive = {}
  /\ m_Coroutine = [g \in Generators |-> NULL]
  /\ iter = [at |-> "none", coroutine |-> NULL]
-----------------------------------------------------------------------------
YieldOrReturnInclusive(fr, first) ==
  IF first <= fr.last
    THEN [fr EXCEPT !.state = "yield", !.first = first, !.m_CurrentValue = first,
                    !.yields = IF @ <= MaxI THEN @ + 1 ELSE @]
    ELSE [fr EXCEPT !.state = "final", !.first = first, !.m_CurrentValue = NULL]

(* while (first < last) { co_yield first; first = first + step; } *)
YieldOrReturn(fr, first) ==
  IF first < fr.last
    THEN [fr EXCEPT !.state = "yield", !.first = first, !.m_CurrentValue = first,
                    !.yields = IF @ <= MaxI THEN @ + 1 ELSE @] \* history, bounded
    ELSE [fr EXCEPT !.state = "final", !.first = first, !.m_CurrentValue = NULL]

(* To resume a frame that is not suspended before its end is undefined: "broken". *)
Resume(f) ==
  LET fr == frame[f]
  IN  [frame EXCEPT ![f] =
         CASE fr.state = "start" -> YieldOrReturn(fr, fr.first)
           [] fr.state = "yield" -> YieldOrReturn(fr, (fr.first + fr.step) % (MaxI + 1))
           [] OTHER -> [fr EXCEPT !.state = "broken"]]

Live(f) == frame[f].state \in {"start", "yield", "final"}

(* The frame of g is destroyed, if g has one. *)
DestroyFrameOf(g) ==
  IF m_Coroutine[g] = NULL
    THEN frame
    ELSE [frame EXCEPT ![m_Coroutine[g]].state =
            IF Live(m_Coroutine[g]) THEN "destroyed" ELSE "broken"]

(* The body of the loop keeps the frame it loops over. *)
MayDrop(g) == iter.at = "none" \/ m_Coroutine[g] # iter.coroutine \/ iter.coroutine = NULL

(* A coroutine is called: get_return_object, then initial_suspend. *)
CallRange(g, first, last, step) ==
  /\ g \notin alive
  /\ \E f \in Frames :
       /\ frame[f].state = "free"
       /\ frame' = [frame EXCEPT ![f] =
                      [NoFrame EXCEPT !.state = "start", !.first = first, !.last = last,
                                      !.step = step, !.from = first]]
       /\ m_Coroutine' = [m_Coroutine EXCEPT ![g] = f]
  /\ alive' = alive \cup {g}
  /\ UNCHANGED iter

(* for (I value = 0; value < up_to; ++value) co_yield value; *)
CallIota(g, up_to) == CallRange(g, 0, up_to, 1)

(* Generator(Generator&& h) *)
CopyConstruct(g, h) ==
  /\ g \notin alive /\ h \in alive
  /\ m_Coroutine' = [m_Coroutine EXCEPT ![g] = m_Coroutine[h]]
  /\ alive' = alive \cup {g}
  /\ UNCHANGED <<frame, iter>>

MoveConstruct(g, h) ==
  /\ g \notin alive /\ h \in alive
  /\ m_Coroutine' = [m_Coroutine EXCEPT ![g] = m_Coroutine[h], ![h] = NULL]
  /\ alive' = alive \cup {g}
  /\ UNCHANGED <<frame, iter>>

(* operator = (Generator&& h) *)
MoveAssign(g, h) ==
  /\ {g, h} \subseteq alive
  /\ g # h /\ MayDrop(g)
  /\ frame' = DestroyFrameOf(g)
  /\ m_Coroutine' = [m_Coroutine EXCEPT ![g] = m_Coroutine[h], ![h] = NULL]
  /\ UNCHANGED <<alive, iter>>

Destroy(g) ==
  /\ g \in alive
  /\ MayDrop(g)
  /\ frame' = DestroyFrameOf(g)
  /\ m_Coroutine' = [m_Coroutine EXCEPT ![g] = NULL]
  /\ alive' = alive \ {g}
  /\ UNCHANGED iter
-----------------------------------------------------------------------------
(* for (auto x : g): begin, then comparisons with the sentinel and increments. *)

(* Nobody loops over a generator again that has come to its end. *)
Begin(g) ==
  /\ iter.at = "none"
  /\ g \in alive
  /\ IF m_Coroutine[g] = NULL
       THEN UNCHANGED frame
       ELSE /\ frame[m_Coroutine[g]].state # "final"
            /\ frame' = Resume(m_Coroutine[g])
  /\ iter' = [at |-> "compare", coroutine |-> m_Coroutine[g]]
  /\ UNCHANGED <<alive, m_Coroutine>>

(* operator == (std::default_sentinel_t) *)
NoCoroutine == iter.coroutine = NULL

AtEnd == iter.coroutine = NULL \/ frame[iter.coroutine].state = "final"

Compare ==
  /\ iter.at = "compare"
  /\ iter' = IF AtEnd THEN [at |-> "none", coroutine |-> NULL] ELSE [iter EXCEPT !.at = "body"]
  /\ UNCHANGED <<frame, alive, m_Coroutine>>

Break ==
  /\ iter.at = "body"
  /\ iter' = [at |-> "none", coroutine |-> NULL]
  /\ UNCHANGED <<frame, alive, m_Coroutine>>

(* operator ++ *)
Increment ==
  /\ iter.at = "body"
  /\ frame' = Resume(iter.coroutine)
  /\ iter' = [at |-> "compare",
              coroutine |-> IF frame'[iter.coroutine].state = "final" THEN NULL
                                                                      ELSE iter.coroutine]
  /\ UNCHANGED <<alive, m_Coroutine>>

LoopStep == Compare \/ Increment

Next ==
  \/ \E g \in Generators :
       \/ \E r \in Ranges : CallRange(g, r[1], r[2], r[3])
       \/ \E n \in UpTos : CallIota(g, n)
       \/ \E h \in Generators : MoveConstruct(g, h) \/ MoveAssign(g, h)
       \/ Destroy(g)
       \/ Begin(g)
  \/ LoopStep
  \/ Break

Spec == Init /\ [][Next]_vars
-----------------------------------------------------------------------------
(***************************************************************************)
(* Every frame is destroyed once, by the one Generator that owns it: no    *)
(* frame leaks, none is destroyed twice, and none is resumed after its end *)
(* or after its destruction, though the iterator holds a handle of its own *)
(* that moves of the Generator do not update.                              *)
(***************************************************************************)
FrameHasOneOwner ==
  /\ \A f \in Frames :
       /\ frame[f].state # "broken"
       /\ Cardinality({g \in alive : m_Coroutine[g] = f}) = IF Live(f) THEN 1 ELSE 0
  /\ iter.coroutine # NULL => Live(iter.coroutine)

(* The elements of the range, and whether first + step stays below the limit of I. *)
InRange(fr) == {k \in 0..MaxI : fr.from + k * fr.step < fr.last}
Proper(fr) == fr.step > 0 /\ fr.last + fr.step <= MaxI + 1

(***************************************************************************)
(* A range whose sums do not overflow yields first, first + step, ..., all *)
(* elements below last, once each and in order, and then ends: also when   *)
(* loops over it are left by break and begun again.                        *)
(***************************************************************************)
YieldsTheSequence ==
  \A f \in Frames :
    Live(f) /\ Proper(frame[f]) =>
      LET fr == frame[f]
      IN  /\ fr.state = "yield" =>
               /\ fr.yields - 1 \in InRange(fr)
               /\ fr.m_CurrentValue = fr.from + (fr.yields - 1) * fr.step
          /\ fr.state = "final" => fr.yields = Cardinality(InRange(fr))

(* The thread loops over a range whose sums do not overflow. *)
LoopsProperly ==
  iter.at # "none" /\ (iter.coroutine = NULL \/ Proper(frame[iter.coroutine]))

(* A loop over such a range ends. *)
LoopEnds == LoopsProperly ~> iter.at = "none"
=============================================================================
