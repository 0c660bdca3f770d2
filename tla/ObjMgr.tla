------------------------------ MODULE ObjMgr ------------------------------
(***************************************************************************)
(* front-end/asg/Obj.hpp and Obj.cpp: the objects of the ASG, the ring     *)
(* that their __next__ pointers form, and the mark-sweep collection        *)
(* Obj::Mgr::gc(), one visit of gc_mark_dfs and one turn of the sweep's    *)
(* loop at a time.  __next__ is a pointer whose two low bits are flags:    *)
(* bit 0 is set by gc, bit 1 by Obj::Walked.                               *)
(*                                                                         *)
(* The C++ code that uses the objects is the mutator: between two          *)
(* collections it may hold any object, and during one it holds none but    *)
(* the root, as the warning on gc() demands and main.cpp does.             *)
(*                                                                         *)
(* A definition X_Y is X with the slip Y, a variant no action uses.        *)
(***************************************************************************)
EXTENDS Naturals, Sequences, FiniteSets, ObjGraph
LOCAL INSTANCE Functions

CONSTANTS
  Mgr,        \* the manager, itself an object of the ring
  Fields,     \* the fields in the order in which __mark__ passes them
  MaxWalks    \* bound: the Obj::Walked guards alive at once

ASSUME ObjMgrAssumption ==
  /\ Mgr \notin Obj /\ Mgr # Nil
  /\ IsFiniteSet(Obj)
  /\ Fields \in Seq(Field) /\ \A f \in Field : \E i \in DOMAIN Fields : Fields[i] = f
  /\ MaxWalks \in Nat

VARIABLES
  alive,    \* the addresses at which an object is
  next,     \* __next__ : [to, mark (bit 0), walk (bit 1)]
  refs,     \* the fields of the objects
  mRoot,
  calls,    \* the calls of gc_mark_dfs: [obj, todo: what is left to mark]
  here,     \* the local of gc()
  phase,    \* of gc(): "run" outside of it, "mark", "sweep"
  walks,    \* the objects of the guards alive, innermost last
  aborted   \* the ASSERT of a guard failed

vars == <<alive, next, refs, mRoot, calls, here, phase, walks, aborted>>
gcVars == <<calls, here, phase>>

Node == Obj \cup {Mgr}
Unlinked == [to |-> Mgr, mark |-> FALSE, walk |-> FALSE]

Init ==
  /\ alive = {}
  /\ next = [o \in Node |-> Unlinked]
  /\ refs = [o \in Obj |-> NoRefs]
  /\ mRoot = Nil
  /\ calls = <<>>
  /\ here = Mgr
  /\ phase = "run"
  /\ walks = <<>>
  /\ aborted = FALSE

-----------------------------------------------------------------------------
(* The mutator. *)

Running == phase = "run" /\ ~aborted

\* The new object takes the manager's __next__, the manager points to it.
Linked_Swapped(o) ==
  LET first == [next EXCEPT ![Mgr].to = o] IN [first EXCEPT ![o] = first[Mgr]]
Linked(o) == [next EXCEPT ![o] = next[Mgr], ![Mgr].to = o]

Make(o) ==
  /\ Running /\ o \notin alive
  /\ alive' = alive \cup {o}
  /\ next' = Linked(o)
  /\ UNCHANGED <<refs, mRoot, walks, aborted, gcVars>>

Assign(o, f, p) ==
  /\ Running /\ o \in alive /\ p \in alive \cup {Nil}
  /\ refs' = [refs EXCEPT ![o][f] = p]
  /\ UNCHANGED <<alive, next, mRoot, walks, aborted, gcVars>>

SetRoot(p) ==
  /\ Running /\ p \in alive \cup {Nil}
  /\ mRoot' = p
  /\ UNCHANGED <<alive, next, refs, walks, aborted, gcVars>>

\* A traversal goes from the root along the fields; it asserts that the object
\* is not one it is in the middle of.
Walk(o) ==
  /\ Running /\ o \in alive
  /\ IF walks = <<>> THEN o = mRoot ELSE \E f \in Field : o = refs[walks[Len(walks)]][f]
  /\ IF next[o].walk
     THEN aborted' = TRUE /\ UNCHANGED <<next, walks>>
     ELSE /\ Len(walks) < MaxWalks
          /\ next' = [next EXCEPT ![o].walk = TRUE]
          /\ walks' = Append(walks, o)
          /\ UNCHANGED aborted
  /\ UNCHANGED <<alive, refs, mRoot, gcVars>>

Unwalk ==
  /\ Running /\ walks # <<>>
  /\ next' = [next EXCEPT ![walks[Len(walks)]].walk = FALSE]
  /\ walks' = SubSeq(walks, 1, Len(walks) - 1)
  /\ UNCHANGED <<alive, refs, mRoot, aborted, gcVars>>

-----------------------------------------------------------------------------
(* gc(). *)

Frame(o) == [obj |-> o, todo |-> [i \in DOMAIN Fields |-> refs[o][Fields[i]]]]
Top == calls[Len(calls)]

Gc ==
  /\ Running /\ walks = <<>>
  /\ phase' = "mark"
  /\ next' = [next EXCEPT ![Mgr].mark = TRUE]
  /\ calls' = <<[obj |-> Mgr, todo |-> <<mRoot>>]>>
  /\ UNCHANGED <<alive, refs, mRoot, here, walks, aborted>>

\* The innermost gc_mark_dfs calls mark for its next field: nothing to do for
\* nullptr and for a marked object, otherwise mark it, then its fields.
Marked_Late(o) == next
Marked(o) == [next EXCEPT ![o].mark = TRUE]
Visited_FirstOnly(o) == [Frame(o) EXCEPT !.todo = SubSeq(@, 1, 1)]
Visited(o) == Frame(o)

MarkField ==
  /\ phase = "mark" /\ calls # <<>> /\ Top.todo # <<>>
  /\ LET o == Head(Top.todo)
         rest == [calls EXCEPT ![Len(calls)].todo = Tail(@)]
     IN IF o = Nil \/ next[o].mark
        THEN calls' = rest /\ UNCHANGED next
        ELSE /\ next' = Marked(o)
             /\ calls' = Append(rest, Visited(o))
  /\ UNCHANGED <<alive, refs, mRoot, here, phase, walks, aborted>>

MarkReturn ==
  /\ phase = "mark" /\ calls # <<>> /\ Top.todo = <<>>
  /\ calls' = SubSeq(calls, 1, Len(calls) - 1)
  /\ UNCHANGED <<alive, next, refs, mRoot, here, phase, walks, aborted>>

MarkEnd ==
  /\ phase = "mark" /\ calls = <<>>
  /\ phase' = "sweep"
  /\ here' = Mgr
  /\ UNCHANGED <<alive, next, refs, mRoot, calls, walks, aborted>>

\* A turn of the loop first unmarks here.
Unmarked_Not == next
Unmarked == [next EXCEPT ![here].mark = FALSE]

SweepEnd ==
  /\ phase = "sweep" /\ next[here].to = Mgr
  /\ next' = Unmarked
  /\ phase' = "run"
  /\ UNCHANGED <<alive, refs, mRoot, calls, here, walks, aborted>>

\* After a deletion here stays: the object that took the place of the deleted
\* one is looked at in the next turn.
HereAfterDelete_Next(o) == next[o].to
HereAfterDelete(o) == here

SweepDelete ==
  /\ phase = "sweep"
  /\ LET o == next[here].to
     IN /\ o # Mgr /\ ~next[o].mark
        /\ next' = [Unmarked EXCEPT ![here] = next[o], ![o] = Unlinked]
        /\ refs' = [refs EXCEPT ![o] = NoRefs]
        /\ alive' = alive \ {o}
        /\ here' = HereAfterDelete(o)
  /\ UNCHANGED <<mRoot, calls, phase, walks, aborted>>

HereAfterKeep_Stuck(o) == here
HereAfterKeep(o) == o

SweepKeep ==
  /\ phase = "sweep"
  /\ LET o == next[here].to
     IN /\ o # Mgr /\ next[o].mark
        /\ next' = Unmarked
        /\ here' = HereAfterKeep(o)
  /\ UNCHANGED <<alive, refs, mRoot, calls, phase, walks, aborted>>

GcStep == MarkField \/ MarkReturn \/ MarkEnd \/ SweepEnd \/ SweepDelete \/ SweepKeep

Next ==
  \/ \E o \in Obj : Make(o)
  \/ \E o \in Obj, f \in Field, p \in Ref : Assign(o, f, p)
  \/ \E p \in Ref : SetRoot(p)
  \/ \E o \in Obj : Walk(o)
  \/ Unwalk
  \/ Gc \/ GcStep

Spec == Init /\ [][Next]_vars

-----------------------------------------------------------------------------
(* Properties. *)

TypeOK ==
  /\ alive \subseteq Obj
  /\ next \in [Node -> [to : Node, mark : BOOLEAN, walk : BOOLEAN]]
  /\ refs \in [Obj -> [Field -> Ref]]
  /\ mRoot \in Ref
  /\ calls \in Seq([obj : Node, todo : Seq(Ref)])
  /\ here \in Node
  /\ phase \in {"run", "mark", "sweep"}
  /\ walks \in Seq(Obj)
  /\ aborted \in BOOLEAN

\* The ring: from the manager, __next__ leads through every object once and
\* back, between any two steps of the collector too.
Pos == 0 .. Cardinality(alive) + 1
Ring[k \in Pos] == IF k = 0 THEN Mgr ELSE next[Ring[k - 1]].to
RingIsAlive ==
  /\ {Ring[k] : k \in Pos \ {0}} = alive \cup {Mgr}
  /\ Ring[Cardinality(alive) + 1] = Mgr

\* Nothing that the root reaches is deleted, and no field of what it reaches is
\* left pointing to a deleted object: between collections the mutator meets no
\* freed memory.
NoDangling == Reached(refs, mRoot) \subseteq alive

\* Whatever cycles the objects form, no object is in two calls: the depth of the
\* recursion is at most the number of objects and the manager.
CallsAreDistinct == \A i, j \in DOMAIN calls : calls[i].obj = calls[j].obj => i = j

\* The flags are clear when the next collection or traversal wants them: a mark
\* that stayed would hide the object's fields from the next collection.
FlagsAreClear ==
  /\ phase = "run" => \A o \in Node : ~next[o].mark
  /\ {o \in Node : next[o].walk} = {walks[i] : i \in DOMAIN walks}

\* gc() implements the collection of Heap, which happens when the marking ends:
\* what the sweep has yet to delete is gone already.
Kept == IF phase = "sweep" THEN Reached(refs, mRoot) ELSE alive
H == INSTANCE Heap WITH live <- Kept, root <- mRoot,
                        refs <- [o \in Obj |-> IF o \in Kept THEN refs[o] ELSE NoRefs]
ImplementsHeap == H!Spec

\* A collection returns, on every graph and every ring: it is never stuck, and
\* each of its steps leaves less to do.  In the marking that is a visit for each
\* object not yet marked and what the calls still have to follow, in the sweep
\* the objects of the ring behind here.
OpenFields == SumFunction([i \in DOMAIN calls |-> Len(calls[i].todo) + 1])
Unmarkeds == Cardinality({o \in Obj : ~next[o].mark})
AtHere == CHOOSE k \in 0 .. Cardinality(alive) : Ring[k] = here
ToMark == OpenFields + Unmarkeds * (Len(Fields) + 1)
ToSweep == Cardinality(alive) - AtHere
GcWork ==
  CASE phase = "mark"  -> ToMark + Cardinality(Obj) + 2
    [] phase = "sweep" -> ToSweep + 1
    [] phase = "run"   -> 0
GcReturns ==
  /\ [](phase # "run" => ENABLED GcStep)
  /\ [][phase # "run" => GcWork' < GcWork]_vars
=============================================================================
