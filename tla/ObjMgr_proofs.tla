--------------------------- MODULE ObjMgr_proofs ---------------------------
(***************************************************************************)
(* What holds of ObjMgr for every number of objects and fields, proved     *)
(* with TLAPS: its types, the depth of the recursion of gc_mark_dfs, that  *)
(* nothing reached is deleted, that marks and Walked flags are clear when  *)
(* they must be, that gc() implements the collection of Heap, and that the *)
(* ring comes round.                                                       *)
(***************************************************************************)
EXTENDS ObjMgr, SequenceTheorems, FiniteSetTheorems, WellFoundedInduction, TLAPS

(* The invariant. *)

Link == [to : Node, mark : BOOLEAN, walk : BOOLEAN]
CallOf == [obj : Node, todo : Seq(Ref)]
Chained == alive \cup {Mgr}
Wanted == Reached(refs, mRoot)

\* An address without an object holds what a new object will.
FreeIsClean == \A o \in Obj \ alive : next[o] = Unlinked /\ refs[o] = NoRefs

\* Before the sweep nothing points to an address without an object.
PointersAlive ==
  phase # "sweep" =>
    /\ mRoot \in alive \cup {Nil}
    /\ \A o \in alive : \A f \in Field : refs[o][f] \in alive \cup {Nil}

\* The ring, without counting along it: no two nodes have the same successor, and
\* no set of objects closes to a ring of its own.
RingShape ==
  /\ \A n \in Chained : next[n].to \in Chained
  /\ \A m, n \in Chained : next[m].to = next[n].to => m = n
  /\ \A S \in SUBSET alive : S # {} => \E s \in S : next[s].to \notin S

WalkShape ==
  /\ \A i \in DOMAIN walks : walks[i] \in alive
  /\ \A i, j \in DOMAIN walks : walks[i] = walks[j] => i = j
  /\ \A n \in Node : next[n].walk <=> \E i \in DOMAIN walks : walks[i] = n
  /\ phase # "run" => walks = <<>>

RunShape ==
  /\ phase = "run" => \A n \in Node : ~next[n].mark
  /\ phase # "mark" => calls = <<>>

\* The calls hold marked objects, each once, and have to mark what the root reaches
\* only; what a marked object points to is marked or is left to its call.
MarkShape ==
  phase = "mark" =>
    /\ next[Mgr].mark
    /\ \A o \in Obj : next[o].mark => o \in Wanted
    /\ \A i \in DOMAIN calls : next[calls[i].obj].mark
    /\ \A i \in DOMAIN calls : \A j \in DOMAIN calls[i].todo : calls[i].todo[j] \in Wanted \cup {Nil}
    /\ CallsAreDistinct
    /\ \/ mRoot = Nil \/ next[mRoot].mark
       \/ \E i \in DOMAIN calls :
            calls[i].obj = Mgr /\ \E j \in DOMAIN calls[i].todo : calls[i].todo[j] = mRoot
    /\ \A o \in Obj : next[o].mark =>
         \A f \in Field :
           \/ refs[o][f] = Nil \/ next[refs[o][f]].mark
           \/ \E i \in DOMAIN calls :
                calls[i].obj = o /\ \E j \in DOMAIN calls[i].todo : calls[i].todo[j] = refs[o][f]

\* U is the part of the ring behind here: there the marks say what the root reaches,
\* before it all is reached and unmarked.
SweepAt(U) ==
  /\ here \in Chained /\ here \notin U
  /\ next[here].to \in U \cup {Mgr}
  /\ \A u \in U : next[u].to \in U \cup {Mgr}
  /\ \A u \in U : next[u].mark <=> u \in Wanted
  /\ \A n \in Node \ U : next[n].mark => n = here
  /\ \A o \in alive \ U : o \in Wanted
  /\ Wanted \subseteq alive

SweepShape == phase = "sweep" => \E U \in SUBSET alive : SweepAt(U)

IInv ==
  /\ TypeOK /\ FreeIsClean /\ PointersAlive /\ RingShape /\ WalkShape
  /\ RunShape /\ MarkShape /\ SweepShape

-----------------------------------------------------------------------------
(* What a root reaches. *)

Pointers == [Obj -> [Field -> Ref]]

LEMMA ReachedRoot ==
  ASSUME NEW r \in Pointers, NEW root \in Ref
  PROVE  root \in Reached(r, root) \cup {Nil}
  BY DEF Reached, Ref

LEMMA ReachedClosed ==
  ASSUME NEW r \in Pointers, NEW root \in Ref, NEW o \in Reached(r, root), NEW f \in Field
  PROVE  r[o][f] \in Reached(r, root) \cup {Nil}
<1>1. o \in Obj /\ r[o][f] \in Ref
  BY DEF Reached, Pointers
<1>2. ASSUME r[o][f] # Nil,
             NEW S \in SUBSET Obj, root \in S \cup {Nil}, Closed(S, r)
      PROVE  r[o][f] \in S
  BY <1>2 DEF Reached, Closed
<1>. QED
  BY <1>1, <1>2 DEF Reached, Ref

LEMMA ReachedLeast ==
  ASSUME NEW r, NEW root, NEW S \in SUBSET Obj, root \in S \cup {Nil}, Closed(S, r)
  PROVE  Reached(r, root) \subseteq S
  BY DEF Reached

\* What is not reached may change without changing what is.
LEMMA ReachedSame ==
  ASSUME NEW r \in Pointers, NEW s \in Pointers, NEW root \in Ref,
         \A o \in Reached(r, root) : s[o] = r[o]
  PROVE  Reached(s, root) = Reached(r, root)
<1>. DEFINE R == Reached(r, root)
<1>1. R \subseteq Obj /\ root \in R \cup {Nil}
  BY ReachedRoot DEF Reached
<1>2. Closed(R, s)
  BY ReachedClosed DEF Closed
<1>3. Reached(s, root) \subseteq R
  BY <1>1, <1>2, ReachedLeast
<1>4. ASSUME NEW o \in R, NEW S \in SUBSET Obj, root \in S \cup {Nil}, Closed(S, s)
      PROVE  o \in S
  <2>1. Closed(S \cap R, r)
    BY <1>1, <1>4, ReachedClosed DEF Closed
  <2>2. root \in (S \cap R) \cup {Nil}
    BY <1>1, <1>4
  <2>. QED
    BY <1>1, <2>1, <2>2, ReachedLeast
<1>5. R \subseteq Reached(s, root)
  BY <1>1, <1>4 DEF Reached
<1>. QED
  BY <1>3, <1>5

-----------------------------------------------------------------------------
(* The calls. *)

LEMMA TailItems ==
  ASSUME NEW T, NEW s \in Seq(T), s # <<>>
  PROVE  /\ Head(s) \in T /\ Tail(s) \in Seq(T)
         /\ 1 \in DOMAIN s /\ s[1] = Head(s)
         /\ \A k \in DOMAIN Tail(s) : k + 1 \in DOMAIN s /\ Tail(s)[k] = s[k + 1]
         /\ \A k \in DOMAIN s : k = 1 \/ (k - 1 \in DOMAIN Tail(s) /\ Tail(s)[k - 1] = s[k])
<1>1. Len(s) \in Nat /\ Len(s) > 0 /\ DOMAIN s = 1 .. Len(s)
  BY EmptySeq, LenProperties
<1>2. Tail(s) \in Seq(T) /\ Len(Tail(s)) = Len(s) - 1 /\ \A k \in 1 .. Len(s) - 1 : Tail(s)[k] = s[k + 1]
  BY <1>1, HeadTailProperties
<1>3. DOMAIN Tail(s) = 1 .. Len(s) - 1
  BY <1>2, LenProperties
<1>4. Head(s) = s[1] /\ s[1] \in T
  BY <1>1, HeadTailProperties, ElementOfSeq
<1>. QED
  BY <1>1, <1>2, <1>3, <1>4

LEMMA FrameTyped ==
  ASSUME refs \in Pointers, NEW o \in Obj
  PROVE  /\ Frame(o) \in CallOf
         /\ Frame(o).obj = o
         /\ DOMAIN Frame(o).todo = DOMAIN Fields
         /\ \A i \in DOMAIN Fields : Fields[i] \in Field /\ Frame(o).todo[i] = refs[o][Fields[i]]
<1>1. DOMAIN Fields = 1 .. Len(Fields) /\ Len(Fields) \in Nat /\ \A i \in DOMAIN Fields : Fields[i] \in Field
  BY ObjMgrAssumption, LenProperties, ElementOfSeq
<1>2. \A i \in DOMAIN Fields : refs[o][Fields[i]] \in Ref
  BY <1>1 DEF Pointers
<1>3. [i \in DOMAIN Fields |-> refs[o][Fields[i]]] \in Seq(Ref)
  BY <1>1, <1>2, SeqDef
<1>. QED
  BY <1>1, <1>3 DEF Frame, CallOf, Node

LEMMA CallsTyped ==
  ASSUME TypeOK
  PROVE  /\ Len(calls) \in Nat
         /\ DOMAIN calls = 1 .. Len(calls)
         /\ \A i \in DOMAIN calls : calls[i] \in CallOf
         /\ calls # <<>> => Len(calls) > 0 /\ Top \in CallOf
<1>1. calls \in Seq(CallOf)
  BY DEF TypeOK, CallOf
<1>2. Len(calls) \in Nat /\ DOMAIN calls = 1 .. Len(calls) /\ \A i \in DOMAIN calls : calls[i] \in CallOf
  BY <1>1, LenProperties, ElementOfSeq
<1>3. calls # <<>> => Len(calls) > 0
  BY <1>1, <1>2, EmptySeq
<1>. QED
  BY <1>2, <1>3 DEF Top

\* The calls when the innermost goes on to its next field, and makes a call.
Rest == [calls EXCEPT ![Len(calls)].todo = Tail(@)]

LEMMA RestCalls ==
  ASSUME TypeOK, calls # <<>>, Top.todo # <<>>
  PROVE  /\ Rest \in Seq(CallOf)
         /\ Len(Rest) = Len(calls)
         /\ DOMAIN Rest = DOMAIN calls
         /\ \A i \in DOMAIN calls : Rest[i].obj = calls[i].obj
         /\ \A i \in DOMAIN calls : i # Len(calls) => Rest[i] = calls[i]
         /\ Rest[Len(calls)].todo = Tail(Top.todo)
<1>1. Tail(Top.todo) \in Seq(Ref)
  BY CallsTyped, TailItems DEF CallOf
<1>2. DEFINE c == [Top EXCEPT !.todo = Tail(@)]
<1>3. c \in CallOf /\ c.obj = Top.obj /\ c.todo = Tail(Top.todo)
  BY <1>1, CallsTyped DEF CallOf
<1>4. Rest = [calls EXCEPT ![Len(calls)] = c]
  BY DEF Rest, Top
<1>5. calls \in Seq(CallOf)
  BY DEF TypeOK, CallOf
<1>. QED
  BY <1>3, <1>4, <1>5, CallsTyped, ExceptSeq DEF Top

LEMMA PushedCalls ==
  ASSUME TypeOK, calls # <<>>, Top.todo # <<>>, NEW c \in CallOf
  PROVE  /\ Append(Rest, c) \in Seq(CallOf)
         /\ DOMAIN Append(Rest, c) = 1 .. Len(calls) + 1
         /\ \A i \in DOMAIN calls : Append(Rest, c)[i] = Rest[i]
         /\ Append(Rest, c)[Len(calls) + 1] = c
  BY RestCalls, CallsTyped, AppendProperties, LenProperties

LEMMA PoppedCalls ==
  ASSUME TypeOK, calls # <<>>, NEW cs, cs = SubSeq(calls, 1, Len(calls) - 1)
  PROVE  /\ cs \in Seq(CallOf)
         /\ DOMAIN cs = 1 .. Len(calls) - 1
         /\ \A i \in DOMAIN cs : i \in DOMAIN calls /\ cs[i] = calls[i]
<1>. DEFINE n == Len(calls) - 1
<1>1. Len(calls) \in Nat /\ n \in Nat /\ \A i \in 1 .. n : calls[i] \in CallOf
  BY CallsTyped
<1>2. cs \in Seq(CallOf) /\ Len(cs) = (IF 1 <= n THEN n - 1 + 1 ELSE 0)
      /\ \A i \in 1 .. n - 1 + 1 : cs[i] = calls[1 + i - 1]
  BY <1>1, SubSeqProperties
<1>. QED
  BY <1>1, <1>2, CallsTyped, LenProperties

LEMMA PoppedWalks ==
  ASSUME walks \in Seq(Obj), walks # <<>>, NEW ws, ws = SubSeq(walks, 1, Len(walks) - 1)
  PROVE  /\ ws \in Seq(Obj)
         /\ Len(walks) \in DOMAIN walks /\ DOMAIN ws = DOMAIN walks \ {Len(walks)}
         /\ \A i \in DOMAIN ws : ws[i] = walks[i]
<1>. /\ Len(walks) \in Nat /\ Len(walks) > 0 /\ DOMAIN walks = 1 .. Len(walks)
     /\ \A i \in 1 .. Len(walks) - 1 : walks[i] \in Obj
  BY EmptySeq, LenProperties, ElementOfSeq
<1>1. ws \in Seq(Obj) /\ Len(ws) = Len(walks) - 1
  BY SubSeqProperties
<1>2. \A i \in 1 .. Len(walks) - 1 : ws[i] = walks[i]
  BY SubSeqProperties
<1>. QED
  BY <1>1, <1>2, LenProperties

-----------------------------------------------------------------------------
(* What the assignments to __next__ do to it. *)

LEMMA SetMark ==
  ASSUME NEW nx \in [Node -> Link], NEW n \in Node, NEW b \in BOOLEAN
  PROVE  /\ [nx EXCEPT ![n].mark = b] \in [Node -> Link]
         /\ \A k \in Node : /\ [nx EXCEPT ![n].mark = b][k].to = nx[k].to
                            /\ [nx EXCEPT ![n].mark = b][k].walk = nx[k].walk
                            /\ [nx EXCEPT ![n].mark = b][k].mark = IF k = n THEN b ELSE nx[k].mark
<1>. DEFINE l == [nx[n] EXCEPT !.mark = b]
<1>1. l \in Link /\ l.to = nx[n].to /\ l.walk = nx[n].walk /\ l.mark = b
  BY DEF Link
<1>2. [nx EXCEPT ![n].mark = b] = [nx EXCEPT ![n] = l]
  OBVIOUS
<1>. HIDE DEF l
<1>. QED
  BY <1>1, <1>2

LEMMA SetWalk ==
  ASSUME NEW nx \in [Node -> Link], NEW n \in Node, NEW b \in BOOLEAN
  PROVE  /\ [nx EXCEPT ![n].walk = b] \in [Node -> Link]
         /\ \A k \in Node : /\ [nx EXCEPT ![n].walk = b][k].to = nx[k].to
                            /\ [nx EXCEPT ![n].walk = b][k].mark = nx[k].mark
                            /\ [nx EXCEPT ![n].walk = b][k].walk = IF k = n THEN b ELSE nx[k].walk
<1>. DEFINE l == [nx[n] EXCEPT !.walk = b]
<1>1. l \in Link /\ l.to = nx[n].to /\ l.mark = nx[n].mark /\ l.walk = b
  BY DEF Link
<1>2. [nx EXCEPT ![n].walk = b] = [nx EXCEPT ![n] = l]
  OBVIOUS
<1>. HIDE DEF l
<1>. QED
  BY <1>1, <1>2

\* Make: the new object gets what the manager had, the manager points to it.
LEMMA SetLinked ==
  ASSUME TypeOK, NEW o \in Obj
  PROVE  /\ Linked(o) \in [Node -> Link]
         /\ Linked(o)[o] = next[Mgr]
         /\ Linked(o)[Mgr].to = o
         /\ Linked(o)[Mgr].mark = next[Mgr].mark /\ Linked(o)[Mgr].walk = next[Mgr].walk
         /\ \A k \in Node : k # o /\ k # Mgr => Linked(o)[k] = next[k]
<1>. DEFINE l == [next[Mgr] EXCEPT !.to = o]
<1>1. next \in [Node -> Link] /\ Mgr \in Node /\ o \in Node /\ o # Mgr
  BY ObjMgrAssumption DEF TypeOK, Link, Node
<1>2. l \in Link /\ l.to = o /\ l.mark = next[Mgr].mark /\ l.walk = next[Mgr].walk
  BY <1>1 DEF Link
<1>3. [next EXCEPT ![o] = next[Mgr]][Mgr] = next[Mgr]
  BY <1>1
<1>4. Linked(o) = [[next EXCEPT ![o] = next[Mgr]] EXCEPT ![Mgr] = l]
  BY <1>3 DEF Linked
<1>. HIDE DEF l
<1>. QED
  BY <1>1, <1>2, <1>4

\* SweepDelete: here gets what the deleted object had, that address is cleared.
LEMMA SetDeleted ==
  ASSUME TypeOK, NEW o \in Obj, o # here, NEW nx, nx = [Unmarked EXCEPT ![here] = next[o], ![o] = Unlinked]
  PROVE  /\ nx \in [Node -> Link]
         /\ nx[o] = Unlinked
         /\ nx[here] = next[o]
         /\ \A k \in Node : k # o /\ k # here => nx[k] = next[k]
<1>1. next \in [Node -> Link] /\ here \in Node /\ o \in Node
  BY DEF TypeOK, Link, Node
<1>2. Unmarked \in [Node -> Link] /\ \A k \in Node : k # here => Unmarked[k] = next[k]
  BY <1>1, SetMark DEF Unmarked
<1>3. Unlinked \in Link
  BY DEF Unlinked, Link, Node
<1>. HIDE DEF Unmarked
<1>. QED
  BY <1>1, <1>2, <1>3

LEMMA TypeInit == Init => TypeOK
<1>. SUFFICES ASSUME Init PROVE TypeOK
  OBVIOUS
<1>1. next \in [Node -> Link]
  BY DEF Init, Unlinked, Link, Node
<1>2. refs \in Pointers
  BY DEF Init, NoRefs, Ref, Pointers
<1>3. calls \in Seq(CallOf) /\ walks \in Seq(Obj)
  BY DEF Init
<1>. QED
  BY <1>1, <1>2, <1>3 DEF Init, TypeOK, Node, Ref, Link, CallOf, Pointers

LEMMA TypeNext == TypeOK /\ [Next]_vars => TypeOK'
<1>. SUFFICES ASSUME TypeOK, [Next]_vars PROVE TypeOK'
  OBVIOUS
<1>. USE DEF TypeOK
<1>1. ASSUME NEW o \in Obj, Make(o) PROVE TypeOK'
  <2>1. next' \in [Node -> Link]
    BY <1>1, SetLinked DEF Make
  <2>. QED
    BY <1>1, <2>1 DEF Make, gcVars, Link
<1>2. ASSUME NEW o \in Obj, NEW f \in Field, NEW p \in Ref, Assign(o, f, p) PROVE TypeOK'
  BY <1>2 DEF Assign, gcVars
<1>3. ASSUME NEW p \in Ref, SetRoot(p) PROVE TypeOK'
  BY <1>3 DEF SetRoot, gcVars
<1>4. ASSUME NEW o \in Obj, Walk(o) PROVE TypeOK'
  <2>1. next \in [Node -> Link] /\ o \in Node /\ walks \in Seq(Obj)
    BY DEF Link, Node
  <2>2. CASE next[o].walk
    BY <1>4, <2>2 DEF Walk, gcVars
  <2>3. CASE ~next[o].walk
    <3>1. next' = [next EXCEPT ![o].walk = TRUE] /\ walks' = Append(walks, o) /\ aborted' = aborted
      BY <1>4, <2>3, Zenon DEF Walk
    <3>2. next' \in [Node -> Link] /\ walks' \in Seq(Obj)
      BY <2>1, <3>1, SetWalk, AppendProperties
    <3>. QED
      BY <1>4, <3>1, <3>2 DEF Walk, gcVars, Link
  <2>. QED
    BY <2>2, <2>3
<1>5. CASE Unwalk
  <2>1. walks' \in Seq(Obj)
    BY <1>5, PoppedWalks DEF Unwalk
  <2>2. next' \in [Node -> Link]
    BY <1>5 DEF Unwalk, Link
  <2>. QED
    BY <1>5, <2>1, <2>2 DEF Unwalk, gcVars, Link
<1>6. CASE Gc
  <2>1. next' \in [Node -> Link]
    BY <1>6 DEF Gc, Link
  <2>2. calls' \in Seq(CallOf)
    BY <1>6 DEF Gc, CallOf, Node
  <2>. QED
    BY <1>6, <2>1, <2>2 DEF Gc, Link, CallOf
<1>7. CASE MarkField
  <2>. DEFINE o == Head(Top.todo)
  <2>1. calls # <<>> /\ Top.todo # <<>> /\ o \in Ref
    BY <1>7, CallsTyped, TailItems DEF MarkField, CallOf
  <2>2. CASE o = Nil \/ next[o].mark
    BY <1>7, <2>1, <2>2, RestCalls DEF MarkField, Rest, CallOf
  <2>3. CASE ~(o = Nil \/ next[o].mark)
    <3>1. o \in Obj
      BY <2>1, <2>3 DEF Ref
    <3>2. calls' = Append(Rest, Frame(o)) /\ next' = Marked(o)
      BY <1>7, <2>3 DEF MarkField, Rest, Visited
    <3>3. calls' \in Seq(CallOf)
      BY <2>1, <3>1, <3>2, PushedCalls, FrameTyped DEF Pointers
    <3>4. next' \in [Node -> Link]
      BY <3>2 DEF Marked, Link
    <3>. QED
      BY <1>7, <3>3, <3>4 DEF MarkField, CallOf, Link
  <2>. QED
    BY <2>2, <2>3
<1>8. CASE MarkReturn
  BY <1>8, PoppedCalls DEF MarkReturn, CallOf
<1>9. CASE MarkEnd
  BY <1>9 DEF MarkEnd, Node
<1>10. CASE SweepEnd
  BY <1>10 DEF SweepEnd, Unmarked
<1>11. CASE SweepDelete
  <2>1. next[here].to \in Obj
    BY <1>11 DEF SweepDelete, Node
  <2>2. next' \in [Node -> Link]
    BY <1>11, <2>1, ObjMgrAssumption DEF SweepDelete, Unmarked, Unlinked, Link, Node
  <2>3. refs' \in Pointers
    BY <1>11, <2>1 DEF SweepDelete, NoRefs, Ref, Pointers
  <2>. QED
    BY <1>11, <2>1, <2>2, <2>3 DEF SweepDelete, HereAfterDelete, Pointers, Link
<1>12. CASE SweepKeep
  BY <1>12 DEF SweepKeep, Unmarked, HereAfterKeep, Link
<1>13. CASE UNCHANGED vars
  BY <1>13 DEF vars
<1>. QED
  BY <1>1, <1>2, <1>3, <1>4, <1>5, <1>6, <1>7, <1>8, <1>9, <1>10, <1>11, <1>12, <1>13 DEF Next, GcStep

-----------------------------------------------------------------------------
(* The ring. *)

LEMMA RingSame ==
  ASSUME TypeOK, RingShape, alive' = alive, \A n \in Node : next'[n].to = next[n].to
  PROVE  RingShape'
<1>1. alive \subseteq Node /\ Chained \subseteq Node
  BY DEF TypeOK, Node, Chained
<1>2. Chained' = Chained
  BY DEF Chained
<1>3. \A n \in Chained : next'[n].to = next[n].to
  BY <1>1
<1>4. \A S \in SUBSET alive : S # {} => \E s \in S : next'[s].to \notin S
  BY <1>1 DEF RingShape
<1>. QED
  BY <1>2, <1>3, <1>4 DEF RingShape

LEMMA RingMade ==
  ASSUME TypeOK, RingShape, NEW o \in Obj \ alive, next' = Linked(o), alive' = alive \cup {o}
  PROVE  RingShape'
<1>1. /\ o # Mgr /\ Mgr \in Chained /\ Chained' = Chained \cup {o}
      /\ next'[o].to = next[Mgr].to /\ next'[Mgr].to = o
      /\ \A k \in alive : next'[k].to = next[k].to
      /\ \A k \in alive : k # o /\ k # Mgr
  <2>1. o # Mgr /\ Mgr \in Chained /\ Chained' = Chained \cup {o} /\ \A k \in alive : k # o /\ k # Mgr /\ k \in Node
    BY ObjMgrAssumption DEF TypeOK, Node, Chained
  <2>2. next'[o] = next[Mgr] /\ next'[Mgr].to = o /\ \A k \in Node : k # o /\ k # Mgr => next'[k] = next[k]
    BY SetLinked
  <2>. QED
    BY <2>1, <2>2
<1>2. \A n \in Chained' : next'[n].to \in Chained'
  BY <1>1 DEF RingShape, Chained
<1>3. ASSUME NEW m \in Chained', NEW n \in Chained', next'[m].to = next'[n].to
      PROVE  m = n
  BY <1>1, <1>3 DEF RingShape, Chained
<1>4. ASSUME NEW S \in SUBSET alive', S # {}
      PROVE  \E s \in S : next'[s].to \notin S
  <2>1. CASE S \cap alive = {}
    BY <1>1, <1>4, <2>1 DEF RingShape, Chained
  <2>2. CASE S \cap alive # {}
    <3>1. PICK s \in S \cap alive : next[s].to \notin S \cap alive
      BY <2>2 DEF RingShape
    <3>2. next'[s].to \in alive \cup {Mgr}
      BY <1>1, <3>1 DEF RingShape, Chained
    <3>3. next'[s].to \notin S
      BY <1>1, <1>4, <3>1, <3>2, ObjMgrAssumption DEF TypeOK
    <3>. QED
      BY <3>1, <3>3
  <2>. QED
    BY <2>1, <2>2
<1>. QED
  BY <1>2, <1>3, <1>4 DEF RingShape

\* The deleted object is not its own successor and its successor is taken over.
LEMMA RingDeleted ==
  ASSUME TypeOK, RingShape, here \in Chained, NEW o \in alive, next[here].to = o,
         next' = [Unmarked EXCEPT ![here] = next[o], ![o] = Unlinked], alive' = alive \ {o}
  PROVE  /\ RingShape'
         /\ here # o /\ next[o].to # o
         /\ next'[here].to = next[o].to
         /\ \A k \in Chained' : k # here => next'[k].to = next[k].to
<1>1. \E s \in {o} : next[s].to \notin {o}
  BY DEF RingShape
<1>2. next[o].to # o /\ here # o
  BY <1>1
<1>3. /\ o \in Obj /\ Mgr \notin alive /\ alive \subseteq Obj /\ Chained \subseteq Node
      /\ Chained' = Chained \ {o}
  BY ObjMgrAssumption DEF TypeOK, Chained, Node
<1>4. /\ next'[here] = next[o]
      /\ \A k \in Chained' : k # here => next'[k] = next[k]
  BY <1>2, <1>3, SetDeleted
<1>5. \A n \in Chained' : next'[n].to \in Chained'
  <2>. SUFFICES ASSUME NEW n \in Chained' PROVE next'[n].to \in Chained'
    OBVIOUS
  <2>1. CASE n = here
    BY <1>2, <1>3, <1>4, <2>1 DEF RingShape, Chained
  <2>2. CASE n # here
    <3>1. n \in Chained /\ next'[n].to = next[n].to
      BY <1>3, <1>4, <2>2
    <3>2. next[n].to \in Chained /\ next[n].to # next[here].to
      BY <2>2, <3>1 DEF RingShape
    <3>. QED
      BY <1>3, <3>1, <3>2
  <2>. QED
    BY <2>1, <2>2
<1>6. ASSUME NEW m \in Chained', NEW n \in Chained', next'[m].to = next'[n].to
      PROVE  m = n
  <2>. DEFINE was(k) == IF k = here THEN o ELSE k
  <2>1. \A k \in Chained' : was(k) \in Chained /\ next'[k].to = next[was(k)].to
    BY <1>3, <1>4 DEF Chained
  <2>. HIDE DEF was
  <2>2. was(m) \in Chained /\ was(n) \in Chained /\ next[was(m)].to = next[was(n)].to
    BY <1>6, <2>1
  <2>3. was(m) = was(n)
    BY <2>2 DEF RingShape
  <2>. QED
    BY <1>3, <2>3 DEF was
<1>7. ASSUME NEW S \in SUBSET alive', S # {}
      PROVE  \E s \in S : next'[s].to \notin S
  <2>1. CASE here \in S
    <3>1. S \cup {o} \in SUBSET alive
      OBVIOUS
    <3>2. PICK s \in S \cup {o} : next[s].to \notin S \cup {o}
      BY <3>1 DEF RingShape
    <3>3. CASE s = o
      BY <1>4, <2>1, <3>2, <3>3
    <3>4. CASE s # o
      BY <1>3, <1>4, <3>2, <3>4 DEF Chained
    <3>. QED
      BY <3>3, <3>4
  <2>2. CASE here \notin S
    <3>1. PICK s \in S : next[s].to \notin S
      BY <1>7 DEF RingShape
    <3>. QED
      BY <1>3, <1>4, <2>2, <3>1 DEF Chained
  <2>. QED
    BY <2>1, <2>2
<1>. QED
  BY <1>2, <1>4, <1>5, <1>6, <1>7 DEF RingShape

-----------------------------------------------------------------------------
(* The steps of the mutator keep the invariant. *)

\* Outside of a collection these two say nothing.
LEMMA RunOnly == phase' = "run" => MarkShape' /\ SweepShape'
  BY DEF MarkShape, SweepShape

LEMMA InitIInv == Init => IInv
<1>. SUFFICES ASSUME Init PROVE IInv
  OBVIOUS
<1>1. TypeOK
  BY TypeInit
<1>2. FreeIsClean /\ PointersAlive /\ RunShape /\ MarkShape /\ SweepShape
  BY DEF Init, FreeIsClean, PointersAlive, RunShape, MarkShape, SweepShape, Node, Unlinked
<1>3. RingShape
  BY DEF Init, RingShape, Chained, Node, Unlinked
<1>4. WalkShape
  BY DEF Init, WalkShape, Node, Unlinked
<1>. QED
  BY <1>1, <1>2, <1>3, <1>4 DEF IInv

LEMMA MakeKeeps ==
  ASSUME IInv, NEW o \in Obj, Make(o)
  PROVE  IInv'
<1>. USE DEF IInv
<1>1. /\ phase = "run" /\ phase' = "run" /\ o \in Obj \ alive /\ alive' = alive \cup {o}
      /\ next' = Linked(o) /\ UNCHANGED <<refs, mRoot, walks, calls>>
  BY DEF Make, Running, gcVars
<1>2. /\ next'[o] = next[Mgr] /\ next'[Mgr].mark = next[Mgr].mark /\ next'[Mgr].walk = next[Mgr].walk
      /\ \A k \in Node : k # o /\ k # Mgr => next'[k] = next[k]
  BY <1>1, SetLinked
<1>3. alive \subseteq Obj /\ Mgr \notin Obj /\ Mgr \in Node /\ Obj \subseteq Node /\ Node = Obj \cup {Mgr}
  BY ObjMgrAssumption DEF TypeOK, Node
<1>4. TypeOK'
  BY TypeNext DEF Next
<1>5. FreeIsClean'
  BY <1>1, <1>2, <1>3 DEF FreeIsClean
<1>6. PointersAlive'
  <2>1. \A f \in Field : refs[o][f] = Nil
    BY <1>1 DEF FreeIsClean, NoRefs
  <2>. QED
    BY <1>1, <2>1 DEF PointersAlive
<1>7. RingShape'
  BY <1>1, RingMade
<1>8. WalkShape'
  <2>1. \A i \in DOMAIN walks : walks[i] \in alive /\ walks[i] # o /\ walks[i] # Mgr
    BY <1>1, <1>3 DEF WalkShape
  <2>2. ~next[Mgr].walk
    BY <1>3, <2>1 DEF WalkShape
  <2>3. ASSUME NEW n \in Node
        PROVE  next'[n].walk <=> \E i \in DOMAIN walks : walks[i] = n
    <3>1. next[n].walk <=> \E i \in DOMAIN walks : walks[i] = n
      BY DEF WalkShape
    <3>. QED
      BY <1>2, <1>3, <2>1, <2>2, <3>1
  <2>. QED
    BY <1>1, <2>1, <2>3 DEF WalkShape
<1>9. RunShape'
  BY <1>1, <1>2, <1>3 DEF RunShape
<1>. QED
  BY <1>1, <1>4, <1>5, <1>6, <1>7, <1>8, <1>9, RunOnly

LEMMA AssignKeeps ==
  ASSUME IInv, NEW o \in Obj, NEW f \in Field, NEW p \in Ref, Assign(o, f, p)
  PROVE  IInv'
<1>. USE DEF IInv
<1>1. /\ phase = "run" /\ phase' = "run" /\ o \in alive /\ p \in alive \cup {Nil}
      /\ refs' = [refs EXCEPT ![o][f] = p] /\ UNCHANGED <<alive, next, mRoot, walks, calls>>
  BY DEF Assign, Running, gcVars
<1>2. TypeOK'
  BY TypeNext DEF Next
<1>3. /\ \A k \in Obj : k # o => refs'[k] = refs[k]
      /\ \A g \in Field : refs'[o][g] = IF g = f THEN p ELSE refs[o][g]
  BY <1>1 DEF TypeOK
<1>4. FreeIsClean'
  BY <1>1, <1>3 DEF FreeIsClean
<1>5. PointersAlive'
  BY <1>1, <1>3 DEF PointersAlive, TypeOK
<1>6. RingShape'
  BY <1>1, RingSame
<1>7. WalkShape' /\ RunShape'
  BY <1>1 DEF WalkShape, RunShape
<1>. QED
  BY <1>1, <1>2, <1>4, <1>5, <1>6, <1>7, RunOnly

LEMMA SetRootKeeps ==
  ASSUME IInv, NEW p \in Ref, SetRoot(p)
  PROVE  IInv'
<1>. USE DEF IInv
<1>1. /\ phase = "run" /\ phase' = "run" /\ p \in alive \cup {Nil}
      /\ mRoot' = p /\ UNCHANGED <<alive, next, refs, walks, calls>>
  BY DEF SetRoot, Running, gcVars
<1>2. TypeOK'
  BY TypeNext DEF Next
<1>3. FreeIsClean' /\ PointersAlive' /\ WalkShape' /\ RunShape'
  BY <1>1 DEF FreeIsClean, PointersAlive, WalkShape, RunShape
<1>4. RingShape'
  BY <1>1, RingSame
<1>. QED
  BY <1>1, <1>2, <1>3, <1>4, RunOnly

LEMMA WalkKeeps ==
  ASSUME IInv, NEW o \in Obj, Walk(o)
  PROVE  IInv'
<1>. USE DEF IInv
<1>1. /\ phase = "run" /\ phase' = "run" /\ o \in alive /\ UNCHANGED <<alive, refs, mRoot, calls>>
  BY DEF Walk, Running, gcVars
<1>2. TypeOK'
  BY TypeNext DEF Next
<1>3. CASE next[o].walk
  <2>1. UNCHANGED <<next, walks>>
    BY <1>3, Zenon DEF Walk
  <2>2. FreeIsClean' /\ PointersAlive' /\ WalkShape' /\ RunShape'
    BY <1>1, <2>1 DEF FreeIsClean, PointersAlive, WalkShape, RunShape
  <2>3. RingShape'
    BY <1>1, <2>1, RingSame
  <2>. QED
    BY <1>1, <1>2, <2>2, <2>3, RunOnly
<1>4. CASE ~next[o].walk
  <2>1. next' = [next EXCEPT ![o].walk = TRUE] /\ walks' = Append(walks, o)
    BY <1>4, Zenon DEF Walk
  <2>2. next \in [Node -> Link] /\ o \in Node /\ walks \in Seq(Obj) /\ Mgr \notin Obj /\ alive \subseteq Obj
    BY ObjMgrAssumption DEF TypeOK, Link, Node
  <2>3. \A k \in Node : /\ next'[k].to = next[k].to /\ next'[k].mark = next[k].mark
                        /\ next'[k].walk = IF k = o THEN TRUE ELSE next[k].walk
    BY <2>1, <2>2, SetWalk
  <2>4. /\ Len(walks) \in Nat /\ DOMAIN walks = 1 .. Len(walks) /\ DOMAIN walks' = 1 .. Len(walks) + 1
        /\ walks'[Len(walks) + 1] = o /\ \A i \in DOMAIN walks : walks'[i] = walks[i]
    BY <2>1, <2>2, AppendProperties, LenProperties
  <2>5. \A i \in DOMAIN walks : walks[i] # o
    BY <1>4, <2>2 DEF WalkShape
  <2>6. FreeIsClean'
    <3>1. \A k \in Obj \ alive : next'[k] = next[k]
      BY <1>1, <2>1, <2>2
    <3>. QED
      BY <1>1, <3>1 DEF FreeIsClean
  <2>7. PointersAlive' /\ RunShape'
    BY <1>1, <2>3 DEF PointersAlive, RunShape
  <2>8. RingShape'
    BY <1>1, <2>3, RingSame
  <2>9. WalkShape'
    <3>1. \A i \in DOMAIN walks' : walks'[i] \in alive
      BY <1>1, <2>4 DEF WalkShape
    <3>2. \A i, j \in DOMAIN walks' : walks'[i] = walks'[j] => i = j
      BY <2>4, <2>5 DEF WalkShape
    <3>3. ASSUME NEW n \in Node
          PROVE  next'[n].walk <=> \E i \in DOMAIN walks' : walks'[i] = n
      <4>1. next[n].walk <=> \E i \in DOMAIN walks : walks[i] = n
        BY DEF WalkShape
      <4>2. (\E i \in DOMAIN walks' : walks'[i] = n) <=> (n = o \/ \E i \in DOMAIN walks : walks[i] = n)
        BY <2>4
      <4>. QED
        BY <2>3, <4>1, <4>2
    <3>. QED
      BY <1>1, <3>1, <3>2, <3>3 DEF WalkShape
  <2>. QED
    BY <1>1, <1>2, <2>6, <2>7, <2>8, <2>9, RunOnly
<1>. QED
  BY <1>3, <1>4

LEMMA UnwalkKeeps ==
  ASSUME IInv, Unwalk
  PROVE  IInv'
<1>. USE DEF IInv
<1>. DEFINE last == Len(walks)
            o == walks[last]
<1>1. /\ phase = "run" /\ phase' = "run" /\ UNCHANGED <<alive, refs, mRoot, calls>>
      /\ walks # <<>> /\ next' = [next EXCEPT ![o].walk = FALSE] /\ walks' = SubSeq(walks, 1, Len(walks) - 1)
  BY DEF Unwalk, Running, gcVars
<1>2. TypeOK'
  BY TypeNext DEF Next
<1>3. /\ last \in DOMAIN walks /\ DOMAIN walks' = DOMAIN walks \ {last}
      /\ \A i \in DOMAIN walks' : walks'[i] = walks[i]
  BY <1>1, PoppedWalks DEF TypeOK
<1>4. o \in alive /\ alive \subseteq Obj /\ o \in Node /\ next \in [Node -> Link]
  BY <1>3 DEF WalkShape, TypeOK, Node, Link
<1>. HIDE DEF o, last
<1>5. \A k \in Node : /\ next'[k].to = next[k].to /\ next'[k].mark = next[k].mark
                      /\ next'[k].walk = IF k = o THEN FALSE ELSE next[k].walk
  BY <1>1, <1>4, SetWalk
<1>6. FreeIsClean'
  <2>1. \A k \in Obj \ alive : next'[k] = next[k]
    BY <1>1, <1>4 DEF Node
  <2>. QED
    BY <1>1, <2>1 DEF FreeIsClean
<1>7. PointersAlive' /\ RunShape'
  BY <1>1, <1>5 DEF PointersAlive, RunShape
<1>8. RingShape'
  BY <1>1, <1>5, RingSame
<1>9. WalkShape'
  <2>1. \A i \in DOMAIN walks' : walks'[i] \in alive
    BY <1>1, <1>3 DEF WalkShape
  <2>2. \A i, j \in DOMAIN walks' : walks'[i] = walks'[j] => i = j
    BY <1>3 DEF WalkShape
  <2>3. \A i \in DOMAIN walks : walks[i] = o <=> i = last
    BY <1>3 DEF WalkShape, o
  <2>4. ASSUME NEW n \in Node
        PROVE  next'[n].walk <=> \E i \in DOMAIN walks' : walks'[i] = n
    <3>1. next[n].walk <=> \E i \in DOMAIN walks : walks[i] = n
      BY DEF WalkShape
    <3>2. (\E i \in DOMAIN walks' : walks'[i] = n) <=> (n # o /\ \E i \in DOMAIN walks : walks[i] = n)
      BY <1>3, <2>3
    <3>. QED
      BY <1>5, <3>1, <3>2
  <2>. QED
    BY <1>1, <2>1, <2>2, <2>4 DEF WalkShape
<1>. QED
  BY <1>1, <1>2, <1>6, <1>7, <1>8, <1>9, RunOnly

-----------------------------------------------------------------------------
(* The steps of the marking keep the invariant. *)

\* No guard is alive during a collection, and no step of it sets the flag.
LEMMA WalksSame ==
  ASSUME WalkShape, walks = <<>>, UNCHANGED <<walks, alive>>,
         \A n \in Node : next'[n].walk = next[n].walk
  PROVE  WalkShape'
  BY DEF WalkShape

LEMMA GcKeeps ==
  ASSUME IInv, Gc
  PROVE  IInv'
<1>. USE DEF IInv
<1>1. /\ phase = "run" /\ phase' = "mark" /\ walks = <<>> /\ UNCHANGED <<alive, refs, mRoot, walks>>
      /\ next' = [next EXCEPT ![Mgr].mark = TRUE]
      /\ calls' = <<[obj |-> Mgr, todo |-> <<mRoot>>]>>
  BY DEF Gc, Running
<1>2. TypeOK'
  BY TypeNext DEF Next
<1>3. next \in [Node -> Link] /\ Mgr \in Node /\ Mgr \notin Obj /\ Obj \subseteq Node
  BY ObjMgrAssumption DEF TypeOK, Link, Node
<1>4. \A k \in Node : /\ next'[k].to = next[k].to /\ next'[k].walk = next[k].walk
                      /\ next'[k].mark = IF k = Mgr THEN TRUE ELSE next[k].mark
  BY <1>1, <1>3, SetMark
<1>5. FreeIsClean'
  <2>1. \A k \in Obj \ alive : next'[k] = next[k]
    BY <1>1, <1>3
  <2>. QED
    BY <1>1, <2>1 DEF FreeIsClean
<1>6. PointersAlive' /\ RunShape' /\ SweepShape'
  BY <1>1 DEF PointersAlive, RunShape, SweepShape
<1>7. RingShape' /\ WalkShape'
  BY <1>1, <1>4, RingSame, WalksSame
<1>8. MarkShape'
  <2>1. \A o \in Obj : ~next'[o].mark
    BY <1>1, <1>3, <1>4 DEF RunShape
  <2>2. /\ DOMAIN calls' = {1} /\ calls'[1].obj = Mgr
        /\ DOMAIN calls'[1].todo = {1} /\ calls'[1].todo[1] = mRoot
    BY <1>1
  <2>3. mRoot \in Wanted' \cup {Nil}
    BY <1>1, ReachedRoot DEF TypeOK, Wanted, Pointers
  <2>. QED
    BY <1>1, <1>3, <1>4, <2>1, <2>2, <2>3 DEF MarkShape, CallsAreDistinct
<1>. QED
  BY <1>2, <1>5, <1>6, <1>7, <1>8

\* What is left to mark, less the field that is visited.
LEMMA RestItems ==
  ASSUME TypeOK, calls # <<>>, Top.todo # <<>>
  PROVE  /\ \A i \in DOMAIN calls : \A j \in DOMAIN calls[i].todo :
              \/ calls[i].todo[j] = Head(Top.todo)
              \/ \E k \in DOMAIN Rest[i].todo : Rest[i].todo[k] = calls[i].todo[j]
         /\ \A i \in DOMAIN calls : \A k \in DOMAIN Rest[i].todo :
              \E j \in DOMAIN calls[i].todo : Rest[i].todo[k] = calls[i].todo[j]
         /\ \E j \in DOMAIN Top.todo : Head(Top.todo) = Top.todo[j]
<1>1. Top = calls[Len(calls)] /\ Top.todo \in Seq(Ref) /\ Len(calls) \in DOMAIN calls
  BY CallsTyped DEF Top, CallOf
<1>2. /\ 1 \in DOMAIN Top.todo /\ Top.todo[1] = Head(Top.todo)
      /\ \A k \in DOMAIN Tail(Top.todo) : k + 1 \in DOMAIN Top.todo /\ Tail(Top.todo)[k] = Top.todo[k + 1]
      /\ \A k \in DOMAIN Top.todo :
           k = 1 \/ (k - 1 \in DOMAIN Tail(Top.todo) /\ Tail(Top.todo)[k - 1] = Top.todo[k])
  BY <1>1, TailItems
<1>3. /\ Rest[Len(calls)].todo = Tail(Top.todo)
      /\ \A i \in DOMAIN calls : i # Len(calls) => Rest[i] = calls[i]
  BY RestCalls
<1>. HIDE DEF Rest, Top
<1>4. ASSUME NEW i \in DOMAIN calls
      PROVE  /\ \A j \in DOMAIN calls[i].todo :
                  \/ calls[i].todo[j] = Head(Top.todo)
                  \/ \E k \in DOMAIN Rest[i].todo : Rest[i].todo[k] = calls[i].todo[j]
             /\ \A k \in DOMAIN Rest[i].todo :
                  \E j \in DOMAIN calls[i].todo : Rest[i].todo[k] = calls[i].todo[j]
  <2>1. CASE i = Len(calls)
    <3>1. calls[i].todo = Top.todo /\ Rest[i].todo = Tail(Top.todo)
      BY <1>1, <1>3, <2>1
    <3>. QED
      BY <1>2, <3>1
  <2>2. CASE i # Len(calls)
    BY <1>3, <2>2
  <2>. QED
    BY <2>1, <2>2
<1>. QED
  BY <1>2, <1>4

LEMMA MarkFieldKeeps ==
  ASSUME IInv, MarkField
  PROVE  IInv'
<1>. USE DEF IInv
<1>. DEFINE o == Head(Top.todo)
<1>1. /\ phase = "mark" /\ phase' = "mark" /\ calls # <<>> /\ Top.todo # <<>>
      /\ UNCHANGED <<alive, refs, mRoot, walks, here>>
  BY DEF MarkField
<1>2. TypeOK' /\ walks = <<>>
  BY <1>1, TypeNext DEF Next, GcStep, WalkShape
<1>3. o \in Wanted \cup {Nil} /\ Wanted \subseteq Obj /\ Wanted' = Wanted
  <2>1. Len(calls) \in DOMAIN calls /\ Top = calls[Len(calls)]
    BY <1>1, CallsTyped DEF Top
  <2>2. \A j \in DOMAIN Top.todo : Top.todo[j] \in Wanted \cup {Nil}
    BY <1>1, <2>1 DEF MarkShape
  <2>. QED
    BY <1>1, <2>2, RestItems DEF Wanted, Reached
<1>4. /\ DOMAIN Rest = DOMAIN calls
      /\ \A i \in DOMAIN calls : Rest[i].obj = calls[i].obj
      /\ \A i \in DOMAIN calls : \A j \in DOMAIN calls[i].todo :
           calls[i].todo[j] = o \/ \E k \in DOMAIN Rest[i].todo : Rest[i].todo[k] = calls[i].todo[j]
      /\ \A i \in DOMAIN calls : \A k \in DOMAIN Rest[i].todo : Rest[i].todo[k] \in Wanted \cup {Nil}
  <2>1. \A i \in DOMAIN calls : \A j \in DOMAIN calls[i].todo : calls[i].todo[j] \in Wanted \cup {Nil}
    BY <1>1 DEF MarkShape
  <2>. QED
    BY <1>1, <2>1, RestCalls, RestItems
<1>5. next \in [Node -> Link] /\ Mgr \in Node /\ Mgr \notin Obj /\ Node = Obj \cup {Mgr}
  BY ObjMgrAssumption DEF TypeOK, Link, Node
<1>6. CASE o = Nil \/ next[o].mark
  <2>1. calls' = Rest /\ next' = next
    BY <1>6 DEF MarkField, Rest
  <2>2. FreeIsClean' /\ PointersAlive' /\ RunShape' /\ SweepShape'
    BY <1>1, <2>1 DEF FreeIsClean, PointersAlive, RunShape, SweepShape
  <2>3. RingShape' /\ WalkShape'
    BY <1>1, <1>2, <2>1, RingSame, WalksSame
  <2>4. MarkShape'
    <3>. HIDE DEF o, Rest
    <3>1. CallsAreDistinct'
      BY <1>1, <1>4, <2>1 DEF MarkShape, CallsAreDistinct
    <3>2. \/ mRoot = Nil \/ next[mRoot].mark
          \/ \E i \in DOMAIN Rest : Rest[i].obj = Mgr /\ \E j \in DOMAIN Rest[i].todo : Rest[i].todo[j] = mRoot
      BY <1>1, <1>4, <1>6 DEF MarkShape
    <3>3. ASSUME NEW p \in Obj, next[p].mark, NEW f \in Field
          PROVE  \/ refs[p][f] = Nil \/ next[refs[p][f]].mark
                 \/ \E i \in DOMAIN Rest :
                      Rest[i].obj = p /\ \E j \in DOMAIN Rest[i].todo : Rest[i].todo[j] = refs[p][f]
      BY <1>1, <1>4, <1>6, <3>3 DEF MarkShape
    <3>4. \A i \in DOMAIN Rest : next[Rest[i].obj].mark
      BY <1>1, <1>4 DEF MarkShape
    <3>5. next[Mgr].mark /\ \A p \in Obj : next[p].mark => p \in Wanted
      BY <1>1 DEF MarkShape
    <3>. QED
      BY <1>1, <1>3, <1>4, <2>1, <3>1, <3>2, <3>3, <3>4, <3>5 DEF MarkShape
  <2>. QED
    BY <1>2, <2>2, <2>3, <2>4
<1>7. CASE ~(o = Nil \/ next[o].mark)
  <2>. DEFINE n == Len(calls) + 1
  <2>1. o \in Obj /\ o \in Wanted
    BY <1>3, <1>7
  <2>2. calls' = Append(Rest, Frame(o)) /\ next' = [next EXCEPT ![o].mark = TRUE]
    BY <1>7 DEF MarkField, Rest, Visited, Marked
  <2>3. \A k \in Node : /\ next'[k].to = next[k].to /\ next'[k].walk = next[k].walk
                        /\ next'[k].mark = IF k = o THEN TRUE ELSE next[k].mark
    <3>. HIDE DEF o
    <3>1. PICK p \in Node : p = o
      BY <1>5, <2>1
    <3>4. next \in [Node -> Link]
      BY <1>5
    <3>2. next' = [next EXCEPT ![p].mark = TRUE]
      BY <2>2, <3>1
    <3>3. \A k \in Node : /\ next'[k].to = next[k].to /\ next'[k].walk = next[k].walk
                          /\ next'[k].mark = IF k = p THEN TRUE ELSE next[k].mark
      BY <3>4, <3>2, SetMark
    <3>. QED
      BY <3>1, <3>3
  <2>4. /\ DOMAIN calls' = DOMAIN calls \cup {n} /\ n \notin DOMAIN calls
        /\ calls'[n] = Frame(o)
        /\ \A i \in DOMAIN calls : calls'[i] = Rest[i]
    BY <1>1, <2>1, <2>2, PushedCalls, FrameTyped, CallsTyped DEF TypeOK, Pointers
  <2>5. /\ Frame(o).obj = o /\ DOMAIN Frame(o).todo = DOMAIN Fields
        /\ \A i \in DOMAIN Fields : Fields[i] \in Field /\ Frame(o).todo[i] = refs[o][Fields[i]]
    BY <2>1, FrameTyped DEF TypeOK, Pointers
  <2>6. FreeIsClean'
    <3>1. o \in alive
      <4>1. Closed(alive, refs) /\ mRoot \in alive \cup {Nil} /\ alive \subseteq Obj
        BY <1>1 DEF PointersAlive, Closed, TypeOK
      <4>. QED
        BY <2>1, <4>1, ReachedLeast DEF Wanted
    <3>2. \A k \in Obj \ alive : next'[k] = next[k]
      BY <1>5, <2>2, <3>1
    <3>. QED
      BY <1>1, <3>2 DEF FreeIsClean
  <2>7. PointersAlive' /\ RunShape' /\ SweepShape'
    BY <1>1 DEF PointersAlive, RunShape, SweepShape
  <2>8. RingShape' /\ WalkShape'
    BY <1>1, <1>2, <2>3, RingSame, WalksSame
  <2>9. MarkShape'
    <3>. HIDE DEF o, Rest, n
    <3>1. \A i \in DOMAIN calls : calls'[i].obj = calls[i].obj /\ next[calls[i].obj].mark /\ calls[i].obj \in Node
      BY <1>1, <1>4, <2>4, CallsTyped DEF MarkShape, CallOf
    <3>2. calls'[n].obj = o /\ ~next[o].mark
      BY <1>7, <2>4, <2>5
    <3>3. CallsAreDistinct'
      BY <1>1, <2>4, <3>1, <3>2 DEF MarkShape, CallsAreDistinct
    <3>4. \A i \in DOMAIN calls' : next'[calls'[i].obj].mark
      BY <1>5, <2>1, <2>3, <2>4, <3>1, <3>2
    <3>5. \A i \in DOMAIN calls' : \A j \in DOMAIN calls'[i].todo : calls'[i].todo[j] \in Wanted \cup {Nil}
      <4>1. \A j \in DOMAIN calls'[n].todo : calls'[n].todo[j] \in Wanted \cup {Nil}
        BY <2>1, <2>4, <2>5, ReachedClosed DEF TypeOK, Wanted, Pointers
      <4>. QED
        BY <1>4, <2>4, <4>1
    <3>6. \/ mRoot = Nil \/ next'[mRoot].mark
          \/ \E i \in DOMAIN calls' :
               calls'[i].obj = Mgr /\ \E j \in DOMAIN calls'[i].todo : calls'[i].todo[j] = mRoot
      <4>1. mRoot = Nil \/ mRoot \in Node
        BY <1>5 DEF TypeOK, Ref
      <4>2. ASSUME NEW i \in DOMAIN calls, calls[i].obj = Mgr,
                   NEW j \in DOMAIN calls[i].todo, calls[i].todo[j] = mRoot
            PROVE  next'[mRoot].mark \/ \E k \in DOMAIN calls' :
                     calls'[k].obj = Mgr /\ \E l \in DOMAIN calls'[k].todo : calls'[k].todo[l] = mRoot
        <5>1. CASE mRoot = o
          BY <1>5, <2>1, <2>3, <5>1
        <5>2. CASE mRoot # o
          <6>1. PICK k \in DOMAIN Rest[i].todo : Rest[i].todo[k] = mRoot
            BY <1>4, <4>2, <5>2
          <6>. QED
            BY <2>4, <3>1, <4>2, <6>1
        <5>. QED
          BY <5>1, <5>2
      <4>. QED
        BY <1>1, <2>3, <4>1, <4>2 DEF MarkShape
    <3>7. ASSUME NEW p \in Obj, next'[p].mark, NEW f \in Field
          PROVE  \/ refs[p][f] = Nil \/ next'[refs[p][f]].mark
                 \/ \E i \in DOMAIN calls' :
                      calls'[i].obj = p /\ \E j \in DOMAIN calls'[i].todo : calls'[i].todo[j] = refs[p][f]
      <4>1. refs[p][f] = Nil \/ refs[p][f] \in Node
        BY <1>5 DEF TypeOK, Ref
      <4>2. CASE p = o
        <5>1. PICK j \in DOMAIN Fields : Fields[j] = f
          BY ObjMgrAssumption
        <5>. QED
          BY <2>4, <2>5, <3>2, <4>2, <5>1
      <4>3. CASE p # o
        <5>1. \/ refs[p][f] = Nil \/ next[refs[p][f]].mark
              \/ \E i \in DOMAIN calls :
                   calls[i].obj = p /\ \E j \in DOMAIN calls[i].todo : calls[i].todo[j] = refs[p][f]
          <6>1. next[p].mark
            BY <1>5, <2>3, <3>7, <4>3
          <6>. QED
            BY <1>1, <6>1 DEF MarkShape
        <5>2. CASE refs[p][f] = Nil \/ next[refs[p][f]].mark
          BY <2>3, <4>1, <5>2
        <5>3. ASSUME NEW i \in DOMAIN calls, calls[i].obj = p,
                     NEW j \in DOMAIN calls[i].todo, calls[i].todo[j] = refs[p][f]
              PROVE  next'[refs[p][f]].mark \/ \E k \in DOMAIN calls' :
                       calls'[k].obj = p /\ \E l \in DOMAIN calls'[k].todo : calls'[k].todo[l] = refs[p][f]
          <6>1. CASE refs[p][f] = o
            BY <1>5, <2>1, <2>3, <6>1
          <6>2. CASE refs[p][f] # o
            <7>1. PICK k \in DOMAIN Rest[i].todo : Rest[i].todo[k] = refs[p][f]
              BY <1>4, <5>3, <6>2
            <7>. QED
              BY <2>4, <3>1, <5>3, <7>1
          <6>. QED
            BY <6>1, <6>2
        <5>. QED
          BY <5>1, <5>2, <5>3
      <4>. QED
        BY <4>2, <4>3
    <3>8. next'[Mgr].mark /\ \A p \in Obj : next'[p].mark => p \in Wanted
      BY <1>1, <1>5, <2>1, <2>3 DEF MarkShape
    <3>. QED
      BY <1>1, <1>3, <3>3, <3>4, <3>5, <3>6, <3>7, <3>8 DEF MarkShape
  <2>. QED
    BY <1>2, <2>6, <2>7, <2>8, <2>9
<1>. QED
  BY <1>6, <1>7

LEMMA MarkReturnKeeps ==
  ASSUME IInv, MarkReturn
  PROVE  IInv'
<1>. USE DEF IInv
<1>1. /\ phase = "mark" /\ phase' = "mark" /\ calls # <<>> /\ Top.todo = <<>>
      /\ UNCHANGED <<alive, next, refs, mRoot, walks, here>>
      /\ calls' = SubSeq(calls, 1, Len(calls) - 1)
  BY DEF MarkReturn
<1>2. TypeOK'
  BY TypeNext DEF Next, GcStep
<1>3. FreeIsClean' /\ PointersAlive' /\ WalkShape' /\ RunShape' /\ SweepShape'
  BY <1>1 DEF FreeIsClean, PointersAlive, WalkShape, RunShape, SweepShape
<1>4. RingShape'
  BY <1>1, RingSame
<1>5. MarkShape'
  <2>1. /\ DOMAIN calls' \subseteq DOMAIN calls
        /\ \A i \in DOMAIN calls' : calls'[i] = calls[i]
        /\ \A i \in DOMAIN calls : i \in DOMAIN calls' \/ i = Len(calls)
    BY <1>1, PoppedCalls, CallsTyped
  \* The call that returns has nothing left to mark.
  <2>2. ASSUME NEW i \in DOMAIN calls, NEW j \in DOMAIN calls[i].todo
        PROVE  i \in DOMAIN calls'
    <3>1. DOMAIN Top.todo = {}
      BY <1>1
    <3>. QED
      BY <2>1, <2>2, <3>1 DEF Top
  <2>3. /\ next[Mgr].mark
        /\ \A o \in Obj : next[o].mark => o \in Wanted
        /\ \A i \in DOMAIN calls' : next[calls'[i].obj].mark
        /\ \A i \in DOMAIN calls' : \A j \in DOMAIN calls'[i].todo : calls'[i].todo[j] \in Wanted \cup {Nil}
        /\ \A i, j \in DOMAIN calls' : calls'[i].obj = calls'[j].obj => i = j
    BY <1>1, <2>1 DEF MarkShape, CallsAreDistinct
  <2>4. \/ mRoot = Nil \/ next[mRoot].mark
        \/ \E i \in DOMAIN calls' :
             calls'[i].obj = Mgr /\ \E j \in DOMAIN calls'[i].todo : calls'[i].todo[j] = mRoot
    BY <1>1, <2>1, <2>2 DEF MarkShape
  <2>5. ASSUME NEW o \in Obj, next[o].mark, NEW f \in Field
        PROVE  \/ refs[o][f] = Nil \/ next[refs[o][f]].mark
               \/ \E i \in DOMAIN calls' :
                    calls'[i].obj = o /\ \E j \in DOMAIN calls'[i].todo : calls'[i].todo[j] = refs[o][f]
    <3>1. \/ refs[o][f] = Nil \/ next[refs[o][f]].mark
          \/ \E i \in DOMAIN calls :
               calls[i].obj = o /\ \E j \in DOMAIN calls[i].todo : calls[i].todo[j] = refs[o][f]
      BY <1>1, <2>5 DEF MarkShape
    <3>. QED
      BY <2>1, <2>2, <3>1
  <2>6. Wanted' = Wanted
    BY <1>1 DEF Wanted
  <2>. QED
    BY <1>1, <2>3, <2>4, <2>5, <2>6 DEF MarkShape, CallsAreDistinct
<1>. QED
  BY <1>2, <1>3, <1>4, <1>5

\* The marks are what the root reaches when the calls are over.
LEMMA MarkEndKeeps ==
  ASSUME IInv, MarkEnd
  PROVE  IInv'
<1>. USE DEF IInv
<1>1. /\ phase = "mark" /\ phase' = "sweep" /\ calls = <<>> /\ here' = Mgr
      /\ UNCHANGED <<alive, next, refs, mRoot, calls, walks>>
  BY DEF MarkEnd
<1>2. TypeOK'
  BY TypeNext DEF Next, GcStep
<1>3. FreeIsClean' /\ PointersAlive' /\ WalkShape' /\ RunShape' /\ MarkShape'
  BY <1>1 DEF FreeIsClean, PointersAlive, WalkShape, RunShape, MarkShape
<1>4. RingShape'
  BY <1>1, RingSame
<1>5. mRoot \in Ref /\ refs \in Pointers /\ alive \subseteq Obj /\ Mgr \notin Obj /\ Node = Obj \cup {Mgr}
  BY ObjMgrAssumption DEF TypeOK, Pointers, Node
<1>6. Wanted \subseteq {o \in Obj : next[o].mark}
  <2>. DEFINE S == {o \in Obj : next[o].mark}
  <2>1. mRoot \in S \cup {Nil}
    BY <1>1, <1>5 DEF MarkShape, Ref
  <2>2. \A o \in S : \A f \in Field : refs[o][f] \in S \cup {Nil}
    BY <1>1, <1>5 DEF MarkShape, Pointers, Ref
  <2>. QED
    BY <2>1, <2>2, ReachedLeast DEF Wanted, Closed
<1>7. Wanted \subseteq alive
  BY <1>1, <1>5, ReachedLeast DEF PointersAlive, Closed, Wanted
<1>8. Wanted' = Wanted
  BY <1>1 DEF Wanted
<1>9. SweepAt(alive)'
  <2>1. \A u \in alive : next[u].mark <=> u \in Wanted
    BY <1>1, <1>5, <1>6 DEF MarkShape
  <2>2. \A n \in Node \ alive : next[n].mark => n = Mgr
    BY <1>1, <1>5, <1>7 DEF MarkShape
  <2>3. next[Mgr].to \in alive \cup {Mgr} /\ \A u \in alive : next[u].to \in alive \cup {Mgr}
    BY DEF RingShape, Chained
  <2>. QED
    BY <1>1, <1>5, <1>7, <1>8, <2>1, <2>2, <2>3 DEF SweepAt, Chained
<1>. QED
  BY <1>2, <1>3, <1>4, <1>9 DEF SweepShape

-----------------------------------------------------------------------------
(* The steps of the sweep keep the invariant. *)

\* The end of the ring has nothing behind it.
LEMMA NothingBehind ==
  ASSUME TypeOK, RingShape, NEW U \in SUBSET alive, SweepAt(U), next[here].to = Mgr
  PROVE  U = {}
<1>1. SUFFICES ASSUME U # {} PROVE FALSE
  OBVIOUS
<1>2. PICK u \in U : next[u].to \notin U
  BY <1>1 DEF RingShape
<1>3. next[u].to = Mgr
  BY <1>2 DEF SweepAt
<1>. QED
  BY <1>3 DEF RingShape, SweepAt, Chained

\* A turn of the loop leaves the mark of here only.
LEMMA UnmarkedIs ==
  ASSUME TypeOK
  PROVE  \A k \in Node : /\ Unmarked[k].to = next[k].to /\ Unmarked[k].walk = next[k].walk
                         /\ Unmarked[k].mark = IF k = here THEN FALSE ELSE next[k].mark
<1>1. next \in [Node -> Link] /\ here \in Node
  BY DEF TypeOK, Link
<1>. QED
  BY <1>1, SetMark DEF Unmarked

LEMMA SweepEndKeeps ==
  ASSUME IInv, SweepEnd
  PROVE  IInv'
<1>. USE DEF IInv
<1>1. /\ phase = "sweep" /\ phase' = "run" /\ next[here].to = Mgr /\ next' = Unmarked
      /\ UNCHANGED <<alive, refs, mRoot, calls, here, walks>>
  BY DEF SweepEnd
<1>2. TypeOK'
  BY TypeNext DEF Next, GcStep
<1>3. SweepAt({})
  BY <1>1, NothingBehind DEF SweepShape
<1>4. \A k \in Node : /\ next'[k].to = next[k].to /\ next'[k].walk = next[k].walk
                      /\ next'[k].mark = IF k = here THEN FALSE ELSE next[k].mark
  BY <1>1, UnmarkedIs
<1>. HIDE DEF Unmarked
<1>5. here \in alive \cup {Mgr} /\ Mgr \notin Obj /\ alive \subseteq Obj /\ Obj \subseteq Node
  BY <1>3, ObjMgrAssumption DEF SweepAt, Chained, TypeOK, Node
<1>6. FreeIsClean'
  <2>1. next \in [Node -> Link]
    BY DEF TypeOK, Link
  <2>2. \A k \in Obj \ alive : next'[k] = next[k]
    BY <1>1, <1>5, <2>1 DEF Unmarked
  <2>. QED
    BY <1>1, <2>2 DEF FreeIsClean
<1>7. PointersAlive'
  <2>1. alive \subseteq Wanted /\ Wanted \subseteq alive
    BY <1>3 DEF SweepAt
  <2>2. mRoot \in Wanted \cup {Nil} /\ \A o \in Wanted : \A f \in Field : refs[o][f] \in Wanted \cup {Nil}
    BY ReachedRoot, ReachedClosed DEF TypeOK, Pointers, Wanted
  <2>. QED
    BY <1>1, <2>1, <2>2 DEF PointersAlive
<1>8. RingShape'
  BY <1>1, <1>4, RingSame
<1>9. WalkShape'
  BY <1>1, <1>4, WalksSame DEF WalkShape
<1>10. RunShape'
  <2>1. \A n \in Node : next[n].mark => n = here
    BY <1>3 DEF SweepAt
  <2>. QED
    BY <1>1, <1>4, <2>1 DEF RunShape
<1>. QED
  BY <1>1, <1>2, <1>6, <1>7, <1>8, <1>9, <1>10, RunOnly

LEMMA SweepKeepKeeps ==
  ASSUME IInv, SweepKeep
  PROVE  IInv'
<1>. USE DEF IInv
<1>0. PICK o \in Node : o = next[here].to
  BY DEF TypeOK
<1>1. /\ phase = "sweep" /\ phase' = "sweep" /\ o # Mgr /\ next[o].mark /\ next' = Unmarked /\ here' = o
      /\ UNCHANGED <<alive, refs, mRoot, calls, walks>>
  BY <1>0 DEF SweepKeep, HereAfterKeep
<1>2. TypeOK'
  BY TypeNext DEF Next, GcStep
<1>3. PICK U \in SUBSET alive : SweepAt(U)
  BY <1>1 DEF SweepShape
<1>4. \A k \in Node : /\ next'[k].to = next[k].to /\ next'[k].walk = next[k].walk
                      /\ next'[k].mark = IF k = here THEN FALSE ELSE next[k].mark
  BY <1>1, UnmarkedIs
<1>. HIDE DEF Unmarked
<1>5. /\ here \in Chained /\ here \notin U /\ Chained \subseteq Node /\ Mgr \notin Obj /\ alive \subseteq Obj
      /\ Obj \subseteq Node /\ o \in U
  BY <1>0, <1>1, <1>3, ObjMgrAssumption DEF SweepAt, Chained, TypeOK, Node
<1>6. FreeIsClean'
  <2>1. next \in [Node -> Link] /\ here \in alive \cup {Mgr}
    BY <1>5 DEF TypeOK, Link, Chained
  <2>2. \A k \in Obj \ alive : next'[k] = next[k]
    BY <1>1, <1>5, <2>1 DEF Unmarked
  <2>. QED
    BY <1>1, <2>2 DEF FreeIsClean
<1>7. PointersAlive' /\ RunShape' /\ MarkShape'
  BY <1>1 DEF PointersAlive, RunShape, MarkShape
<1>8. RingShape'
  BY <1>1, <1>4, RingSame
<1>9. WalkShape'
  BY <1>1, <1>4, WalksSame DEF WalkShape
<1>10. Wanted' = Wanted
  BY <1>1 DEF Wanted
<1>11. \A u \in U : u \in Node /\ u # here /\ next'[u].mark = next[u].mark /\ next'[u].to = next[u].to
  BY <1>4, <1>5
<1>12. \A u \in U : next[u].to # o
  BY <1>0, <1>5 DEF RingShape, Chained
<1>13. next[o].to \in U \cup {Mgr} /\ next[o].to # o
  BY <1>3, <1>5, <1>12 DEF SweepAt
<1>14. SweepAt(U \ {o})'
  <2>1. o \in Chained /\ o \in Node /\ o \in Wanted /\ Chained' = Chained
    BY <1>1, <1>3, <1>5 DEF SweepAt, Chained
  <2>2. \A n \in Node \ (U \ {o}) : next'[n].mark => n = o
    BY <1>3, <1>4, <2>1 DEF SweepAt
  <2>3. \A u \in U \ {o} : next'[u].to \in (U \ {o}) \cup {Mgr}
    BY <1>3, <1>11, <1>12 DEF SweepAt
  <2>4. \A u \in U \ {o} : next'[u].mark <=> u \in Wanted
    BY <1>3, <1>11 DEF SweepAt
  <2>5. \A p \in alive \ (U \ {o}) : p \in Wanted
    BY <1>3, <2>1 DEF SweepAt
  <2>6. next'[o].to \in (U \ {o}) \cup {Mgr}
    BY <1>5, <1>11, <1>13
  <2>7. Wanted \subseteq alive
    BY <1>3 DEF SweepAt
  <2>8. here' = o /\ alive' = alive
    BY <1>1
  <2>. QED
    BY <1>10, <2>1, <2>2, <2>3, <2>4, <2>5, <2>6, <2>7, <2>8 DEF SweepAt
<1>. QED
  BY <1>1, <1>2, <1>6, <1>7, <1>8, <1>9, <1>14 DEF SweepShape

LEMMA SweepDeleteKeeps ==
  ASSUME IInv, SweepDelete
  PROVE  IInv' /\ Wanted' = Wanted /\ next[here].to \notin Wanted
<1>. USE DEF IInv
<1>0. PICK o \in Node : o = next[here].to
  BY DEF TypeOK
<1>1. /\ phase = "sweep" /\ phase' = "sweep" /\ o # Mgr /\ ~next[o].mark /\ here' = here
      /\ next' = [Unmarked EXCEPT ![here] = next[o], ![o] = Unlinked]
      /\ refs' = [refs EXCEPT ![o] = NoRefs] /\ alive' = alive \ {o}
      /\ UNCHANGED <<mRoot, calls, walks>>
  BY <1>0 DEF SweepDelete, HereAfterDelete
<1>2. TypeOK'
  BY TypeNext DEF Next, GcStep
<1>3. PICK U \in SUBSET alive : SweepAt(U)
  BY <1>1 DEF SweepShape
<1>4. /\ here \in Chained /\ here \notin U /\ Mgr \notin Obj /\ alive \subseteq Obj
      /\ Obj \subseteq Node /\ o \in U /\ o \in alive /\ o \in Obj
  BY <1>0, <1>1, <1>3, ObjMgrAssumption DEF SweepAt, Chained, TypeOK, Node
<1>5. o \notin Wanted
  BY <1>1, <1>3, <1>4 DEF SweepAt
<1>6. Wanted' = Wanted
  <2>1. refs \in Pointers /\ refs' \in Pointers /\ mRoot \in Ref /\ mRoot' = mRoot
    BY <1>1, <1>2 DEF TypeOK, Pointers
  <2>2. \A k \in Wanted : refs'[k] = refs[k]
    BY <1>1, <1>5, <2>1 DEF Wanted, Reached, Pointers
  <2>. QED
    BY <2>1, <2>2, ReachedSame DEF Wanted
<1>7. /\ RingShape' /\ here # o /\ next[o].to # o /\ next'[here].to = next[o].to
      /\ \A k \in Chained' : k # here => next'[k].to = next[k].to
  BY <1>0, <1>1, <1>4, RingDeleted
<1>8. /\ next'[o] = Unlinked /\ next'[here] = next[o]
      /\ \A k \in Node : k # o /\ k # here => next'[k] = next[k]
  <2>1. o # here /\ o \in Obj
    BY <1>4, <1>7
  <2>. HIDE DEF Unmarked, IInv
  <2>2. /\ next' \in [Node -> Link]
        /\ next'[o] = Unlinked
        /\ next'[here] = next[o]
        /\ \A k \in Node : k # o /\ k # here => next'[k] = next[k]
    BY <1>1, <2>1, SetDeleted DEF IInv
  <2>. QED
    BY <2>2
<1>. HIDE DEF Unmarked
<1>9. here \in Node /\ here \in alive' \cup {Mgr}
  BY <1>1, <1>4, <1>7 DEF Chained, Node
<1>10. FreeIsClean'
  <2>1. ASSUME NEW k \in Obj \ alive' PROVE next'[k] = Unlinked /\ refs'[k] = NoRefs
    <3>1. CASE k = o
      BY <1>1, <1>4, <1>8, <3>1 DEF TypeOK
    <3>2. CASE k # o
      <4>1. k \in Obj \ alive /\ k # here /\ k \in Node
        BY <1>1, <1>4, <1>9, <3>2
      <4>. QED
        BY <1>1, <1>4, <1>8, <3>2, <4>1 DEF FreeIsClean, TypeOK
    <3>. QED
      BY <3>1, <3>2
  <2>. QED
    BY <2>1 DEF FreeIsClean
<1>11. PointersAlive' /\ RunShape' /\ MarkShape'
  BY <1>1 DEF PointersAlive, RunShape, MarkShape
<1>12. WalkShape'
  <2>1. walks = <<>> /\ \A n \in Node : ~next[n].walk
    BY <1>1 DEF WalkShape
  <2>2. \A n \in Node : ~next'[n].walk
    <3>1. ~Unlinked.walk
      BY DEF Unlinked
    <3>. QED
      BY <1>4, <1>8, <2>1, <3>1
  <2>3. walks' = <<>> /\ DOMAIN walks' = {}
    BY <1>1, <2>1
  <2>. QED
    BY <2>2, <2>3 DEF WalkShape
<1>13. SweepAt(U \ {o})'
  <2>1. here' \in Chained' /\ here' \notin U \ {o}
    BY <1>1, <1>4, <1>9 DEF Chained
  <2>2. next'[here].to \in (U \ {o}) \cup {Mgr}
    BY <1>3, <1>4, <1>7 DEF SweepAt
  <2>3. \A u \in U \ {o} : u \in Node /\ u # here /\ u # o /\ next'[u] = next[u]
    BY <1>4, <1>8
  <2>4. \A u \in U \ {o} : next[u].to # o
    BY <1>0, <1>4, <1>7, <2>3 DEF RingShape, Chained
  <2>5. \A u \in U \ {o} : next'[u].to \in (U \ {o}) \cup {Mgr}
    BY <1>3, <2>3, <2>4 DEF SweepAt
  <2>6. \A u \in U \ {o} : next'[u].mark <=> u \in Wanted
    BY <1>3, <2>3 DEF SweepAt
  <2>7. \A n \in Node \ (U \ {o}) : next'[n].mark => n = here
    <3>1. ~Unlinked.mark
      BY DEF Unlinked
    <3>. QED
      BY <1>3, <1>8, <3>1 DEF SweepAt
  <2>8. \A p \in alive' \ (U \ {o}) : p \in Wanted
    BY <1>1, <1>3 DEF SweepAt
  <2>9. Wanted \subseteq alive'
    BY <1>1, <1>3, <1>5 DEF SweepAt
  <2>. DEFINE V == U \ {o}
  <2>10. /\ \A u \in V : next'[u].to \in V \cup {Mgr}
         /\ \A u \in V : next'[u].mark <=> u \in Wanted'
         /\ \A n \in Node \ V : next'[n].mark => n = here'
         /\ \A p \in alive' \ V : p \in Wanted'
         /\ Wanted' \subseteq alive'
         /\ here' \in Chained' /\ here' \notin V /\ next'[here'].to \in V \cup {Mgr}
    BY <1>1, <1>6, <2>1, <2>2, <2>5, <2>6, <2>7, <2>8, <2>9
  <2>. HIDE DEF V
  <2>11. SweepAt(V)'
    BY <2>10 DEF SweepAt
  <2>. QED
    BY <2>11 DEF V
<1>14. SweepShape'
  <2>1. U \ {o} \in SUBSET alive'
    BY <1>1
  <2>. QED
    BY <1>13, <2>1 DEF SweepShape
<1>. QED
  BY <1>0, <1>2, <1>5, <1>6, <1>7, <1>10, <1>11, <1>12, <1>14

-----------------------------------------------------------------------------
(* The theorems. *)

LEMMA StutterKeeps ==
  ASSUME IInv, UNCHANGED vars
  PROVE  IInv'
<1>. USE DEF IInv, vars
<1>1. TypeOK'
  BY TypeNext DEF vars
<1>2. FreeIsClean' /\ PointersAlive' /\ WalkShape' /\ RunShape'
  BY DEF FreeIsClean, PointersAlive, WalkShape, RunShape
<1>3. RingShape'
  BY RingSame
<1>4. Wanted' = Wanted /\ Chained' = Chained
  BY DEF Wanted, Chained
<1>5. MarkShape'
  BY <1>4 DEF MarkShape, CallsAreDistinct
<1>6. SweepShape'
  BY <1>4 DEF SweepShape, SweepAt
<1>. QED
  BY <1>1, <1>2, <1>3, <1>5, <1>6

LEMMA NextKeeps == IInv /\ [Next]_vars => IInv'
<1>. SUFFICES ASSUME IInv, [Next]_vars PROVE IInv'
  OBVIOUS
<1>1. ASSUME NEW o \in Obj, Make(o) PROVE IInv'
  BY <1>1, MakeKeeps
<1>2. ASSUME NEW o \in Obj, NEW f \in Field, NEW p \in Ref, Assign(o, f, p) PROVE IInv'
  BY <1>2, AssignKeeps
<1>3. ASSUME NEW p \in Ref, SetRoot(p) PROVE IInv'
  BY <1>3, SetRootKeeps
<1>4. ASSUME NEW o \in Obj, Walk(o) PROVE IInv'
  BY <1>4, WalkKeeps
<1>5. CASE Unwalk
  BY <1>5, UnwalkKeeps
<1>6. CASE Gc
  BY <1>6, GcKeeps
<1>7. CASE MarkField
  BY <1>7, MarkFieldKeeps
<1>8. CASE MarkReturn
  BY <1>8, MarkReturnKeeps
<1>9. CASE MarkEnd
  BY <1>9, MarkEndKeeps
<1>10. CASE SweepEnd
  BY <1>10, SweepEndKeeps
<1>11. CASE SweepDelete
  BY <1>11, SweepDeleteKeeps
<1>12. CASE SweepKeep
  BY <1>12, SweepKeepKeeps
<1>13. CASE UNCHANGED vars
  BY <1>13, StutterKeeps
<1>. QED
  BY <1>1, <1>2, <1>3, <1>4, <1>5, <1>6, <1>7, <1>8, <1>9, <1>10, <1>11, <1>12, <1>13 DEF Next, GcStep

\* The invariant holds in every state, whatever the objects, their fields and the
\* order in which the mutator makes, links and drops them.
THEOREM Invariant == Spec => []IInv
  BY InitIInv, NextKeeps, PTL DEF Spec

\* The variables of the heap and of gc() have their types.
THEOREM TypeCorrect == Spec => []TypeOK
<1>1. IInv => TypeOK
  BY DEF IInv
<1>. QED
  BY Invariant, <1>1, PTL

\* Nothing that the root reaches is deleted: not by gc(), and no pointer that is
\* followed from the root leads to freed memory.
THEOREM NothingDangles == Spec => []NoDangling
<1>1. ASSUME IInv PROVE NoDangling
  <2>. USE <1>1 DEF IInv
  <2>1. CASE phase = "sweep"
    <3>1. PICK U \in SUBSET alive : SweepAt(U)
      BY <2>1 DEF SweepShape
    <3>. QED
      BY <3>1 DEF SweepAt, NoDangling, Wanted
  <2>2. CASE phase # "sweep"
    <3>1. Closed(alive, refs) /\ mRoot \in alive \cup {Nil} /\ alive \in SUBSET Obj
      BY <2>2 DEF PointersAlive, Closed, TypeOK
    <3>. QED
      BY <3>1, ReachedLeast DEF NoDangling
  <2>. QED
    BY <2>1, <2>2
<1>. QED
  BY Invariant, <1>1, PTL

\* gc_mark_dfs is never entered for an object that one of its calls is at already,
\* so the recursion is at most as deep as there are objects, whatever cycles they form.
THEOREM CallsDistinct == Spec => []CallsAreDistinct
<1>1. ASSUME IInv PROVE CallsAreDistinct
  <2>. USE <1>1 DEF IInv
  <2>1. CASE phase = "mark"
    BY <2>1 DEF MarkShape
  <2>2. CASE phase # "mark"
    <3>1. calls = <<>>
      BY <2>2 DEF RunShape
    <3>. QED
      BY <3>1 DEF CallsAreDistinct
  <2>. QED
    BY <2>1, <2>2
<1>. QED
  BY Invariant, <1>1, PTL

\* Every collection starts with all marks clear, and the Walked flags that are set
\* are those of the guards alive.
THEOREM FlagsClear == Spec => []FlagsAreClear
<1>1. ASSUME IInv PROVE FlagsAreClear
  <2>. USE <1>1 DEF IInv
  <2>1. \A i \in DOMAIN walks : walks[i] \in Node
    BY DEF WalkShape, TypeOK, Node
  <2>2. {o \in Node : next[o].walk} = {walks[i] : i \in DOMAIN walks}
    BY <2>1 DEF WalkShape
  <2>. QED
    BY <2>2 DEF FlagsAreClear, RunShape
<1>. QED
  BY Invariant, <1>1, PTL

-----------------------------------------------------------------------------
(* gc() implements the collection of Heap. *)

\* The fields of the objects that Heap sees.
KeptRefs == [o \in Obj |-> IF o \in Kept THEN refs[o] ELSE NoRefs]

\* Outside of the sweep it sees all of them as they are.
LEMMA KeptAsIs ==
  ASSUME IInv, phase # "sweep"
  PROVE  Kept = alive /\ KeptRefs = refs
<1>1. Kept = alive
  BY DEF Kept
<1>2. refs \in Pointers /\ \A o \in Obj \ alive : refs[o] = NoRefs
  BY DEF IInv, TypeOK, Pointers, FreeIsClean
<1>. QED
  BY <1>1, <1>2 DEF KeptRefs, Pointers

LEMMA KeptAsIsNext ==
  ASSUME IInv', phase' # "sweep"
  PROVE  Kept' = alive' /\ KeptRefs' = refs'
<1>1. Kept' = alive'
  BY DEF Kept
<1>2. refs' \in Pointers /\ \A o \in Obj \ alive' : refs'[o] = NoRefs
  BY DEF IInv, TypeOK, Pointers, FreeIsClean
<1>. QED
  BY <1>1, <1>2 DEF KeptRefs, Pointers

\* During it, what the root reaches.
LEMMA KeptInSweep ==
  ASSUME phase = "sweep"
  PROVE  Kept = Wanted
  BY DEF Kept, Wanted

\* A step that leaves the fields of what is kept alone is none of Heap's.
LEMMA HeapStutters ==
  ASSUME Kept' = Kept, mRoot' = mRoot, \A o \in Kept : refs'[o] = refs[o]
  PROVE  UNCHANGED <<Kept, KeptRefs, mRoot>>
  BY DEF KeptRefs

LEMMA HeapStep ==
  ASSUME IInv, IInv', [Next]_vars
  PROVE  [H!Next]_<<Kept, KeptRefs, mRoot>>
<1>. USE DEF IInv
<1>1. ASSUME NEW o \in Obj, Make(o) PROVE H!Make(o)
  <2>1. /\ phase = "run" /\ phase' = "run" /\ o \notin alive /\ alive' = alive \cup {o}
        /\ refs' = refs /\ mRoot' = mRoot
    BY <1>1 DEF Make, Running, gcVars
  <2>2. Kept = alive /\ KeptRefs = refs /\ Kept' = alive' /\ KeptRefs' = refs'
    BY <2>1, KeptAsIs, KeptAsIsNext
  <2>. QED
    BY <2>1, <2>2 DEF H!Make, KeptRefs
<1>2. ASSUME NEW o \in Obj, NEW f \in Field, NEW p \in Ref, Assign(o, f, p) PROVE H!Assign(o, f, p)
  <2>1. /\ phase = "run" /\ phase' = "run" /\ o \in alive /\ p \in alive \cup {Nil}
        /\ refs' = [refs EXCEPT ![o][f] = p] /\ alive' = alive /\ mRoot' = mRoot
    BY <1>2 DEF Assign, Running, gcVars
  <2>2. Kept = alive /\ KeptRefs = refs /\ Kept' = alive' /\ KeptRefs' = refs'
    BY <2>1, KeptAsIs, KeptAsIsNext
  <2>. QED
    BY <2>1, <2>2 DEF H!Assign, KeptRefs
<1>3. ASSUME NEW p \in Ref, SetRoot(p) PROVE H!SetRoot(p)
  <2>1. phase = "run" /\ phase' = "run" /\ p \in alive \cup {Nil} /\ mRoot' = p /\ UNCHANGED <<alive, refs>>
    BY <1>3 DEF SetRoot, Running, gcVars
  <2>2. Kept = alive /\ KeptRefs = refs /\ Kept' = alive' /\ KeptRefs' = refs'
    BY <2>1, KeptAsIs, KeptAsIsNext
  <2>. QED
    BY <2>1, <2>2 DEF H!SetRoot, KeptRefs
<1>4. ASSUME NEW o \in Obj, Walk(o) PROVE UNCHANGED <<Kept, KeptRefs, mRoot>>
  BY <1>4 DEF Walk, gcVars, Kept, KeptRefs
<1>5. CASE Unwalk \/ Gc \/ MarkField \/ MarkReturn \/ UNCHANGED vars
  <2>1. UNCHANGED <<alive, refs, mRoot>>
    BY <1>5 DEF Unwalk, Gc, MarkField, MarkReturn, vars
  <2>2. phase = "sweep" <=> phase' = "sweep"
    BY <1>5 DEF Unwalk, Gc, MarkField, MarkReturn, vars, gcVars, Running
  <2>. QED
    BY <2>1, <2>2 DEF Kept, KeptRefs
<1>6. CASE MarkEnd
  <2>1. phase = "mark" /\ phase' = "sweep" /\ UNCHANGED <<alive, refs, mRoot>>
    BY <1>6 DEF MarkEnd
  <2>2. Kept = alive /\ KeptRefs = refs
    BY <2>1, KeptAsIs
  <2>3. Kept' = Reached(refs, mRoot)
    BY <2>1 DEF Kept
  <2>4. KeptRefs' = [o \in Obj |-> IF o \in Kept' THEN refs[o] ELSE NoRefs]
    BY <2>1 DEF KeptRefs
  <2>5. H!Collect
    BY <2>1, <2>2, <2>3, <2>4 DEF H!Collect, H!Reached, H!Closed, H!NoRefs, KeptRefs, Reached, Closed, NoRefs
  <2>. QED
    BY <2>5 DEF H!Next
<1>7. CASE SweepKeep
  BY <1>7 DEF SweepKeep, Kept, KeptRefs
<1>8. CASE SweepDelete
  <2>1. /\ phase = "sweep" /\ phase' = "sweep" /\ mRoot' = mRoot
        /\ refs' = [refs EXCEPT ![next[here].to] = NoRefs]
    BY <1>8 DEF SweepDelete
  <2>2. Wanted' = Wanted /\ next[here].to \notin Wanted
    BY <1>8, SweepDeleteKeeps
  <2>3. Kept' = Wanted /\ Kept = Wanted
    BY <2>1, <2>2 DEF Kept, Wanted
  <2>4. \A o \in Kept : refs'[o] = refs[o]
    BY <2>1, <2>2, <2>3 DEF TypeOK, Wanted, Reached
  <2>. QED
    BY <2>1, <2>3, <2>4, HeapStutters
<1>9. CASE SweepEnd
  <2>1. /\ phase = "sweep" /\ phase' = "run" /\ next[here].to = Mgr
        /\ UNCHANGED <<alive, refs, mRoot>>
    BY <1>9 DEF SweepEnd
  <2>2. SweepAt({})
    BY <2>1, NothingBehind DEF SweepShape
  <2>3. Kept = Wanted /\ Kept' = alive /\ Wanted = alive
    BY <2>1, <2>2 DEF Kept, Wanted, SweepAt
  <2>. QED
    BY <2>1, <2>3, HeapStutters
<1>. QED
  BY <1>1, <1>2, <1>3, <1>4, <1>5, <1>6, <1>7, <1>8, <1>9 DEF Next, GcStep, H!Next, H!Ref, Ref

\* Seen from outside, objects are made, assigned and, all at once, kept or collected:
\* exactly those that the root reaches survive gc().
THEOREM GcImplementsHeap == Spec => ImplementsHeap
<1>1. Init => H!Init
  BY DEF Init, H!Init, Kept, H!NoRefs, NoRefs
<1>2. IInv /\ IInv' /\ [Next]_vars => [H!Next]_<<Kept, KeptRefs, mRoot>>
  BY HeapStep
<1>. QED
  BY Invariant, <1>1, <1>2, PTL DEF Spec, ImplementsHeap, H!Spec, KeptRefs

-----------------------------------------------------------------------------
(* The ring, counted along.                                                 *)

LEMMA LeastOf ==
  ASSUME NEW T, T \subseteq Nat, T # {}
  PROVE  \E m \in T : \A j \in T : m <= j
<1>1. PICK m \in T : \A j \in T : ~(<<j, m>> \in OpToRel(<, Nat))
  BY WFMin, NatLessThanWellFounded, Zenon
<1>2. \A j \in T : ~(j < m)
  BY <1>1 DEF OpToRel
<1>3. \A j \in T : j \in Nat /\ m \in Nat
  BY <1>1
<1>4. \A j \in T : m <= j
  BY <1>2, <1>3
<1>. QED
  BY <1>4

\* r is the ring as far as n.
Follows(r, n) == r = [k \in 0 .. n |-> IF k = 0 THEN Mgr ELSE next[r[k - 1]].to]

LEMMA FollowsIs ==
  ASSUME NEW r, NEW n \in Nat, Follows(r, n)
  PROVE  /\ DOMAIN r = 0 .. n /\ r[0] = Mgr
         /\ \A k \in 1 .. n : r[k] = next[r[k - 1]].to
<1>1. r = [k \in 0 .. n |-> IF k = 0 THEN Mgr ELSE next[r[k - 1]].to]
  BY DEF Follows
<1>2. DOMAIN r = 0 .. n
  BY <1>1
<1>3. \A k \in 0 .. n : r[k] = IF k = 0 THEN Mgr ELSE next[r[k - 1]].to
  BY <1>1, Zenon
<1>. QED
  BY <1>2, <1>3

LEMMA FollowsMore ==
  ASSUME NEW r, NEW n \in Nat, Follows(r, n)
  PROVE  \E s : Follows(s, n + 1)
<1>. DEFINE s == [k \in 0 .. n + 1 |-> IF k = 0 THEN Mgr ELSE next[r[k - 1]].to]
<1>1. \A k \in 0 .. n : s[k] = r[k]
  BY FollowsIs
<1>2. \A k \in 0 .. n + 1 : (IF k = 0 THEN Mgr ELSE next[r[k - 1]].to)
                          = (IF k = 0 THEN Mgr ELSE next[s[k - 1]].to)
  <2>. HIDE DEF s
  <2>1. \A k \in 0 .. n + 1 : k # 0 => k - 1 \in 0 .. n
    OBVIOUS
  <2>. QED
    BY <1>1, <2>1
<1>3. s = [k \in 0 .. n + 1 |-> IF k = 0 THEN Mgr ELSE next[s[k - 1]].to]
  BY <1>2, Zenon
<1>. QED
  BY <1>3, Zenon DEF Follows

LEMMA FollowsExists == \A n \in Nat : \E r : Follows(r, n)
<1>. DEFINE T == {n \in Nat : ~ \E r : Follows(r, n)}
<1>. SUFFICES ASSUME T # {} PROVE FALSE
  OBVIOUS
<1>1. T \subseteq Nat
  OBVIOUS
<1>. HIDE DEF T
<1>2. PICK m \in T : \A j \in T : m <= j
  BY <1>1, LeastOf
<1>3. m \in Nat /\ ~ \E r : Follows(r, m)
  BY <1>2 DEF T
<1>4. CASE m = 0
  <2>. DEFINE r == [k \in 0 .. 0 |-> Mgr]
  <2>1. \A k \in 0 .. 0 : Mgr = IF k = 0 THEN Mgr ELSE next[r[k - 1]].to
    OBVIOUS
  <2>2. r = [k \in 0 .. 0 |-> IF k = 0 THEN Mgr ELSE next[r[k - 1]].to]
    BY <2>1, Zenon
  <2>3. Follows(r, 0)
    BY <2>2, Zenon DEF Follows
  <2>. QED
    BY <1>3, <1>4, <2>3, Zenon
<1>5. CASE m # 0
  <2>1. m - 1 \in Nat /\ m - 1 \notin T /\ (m - 1) + 1 = m
    BY <1>2, <1>3, <1>5
  <2>2. PICK r : Follows(r, m - 1)
    BY <2>1 DEF T
  <2>. DEFINE n == m - 1
  <2>3. n \in Nat /\ Follows(r, n)
    BY <2>1, <2>2
  <2>. HIDE DEF n
  <2>4. \E s : Follows(s, n + 1)
    BY <2>3, FollowsMore
  <2>5. n + 1 = m
    BY <2>1 DEF n
  <2>. QED
    BY <1>3, <2>4, <2>5, Zenon
<1>. QED
  BY <1>4, <1>5

LEMMA AliveIsFinite ==
  ASSUME TypeOK
  PROVE  IsFiniteSet(alive) /\ Cardinality(alive) \in Nat
<1>1. IsFiniteSet(alive)
  BY ObjMgrAssumption, FS_Subset DEF TypeOK
<1>. QED
  BY <1>1, FS_CardinalityType

LEMMA RingFollows ==
  ASSUME TypeOK
  PROVE  Follows(Ring, Cardinality(alive) + 1)
<1>. DEFINE n == Cardinality(alive) + 1
<1>1. n \in Nat
  BY AliveIsFinite
<1>2. PICK r : Follows(r, n)
  BY <1>1, FollowsExists
<1>3. r = [k \in Pos |-> IF k = 0 THEN Mgr ELSE next[r[k - 1]].to]
  BY <1>2, Zenon DEF Follows, Pos
<1>4. Ring = [k \in Pos |-> IF k = 0 THEN Mgr ELSE next[Ring[k - 1]].to]
  BY <1>3, Zenon DEF Ring
<1>. QED
  BY <1>4, Zenon DEF Follows, Pos

LEMMA StaysInRing ==
  ASSUME RingShape, NEW r, NEW n \in Nat, Follows(r, n)
  PROVE  \A k \in 0 .. n : r[k] \in Chained
<1>. DEFINE T == {k \in 0 .. n : r[k] \notin Chained}
<1>. SUFFICES ASSUME T # {} PROVE FALSE
  OBVIOUS
<1>1. T \subseteq Nat
  OBVIOUS
<1>. HIDE DEF T
<1>2. PICK k \in T : \A j \in T : k <= j
  BY <1>1, LeastOf
<1>3. k \in 0 .. n /\ r[k] \notin Chained
  BY <1>2 DEF T
<1>4. k # 0
  BY <1>3, FollowsIs DEF Chained
<1>5. k \in 1 .. n /\ k - 1 \in 0 .. n /\ ~(k <= k - 1)
  BY <1>3, <1>4
<1>6. r[k - 1] \in Chained
  BY <1>2, <1>5 DEF T
<1>7. r[k] = next[r[k - 1]].to
  BY <1>5, FollowsIs
<1>. QED
  BY <1>3, <1>6, <1>7 DEF RingShape

\* The manager is the first that is met again.
LEMMA MgrComesAgain ==
  ASSUME RingShape, NEW r, NEW n \in Nat, Follows(r, n),
         NEW i \in 0 .. n, NEW j \in 0 .. n, i < j, r[i] = r[j]
  PROVE  \E d \in 1 .. n : r[d] = Mgr
<1>. DEFINE T == {k \in 0 .. n : \E l \in 0 .. n : k < l /\ r[k] = r[l]}
<1>1. T \subseteq Nat /\ T # {}
  OBVIOUS
<1>. HIDE DEF T
<1>2. PICK k \in T : \A l \in T : k <= l
  BY <1>1, LeastOf
<1>3. PICK l \in 0 .. n : k \in 0 .. n /\ k < l /\ r[k] = r[l]
  BY <1>2 DEF T
<1>4. CASE k = 0
  <2>1. l \in 1 .. n /\ r[l] = Mgr
    BY <1>3, <1>4, FollowsIs
  <2>. QED
    BY <2>1
<1>5. CASE k # 0
  <2>1. k \in 1 .. n /\ l \in 1 .. n /\ k - 1 \in 0 .. n /\ l - 1 \in 0 .. n /\ k - 1 < l - 1 /\ ~(k <= k - 1)
    BY <1>3, <1>5
  <2>2. r[k] = next[r[k - 1]].to /\ r[l] = next[r[l - 1]].to
    BY <2>1, FollowsIs
  <2>3. r[k - 1] \in Chained /\ r[l - 1] \in Chained
    BY <2>1, StaysInRing
  <2>4. r[k - 1] = r[l - 1]
    BY <1>3, <2>2, <2>3 DEF RingShape
  <2>5. k - 1 \in T
    BY <2>1, <2>4 DEF T
  <2>. QED
    BY <1>2, <2>1, <2>5
<1>. QED
  BY <1>4, <1>5

\* When it is, everybody has been met.
LEMMA AllAreMet ==
  ASSUME RingShape, NEW r, NEW n \in Nat, Follows(r, n), NEW d \in 1 .. n, r[d] = Mgr
  PROVE  \A m \in Chained : \E k \in 1 .. d : r[k] = m
<1>. DEFINE S == {m \in Chained : ~ \E k \in 1 .. d : r[k] = m}
<1>. SUFFICES ASSUME S # {} PROVE FALSE
  OBVIOUS
<1>1. S \subseteq alive
  BY DEF Chained
<1>2. PICK m \in S : next[m].to \notin S
  BY <1>1 DEF RingShape
<1>3. m \in Chained /\ next[m].to \in Chained
  BY <1>2 DEF RingShape
<1>4. PICK k \in 1 .. d : r[k] = next[m].to
  BY <1>2, <1>3
<1>5. k \in 1 .. n /\ k - 1 \in 0 .. n
  OBVIOUS
<1>6. r[k] = next[r[k - 1]].to /\ r[k - 1] \in Chained
  BY <1>5, FollowsIs, StaysInRing
<1>7. m = r[k - 1]
  BY <1>3, <1>4, <1>6 DEF RingShape
<1>8. CASE k = 1
  <2>1. m = r[d] /\ d \in 1 .. d
    BY <1>7, <1>8, FollowsIs
  <2>. QED
    BY <1>2, <2>1
<1>9. CASE k # 1
  <2>1. k - 1 \in 1 .. d
    BY <1>9
  <2>. QED
    BY <1>2, <1>7, <2>1
<1>. QED
  BY <1>8, <1>9

LEMMA RingComesRound ==
  ASSUME TypeOK, RingShape
  PROVE  RingIsAlive
<1>. DEFINE N == Cardinality(alive)
            n == N + 1
            r == Ring
<1>1. N \in Nat /\ n \in Nat /\ n = N + 1 /\ Follows(r, n)
  BY AliveIsFinite, RingFollows
<1>2. IsFiniteSet(Chained) /\ Cardinality(Chained) = n
  <2>1. Mgr \notin alive
    BY ObjMgrAssumption DEF TypeOK
  <2>. QED
    BY <2>1, AliveIsFinite, FS_AddElement DEF Chained
<1>3. {Ring[k] : k \in Pos \ {0}} = {r[k] : k \in 1 .. n}
  <2>1. Pos \ {0} = 1 .. n
    BY <1>1 DEF Pos
  <2>. QED
    BY <2>1, Zenon
<1>4. RingIsAlive <=> {r[k] : k \in 1 .. n} = Chained /\ r[n] = Mgr
  BY <1>3, Zenon DEF RingIsAlive, Chained
<1>. HIDE DEF r, n
<1>5. DOMAIN r = 0 .. n /\ \A k \in 0 .. n : r[k] \in Chained
  BY <1>1, FollowsIs, StaysInRing
<1>6. \E i, j \in 0 .. n : i < j /\ r[i] = r[j]
  <2>. DEFINE f == [k \in 0 .. n |-> r[k]]
  <2>1. f \in [0 .. n -> Chained]
    BY <1>5
  <2>2. IsFiniteSet(0 .. n) /\ Cardinality(0 .. n) = n + 1
    BY <1>1, FS_Interval
  <2>3. Cardinality(Chained) < Cardinality(0 .. n)
    BY <1>1, <1>2, <2>2
  <2>. HIDE DEF f
  <2>4. PICK x, y \in 0 .. n : x # y /\ f[x] = f[y]
    BY <1>2, <2>1, <2>2, <2>3, FS_PigeonHole
  <2>5. r[x] = r[y]
    BY <2>4 DEF f
  <2>6. x < y \/ y < x
    BY <1>1, <2>4
  <2>. QED
    BY <2>5, <2>6
<1>7. PICK d \in 1 .. n : r[d] = Mgr
  BY <1>1, <1>6, MgrComesAgain
<1>8. \A m \in Chained : \E k \in 1 .. d : r[k] = m
  BY <1>1, <1>7, AllAreMet
<1>9. d = n
  <2>. DEFINE f == [k \in 1 .. d |-> r[k]]
  <2>1. f \in Surjection(1 .. d, Chained)
    BY <1>1, <1>5, <1>8 DEF Surjection
  <2>2. IsFiniteSet(1 .. d) /\ Cardinality(1 .. d) = d
    BY <1>1, FS_Interval
  <2>. HIDE DEF f
  <2>3. Cardinality(Chained) <= Cardinality(1 .. d)
    BY <2>1, <2>2, FS_Surjection
  <2>. QED
    BY <1>1, <1>2, <2>2, <2>3
<1>10. {r[k] : k \in 1 .. n} = Chained
  <2>1. \A k \in 1 .. n : r[k] \in Chained
    BY <1>1, <1>5
  <2>. QED
    BY <1>8, <1>9, <2>1
<1>. QED
  BY <1>4, <1>7, <1>9, <1>10

\* The ring of __next__ pointers has the manager and every object once, and comes back
\* to the manager behind the last, between any two steps of the mutator and of gc():
\* nobody is lost from the list that the sweep walks, and nobody freed is left in it.
THEOREM RingAlive == Spec => []RingIsAlive
<1>1. IInv => RingIsAlive
  BY RingComesRound DEF IInv
<1>. QED
  BY Invariant, <1>1, PTL
=============================================================================
