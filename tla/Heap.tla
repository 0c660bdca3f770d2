------------------------------- MODULE Heap -------------------------------
(***************************************************************************)
(* What Obj::Mgr promises (front-end/asg/Obj.hpp): objects are made, their *)
(* fields and the root are assigned, and a collection keeps exactly the    *)
(* objects that the root reaches, all at once.                             *)
(***************************************************************************)
EXTENDS ObjGraph

VARIABLES
  live,   \* the objects made and not freed
  refs,   \* what their fields hold
  root    \* Mgr::mRoot

Init ==
  /\ live = {}
  /\ refs = [o \in Obj |-> NoRefs]
  /\ root = Nil

Make(o) ==
  /\ o \notin live
  /\ live' = live \cup {o}
  /\ UNCHANGED <<refs, root>>

Assign(o, f, p) ==
  /\ o \in live /\ p \in live \cup {Nil}
  /\ refs' = [refs EXCEPT ![o][f] = p]
  /\ UNCHANGED <<live, root>>

SetRoot(p) ==
  /\ p \in live \cup {Nil}
  /\ root' = p
  /\ UNCHANGED <<live, refs>>

Collect ==
  /\ live' = Reached(refs, root)
  /\ refs' = [o \in Obj |-> IF o \in live' THEN refs[o] ELSE NoRefs]
  /\ UNCHANGED root

Next ==
  \/ \E o \in Obj : Make(o)
  \/ \E o \in Obj, f \in Field, p \in Ref : Assign(o, f, p)
  \/ \E p \in Ref : SetRoot(p)
  \/ Collect

Spec == Init /\ [][Next]_<<live, refs, root>>
=============================================================================
