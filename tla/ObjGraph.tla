----------------------------- MODULE ObjGraph -----------------------------
(* The objects of the ASG, their pointer fields, and what a root reaches.   *)
CONSTANTS
  Obj,    \* the addresses that objects are made at
  Field,  \* the pointer fields of an object, those that its __mark__ passes
  Nil     \* nullptr

ASSUME NilAssumption == Nil \notin Obj

Ref == Obj \cup {Nil}
NoRefs == [f \in Field |-> Nil]

\* The smallest set that holds the root and what its members' fields hold.
Closed(S, refs) == \A o \in S : \A f \in Field : refs[o][f] \in S \cup {Nil}
Reached(refs, root) ==
  {o \in Obj : \A S \in SUBSET Obj : root \in S \cup {Nil} /\ Closed(S, refs) => o \in S}
=============================================================================
