------------------------------ MODULE MCTask3 ------------------------------
(* Instances of Task3 for TLC. *)
EXTENDS Task3, AsgGen

CONSTANTS MaxStmts,   \* statements of a document with one function
          SmallStmts, \* statements of each function of a document with two
          MaxNested   \* statements of a function of loops, branches and breaks

MCDocs == {Placed(d) : d \in LinkDocs(MaxStmts, SmallStmts) \cup DeadLoopDocs(MaxNested)}
=============================================================================
