------------------------------ MODULE MCRunIR ------------------------------
(* Instances of EmitIR and RunIR for TLC. *)
EXTENDS RunIR, AsgGen

CONSTANTS MaxStmts,  \* statements of a function whose conditions are atoms
          MaxOpStmts, \* statements of a function whose conditions branch
          MaxProtoStmts, \* statements of a function with local prototypes
          MaxNested  \* statements of a function of loops, branches and breaks

Rightly == {Linked(Placed(d)) : d \in JumpDocs(MaxStmts) \cup OperatorDocs(MaxOpStmts)}

\* ASGs as Json2Asg makes them where that differs, and local prototypes.
AsBuilt == {a \in {LinkedToLast(Placed(d)) : d \in LinkDocs(MaxProtoStmts, 1) \cup DeadLoopDocs(MaxNested)} :
              ~WellLinked(a)}

MCInputs == Rightly \cup AsBuilt
=============================================================================
