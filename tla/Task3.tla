------------------------------- MODULE Task3 -------------------------------
(***************************************************************************)
(* main_task3 of front-end/main.cpp: Json2Asg builds the ASG, EmitIR then  *)
(* walks it.  The jumps of the IR are those that Json2Asg linked.  (The    *)
(* two collections of garbage around the walk are the subject of ObjMgr.)  *)
(***************************************************************************)
EXTENDS Json2Asg

VARIABLES
  asg, eat, frames, bb, cur, eCurFunc, any, val, aborted,  \* EmitIR
  phase                                                    \* "json2asg" | "emit"

evars == <<asg, eat, frames, bb, cur, eCurFunc, any, val, aborted>>

E == INSTANCE EmitIR WITH at <- eat, mCurFunc <- eCurFunc, Inputs <- {}

ASSUME StmtsOfDocsAreWhole == \A d \in Docs : E!StmtsAreWhole(d)

\* EmitIR is in the state its constructor leaves and has no ASG yet.
TaskInit ==
  /\ Init
  /\ asg = [nodes |-> <<>>, loop |-> <<>>]
  /\ E!Start
  /\ phase = "json2asg"

Build == phase = "json2asg" /\ Next /\ UNCHANGED <<evars, phase>>

Handover ==
  /\ phase = "json2asg" /\ Finished
  /\ asg' = [nodes |-> doc, loop |-> loop]
  /\ any' = [i \in DOMAIN doc |-> [cond |-> 0, end |-> 0]]
  /\ phase' = "emit"
  /\ UNCHANGED <<vars, eat, frames, bb, cur, eCurFunc, val, aborted>>

EmitStep == phase = "emit" /\ E!Next /\ UNCHANGED <<vars, phase>>

TaskNext == Build \/ Handover \/ EmitStep

TaskSpec ==
  TaskInit /\ [][TaskNext]_<<vars, evars, phase>> /\ WF_<<vars, evars, phase>>(TaskNext)

-----------------------------------------------------------------------------
(* Properties. *)

\* A jump linked to the wrong loop still leaves IR that verifyModule accepts:
\* the check that ends main_task3 does not see the mistake.
VerifierAccepts == E!EveryBlockEnds /\ E!BranchesStayInside /\ E!PhisMatchPreds

\* Where no loop is nested before a jump in its own loop, and no prototype is
\* local, the links are right and main_task3 comes to its end; on any other
\* document it does so or dies, but never stops with the ASG half emitted.
Plain ==
  \A i \in DOMAIN doc :
    /\ doc[i].kind \in JumpKinds => \A w \in EnclosingLoop(doc, i) + 1 .. i : doc[w].kind # "while"
    /\ doc[i].kind = "proto" => EnclosingFunc(doc, i) = 0

Task3Ends ==
  /\ Plain => <>(phase = "emit" /\ E!Finished)
  /\ <>(phase = "emit" /\ (E!Finished \/ aborted))
=============================================================================
