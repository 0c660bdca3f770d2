----------------------------- MODULE Json2Asg -----------------------------
(***************************************************************************)
(* front-end/asg/Json2Asg.cpp: the walk over the JSON tree of clang that   *)
(* builds the ASG.  The part modelled is the state that the walk carries   *)
(* from one node to another, mCurFunc and mCurLoop, and the two links it   *)
(* writes with them: ReturnStmt::func and {Break,Continue}Stmt::loop.      *)
(* A definition X_Y is X with the slip Y; no action uses it.               *)
(***************************************************************************)
EXTENDS Asg

CONSTANT Docs   \* the JSON documents the walk may be given

ASSUME DocsAssumption == Docs \subseteq Seq(Node)

\* clang refuses a jump outside of a loop, a return outside of a function, and
\* a function in a function before it writes the tree.
ASSUME DocsAreC ==
  \A d \in Docs :
    /\ \A i \in Jumps(d) : \E j \in Ancestors(d, i) : d[j].kind = "while"
    /\ \A i \in Returns(d) : \E j \in Ancestors(d, i) : d[j].kind = "func"
    /\ \A f, g \in DOMAIN d :
         d[f].kind = "func" /\ d[g].kind = "func" /\ f < g => d[f].next <= g

VARIABLES
  doc,        \* the document
  at,         \* the next token to visit
  mCurFunc,   \* the FunctionDecl last entered, 0 is nullptr
  mCurLoop,   \* the WhileStmt last entered, 0 is nullptr
  loop,       \* BreakStmt::loop / ContinueStmt::loop of the tokens visited
  func        \* ReturnStmt::func of the tokens visited

vars == <<doc, at, mCurFunc, mCurLoop, loop, func>>

Init ==
  /\ doc \in Docs
  /\ at = 1
  /\ mCurFunc = 0
  /\ mCurLoop = 0
  /\ loop = [i \in DOMAIN doc |-> 0]
  /\ func = [i \in DOMAIN doc |-> 0]

Visits(kinds) ==
  /\ at <= Len(doc)
  /\ doc[at].kind \in kinds
  /\ at' = at + 1
  /\ UNCHANGED doc

\* A declaration with an "inner" array, be it a body or parameters only,
\* becomes the current function; nothing is restored when it ends.
EnterFunction_Once == IF mCurFunc = 0 THEN at ELSE mCurFunc
EnterFunction == at

FunctionDecl ==
  /\ Visits({"func", "proto"})
  /\ mCurFunc' = EnterFunction
  /\ UNCHANGED <<mCurLoop, loop, func>>

EnterLoop_Once == IF mCurLoop = 0 THEN at ELSE mCurLoop
EnterLoop == at

WhileStmt ==
  /\ Visits({"while"})
  /\ mCurLoop' = EnterLoop
  /\ UNCHANGED <<mCurFunc, loop, func>>

BreakStmt ==
  /\ Visits({"break"})
  /\ loop' = [loop EXCEPT ![at] = mCurLoop]
  /\ UNCHANGED <<mCurFunc, mCurLoop, func>>

ContinueStmt ==
  /\ Visits({"continue"})
  /\ loop' = [loop EXCEPT ![at] = mCurLoop]
  /\ UNCHANGED <<mCurFunc, mCurLoop, func>>

ReturnStmt ==
  /\ Visits({"ret", "retv"})
  /\ func' = [func EXCEPT ![at] = mCurFunc]
  /\ UNCHANGED <<mCurFunc, mCurLoop, loop>>

\* Every other node: the node is made and its children are visited.
OtherNode ==
  /\ Visits(Kinds \ {"func", "proto", "while", "break", "continue", "ret", "retv"})
  /\ UNCHANGED <<mCurFunc, mCurLoop, loop, func>>

Next == FunctionDecl \/ WhileStmt \/ BreakStmt \/ ContinueStmt \/ ReturnStmt \/ OtherNode

Spec == Init /\ [][Next]_vars /\ WF_vars(Next)

Finished == at = Len(doc) + 1

-----------------------------------------------------------------------------
(* Properties.  Jumps and returns are judged once they are visited. *)

TypeOK ==
  /\ doc \in Seq(Node)
  /\ at \in 1 .. Len(doc) + 1
  /\ {mCurFunc, mCurLoop} \subseteq 0 .. at - 1
  /\ loop \in [DOMAIN doc -> 0 .. Len(doc)]
  /\ func \in [DOMAIN doc -> 0 .. Len(doc)]

\* Json2Asg.hpp, on mCurLoop: "points to the current loop while the body of a
\* loop is walked, to give BreakStmt and ContinueStmt in it their value".
JumpsLinkEnclosingLoop ==
  \A i \in Jumps(doc) : i < at => loop[i] = EnclosingLoop(doc, i)

\* What does hold: a jump is linked to a loop, never to one that has ended
\* before the enclosing loop began (another function's, say), and to the
\* enclosing loop itself when that has no other loop before the jump.
JumpsLinkInward ==
  \A i \in Jumps(doc) :
    i < at => LET e == EnclosingLoop(doc, i)
                  loops == {w \in e .. i - 1 : doc[w].kind = "while"}
              IN loop[i] \in loops

\* Likewise a return without a prototype between it and the start of its
\* function, whatever functions and prototypes came before that.
ReturnsLinkUnlessPrototype ==
  \A i \in Returns(doc) :
    LET f == EnclosingFunc(doc, i)
    IN i < at /\ (\A p \in f .. i : doc[p].kind # "proto") => func[i] = f
=============================================================================
