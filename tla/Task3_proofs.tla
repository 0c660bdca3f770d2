---------------------------- MODULE Task3_proofs ----------------------------
(***************************************************************************)
(* What holds of Json2Asg for every document of clang, proved with TLAPS:  *)
(* its types, and which loop a jump and which function a return is linked  *)
(* to by the two pointers that the walk never restores.  Then main_task3   *)
(* on every document: the ASG that Json2Asg hands over is one that the     *)
(* proofs about EmitIR are about, so what they say of its blocks holds of  *)
(* the blocks of main_task3.  E and P below are instances of the same      *)
(* module, the second with the proofs about it.                            *)
(***************************************************************************)
EXTENDS Task3, SequenceTheorems, WellFoundedInduction, TLAPS

(* The innermost of some tokens is one of them, and the last. *)

LEMMA InnermostIs ==
  ASSUME NEW n \in Nat, NEW S \in SUBSET (1 .. n), S # {}
  PROVE  Innermost(S) \in S /\ \A k \in S : k <= Innermost(S)
<1>. DEFINE T == {m \in Nat : n - m \in S}
<1>1. T # {}
  <2>1. PICK s \in S : TRUE
    OBVIOUS
  <2>2. n - s \in Nat /\ n - (n - s) = s
    BY <2>1
  <2>. QED
    BY <2>1, <2>2
<1>2. PICK x \in T : \A y \in T : ~(<<y, x>> \in OpToRel(<, Nat))
  BY <1>1, WFMin, NatLessThanWellFounded, Zenon
<1>3. \A y \in T : ~(y < x)
  BY <1>2 DEF OpToRel
<1>4. \A k \in S : k <= n - x
  <2>1. SUFFICES ASSUME NEW k \in S PROVE k <= n - x
    OBVIOUS
  <2>2. n - k \in Nat /\ n - (n - k) = k
    BY <2>1
  <2>3. n - k \in T
    BY <2>1, <2>2
  <2>. QED
    BY <2>2, <2>3, <1>3
<1>5. n - x \in S
  BY <1>2
<1>. QED
  BY <1>4, <1>5 DEF Innermost

LEMMA EnclosingLoopIs ==
  ASSUME NEW d \in Docs, NEW i \in Jumps(d)
  PROVE  LET e == EnclosingLoop(d, i)
         IN e \in 1 .. i - 1 /\ d[e].kind = "while" /\ i < d[e].next
<1>. DEFINE S == {j \in Ancestors(d, i) : d[j].kind = "while"}
<1>1. i \in Nat \ {0}
  BY DocsAssumption DEF Jumps
<1>2. S \in SUBSET (1 .. i - 1) /\ i - 1 \in Nat
  BY <1>1 DEF Ancestors
<1>3. S # {}
  BY DocsAreC
<1>. HIDE DEF S
<1>4. Innermost(S) \in S
  BY <1>2, <1>3, InnermostIs
<1>. QED
  BY <1>2, <1>4 DEF S, EnclosingLoop, Ancestors

\* No other function begins between the return and its own.
LEMMA EnclosingFuncIs ==
  ASSUME NEW d \in Docs, NEW i \in Returns(d)
  PROVE  /\ EnclosingFunc(d, i) \in 1 .. i - 1
         /\ d[EnclosingFunc(d, i)].kind = "func"
         /\ \A g \in EnclosingFunc(d, i) + 1 .. i - 1 : d[g].kind # "func"
<1>. DEFINE S == {j \in Ancestors(d, i) : d[j].kind = "func"}
            f == EnclosingFunc(d, i)
<1>1. d \in Seq(Node) /\ DOMAIN d = 1 .. Len(d) /\ Len(d) \in Nat
      /\ \A j \in DOMAIN d : d[j].next \in Nat
  <2>1. d \in Seq(Node)
    BY DocsAssumption
  <2>2. \A j \in 1 .. Len(d) : d[j] \in Node
    BY <2>1, ElementOfSeq
  <2>. QED
    BY <2>1, <2>2, LenProperties DEF Node
<1>2. S \in SUBSET (1 .. i - 1) /\ i - 1 \in Nat /\ i \in DOMAIN d
  BY <1>1 DEF Ancestors, Returns
<1>3. S # {}
  BY DocsAreC
<1>4. f \in S
  <2>. HIDE DEF S
  <2>. QED
    BY <1>2, <1>3, InnermostIs DEF S, EnclosingFunc
<1>5. f \in 1 .. i - 1 /\ d[f].kind = "func" /\ i < d[f].next
  BY <1>4 DEF Ancestors
<1>6. ASSUME NEW g \in f + 1 .. i - 1, d[g].kind = "func"
      PROVE  FALSE
  <2>1. f \in DOMAIN d /\ g \in DOMAIN d /\ f < g
    BY <1>1, <1>2, <1>5, <1>6
  <2>2. d[f].next <= g
    BY <1>5, <1>6, <2>1, DocsAreC
  <2>. QED
    BY <1>1, <1>2, <1>5, <2>1, <2>2
<1>. QED
  BY <1>5, <1>6

-----------------------------------------------------------------------------
(* The inductive invariant: what the two pointers hold, and what they held    *)
(* when a jump or a return was visited.                                       *)

\* m is the last token of these kinds before i, or nullptr when there is none.
LastBefore(d, i, kinds, m) ==
  /\ m \in 0 .. i - 1
  /\ m # 0 => d[m].kind \in kinds
  /\ \A w \in m + 1 .. i - 1 : d[w].kind \notin kinds

LEMMA LastSet ==
  ASSUME NEW d, NEW i \in Nat \ {0}, NEW kinds, d[i].kind \in kinds
  PROVE  LastBefore(d, i + 1, kinds, i)
  BY DEF LastBefore

LEMMA LastKept ==
  ASSUME NEW d, NEW i \in Nat \ {0}, NEW kinds, d[i].kind \notin kinds,
         NEW m, LastBefore(d, i, kinds, m)
  PROVE  LastBefore(d, i + 1, kinds, m)
<1>1. m \in 0 .. i /\ (m # 0 => d[m].kind \in kinds)
  BY DEF LastBefore
<1>2. ASSUME NEW w \in m + 1 .. i PROVE d[w].kind \notin kinds
  BY <1>1 DEF LastBefore
<1>. QED
  BY <1>1, <1>2 DEF LastBefore

Loops == {"while"}
Funcs == {"func", "proto"}

Pointers == LastBefore(doc, at, Loops, mCurLoop) /\ LastBefore(doc, at, Funcs, mCurFunc)

Links ==
  /\ \A i \in Jumps(doc) : i < at => LastBefore(doc, i, Loops, loop[i])
  /\ \A i \in Returns(doc) : i < at => LastBefore(doc, i, Funcs, func[i])

IInv == TypeOK /\ doc \in Docs /\ Pointers /\ Links

LEMMA InitIInv == Init => IInv
<1>. SUFFICES ASSUME Init PROVE IInv
  OBVIOUS
<1>1. doc \in Seq(Node) /\ doc \in Docs /\ DOMAIN doc = 1 .. Len(doc) /\ Len(doc) \in Nat
  BY DocsAssumption DEF Init
<1>2. TypeOK
  BY <1>1 DEF Init, TypeOK
<1>3. Pointers
  BY DEF Init, Pointers, LastBefore
<1>4. Links
  BY <1>1 DEF Init, Links, Jumps, Returns
<1>. QED
  BY <1>1, <1>2, <1>3, <1>4 DEF IInv

\* What every visit does: at moves past one token of the document.
LEMMA VisitFacts ==
  ASSUME IInv, NEW kinds, Visits(kinds)
  PROVE  /\ doc \in Seq(Node) /\ DOMAIN doc = 1 .. Len(doc) /\ Len(doc) \in Nat
         /\ at \in DOMAIN doc /\ at \in Nat \ {0} /\ at' = at + 1
         /\ doc[at].kind \in kinds
         /\ doc' = doc
         /\ Jumps(doc) \subseteq DOMAIN doc /\ Returns(doc) \subseteq DOMAIN doc
  BY DEF IInv, TypeOK, Visits, Jumps, Returns

\* A visit of a token of none of a pointer's kinds leaves that pointer true.
LEMMA LoopKept ==
  ASSUME IInv, NEW kinds, Visits(kinds), "while" \notin kinds, mCurLoop' = mCurLoop
  PROVE  LastBefore(doc, at, Loops, mCurLoop)'
  BY VisitFacts, LastKept DEF IInv, Pointers, Loops

LEMMA FuncKept ==
  ASSUME IInv, NEW kinds, Visits(kinds), "func" \notin kinds, "proto" \notin kinds, mCurFunc' = mCurFunc
  PROVE  LastBefore(doc, at, Funcs, mCurFunc)'
  BY VisitFacts, LastKept DEF IInv, Pointers, Funcs

\* A visit of neither a jump nor a return leaves their links as they are.
LEMMA LinksKept ==
  ASSUME IInv, NEW kinds, Visits(kinds), kinds \cap (JumpKinds \cup {"ret", "retv"}) = {},
         UNCHANGED <<loop, func>>
  PROVE  Links'
<1>1. at \notin Jumps(doc) /\ at \notin Returns(doc)
  BY VisitFacts DEF Jumps, Returns, JumpKinds
<1>2. \A i \in Jumps(doc) : i < at + 1 => i < at
  BY <1>1, VisitFacts
<1>3. \A i \in Returns(doc) : i < at + 1 => i < at
  BY <1>1, VisitFacts
<1>. QED
  BY <1>2, <1>3, VisitFacts DEF IInv, Links

\* The types, once the pointers are known to be tokens visited.
LEMMA TypesKept ==
  ASSUME IInv, NEW kinds, Visits(kinds), Pointers',
         loop' \in [DOMAIN doc -> 0 .. Len(doc)], func' \in [DOMAIN doc -> 0 .. Len(doc)]
  PROVE  IInv' <=> Links'
<1>1. {mCurFunc, mCurLoop}' \subseteq 0 .. at' - 1
  BY DEF Pointers, LastBefore
<1>2. at' \in 1 .. Len(doc) + 1
  BY VisitFacts
<1>. QED
  BY <1>1, <1>2, VisitFacts DEF IInv, TypeOK

LEMMA FunctionDeclKeeps == IInv /\ FunctionDecl => IInv'
<1>. SUFFICES ASSUME IInv, FunctionDecl PROVE IInv'
  OBVIOUS
<1>. DEFINE kinds == {"func", "proto"}
<1>1. Visits(kinds) /\ mCurFunc' = at /\ UNCHANGED <<mCurLoop, loop, func>>
  BY DEF FunctionDecl, EnterFunction
<1>2. LastBefore(doc, at, Funcs, mCurFunc)'
  BY <1>1, VisitFacts, LastSet DEF Funcs
<1>3. Pointers'
  BY <1>1, <1>2, LoopKept DEF Pointers
<1>4. Links'
  BY <1>1, LinksKept DEF JumpKinds
<1>. QED
  BY <1>1, <1>3, <1>4, TypesKept DEF IInv, TypeOK

LEMMA WhileStmtKeeps == IInv /\ WhileStmt => IInv'
<1>. SUFFICES ASSUME IInv, WhileStmt PROVE IInv'
  OBVIOUS
<1>. DEFINE kinds == {"while"}
<1>1. Visits(kinds) /\ mCurLoop' = at /\ UNCHANGED <<mCurFunc, loop, func>>
  BY DEF WhileStmt, EnterLoop
<1>2. LastBefore(doc, at, Loops, mCurLoop)'
  BY <1>1, VisitFacts, LastSet DEF Loops
<1>3. Pointers'
  BY <1>1, <1>2, FuncKept DEF Pointers
<1>4. Links'
  BY <1>1, LinksKept DEF JumpKinds
<1>. QED
  BY <1>1, <1>3, <1>4, TypesKept DEF IInv, TypeOK

LEMMA JumpKeeps ==
  ASSUME IInv, NEW kinds \in SUBSET JumpKinds, Visits(kinds),
         loop' = [loop EXCEPT ![at] = mCurLoop], UNCHANGED <<mCurFunc, mCurLoop, func>>
  PROVE  IInv'
<1>1. Pointers'
  BY LoopKept, FuncKept DEF Pointers, JumpKinds
<1>2. mCurLoop \in 0 .. Len(doc) /\ loop \in [DOMAIN doc -> 0 .. Len(doc)]
  BY VisitFacts DEF IInv, TypeOK
<1>3. loop' \in [DOMAIN doc -> 0 .. Len(doc)] /\ loop'[at] = mCurLoop
      /\ \A i \in DOMAIN doc : i # at => loop'[i] = loop[i]
  BY <1>2, VisitFacts
<1>4. ASSUME NEW i \in Jumps(doc), i < at + 1
      PROVE  LastBefore(doc, i, Loops, loop'[i])
  <2>1. CASE i = at
    BY <1>3, <2>1 DEF IInv, Pointers
  <2>2. CASE i # at
    <3>1. i < at /\ i \in DOMAIN doc
      BY <1>4, <2>2, VisitFacts
    <3>. QED
      BY <1>3, <2>2, <3>1 DEF IInv, Links
  <2>. QED
    BY <2>1, <2>2
<1>5. at \notin Returns(doc)
  BY VisitFacts DEF Returns, JumpKinds
<1>6. \A i \in Returns(doc) : i < at + 1 => i < at
  BY <1>5, VisitFacts
<1>7. Links'
  BY <1>4, <1>6, VisitFacts DEF IInv, Links
<1>. QED
  BY <1>1, <1>3, <1>7, TypesKept DEF IInv, TypeOK

LEMMA ReturnStmtKeeps == IInv /\ ReturnStmt => IInv'
<1>. SUFFICES ASSUME IInv, ReturnStmt PROVE IInv'
  OBVIOUS
<1>. DEFINE kinds == {"ret", "retv"}
<1>1. Visits(kinds) /\ func' = [func EXCEPT ![at] = mCurFunc] /\ UNCHANGED <<mCurFunc, mCurLoop, loop>>
  BY DEF ReturnStmt
<1>2. Pointers'
  BY <1>1, LoopKept, FuncKept DEF Pointers
<1>3. mCurFunc \in 0 .. Len(doc) /\ func \in [DOMAIN doc -> 0 .. Len(doc)]
  BY <1>1, VisitFacts DEF IInv, TypeOK
<1>4. func' \in [DOMAIN doc -> 0 .. Len(doc)] /\ func'[at] = mCurFunc
      /\ \A i \in DOMAIN doc : i # at => func'[i] = func[i]
  BY <1>1, <1>3, VisitFacts
<1>5. ASSUME NEW i \in Returns(doc), i < at + 1
      PROVE  LastBefore(doc, i, Funcs, func'[i])
  <2>1. CASE i = at
    BY <1>4, <2>1 DEF IInv, Pointers
  <2>2. CASE i # at
    <3>1. i < at /\ i \in DOMAIN doc
      BY <1>1, <1>5, <2>2, VisitFacts
    <3>. QED
      BY <1>4, <2>2, <3>1 DEF IInv, Links
  <2>. QED
    BY <2>1, <2>2
<1>6. at \notin Jumps(doc)
  BY <1>1, VisitFacts DEF Jumps, JumpKinds
<1>7. \A i \in Jumps(doc) : i < at + 1 => i < at
  BY <1>1, <1>6, VisitFacts
<1>8. Links'
  BY <1>1, <1>5, <1>7, VisitFacts DEF IInv, Links
<1>. QED
  BY <1>1, <1>2, <1>4, <1>8, TypesKept DEF IInv, TypeOK

LEMMA OtherNodeKeeps == IInv /\ OtherNode => IInv'
<1>. SUFFICES ASSUME IInv, OtherNode PROVE IInv'
  OBVIOUS
<1>. DEFINE kinds == Kinds \ {"func", "proto", "while", "break", "continue", "ret", "retv"}
<1>1. Visits(kinds) /\ UNCHANGED <<mCurFunc, mCurLoop, loop, func>>
  BY DEF OtherNode
<1>2. /\ "while" \notin kinds /\ "func" \notin kinds /\ "proto" \notin kinds
      /\ kinds \cap (JumpKinds \cup {"ret", "retv"}) = {}
  BY DEF JumpKinds
<1>. HIDE DEF kinds
<1>3. Pointers'
  BY <1>1, <1>2, LoopKept, FuncKept DEF Pointers
<1>4. Links'
  BY <1>1, <1>2, LinksKept
<1>. QED
  BY <1>1, <1>3, <1>4, TypesKept DEF IInv, TypeOK

LEMMA NextKeeps == IInv /\ [Next]_vars => IInv'
<1>. SUFFICES ASSUME IInv, [Next]_vars PROVE IInv'
  OBVIOUS
<1>1. CASE BreakStmt
  BY <1>1, JumpKeeps DEF BreakStmt, JumpKinds
<1>2. CASE ContinueStmt
  BY <1>2, JumpKeeps DEF ContinueStmt, JumpKinds
<1>3. CASE UNCHANGED vars
  BY <1>3 DEF vars, IInv, TypeOK, Pointers, Links
<1>. QED
  BY <1>1, <1>2, <1>3, FunctionDeclKeeps, WhileStmtKeeps, ReturnStmtKeeps, OtherNodeKeeps DEF Next

-----------------------------------------------------------------------------
(* The theorems. *)

\* In every state of the walk the invariant holds: the pointers are the loop and
\* the function entered last, and the links are what they were then.
THEOREM Invariant == Spec => []IInv
  BY InitIInv, NextKeeps, PTL DEF Spec

\* Json2Asg keeps its types: a link is nullptr or a node of the document.
THEOREM TypeCorrect == Spec => []TypeOK
<1>1. IInv => TypeOK
  BY DEF IInv
<1>. QED
  BY <1>1, Invariant, PTL

LEMMA InwardImplied == IInv => JumpsLinkInward
<1>1. ASSUME IInv, NEW i \in Jumps(doc), i < at
      PROVE  LET e == EnclosingLoop(doc, i)
                 loops == {w \in e .. i - 1 : doc[w].kind = "while"}
             IN loop[i] \in loops
  <2>. DEFINE e == EnclosingLoop(doc, i)
  <2>1. e \in 1 .. i - 1 /\ doc[e].kind = "while"
    BY <1>1, EnclosingLoopIs DEF IInv
  <2>2. LastBefore(doc, i, Loops, loop[i])
    BY <1>1 DEF IInv, Links
  <2>3. i \in Nat
    BY <1>1 DEF IInv, TypeOK, Jumps
  <2>. HIDE DEF e
  <2>4. loop[i] \in 0 .. i - 1 /\ ~(e \in loop[i] + 1 .. i - 1)
    BY <2>1, <2>2 DEF LastBefore, Loops
  <2>5. loop[i] >= e
    BY <2>1, <2>3, <2>4
  <2>6. doc[loop[i]].kind = "while"
    BY <2>1, <2>2, <2>5 DEF LastBefore, Loops
  <2>. QED
    BY <2>1, <2>3, <2>4, <2>5, <2>6 DEF e
<1>. QED
  BY <1>1 DEF JumpsLinkInward

\* The loop entered last, to which BreakStmt and ContinueStmt are linked, began in
\* the enclosing loop or is it.
THEOREM JumpsInward == Spec => []JumpsLinkInward
  BY InwardImplied, Invariant, PTL

\* A return is linked to its function unless a prototype in it came before.
THEOREM ReturnsLinked == Spec => []ReturnsLinkUnlessPrototype
<1>1. ASSUME IInv, NEW i \in Returns(doc), i < at,
             \A p \in EnclosingFunc(doc, i) .. i : doc[p].kind # "proto"
      PROVE  func[i] = EnclosingFunc(doc, i)
  <2>. DEFINE f == EnclosingFunc(doc, i)
  <2>1. f \in 1 .. i - 1 /\ doc[f].kind = "func" /\ \A g \in f + 1 .. i - 1 : doc[g].kind # "func"
    BY <1>1, EnclosingFuncIs DEF IInv
  <2>2. LastBefore(doc, i, Funcs, func[i])
    BY <1>1 DEF IInv, Links
  <2>3. i \in Nat
    BY <1>1 DEF IInv, TypeOK, Returns
  <2>4. \A p \in f .. i : doc[p].kind # "proto"
    BY <1>1
  <2>. HIDE DEF f
  <2>5. func[i] \in 0 .. i - 1 /\ ~(f \in func[i] + 1 .. i - 1)
    BY <2>1, <2>2 DEF LastBefore, Funcs
  <2>6. func[i] >= f
    BY <2>1, <2>3, <2>5
  <2>7. doc[func[i]].kind \in Funcs
    BY <2>1, <2>2, <2>6 DEF LastBefore
  <2>8. ~(func[i] \in f + 1 .. i - 1)
    BY <2>1, <2>3, <2>4, <2>7 DEF Funcs
  <2>. QED
    BY <2>1, <2>3, <2>5, <2>6, <2>8 DEF f
<1>2. IInv => ReturnsLinkUnlessPrototype
  BY <1>1 DEF ReturnsLinkUnlessPrototype
<1>. QED
  BY <1>2, Invariant, PTL

-----------------------------------------------------------------------------
(* main_task3.                                                              *)

P == INSTANCE EmitIR_proofs WITH at <- eat, mCurFunc <- eCurFunc, Inputs <- {}

\* What holds before and after the hand-over.
TaskInv ==
  /\ IInv
  /\ phase = "json2asg" => E!Start /\ asg = [nodes |-> <<>>, loop |-> <<>>]
  /\ phase = "emit" => P!BlockInv
  /\ phase \in {"json2asg", "emit"}

\* E and P have the same steps.
LEMMA SameStart == E!Start <=> P!Start
  BY DEF E!Start, P!Start, E!NoVal, P!NoVal

LEMMA SameStep == E!Next => P!Next
  BY DEF E!NewBlock, P!NewBlock, E!NoTerm, P!NoTerm, E!NoVal, P!NoVal, E!Br, P!Br, E!CondBr,
     P!CondBr, E!Ret, P!Ret, E!Exit, P!Exit, E!Call, P!Call, E!Token, P!Token,
     E!Visiting, P!Visiting, E!Advance, P!Advance, E!Depth, P!Depth, E!Top, P!Top,
     E!InCall, P!InCall, E!ListKinds, P!ListKinds, E!ValueKinds, P!ValueKinds,
     E!InList, P!InList, E!InValue, P!InValue, E!Push, P!Push, E!Pop, P!Pop, E!Become,
     P!Become, E!Blocks, P!Blocks, E!N, P!N, E!Grow, P!Grow, E!Live, P!Live,
     E!Terminate, P!Terminate, E!Emit, P!Emit, E!Entry, P!Entry, E!Atom, P!Atom,
     E!ShortCircuit, P!ShortCircuit, E!Short, P!Short, E!Incomings, P!Incomings,
     E!ShortCircuitEnd, P!ShortCircuitEnd, E!Stmt, P!Stmt, E!AfterStmt, P!AfterStmt,
     E!DropStmt, P!DropStmt, E!CallWithValue, P!CallWithValue, E!ExprStmtBegin,
     P!ExprStmtBegin, E!ReturnStmtBegin, P!ReturnStmtBegin, E!IfBegin, P!IfBegin,
     E!ExprStmtEnd, P!ExprStmtEnd, E!LocalVarDecl, P!LocalVarDecl, E!LocalVarInit,
     P!LocalVarInit, E!ReturnStmt, P!ReturnStmt, E!IfThen, P!IfThen, E!BranchIfLive,
     P!BranchIfLive, E!IfElse, P!IfElse, E!IfEnd, P!IfEnd, E!WhileBegin, P!WhileBegin,
     E!WhileBody, P!WhileBody, E!WhileEnd, P!WhileEnd, E!TargetIn, P!TargetIn,
     E!JumpTarget, P!JumpTarget, E!Jump, P!Jump, E!JumpNowhere, P!JumpNowhere,
     E!EnterFunction, P!EnterFunction, E!FunctionBegin, P!FunctionBegin,
     E!FunctionEnd, P!FunctionEnd, E!GlobalVarEnd, P!GlobalVarEnd, E!Prototype,
     P!Prototype, E!LocalPrototype, P!LocalPrototype, E!Next, P!Next, E!StmtKinds,
     P!StmtKinds, E!JumpKinds, P!JumpKinds

\* A jump of a document is linked to a loop around which and it there is one
\* function: the ASG is one that EmitIR expects.
LEMMA LinkedAsg ==
  ASSUME IInv, Finished, NEW a, a = [nodes |-> doc, loop |-> loop]
  PROVE  P!IsAsg(a)
<1>1. /\ doc \in Seq(Node) /\ doc \in Docs /\ DOMAIN doc = 1 .. Len(doc) /\ Len(doc) \in Nat
      /\ loop \in [DOMAIN doc -> 0 .. Len(doc)] /\ \A i \in DOMAIN doc : i < at
  BY DEF IInv, TypeOK, Finished
<1>2. a.nodes = doc /\ a.loop = loop /\ a.loop \in [DOMAIN a.nodes -> Nat]
  BY <1>1
<1>3. a.nodes \in Seq(P!Node)
  BY <1>1, <1>2 DEF Node, P!Node, Kinds, P!Kinds, StmtKinds, P!StmtKinds, JumpKinds, P!JumpKinds
<1>4. P!StmtsAreWhole(a.nodes)
  BY <1>1, <1>2, StmtsOfDocsAreWhole DEF E!StmtsAreWhole, P!StmtsAreWhole, E!Heads, P!Heads,
     E!StmtKinds, P!StmtKinds, E!JumpKinds, P!JumpKinds
<1>5. ASSUME NEW i \in P!Jumps(a.nodes), NEW h \in DOMAIN a.nodes, a.nodes[h].kind \in P!Heads
      PROVE  h < i <=> h < a.loop[i]
  <2>. DEFINE w == loop[i]  e == EnclosingLoop(doc, i)
  <2>1. i \in Jumps(doc) /\ i \in DOMAIN doc /\ h \in DOMAIN doc /\ doc[i].kind \in JumpKinds
    BY <1>2 DEF P!Jumps, Jumps, P!JumpKinds, JumpKinds
  <2>2. w \in e .. i - 1 /\ doc[w].kind = "while"
    BY <1>1, <2>1, InwardImplied DEF JumpsLinkInward
  <2>3. e \in 1 .. i - 1 /\ doc[e].kind = "while" /\ i < doc[e].next
    BY <1>1, <2>1, EnclosingLoopIs
  <2>. HIDE DEF e
  <2>4. \A g \in e .. doc[e].next - 1 : doc[g].kind \notin P!Heads
    <3>1. e \in DOMAIN a.nodes /\ a.nodes[e].kind \in P!StmtKinds
      BY <1>1, <1>2, <2>1, <2>3 DEF P!StmtKinds
    <3>. QED
      BY <1>2, <1>4, <3>1 DEF P!StmtsAreWhole
  <2>5. doc[e].next \in Nat
    <3>1. doc[e] \in Node
      BY <1>1, <2>1, <2>3, ElementOfSeq
    <3>. QED
      BY <3>1 DEF Node
  <2>. QED
    BY <1>1, <1>2, <1>5, <2>1, <2>2, <2>3, <2>4, <2>5
<1>. QED
  BY <1>2, <1>3, <1>4, <1>5 DEF P!IsAsg, P!InOneFunction

LEMMA InitTaskInv == TaskInit => TaskInv
  BY InitIInv DEF TaskInit, TaskInv

LEMMA BuildKeeps == TaskInv /\ Build => TaskInv'
<1>. SUFFICES ASSUME TaskInv, Build PROVE TaskInv'
  OBVIOUS
<1>1. IInv /\ phase = "json2asg" /\ E!Start /\ asg = [nodes |-> <<>>, loop |-> <<>>]
  BY DEF TaskInv, Build
<1>2. IInv' /\ phase' = phase /\ UNCHANGED evars
  BY <1>1, NextKeeps DEF Build
<1>3. E!Start' /\ asg' = asg
  BY <1>1, <1>2 DEF E!Start, evars
<1>. QED
  BY <1>1, <1>2, <1>3 DEF TaskInv

\* What the walk starts with, before and after the hand-over.
StartsWell == P!IsAsg(asg) /\ P!Start => P!BlockInv

LEMMA AlwaysStartsWell == StartsWell
  BY P!StartBlockInv DEF StartsWell

LEMMA StartsWellNext == StartsWell'
  BY AlwaysStartsWell, PTL

LEMMA HandoverKeeps == TaskInv /\ Handover => TaskInv'
<1>. SUFFICES ASSUME TaskInv, Handover PROVE TaskInv'
  OBVIOUS
<1>1. /\ IInv /\ Finished /\ E!Start
      /\ asg' = [nodes |-> doc, loop |-> loop]
      /\ any' = [i \in DOMAIN doc |-> [cond |-> 0, end |-> 0]]
      /\ phase' = "emit"
      /\ UNCHANGED vars /\ UNCHANGED <<eat, frames, bb, cur, eCurFunc, val, aborted>>
  BY DEF TaskInv, Handover
<1>2. IInv'
  BY <1>1 DEF IInv, TypeOK, Pointers, Links, LastBefore, vars
<1>3. P!IsAsg(asg')
  BY <1>1, LinkedAsg
<1>4. (P!IsAsg(asg) /\ P!Start)'
  BY <1>1, <1>3 DEF E!Start, P!Start, E!NoVal, P!NoVal, P!IsAsg, P!InOneFunction, P!StmtsAreWhole
<1>5. (P!IsAsg(asg) /\ P!Start => P!BlockInv)'
  BY StartsWellNext DEF StartsWell
<1>. QED
  BY <1>1, <1>2, <1>4, <1>5 DEF TaskInv

LEMMA EmitStepKeeps == TaskInv /\ EmitStep => TaskInv'
<1>. SUFFICES ASSUME TaskInv, EmitStep PROVE TaskInv'
  OBVIOUS
<1>1. IInv /\ P!BlockInv /\ P!Next /\ phase = "emit" /\ UNCHANGED <<vars, phase>>
  BY SameStep DEF TaskInv, EmitStep
<1>2. IInv'
  BY <1>1, NextKeeps
<1>3. P!BlockInv'
  BY <1>1, P!NextKeepsBlockInv
<1>. QED
  BY <1>1, <1>2, <1>3 DEF TaskInv

LEMMA StutterKeeps == TaskInv /\ UNCHANGED <<vars, evars, phase>> => TaskInv'
<1>. SUFFICES ASSUME TaskInv, UNCHANGED <<vars, evars, phase>> PROVE TaskInv'
  OBVIOUS
<1>1. IInv' /\ UNCHANGED <<evars, phase>>
  BY NextKeeps DEF TaskInv
<1>2. E!Start => E!Start'
  BY <1>1 DEF E!Start, evars
<1>3. P!BlockInv => P!BlockInv'
  BY <1>1, P!NextKeepsBlockInv DEF evars, P!vars
<1>. QED
  BY <1>1, <1>2, <1>3 DEF TaskInv, evars

\* While Json2Asg builds there are no blocks; afterwards the invariant of
\* EmitIR speaks of them.
LEMMA VerifierImplied == TaskInv => VerifierAccepts
<1>. SUFFICES ASSUME TaskInv PROVE VerifierAccepts
  OBVIOUS
<1>1. CASE phase = "json2asg"
  <2>1. E!Blocks = {}
    BY <1>1 DEF TaskInv, E!Start, E!Blocks
  <2>. QED
    BY <2>1 DEF VerifierAccepts, E!EveryBlockEnds, E!BranchesStayInside, E!PhisMatchPreds
<1>2. CASE phase = "emit"
  <2>1. P!BlockInv
    BY <1>2 DEF TaskInv
  <2>2. P!EveryBlockEnds
    BY <2>1, P!EndsImplied DEF P!BlockInv
  <2>3. P!BranchesStayInside
    BY <2>1, P!InsideImplies DEF P!BlockInv, P!IInv
  <2>4. P!PhisMatchPreds
    BY <2>1 DEF P!BlockInv, P!PhiInv
  <2>5. E!EveryBlockEnds
    BY <2>2 DEF E!EveryBlockEnds, P!EveryBlockEnds, E!Finished, P!Finished, E!Blocks, P!Blocks,
       E!NoTerm, P!NoTerm, E!NoVal, P!NoVal, E!Targets, P!Targets
  <2>6. E!BranchesStayInside
    BY <2>3 DEF E!BranchesStayInside, P!BranchesStayInside, E!Finished, P!Finished,
       E!Blocks, P!Blocks, E!Targets, P!Targets
  <2>7. E!PhisMatchPreds
    BY <2>4 DEF E!PhisMatchPreds, P!PhisMatchPreds, E!Preds, P!Preds,
       E!Blocks, P!Blocks, E!Targets, P!Targets
  <2>. QED
    BY <2>5, <2>6, <2>7 DEF VerifierAccepts
<1>. QED
  BY <1>1, <1>2 DEF TaskInv

\* Whatever document clang writes, and although Json2Asg may link its jumps to
\* the wrong loop, main_task3 makes IR that verifyModule accepts.
THEOREM VerifierAlwaysAccepts == TaskSpec => []VerifierAccepts
<1>1. TaskInv /\ [TaskNext]_<<vars, evars, phase>> => TaskInv'
  BY BuildKeeps, HandoverKeeps, EmitStepKeeps, StutterKeeps DEF TaskNext
<1>. QED
  BY <1>1, InitTaskInv, VerifierImplied, PTL DEF TaskSpec
=============================================================================
