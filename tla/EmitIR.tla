------------------------------ MODULE EmitIR ------------------------------
(***************************************************************************)
(* front-end/asg/EmitIR.cpp: the walk over the ASG that emits LLVM IR.     *)
(* The model keeps the control flow graph: the basic blocks, what ends     *)
(* them, the insertion point of mCurIrb, the blocks that the walk stores   *)
(* in Obj::any, and the local variables of the C++ functions in progress   *)
(* (frames).  Arithmetic, types and names are left out.                    *)
(*                                                                         *)
(* IRBuilder::Create* appends to the insertion block whatever that block   *)
(* already holds, so the actions write terminators without asking: that    *)
(* no block gets two is for the invariants to say.                         *)
(*                                                                         *)
(* A definition X_Y is X with the slip Y, a variant no action uses: it is  *)
(* put in the place of X to see that a property notices.                   *)
(***************************************************************************)
EXTENDS Asg

CONSTANT Inputs   \* the ASGs: [nodes : the visits, loop : Break/ContinueStmt::loop]

\* Functions and initialised globals are in no statement, and a jump is linked
\* to no loop of another function.
Heads == {"func", "gvar"}
StmtsAreWhole(nodes) ==
  \A i \in DOMAIN nodes :
    nodes[i].kind \in StmtKinds \cup {"proto"} =>
      i < nodes[i].next /\ \A h \in i .. nodes[i].next - 1 : nodes[h].kind \notin Heads
InOneFunction(a) ==
  /\ StmtsAreWhole(a.nodes)
  /\ \A i \in Jumps(a.nodes) : \A h \in DOMAIN a.nodes :
       a.loop[i] # 0 /\ a.nodes[h].kind \in Heads => (h < i <=> h < a.loop[i])

IsAsg(a) == /\ a.nodes \in Seq(Node)
            /\ a.loop \in [DOMAIN a.nodes -> Nat]
            /\ InOneFunction(a)

ASSUME InputsAssumption == \A a \in Inputs : IsAsg(a)

VARIABLES
  asg,      \* the ASG
  at,       \* the next token to visit
  frames,   \* the calls of EmitIR::operator() in progress, innermost last
  bb,       \* the basic blocks, numbered from 1 in the order of creation
  cur,      \* mCurIrb's insertion block, 0 before the first
  mCurFunc, \* the token of the llvm::Function being filled, 0 is nullptr
  any,      \* of a WhileStmt w: [cond, end], what cond->any and w->any hold
  val,      \* the llvm::Value that the last visit of an expression returned
  aborted   \* a null block or a null declaration was used: the process died

vars == <<asg, at, frames, bb, cur, mCurFunc, any, val, aborted>>

Val == [kind : {"none", "atom", "phi", "false", "true"}, n : Nat]
NoVal == [kind |-> "none", n |-> 0]

\* A terminator: br t | condbr v, t, f | ret | exit (the ret void or
\* unreachable that ends a body without a return) | none yet.
Term == [op : {"none", "br", "condbr", "ret", "exit"}, v : Val, t : Nat, f : Nat]
NoTerm == [op |-> "none", v |-> NoVal, t |-> 0, f |-> 0]
Br(b) == [op |-> "br", v |-> NoVal, t |-> b, f |-> b]
CondBr(v, t, f) == [op |-> "condbr", v |-> v, t |-> t, f |-> f]
Ret == [op |-> "ret", v |-> NoVal, t |-> 0, f |-> 0]
Exit == [op |-> "exit", v |-> NoVal, t |-> 0, f |-> 0]

\* The blocks a terminator may branch to.
Targets(term) == {term.t, term.f} \ {0}

Instr == [op : {"atom", "alloca", "store"}, n : Nat]
Incoming == [from : Nat, v : Val]

\* fn: the function of the block; phi: the incoming pairs of the phi that
\* starts it, {} when none does; code: its other instructions.
Block == [fn : Nat, phi : SUBSET Incoming, code : Seq(Instr), term : Term]
NewBlock == [fn |-> mCurFunc, phi |-> {}, code |-> <<>>, term |-> NoTerm]

FrameKinds == {"func", "gvar", "expr", "decl", "ret", "if.cond", "if.then", "if.else",
               "while.cond", "while.body", "and", "or"}

\* node: the token visited; from: condBeginBB or lhsBB; body: bodyBeginBB;
\* end: endBB; tail: the block still to be ended after the current one
\* (condEndBB of a while, elseBeginBB of an if); val: the condition.
Frame == [kind : FrameKinds,
          node : Nat, from : Nat, body : Nat, end : Nat, tail : Nat, val : Val]
Call(kind) == [kind |-> kind, node |-> at, from |-> 0, body |-> 0, end |-> 0, tail |-> 0, val |-> NoVal]

\* The constructor's state, and the blocks of no function yet.
Start ==
  /\ at = 1
  /\ frames = <<>>
  /\ bb = <<>>
  /\ cur = 0
  /\ mCurFunc = 0
  /\ any = [i \in DOMAIN asg.nodes |-> [cond |-> 0, end |-> 0]]
  /\ val = NoVal
  /\ aborted = FALSE

Init == asg \in Inputs /\ Start

-----------------------------------------------------------------------------
(* The visits, the call stack and the IRBuilder.                            *)

Token == asg.nodes[at]
Visiting(kind) == ~aborted /\ at \in DOMAIN asg.nodes /\ Token.kind = kind
Advance == at' = at + 1 /\ UNCHANGED <<asg, aborted>>

Depth == Len(frames)
Top == frames[Depth]
InCall(kind) == Depth > 0 /\ Top.kind = kind

\* Statements are visited from the body of a function, a branch or a loop,
\* expressions from the calls that need a value.
ListKinds == {"func", "if.then", "if.else", "while.body"}
ValueKinds == {"gvar", "expr", "decl", "ret", "if.cond", "while.cond", "and", "or"}
InList == Depth > 0 /\ Top.kind \in ListKinds
InValue == Depth > 0 /\ Top.kind \in ValueKinds

Push(f) == frames' = Append(frames, f)
Pop == frames' = SubSeq(frames, 1, Depth - 1)
Become(f) == frames' = [frames EXCEPT ![Depth] = f]

Blocks == DOMAIN bb
N == Len(bb)

\* The blocks after k new ones of function fn are created: N + 1 .. N + k.
Grow_Short(k, fn) ==
  [b \in 1 .. N + k - 1 |-> IF b \in Blocks THEN bb[b] ELSE [NewBlock EXCEPT !.fn = fn]]
Grow(k, fn) ==
  [b \in 1 .. N + k |-> IF b \in Blocks THEN bb[b] ELSE [NewBlock EXCEPT !.fn = fn]]

Live == cur \in Blocks /\ bb[cur].term = NoTerm

Terminate(blocks, b, term) == [blocks EXCEPT ![b].term = term]
Emit(instr) == bb' = [bb EXCEPT ![cur].code = Append(@, instr)]

Entry_Current == cur
Entry == CHOOSE b \in Blocks : /\ bb[b].fn = mCurFunc
                               /\ \A c \in Blocks : bb[c].fn = mCurFunc => b <= c

-----------------------------------------------------------------------------
(* Expressions. *)

\* An evaluation is appended to the insertion block.
Atom ==
  /\ Visiting("atom") /\ InValue
  /\ Emit([op |-> "atom", n |-> at])
  /\ val' = [kind |-> "atom", n |-> at]
  /\ Advance
  /\ UNCHANGED <<frames, cur, mCurFunc, any>>

\* After the left operand of && or ||: branch on it, go on with the right one
\* in a block of its own.
ShortCircuit(kind) ==
  /\ Visiting(kind) /\ InValue
  /\ LET endBB == N + 1
         rhsBeginBB == N + 2
         br == IF kind = "and" THEN CondBr(val, rhsBeginBB, endBB)
                               ELSE CondBr(val, endBB, rhsBeginBB)
     IN /\ bb' = Terminate(Grow(2, mCurFunc), cur, br)
        /\ cur' = rhsBeginBB
        /\ Push([Call(kind) EXCEPT !.from = cur, !.end = endBB])
  /\ Advance
  /\ UNCHANGED <<mCurFunc, any, val>>

\* What the phi of endBB receives: the constant that decided from lhsBB, the
\* right operand from rhsEndBB, which is where its evaluation ended.
Short == [kind |-> IF Top.kind = "and" THEN "false" ELSE "true", n |-> 0]
Incomings_RhsBegin == {[from |-> Top.from, v |-> Short], [from |-> Top.end + 1, v |-> val]}
Incomings == {[from |-> Top.from, v |-> Short], [from |-> cur, v |-> val]}

\* After the right operand: the phi joins the two ways to endBB.
ShortCircuitEnd ==
  /\ Visiting("endbin")
  /\ InCall("and") \/ InCall("or")
  /\ bb' = [Terminate(bb, cur, Br(Top.end)) EXCEPT ![Top.end].phi = Incomings]
  /\ cur' = Top.end
  /\ val' = [kind |-> "phi", n |-> Top.end]
  /\ Pop
  /\ Advance
  /\ UNCHANGED <<mCurFunc, any>>

-----------------------------------------------------------------------------
(* Statements: the operator() for Stmt first looks at the insertion         *)
(* block and drops the whole statement when that block has ended.           *)

Stmt(kind) == Visiting(kind) /\ InList /\ Live

AfterStmt_Head == at + 1
AfterStmt == Token.next

DropStmt ==
  /\ \E kind \in StmtKinds : Visiting(kind)
  /\ InList /\ ~Live
  /\ at' = AfterStmt
  /\ UNCHANGED <<asg, frames, bb, cur, mCurFunc, any, val, aborted>>

\* Statements that begin with an expression: nothing happens before it.
CallWithValue(kind) ==
  /\ Push(Call(kind))
  /\ Advance
  /\ UNCHANGED <<bb, cur, mCurFunc, any, val>>

ExprStmtBegin_Dead == Visiting("expr") /\ InList /\ CallWithValue("expr")
ExprStmtBegin == Stmt("expr") /\ CallWithValue("expr")
ReturnStmtBegin == Stmt("ret") /\ CallWithValue("ret")
IfBegin == Stmt("if") /\ CallWithValue("if.cond")

ExprStmtEnd ==
  /\ Visiting("fin") /\ InCall("expr")
  /\ Pop
  /\ Advance
  /\ UNCHANGED <<bb, cur, mCurFunc, any, val>>

\* A local VarDecl: its alloca goes to the end of the entry block (before the
\* terminator that block may have), whatever the insertion block is.
LocalVarDecl ==
  /\ \/ Stmt("decl") /\ Push(Call("decl"))
     \/ Stmt("declu") /\ UNCHANGED frames
  /\ bb' = [bb EXCEPT ![Entry].code = Append(@, [op |-> "alloca", n |-> at])]
  /\ Advance
  /\ UNCHANGED <<cur, mCurFunc, any, val>>

\* var_init: the initialiser is stored where its evaluation ended.
LocalVarInit ==
  /\ Visiting("fin") /\ InCall("decl")
  /\ Emit([op |-> "store", n |-> Top.node])
  /\ Pop
  /\ Advance
  /\ UNCHANGED <<cur, mCurFunc, any, val>>

ReturnStmt ==
  /\ \/ Visiting("fin") /\ InCall("ret") /\ Pop
     \/ Stmt("retv") /\ UNCHANGED frames
  /\ bb' = Terminate(bb, cur, Ret)
  /\ Advance
  /\ UNCHANGED <<cur, mCurFunc, any, val>>

\* After the condition of an IfStmt.
IfThen ==
  /\ Visiting("fin") /\ InCall("if.cond")
  /\ LET thenBeginBB == N + 1
         endBB == N + 2
         elseBeginBB == IF asg.nodes[Top.node].alt = 0 THEN 0 ELSE N + 3
         k == IF elseBeginBB = 0 THEN 2 ELSE 3
         other == IF elseBeginBB = 0 THEN endBB ELSE elseBeginBB
     IN /\ bb' = Terminate(Grow(k, mCurFunc), cur, CondBr(val, thenBeginBB, other))
        /\ cur' = thenBeginBB
        /\ Become([Top EXCEPT !.kind = "if.then", !.end = endBB, !.tail = elseBeginBB])
  /\ Advance
  /\ UNCHANGED <<mCurFunc, any, val>>

\* A branch to b is added unless the insertion block has ended.
BranchIfLive_Always(blocks, b) == Terminate(blocks, cur, Br(b))
BranchIfLive_Never(blocks, b) == blocks
BranchIfLive(blocks, b) ==
  IF Live THEN Terminate(blocks, cur, Br(b)) ELSE blocks

IfElse ==
  /\ Visiting("else") /\ InCall("if.then") /\ Top.tail # 0
  /\ bb' = BranchIfLive(bb, Top.end)
  /\ cur' = Top.tail
  /\ Become([Top EXCEPT !.kind = "if.else", !.tail = 0])
  /\ Advance
  /\ UNCHANGED <<mCurFunc, any, val>>

IfEnd ==
  /\ Visiting("end")
  /\ (InCall("if.then") /\ Top.tail = 0) \/ InCall("if.else")
  /\ bb' = BranchIfLive(bb, Top.end)
  /\ cur' = Top.end
  /\ Pop
  /\ Advance
  /\ UNCHANGED <<mCurFunc, any, val>>

\* A WhileStmt up to its condition: the blocks its jumps will need are kept
\* in the any fields of the ASG.
WhileBegin ==
  /\ Stmt("while")
  /\ LET condBeginBB == N + 1
         bodyBeginBB == N + 2
         endBB == N + 3
     IN /\ bb' = Terminate(Grow(3, mCurFunc), cur, Br(condBeginBB))
        /\ cur' = condBeginBB
        /\ any' = [any EXCEPT ![at] = [cond |-> condBeginBB, end |-> endBB]]
        /\ Push([Call("while.cond") EXCEPT !.from = condBeginBB, !.body = bodyBeginBB, !.end = endBB])
  /\ Advance
  /\ UNCHANGED <<mCurFunc, val>>

\* After the condition: condEndBB is left open until the body is emitted.
WhileBody ==
  /\ Visiting("fin") /\ InCall("while.cond")
  /\ cur' = Top.body
  /\ Become([Top EXCEPT !.kind = "while.body", !.tail = cur, !.val = val])
  /\ Advance
  /\ UNCHANGED <<bb, mCurFunc, any, val>>

WhileEnd ==
  /\ Visiting("end") /\ InCall("while.body")
  /\ bb' = BranchIfLive(Terminate(bb, Top.tail, CondBr(Top.val, Top.body, Top.end)), Top.from)
  /\ cur' = Top.end
  /\ Pop
  /\ Advance
  /\ UNCHANGED <<mCurFunc, any, val>>

\* The block a break or continue branches to: 0 when its loop is null or was
\* not emitted, so that its any field is still null.
TargetIn(l) ==
  IF l \notin DOMAIN any THEN 0
  ELSE IF Token.kind = "break" THEN any[l].end ELSE any[l].cond
JumpTarget_Swapped == IF Token.kind = "break" THEN any[asg.loop[at]].cond ELSE any[asg.loop[at]].end
JumpTarget == TargetIn(asg.loop[at])

Jump ==
  /\ Stmt("break") \/ Stmt("continue")
  /\ JumpTarget # 0
  /\ bb' = Terminate(bb, cur, Br(JumpTarget))
  /\ Advance
  /\ UNCHANGED <<frames, cur, mCurFunc, any, val>>

JumpNowhere ==
  /\ Stmt("break") \/ Stmt("continue")
  /\ JumpTarget = 0
  /\ aborted' = TRUE
  /\ UNCHANGED <<asg, at, frames, bb, cur, mCurFunc, any, val>>

-----------------------------------------------------------------------------
(* Declarations. *)

EnterFunction_Stale == mCurFunc' = IF mCurFunc = 0 THEN at ELSE mCurFunc
EnterFunction == mCurFunc' = at

\* The entry block of a function, or of the constructor that initialises a
\* global variable.
FunctionBegin ==
  /\ \E kind \in {"func", "gvar"} : Visiting(kind) /\ Push(Call(kind))
  /\ frames = <<>>
  /\ bb' = Grow(1, at)
  /\ cur' = N + 1
  /\ EnterFunction
  /\ Advance
  /\ UNCHANGED <<any, val>>

FunctionEnd ==
  /\ Visiting("end") /\ InCall("func")
  /\ bb' = IF Live THEN Terminate(bb, cur, Exit) ELSE bb
  /\ Pop
  /\ Advance
  /\ UNCHANGED <<cur, mCurFunc, any, val>>

GlobalVarEnd ==
  /\ Visiting("fin") /\ InCall("gvar")
  /\ bb' = Terminate(bb, cur, Ret)
  /\ Pop
  /\ Advance
  /\ UNCHANGED <<cur, mCurFunc, any, val>>

\* At the top level a prototype makes a function without blocks; in a body,
\* the DeclStmt casts it to a VarDecl, which is null, and uses it.
Prototype ==
  /\ Visiting("proto") /\ frames = <<>>
  /\ Advance
  /\ UNCHANGED <<frames, bb, cur, mCurFunc, any, val>>

LocalPrototype ==
  /\ Visiting("proto") /\ InList
  /\ IF Live
     THEN aborted' = TRUE /\ at' = at
     ELSE at' = AfterStmt /\ aborted' = aborted
  /\ UNCHANGED <<asg, frames, bb, cur, mCurFunc, any, val>>

Next ==
  \/ Atom \/ ShortCircuit("and") \/ ShortCircuit("or") \/ ShortCircuitEnd
  \/ DropStmt \/ ExprStmtBegin \/ ExprStmtEnd \/ LocalVarDecl \/ LocalVarInit
  \/ ReturnStmtBegin \/ ReturnStmt \/ IfBegin \/ IfThen \/ IfElse \/ IfEnd
  \/ WhileBegin \/ WhileBody \/ WhileEnd \/ Jump \/ JumpNowhere
  \/ FunctionBegin \/ FunctionEnd \/ GlobalVarEnd \/ Prototype \/ LocalPrototype

\* The walk is one thread that runs until it ends.
Spec == Init /\ [][Next]_vars /\ WF_vars(Next)

Finished == at = Len(asg.nodes) + 1 /\ frames = <<>>

-----------------------------------------------------------------------------
(* Properties. *)

\* The shape of the state; in particular every block number that a call in
\* progress or a loop keeps is that of a block.
BlockOrNull == {0} \cup Blocks

FrameOK(f) ==
  /\ {f.from, f.body, f.end, f.tail} \subseteq BlockOrNull
  /\ f.end # 0 <=> f.kind \in {"if.then", "if.else", "while.cond", "while.body", "and", "or"}
  /\ f.kind \in {"while.cond", "while.body"} => f.from # 0 /\ f.body # 0
  /\ f.tail # 0 => f.kind \in {"if.then", "while.body"}
  /\ f.kind = "while.body" => f.tail # 0

TypeOK ==
  /\ asg.nodes \in Seq(Node)
  /\ asg.loop \in [DOMAIN asg.nodes -> Nat]
  /\ at \in Nat
  /\ bb \in Seq(Block)
  /\ cur \in BlockOrNull
  /\ mCurFunc \in Nat
  /\ any \in [DOMAIN asg.nodes -> [cond : BlockOrNull, end : BlockOrNull]]
  /\ val \in Val
  /\ aborted \in BOOLEAN
  /\ frames \in Seq(Frame)
  /\ \A i \in DOMAIN frames : FrameOK(frames[i])

\* The blocks that a call in progress has yet to go on with or to end.
Pending(f) ==
  ({f.end, f.tail} \cup (IF f.kind = "while.cond" THEN {f.body} ELSE {})) \ {0}

\* Which calls make which: declarations are outermost, operands of && and ||
\* are called for by expressions, all else by lists of statements.
CallShape ==
  /\ \A i \in DOMAIN frames : frames[i].kind \in {"func", "gvar"} <=> i = 1
  /\ \A i \in DOMAIN frames :
       i # 1 => IF frames[i].kind \in {"and", "or"} THEN frames[i - 1].kind \in ValueKinds
                                                    ELSE frames[i - 1].kind \in ListKinds

\* A block without a terminator is the insertion block or is waited for by
\* exactly one call, which still holds the only way to end it.
OpenAreKnown ==
  \A b \in Blocks : bb[b].term = NoTerm =>
    b = cur \/ \E i \in DOMAIN frames : b \in Pending(frames[i])
PendingAreOpen ==
  \A i \in DOMAIN frames : \A b \in Pending(frames[i]) : b # cur /\ bb[b].term = NoTerm
PendingAreDistinct ==
  /\ \A i, j \in DOMAIN frames : i # j => Pending(frames[i]) \cap Pending(frames[j]) = {}
  /\ \A i \in DOMAIN frames : /\ frames[i].kind = "while.cond" => frames[i].body # frames[i].end
                              /\ frames[i].tail # 0 => frames[i].tail # frames[i].end

\* Where a value is computed the insertion block is open; between declarations
\* none is.
ValueIsLive == (InValue => Live) /\ (frames = <<>> => ~Live)

TargetsExist == \A b \in Blocks : Targets(bb[b].term) \subseteq Blocks

\* The accounting of open blocks that makes the checks on getTerminator() in
\* IfStmt, WhileStmt, FunctionDecl and Stmt sufficient.
OpenBlocksAccounted ==
  /\ CallShape
  /\ OpenAreKnown
  /\ PendingAreOpen
  /\ PendingAreDistinct
  /\ ValueIsLive
  /\ TargetsExist

\* What llvm::verifyModule asks of the branches (front-end/main.cpp calls it
\* when the walk is over): each block of each function ends in a terminator,
\* and branches go to blocks of the same function other than its entry.
EveryBlockEnds ==
  Finished => \A b \in Blocks :
    /\ bb[b].term # NoTerm
    /\ Targets(bb[b].term) \subseteq Blocks

BranchesStayInside ==
  Finished => \A b \in Blocks : \A t \in Targets(bb[b].term) :
    bb[t].fn = bb[b].fn /\ \E e \in 1 .. t - 1 : bb[e].fn = bb[b].fn

\* A block that has ended gets no second terminator, though no Create* call
\* asks: the checks on getTerminator() in the code are the ones needed.
TerminatorsAreFinal ==
  [][\A b \in Blocks : bb[b].term # NoTerm => bb'[b].term = bb[b].term]_vars

\* Nothing is evaluated or stored in a block that has ended: code is added to
\* such a block for the allocas of later locals only.
NoCodeAfterEnd ==
  [][\A b \in Blocks :
       bb[b].term # NoTerm =>
         \A k \in DOMAIN bb'[b].code \ DOMAIN bb[b].code : bb'[b].code[k].op = "alloca"]_vars

\* A phi has one incoming pair for every predecessor of its block, although
\* evaluating the right operand may have moved the insertion point.
Preds(b) == {p \in Blocks : b \in Targets(bb[p].term)}
PhisMatchPreds ==
  \A b \in Blocks :
    bb[b].phi # {} => /\ {i.from : i \in bb[b].phi} = Preds(b)
                      /\ \A i, j \in bb[b].phi : i.from = j.from => i = j

\* The alloca of a local is in the entry block of its function and comes
\* before every store to it, whatever blocks the initialiser opened.
AllocaBeforeStore ==
  \A b \in Blocks : \A k \in DOMAIN bb[b].code :
    bb[b].code[k].op = "store" =>
      \E e \in 1 .. b : /\ bb[e].fn = bb[b].fn
                        /\ \A c \in 1 .. e - 1 : bb[c].fn # bb[e].fn
                        /\ \E j \in DOMAIN bb[e].code :
                             /\ bb[e].code[j] = [op |-> "alloca", n |-> bb[b].code[k].n]
                             /\ e = b => j < k

\* With every jump linked to its loop and no prototype in a body, the walk dies
\* on no null block and no null declaration and reaches the end of the ASG.
WellLinked(a) ==
  /\ \A i \in Jumps(a.nodes) : a.loop[i] = EnclosingLoop(a.nodes, i)
  /\ \A i \in DOMAIN a.nodes : a.nodes[i].kind = "proto" => EnclosingFunc(a.nodes, i) = 0

EmissionEnds == WellLinked(asg) => <>Finished

\* What the walk dies of: a local prototype, or a jump linked to a loop other
\* than its own, one that was dropped with the dead code around it.
AbortsOnlyWhenMislinked ==
  aborted => \/ Token.kind = "proto"
             \/ /\ Token.kind \in JumpKinds
                /\ asg.loop[at] # EnclosingLoop(asg.nodes, at)
                /\ JumpTarget = 0
=============================================================================
