------------------------------- MODULE RunIR -------------------------------
(***************************************************************************)
(* EmitIR followed by a call of one of the functions it emitted: LLVM's    *)
(* meaning of blocks, branches and phis (an external component; only what  *)
(* EmitIR emits is given a meaning).  The run implements CSem.             *)
(***************************************************************************)
EXTENDS EmitIR, TLC

VARIABLES
  pc,    \* the block being executed, 0 before the call and after the return
  idx,   \* the next instruction of that block
  regs,  \* the values computed so far
  called \* whether the call was made

run == <<pc, idx, regs, called>>

RunInit ==
  /\ Init
  /\ pc = 0 /\ idx = 0 /\ regs = [v \in {} |-> FALSE] /\ called = FALSE

\* The value of an operand.
ValueOf(v, rs) ==
  CASE v.kind = "true" -> TRUE [] v.kind = "false" -> FALSE [] OTHER -> rs[v]

\* The registers after control passes from block p to block b.
Enter(p, b, rs) ==
  IF bb[b].phi = {} THEN rs
  ELSE LET in == CHOOSE i \in bb[b].phi : i.from = p
       IN ([kind |-> "phi", n |-> b] :> ValueOf(in.v, rs)) @@ rs

\* The block that the terminator of block b leads to.
Branch(b, rs) ==
  LET t == bb[b].term IN IF t.op = "condbr" /\ ~ValueOf(t.v, rs) THEN t.f ELSE t.t

Leaves(b) == bb[b].term.op \in {"ret", "exit"}

\* An ASG with a jump to the wrong loop is not called: what it means is not CSem.
CallFunction ==
  /\ Finished
  /\ WellLinked(asg)
  /\ ~called
  /\ called' = TRUE
  /\ pc' \in {b \in Blocks : \A c \in Blocks : bb[c].fn = bb[b].fn => b <= c}
  /\ idx' = 1
  /\ UNCHANGED regs

ExecInstr ==
  /\ pc # 0
  /\ idx <= Len(bb[pc].code)
  /\ idx' = idx + 1
  /\ LET i == bb[pc].code[idx]
     IN IF i.op = "atom"
        THEN \E v \in BOOLEAN : regs' = ([kind |-> "atom", n |-> i.n] :> v) @@ regs
        ELSE UNCHANGED regs
  /\ UNCHANGED <<pc, called>>

ExecTerm ==
  /\ pc # 0
  /\ idx > Len(bb[pc].code)
  /\ IF Leaves(pc)
     THEN pc' = 0 /\ idx' = 0 /\ UNCHANGED regs
     ELSE /\ pc' = Branch(pc, regs)
          /\ idx' = 1
          /\ regs' = Enter(pc, Branch(pc, regs), regs)
  /\ UNCHANGED called

RunNext ==
  \/ Next /\ UNCHANGED run
  \/ (CallFunction \/ ExecInstr \/ ExecTerm) /\ UNCHANGED vars

RunSpec == RunInit /\ [][RunNext]_<<vars, run>> /\ WF_vars(Next)

-----------------------------------------------------------------------------
(* The refinement: the atom of the ASG that a run will evaluate next.       *)

RECURSIVE NextAtom(_, _, _, _)
NextAtom(b, i, rs, fuel) ==
  LET atoms == {j \in i .. Len(bb[b].code) : bb[b].code[j].op = "atom"}
  IN IF atoms # {} THEN bb[b].code[CHOOSE j \in atoms : \A k \in atoms : j <= k].n
     ELSE IF Leaves(b) THEN Len(asg.nodes) + 1
     ELSE IF fuel = 0 THEN Len(asg.nodes) + 2  \* a loop of branches without an atom
     ELSE LET c == Branch(b, rs) IN NextAtom(c, 1, Enter(b, c, rs), fuel - 1)

C == INSTANCE CSem WITH
  nodes <- asg.nodes,
  node <- IF pc # 0 THEN NextAtom(pc, idx, regs, N)
          ELSE IF called THEN Len(asg.nodes) + 1 ELSE 0

\* Whatever the atoms turn out to be, the IR evaluates them in the order that
\* the source program does, and returns when it does.
ImplementsC == C!Spec
=============================================================================
