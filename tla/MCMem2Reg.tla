----------------------------- MODULE MCMem2Reg -----------------------------
(* Instances of Mem2Reg for TLC. *)
EXTENDS Mem2Reg

CONSTANT Shapes   \* names of the graphs

Shape(name) ==
  CASE name = "line" -> <<<<2>>, <<>>>>
    [] name = "if" -> <<<<2, 3>>, <<3>>, <<>>>>
    [] name = "both" -> <<<<2, 3>>, <<4, 4>>, <<4>>, <<>>>>
    [] name = "diamond" -> <<<<2, 3>>, <<4>>, <<4>>, <<>>>>
    [] name = "while" -> <<<<2>>, <<3, 4>>, <<2>>, <<>>>>
    [] name = "do" -> <<<<2>>, <<2, 3>>, <<>>>>
    [] name = "break" -> <<<<2>>, <<3, 4>>, <<4, 2>>, <<>>>>
    [] name = "dead" -> <<<<3>>, <<3>>, <<>>>>
    [] name = "dead entry" -> <<<<2, 3>>, <<4>>, <<4>>, <<>>, <<4>>>>
    [] name = "dead loop" -> <<<<4>>, <<3, 4>>, <<2>>, <<>>>>
AllShapes == {Shape(n) : n \in Shapes}

\* Allocas have the numbers of their variables; the instructions of the k-th command
\* of block b are numbered from Number(b, k).
Number(b, k) == 100 * b + 10 * k
Code(c, n) ==
  LET v == Inst(c[2])
  IN CASE c[1] = "set" -> <<Store(n, Const(n), v)>>
       [] c[1] = "get" -> <<Call(n, Const(0)), Store(n + 1, Inst(n), v)>>
       [] c[1] = "use" -> <<Load(n, v), Call(n + 1, Inst(n))>>
       [] c[1] = "copy" -> <<Load(n, v), Store(n + 1, Inst(n), Inst(c[3]))>>
       [] c[1] = "leak" -> <<Store(n, v, Inst(c[3]))>>
       [] c[1] = "deref" -> <<Load(n, v), Load(n + 1, Inst(n)), Call(n + 2, Inst(n + 1))>>
       [] c[1] = "skip" -> <<>>

\* A phi of the program itself, as && and || leave them where blocks join.
OwnPhi(g, b) ==
  LET froms == SetToSeq(Preds(g, b))
  IN IF Cardinality(Preds(g, b)) < 2 \/ \E p \in Preds(g, b) : Edges(g, p, b) > 1 THEN <<>>
     ELSE <<Phi(9 + 100 * b, [k \in DOMAIN froms |-> [val |-> Const(froms[k]), pred |-> froms[k]]]),
            Call(8 + 100 * b, Inst(9 + 100 * b))>>

Function(g, vars2, body, phis) ==
  [b \in DOMAIN g |->
     (IF b = Entry THEN [v \in 1 .. vars2 |-> Alloca(v)] ELSE <<>>)
     \o (IF phis THEN OwnPhi(g, b) ELSE <<>>)
     \o FlattenSeq([k \in DOMAIN body[b] |-> Code(body[b][k], Number(b, k))])]

\* One variable: at most a command a block; two, or three, where there are few blocks.
OneVar == {<<"get", 1>>, <<"use", 1>>, <<"copy", 1, 1>>}
Most(g) == CASE Len(g) = 2 -> 3 [] Len(g) = 3 -> 2 [] Len(g) = 4 -> 1 [] OTHER -> 0
OneVarBodies(g) == [DOMAIN g -> {<<<<"set", 1>>>>} \cup SeqOf(OneVar, Most(g))]

\* Two variables: one is set at the start, the second may hold its address; one
\* command in each block but the fourth, or the last, which uses both.
TwoVars == {<<"get", 1>>, <<"get", 2>>, <<"use", 2>>, <<"copy", 1, 2>>, <<"copy", 2, 1>>}
Pointers == {<<"leak", 1, 2>>, <<"deref", 2>>, <<"set", 1>>}
End(g) == IF Len(g) < 4 THEN Len(g) ELSE 4
TwoVarBodies(g) ==
  {[b \in DOMAIN g |->
      CASE b = Entry -> <<<<"set", 1>>, c[b]>>
        [] b \in 2 .. End(g) - 1 -> <<c[b]>>
        [] b = End(g) -> <<<<"use", 1>>, <<"use", 2>>>>
        [] OTHER -> <<>>] :
     c \in [1 .. End(g) - 1 -> TwoVars] \cup [1 .. End(g) - 1 -> Pointers]}

CodeOfGraph(g) ==
  {Function(g, 1, body, FALSE) : body \in OneVarBodies(g)}
  \cup {Function(g, 2, body, TRUE) : body \in TwoVarBodies(g)}
=============================================================================
