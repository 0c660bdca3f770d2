------------------------------- MODULE IRFunc -------------------------------
(***************************************************************************)
(* LLVM functions as the scalar passes of optimizer/ see them: blocks of   *)
(* binary operators on integers of W bits, one after the other, ending in  *)
(* a ret; and the loops "for BB in Func, for Inst in BB" that both passes  *)
(* run.  W is at most half of the 64 bits that the passes compute with, so *)
(* that their own arithmetic does not overflow (32 for EmitIR's int).      *)
(***************************************************************************)
EXTENDS Integers, Sequences, SequencesExt

CONSTANTS
  W,         \* the width of the integer type
  Programs   \* the functions that the passes may be given

VARIABLES
  func,    \* the function: the sequence of its blocks
  orig,    \* the function that was given (never changes)
  pass,    \* the pass that is running: "fold", "reduce", or "done"
  blk, at, \* where its loops are
  aborted  \* the process died

irVars == <<func, orig, pass, blk, at, aborted>>

Pow2(k) == 2 ^ k
M == Pow2(W)
Signed(n) == IF n < M \div 2 THEN n ELSE n - M

\* An operand is a constant (the bits of it), an argument or an instruction.
Operand == [k : {"const"}, n : 0 .. M - 1] \cup [k : {"arg", "inst"}, n : Nat]
Const(z) == [k |-> "const", n |-> z % M]
Inst(id) == [k |-> "inst", n |-> id]
IsConst(o) == o.k = "const"

FoldOps == {"add", "sub", "mul", "udiv", "sdiv"}
BinaryOps == FoldOps \cup {"srem", "shl"}
Instr == [id : Nat, op : BinaryOps \cup {"ret"}, l : Operand, r : Operand]

\* The provers do not know powers.
ASSUME WidthAssumption == W \in Nat /\ W < M /\ \A k \in 0 .. W : Pow2(k) \in Nat \ {0}

\* Division of machine integers truncates towards zero.
Magnitude(z) == IF z < 0 THEN -z ELSE z
Quotient(a, b) ==
  LET q == Magnitude(a) \div Magnitude(b) IN IF (a < 0) = (b < 0) THEN q ELSE -q

\* What LLVM says an instruction computes; Undef where it says nothing.
Undef == -1
Value(op, a, b) ==
  IF a = Undef \/ b = Undef THEN Undef ELSE
  CASE op = "add" -> (a + b) % M
    [] op = "sub" -> (a - b) % M
    [] op = "mul" -> (a * b) % M
    [] op = "shl" -> IF b < W THEN (a * Pow2(b)) % M ELSE Undef
    [] op = "udiv" -> IF b = 0 THEN Undef ELSE a \div b
    [] op \in {"sdiv", "srem"} ->
         IF b = 0 \/ (Signed(a) = -(M \div 2) /\ Signed(b) = -1) THEN Undef
         ELSE LET q == Quotient(Signed(a), Signed(b))
              IN IF op = "sdiv" THEN q % M ELSE (Signed(a) - q * Signed(b)) % M
    [] op = "ret" -> a

\* The instruction at place k of block b, and the places that come before it.
Sites(f) == UNION {{b} \X DOMAIN f[b] : b \in DOMAIN f}
Precedes(s, t) == s[1] < t[1] \/ (s[1] = t[1] /\ s[2] < t[2])
Defs(f, id, t) == {s \in Sites(f) : f[s[1]][s[2]].id = id /\ Precedes(s, t)}

\* What verifyModule asks of f: an instruction is defined once, and used after it
\* is defined only; and f ends in a ret.
Uses(i) == {o.n : o \in {p \in {i.l, i.r} : p.k = "inst"}}
UsesDefined(f, i, t) == \A id \in Uses(i) : Defs(f, id, t) # {}
WellFormed(f) ==
  \A t \in Sites(f) : Defs(f, f[t[1]][t[2]].id, t) = {} /\ UsesDefined(f, f[t[1]][t[2]], t)
End(f) == <<Len(f), Len(f[Len(f)])>>
Returns(f) == End(f) \in Sites(f) /\ Last(Last(f)).op = "ret"

ASSUME ProgramsAreSSA == \A f \in Programs : f \in Seq(Seq(Instr)) /\ WellFormed(f) /\ Returns(f)

\* What the instruction at t computes for argument x when those before it compute
\* what values says of their places.
OperandValue(f, x, values, o, t) ==
  CASE o.k = "const" -> o.n
    [] o.k = "arg" -> x
    [] o.k = "inst" -> LET defs == Defs(f, o.n, t)
                       IN IF defs = {} THEN Undef ELSE values[CHOOSE s \in defs : TRUE]
Computed(f, x, values, t) ==
  LET i == f[t[1]][t[2]]
  IN Value(i.op, OperandValue(f, x, values, i.l, t), OperandValue(f, x, values, i.r, t))
Values(f, x) == LET values[t \in Sites(f)] == Computed(f, x, values, t) IN values

\* What f returns, Undef when any instruction is.
Meaning(f, x) ==
  LET values == Values(f, x)
  IN IF \E t \in Sites(f) : values[t] = Undef THEN Undef ELSE values[End(f)]

\* Value::replaceAllUsesWith.
Subst(i, old, o) ==
  [i EXCEPT !.l = IF @ = Inst(old) THEN o ELSE @, !.r = IF @ = Inst(old) THEN o ELSE @]
ReplaceUses(f, old, o) ==
  [b \in DOMAIN f |-> [k \in DOMAIN f[b] |-> Subst(f[b][k], old, o)]]

-----------------------------------------------------------------------------
(* The loops over blocks and instructions. *)

Block == func[blk]
Current == Block[at]
Visiting(p) == pass = p /\ ~aborted /\ blk \in DOMAIN func /\ at \in DOMAIN Block
LeftLoop(p) == pass = p /\ ~aborted /\ blk \in DOMAIN func /\ at \notin DOMAIN Block

NextBlock == blk' = blk + 1 /\ at' = 1 /\ UNCHANGED <<func, orig, pass, aborted>>

\* The pass is over; the next one starts at the first block.
NextPass(from, to) ==
  /\ pass = from /\ ~aborted /\ blk \notin DOMAIN func
  /\ pass' = to
  /\ blk' = 1
  /\ at' = 1
  /\ UNCHANGED <<func, orig, aborted>>

IRInit ==
  /\ func \in Programs
  /\ orig = func
  /\ pass = "fold"
  /\ blk = 1
  /\ at = 1
  /\ aborted = FALSE
=============================================================================
