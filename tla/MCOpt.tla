------------------------------- MODULE MCOpt -------------------------------
(* Instances of Opt for TLC. *)
EXTENDS Opt

CONSTANTS Ops, Literals,   \* operators and constants of functions of Size
          Size,            \* instructions before the ret
          ChainOps         \* operators of functions of one instruction more, with 2
                           \* as the only constant

Operands(p, literals) ==
  {Const(c) : c \in literals} \cup {[k |-> "arg", n |-> 0]} \cup {Inst(d) : d \in 1 .. p - 1}

\* Straight-line code of n instructions, of which those in folds (their numbers)
\* are or become constant when ConstantFolding comes to them; a remainder of a
\* constant by a variable only if anyRem.
Constant(o, folds) == IsConst(o) \/ (o.k = "inst" /\ o.n \in folds)

Codes(ops, literals, size, anyRem) ==
  LET codes[n \in 0 .. size] ==
        IF n = 0 THEN {[code |-> <<>>, folds |-> {}]}
        ELSE {[code  |-> Append(c.code, [id |-> n, op |-> i[1], l |-> i[2], r |-> i[3]]),
               folds |-> IF i[1] \in FoldOps /\ Constant(i[2], c.folds) /\ Constant(i[3], c.folds)
                         THEN c.folds \cup {n} ELSE c.folds] :
                c \in codes[n - 1], i \in ops \X Operands(n, literals) \X Operands(n, literals)}
      allowed(x) ==
        \A p \in DOMAIN x.code :
          x.code[p].op = "srem" /\ Constant(x.code[p].l, x.folds) => Constant(x.code[p].r, x.folds)
  IN {x.code : x \in {y \in codes[size] : anyRem \/ allowed(y)}}

\* The last value is returned.
Returning(c) == Append(c, [id |-> Len(c) + 1, op |-> "ret", l |-> Inst(Len(c)), r |-> Const(0)])

\* In one block, and cut in two after the first instruction.
Functions(codes) ==
  {<<Returning(c)>> : c \in codes} \cup {<<<<Head(c)>>, Tail(Returning(c))>> : c \in codes}

AllPrograms == Functions(Codes(Ops, Literals, Size, TRUE))
RemsByConstants ==
  Functions(Codes(Ops, Literals, Size, FALSE) \cup Codes(ChainOps, {2}, Size + 1, FALSE))
=============================================================================
