------------------------- MODULE StrengthReduction -------------------------
(***************************************************************************)
(* optimizer/StrengthReduction.cpp.  A definition X_Y is X with the slip Y.*)
(***************************************************************************)
EXTENDS IRFunc, FiniteSetsExt

VARIABLE replace   \* InstToReplace: [old : the id, new : the instruction]

\* The operand that is the constant, and the one that is not.
OneConst == Current.op \in BinaryOps /\ IsConst(Current.l) # IsConst(Current.r)
TheConst == IF IsConst(Current.l) THEN Current.l ELSE Current.r
TheVar == IF IsConst(Current.l) THEN Current.r ELSE Current.l

PowersOfTwo == {Pow2(k) : k \in 0 .. W - 2}
Log2(n) == CHOOSE k \in 0 .. W - 2 : Pow2(k) = n
IsPowerOf2(n) == n \in PowersOfTwo

\* New instructions get new numbers.
Ids == {func[s[1]][s[2]].id : s \in Sites(func)} \cup {replace[k].new.id : k \in DOMAIN replace}
Fresh == Max(Ids) + 1

\* Not a binary operator, two constants, two variables, or an operator that a
\* power of two does not help.
ReduceSkip ==
  /\ Visiting("reduce")
  /\ ~OneConst \/ (IsPowerOf2(TheConst.n) /\ Current.op \notin {"mul", "srem"})
  /\ at' = at + 1
  /\ UNCHANGED <<func, orig, pass, blk, aborted, replace>>

\* Any other constant leaves the loop over the block.
ReduceBreak ==
  /\ Visiting("reduce") /\ OneConst /\ ~IsPowerOf2(TheConst.n)
  /\ at' = Len(Block) + 1
  /\ UNCHANGED <<func, orig, pass, blk, aborted, replace>>

ShiftFor(n) == Const(Log2(n))

\* x * n becomes x << log2(n).
ReduceMul ==
  /\ Visiting("reduce") /\ OneConst /\ IsPowerOf2(TheConst.n) /\ Current.op = "mul"
  /\ replace' = Append(replace,
       [old |-> Current.id,
        new |-> [id |-> Fresh, op |-> "shl", l |-> TheVar, r |-> ShiftFor(TheConst.n)]])
  /\ at' = at + 1
  /\ UNCHANGED <<func, orig, pass, blk, aborted>>

\* x % n becomes x - ((x / n) << log2(n)); the division and the shift are put
\* before the instruction at once, on whichever side of it n is.
AfterInsert == at + 3

ReduceRem ==
  /\ Visiting("reduce") /\ OneConst /\ IsPowerOf2(TheConst.n) /\ Current.op = "srem"
  /\ LET div == [id |-> Fresh, op |-> "sdiv", l |-> TheVar, r |-> TheConst]
         shl == [id |-> Fresh + 1, op |-> "shl", l |-> Inst(Fresh), r |-> Const(Log2(TheConst.n))]
         sub == [id |-> Fresh + 2, op |-> "sub", l |-> TheVar, r |-> Inst(Fresh + 1)]
     IN /\ func' = [func EXCEPT ![blk] = InsertAt(InsertAt(@, at, shl), at, div)]
        /\ replace' = Append(replace, [old |-> Current.id, new |-> sub])
  /\ at' = AfterInsert
  /\ UNCHANGED <<orig, pass, blk, aborted>>

\* ReplaceInstWithInst: the new instruction takes the place and the uses of the
\* old one, those in instructions that wait for their own turn included.
Waiting ==
  [k \in DOMAIN Tail(replace) |->
     [Tail(replace)[k] EXCEPT !.new = Subst(@, Head(replace).old, Inst(Head(replace).new.id))]]

ReplaceInst ==
  /\ LeftLoop("reduce") /\ replace # <<>>
  /\ LET old == Head(replace).old
         new == Head(replace).new
         placed == [func EXCEPT ![blk] = [k \in DOMAIN @ |-> IF @[k].id = old THEN new ELSE @[k]]]
     IN func' = ReplaceUses(placed, old, Inst(new.id))
  /\ replace' = Waiting
  /\ UNCHANGED <<orig, pass, blk, at, aborted>>

ReduceBlockEnd == LeftLoop("reduce") /\ replace = <<>> /\ NextBlock /\ UNCHANGED replace

ReduceEnd == NextPass("reduce", "done") /\ UNCHANGED replace

ReduceStep ==
  ReduceSkip \/ ReduceBreak \/ ReduceMul \/ ReduceRem \/ ReplaceInst \/ ReduceBlockEnd \/ ReduceEnd
=============================================================================
