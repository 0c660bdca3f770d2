-------------------------- MODULE ConstantFolding --------------------------
(***************************************************************************)
(* optimizer/ConstantFolding.cpp.  A definition X_Y is X with the slip Y.  *)
(***************************************************************************)
EXTENDS IRFunc

VARIABLE erase   \* InstToErase

Foldable == Current.op \in FoldOps /\ IsConst(Current.l) /\ IsConst(Current.r)
DividesByZero == Current.op \in {"udiv", "sdiv"} /\ Current.r.n = 0

\* The constants are extended with their sign, whatever the instruction.
Result ==
  LET a == Signed(Current.l.n)
      b == Signed(Current.r.n)
  IN CASE Current.op = "add" -> a + b
       [] Current.op = "sub" -> a - b
       [] Current.op = "mul" -> a * b
       [] Current.op \in {"udiv", "sdiv"} -> Quotient(a, b)

\* The result is cut to the type.  A division by zero in the pass itself is
\* undefined: some processors give 0, on others the process dies (FoldTrap).
Folded_Unsigned ==
  Const(IF Current.op = "sdiv" /\ Current.r.n # 0 THEN Current.l.n \div Current.r.n
        ELSE IF DividesByZero THEN 0 ELSE Result)
Folded == IF DividesByZero THEN Const(0) ELSE Const(Result)

FoldedUses_InBlock == [func EXCEPT ![blk] = ReplaceUses(<<@>>, Current.id, Folded)[1]]
FoldedUses == ReplaceUses(func, Current.id, Folded)

AfterFold_Skips == at + 2
AfterFold == at + 1

FoldInst ==
  /\ Visiting("fold") /\ Foldable
  /\ func' = FoldedUses
  /\ erase' = Append(erase, Current.id)
  /\ at' = AfterFold
  /\ UNCHANGED <<orig, pass, blk, aborted>>

FoldTrap ==
  /\ Visiting("fold") /\ Foldable /\ DividesByZero
  /\ aborted' = TRUE
  /\ UNCHANGED <<func, orig, pass, blk, at, erase>>

FoldSkip ==
  /\ Visiting("fold") /\ ~Foldable
  /\ at' = at + 1
  /\ UNCHANGED <<func, orig, pass, blk, aborted, erase>>

\* After the loop over a block, what was folded in it is erased.
FoldErase ==
  /\ LeftLoop("fold") /\ erase # <<>>
  /\ LET k == CHOOSE k \in DOMAIN Block : Block[k].id = Head(erase)
     IN func' = [func EXCEPT ![blk] = RemoveAt(@, k)]
  /\ erase' = Tail(erase)
  /\ UNCHANGED <<orig, pass, blk, at, aborted>>

FoldBlockEnd == LeftLoop("fold") /\ erase = <<>> /\ NextBlock /\ UNCHANGED erase

FoldEnd == NextPass("fold", "reduce") /\ UNCHANGED erase

FoldStep == FoldInst \/ FoldTrap \/ FoldSkip \/ FoldErase \/ FoldBlockEnd \/ FoldEnd
=============================================================================
