-------------------------------- MODULE Opt --------------------------------
(***************************************************************************)
(* The pipeline of optimizer/main.cpp: ConstantFolding, then               *)
(* StrengthReduction, over one function.  (Mem2Reg, which runs first, does *)
(* nothing to a function without allocas.)                                 *)
(***************************************************************************)
EXTENDS ConstantFolding, StrengthReduction

vars == <<irVars, erase, replace>>

Init == IRInit /\ erase = <<>> /\ replace = <<>>

Next == (FoldStep /\ UNCHANGED replace) \/ (ReduceStep /\ UNCHANGED erase)

Spec == Init /\ [][Next]_vars

-----------------------------------------------------------------------------
(* Properties. *)

\* Whatever the argument, the function returns what the one that was given
\* returns: not only at the end but after each step, with instructions folded and
\* not erased, inserted and not used, replaced one by one.
MeaningKept ==
  \A x \in 0 .. M - 1 : Meaning(orig, x) \in {Undef, Meaning(func, x)}

\* The function stays one that verifyModule accepts.  The instructions that wait
\* in InstToReplace are held to this at the place they will take, so that nothing
\* they use is erased before.
DefsDominate ==
  /\ WellFormed(func)
  /\ \A s \in Sites(func) : \A k \in DOMAIN replace :
       replace[k].old = func[s[1]][s[2]].id => UsesDefined(func, replace[k].new, s)

\* One visit of each instruction is enough: what became foldable by another
\* folding has been folded, in this block and in those after it.
FoldingComplete ==
  pass # "fold" =>
    \A s \in Sites(func) :
      LET i == func[s[1]][s[2]] IN i.op \in FoldOps => ~(IsConst(i.l) /\ IsConst(i.r))
=============================================================================
