----------------------------- MODULE MCObjMgr -----------------------------
(* ObjMgr with a few objects of two fields.                                 *)
EXTENDS ObjMgr, TLC

MCField == {"lft", "rht"}
MCFields == <<"lft", "rht">>

\* The addresses are alike.
Addresses == Permutations(Obj)
=============================================================================
