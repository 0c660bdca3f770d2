------------------------------- MODULE Asg -------------------------------
(***************************************************************************)
(* The abstract semantic graph (front-end/asg/asg.hpp) as the visitors see *)
(* it: a document is the sequence of the visits that a depth-first walk    *)
(* makes, one token per visit, and every token knows where its subtree     *)
(* ends.  Only what the control flow depends on is kept: an evaluation     *)
(* with no control flow of its own (a load, a call, a comparison) is an    *)
(* "atom".                                                                 *)
(*                                                                         *)
(*   func s* end             FunctionDecl with a body                      *)
(*   gvar e fin              global VarDecl with an initialiser            *)
(*   proto                   FunctionDecl without a body, with parameters  *)
(*   while e fin s* end      WhileStmt: condition, body                    *)
(*   if e fin s* [else s*] end                                             *)
(*   expr e fin              ExprStmt                                      *)
(*   decl e fin, declu       DeclStmt of one VarDecl, with and without init*)
(*   ret e fin, retv         ReturnStmt with and without an expression     *)
(*   break, continue         BreakStmt, ContinueStmt                       *)
(*   atom                    an evaluation                                 *)
(*   e and e endbin          BinaryExpr::kAnd  (or: kOr)                   *)
(*                                                                         *)
(* A CompoundStmt changes no state of the visitors and is flattened into   *)
(* the list that contains it.                                              *)
(***************************************************************************)
EXTENDS Naturals, Sequences

JumpKinds == {"break", "continue"}

StmtKinds == {"while", "if", "expr", "decl", "declu", "ret", "retv"} \cup JumpKinds

Kinds == StmtKinds \cup {"func", "gvar", "proto", "else", "end", "fin",
                         "atom", "and", "or", "endbin"}

\* next: the token after the subtree that starts here;
\* alt:  of an IfStmt, its "else" token, or 0 when else_ is null.
Node == [kind : Kinds, next : Nat, alt : Nat]

\* The tokens of doc whose subtree contains token i.
Ancestors(doc, i) == {j \in 1 .. i - 1 : i < doc[j].next}

\* The innermost of a set of tokens that contain one another, 0 for none.
Innermost(S) == IF S = {} THEN 0 ELSE CHOOSE j \in S : \A k \in S : k <= j

\* The loop that a break or continue belongs to in C (C17 6.8.6.2, 6.8.6.3).
EnclosingLoop(doc, i) ==
  Innermost({j \in Ancestors(doc, i) : doc[j].kind = "while"})

\* The function whose body contains token i.
EnclosingFunc(doc, i) ==
  Innermost({j \in Ancestors(doc, i) : doc[j].kind = "func"})

Jumps(doc) == {i \in DOMAIN doc : doc[i].kind \in JumpKinds}

Returns(doc) == {i \in DOMAIN doc : doc[i].kind \in {"ret", "retv"}}
=============================================================================
