------------------------------ MODULE AsgGen ------------------------------
(***************************************************************************)
(* The bounded ASGs that the model checking runs start from: every         *)
(* function body of at most a given number of statements that the C        *)
(* grammar allows (break and continue occur in loops only).                *)
(***************************************************************************)
EXTENDS Asg

\* Tokens are made with next and alt relative to their own position.
Tok(kind) == <<[kind |-> kind, next |-> 1, alt |-> 0]>>

\* A token, an expression, the return from it, and what follows.
Spanning(kind, alt, e, rest) ==
  <<[kind |-> kind, next |-> 2 + Len(e) + Len(rest), alt |-> alt]>> \o e \o Tok("fin") \o rest

\* Expressions with up to two short-circuit operators.
AtomExpr == Tok("atom")
Bin(op, l, r) ==
  l \o <<[kind |-> op, next |-> Len(r) + 2, alt |-> 0]>> \o r \o Tok("endbin")
Simple == {AtomExpr}

\* Both operators, one inside the other on either side.
And == Bin("and", AtomExpr, AtomExpr)
Nested == {AtomExpr, And, Bin("or", And, AtomExpr), Bin("and", AtomExpr, Bin("or", AtomExpr, AtomExpr))}

\* The statement lists of at most max statements of the given kinds ("else" for
\* an IfStmt with an else branch), with conditions and values in exprs.
Bodies(max, kinds, exprs) ==
  LET leaf(inLoop) == (kinds \ {"while", "if", "else"}) \ (IF inLoop THEN {} ELSE JumpKinds)
      body[x \in (0 .. max) \X BOOLEAN] ==
        LET n == x[1]
            one(k) ==
              (IF k > 1 THEN {} ELSE
                 UNION {IF s \in {"expr", "decl", "ret"} THEN {Spanning(s, 0, e, <<>>) : e \in exprs}
                                                         ELSE {Tok(s)} : s \in leaf(x[2])})
              \cup (IF "while" \notin kinds THEN {} ELSE
                 {Spanning("while", 0, e, b \o Tok("end")) : e \in exprs, b \in body[<<k - 1, TRUE>>]})
              \cup (IF "if" \notin kinds THEN {} ELSE
                 {Spanning("if", 0, e, b \o Tok("end")) : e \in exprs, b \in body[<<k - 1, x[2]>>]})
              \cup (IF "else" \notin kinds THEN {} ELSE
                 UNION {{Spanning("if", 2 + Len(e) + Len(b), e, b \o Tok("else") \o c \o Tok("end")) :
                            e \in exprs, b \in body[<<j, x[2]>>], c \in body[<<k - 1 - j, x[2]>>]} :
                        j \in 0 .. k - 1})
        IN IF n = 0 THEN {<<>>}
           ELSE UNION {{s \o b : s \in one(k), b \in body[<<n - k, x[2]>>]} : k \in 1 .. n}
  IN UNION {body[<<n, FALSE>>] : n \in 0 .. max}

Function(body) ==
  <<[kind |-> "func", next |-> Len(body) + 2, alt |-> 0]>> \o body \o Tok("end")

GlobalVar(e) == Spanning("gvar", 0, e, <<>>)

\* Functions of at most max statements that test the jumps ...
JumpDocs(max) ==
  {Function(b) : b \in Bodies(max, {"while", "if", "else", "expr", "break", "continue", "retv"}, Simple)}

\* ... and functions and constructors whose expressions branch themselves.
OperatorDocs(max) ==
  {GlobalVar(e) \o Tok("proto") \o Function(b) :
     e \in {AtomExpr, And}, b \in Bodies(max, {"while", "if", "else", "decl", "declu", "ret"}, Nested)}

\* Documents for the links of jumps and returns: a function, and two small
\* ones with a prototype between them; "proto" may be a local declaration.
LinkDocs(max, small) ==
  LET kinds == {"while", "if", "break", "continue", "retv", "proto"}
      smalls == Bodies(small, kinds, Simple)
  IN {Function(b) : b \in Bodies(max, kinds, Simple)}
     \cup {Function(b) \o Tok("proto") \o Function(c) : b \in smalls, c \in smalls}

\* Functions of loops, branches and breaks only, so that max may be larger: a
\* loop that is dead code next to a live break takes five statements.
DeadLoopDocs(max) == {Function(b) : b \in Bodies(max, {"while", "if", "break"}, Simple)}

\* The document with absolute positions.
Placed(toks) ==
  [i \in DOMAIN toks |->
     [kind |-> toks[i].kind,
      next |-> i + toks[i].next,
      alt  |-> IF toks[i].alt = 0 THEN 0 ELSE i + toks[i].alt]]

\* The ASG of a document whose jumps are linked as C defines them.
Linked(doc) ==
  [nodes |-> doc,
   loop |-> [i \in DOMAIN doc |->
               IF doc[i].kind \in JumpKinds THEN EnclosingLoop(doc, i) ELSE 0]]

\* The ASG of a document whose jumps are linked as Json2Asg does: to the loop
\* entered last.
LinkedToLast(doc) ==
  [nodes |-> doc,
   loop |-> [i \in DOMAIN doc |->
               IF doc[i].kind \in JumpKinds
               THEN Innermost({w \in 1 .. i : doc[w].kind = "while"}) ELSE 0]]
=============================================================================
