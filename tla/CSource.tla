----------------------------- MODULE CSource -----------------------------
(***************************************************************************)
(* A C source file as Ast2Asg visits its parse tree, and what C says of    *)
(* it.  The parse tree (ANTLR's, from front-end/antlr/C.g4) is the         *)
(* sequence of the visits, one token per visit; an opening token knows     *)
(* where its subtree ends.  A declarator of a parameter is visited twice:  *)
(*                                                                         *)
(*   fdef ptype* sig pdecl* block endfdef    functionDefinition            *)
(*   proto ptype* again pname* endproto      initDeclarator, a function    *)
(*   var dim* [init e] endvar                initDeclarator, a variable    *)
(*   ptype dim* endptype                     a parameter, for its type     *)
(*   pdecl dim* endpdecl, pname ...          and again, for its name       *)
(*   dim e enddim                            one array length              *)
(*   block s* endblock                       compoundStatement             *)
(*   if e s* endif, while e s* endwhile, ret [e] endret, break, continue   *)
(*   estmt e endestmt, null                  expressionStatement           *)
(*   unsupported                             any node Ast2Asg refuses      *)
(*                                                                         *)
(* and in expressions                                                      *)
(*                                                                         *)
(*   lit, ref                                Constant, Identifier          *)
(*   list e (op e)+ endlist                  a rule e (op e)* of the       *)
(*                                           grammar, or an assignment     *)
(*   un e endun, paren e endparen            unaryExpression, ( e )        *)
(*   e index e endindex, e call (e arg)* endcall       postfixExpression   *)
(*   braces (e item)* endbraces              an initializerList            *)
(***************************************************************************)
EXTENDS Integers, Sequences, FiniteSets

\* text: the name declared or referred to, or the operator;
\* next: the token after the subtree;  specs: the declaration specifiers;
\* chars: the characters of a literal, a digit as its value and "x" as 16;
\* n:     the value that C gives them.
Token == [kind : STRING, text : STRING, next : Nat, specs : Seq(STRING),
          chars : Seq(0 .. 16), n : Int]

-----------------------------------------------------------------------------
(* Parse trees. *)

\* What closes a subtree that a token of a kind opens.
Closes ==
  [list |-> "endlist", un |-> "endun", paren |-> "endparen", index |-> "endindex",
   call |-> "endcall", braces |-> "endbraces", dim |-> "enddim", var |-> "endvar",
   proto |-> "endproto", ptype |-> "endptype", pdecl |-> "endpdecl", pname |-> "endpname",
   fdef |-> "endfdef", block |-> "endblock", if |-> "endif", while |-> "endwhile",
   ret |-> "endret", estmt |-> "endestmt"]

Opens(src) == {o \in DOMAIN src : src[o].kind \in DOMAIN Closes}
Ends(src) == {i \in DOMAIN src : \E kind \in DOMAIN Closes : src[i].kind = Closes[kind]}

\* The subtrees around a token, without the one that it opens.
Around(src, i) == {o \in Opens(src) : o < i /\ i < src[o].next}
Parent(src, i, kind) ==
  \E o \in Around(src, i) : src[o].kind = kind /\ \A p \in Around(src, i) : p <= o

\* Subtrees are closed, in the order in which they are opened.
Nested(src) ==
  /\ \A o \in Opens(src) : /\ src[o].next \in o + 2 .. Len(src) + 1
                           /\ src[src[o].next - 1].kind = Closes[src[o].kind]
  /\ \A o, p \in Opens(src) : o < p /\ p < src[o].next => src[p].next < src[o].next
  /\ \A i \in Ends(src) : \E o \in Opens(src) : src[o].next = i + 1

\* A function is in nothing else and has one signature, which opens the scope of its
\* parameters.
Definitions(src) == {f \in DOMAIN src : src[f].kind = "fdef"}
Signatures(src) == {s \in DOMAIN src : src[s].kind = "sig"}
SignaturesFit(src) ==
  /\ \A f \in Definitions(src) :
       /\ Around(src, f) = {}
       /\ \E s \in Signatures(src) : /\ f < s /\ src[s].next = src[f].next
                                    /\ \A t \in Signatures(src) : f < t /\ t < src[f].next => t = s
  /\ \A s \in Signatures(src) : s < src[s].next /\ Parent(src, s, "fdef")

\* No declaration, scope or statement is in an expression, a declarator or its
\* initialiser; an operator is in the list that its rule makes.
Declares == {"var", "proto", "pdecl", "fdef", "sig"}
Statements == {"block", "if", "while", "ret", "break", "continue", "estmt", "null"}
Flat(src) ==
  /\ \A o \in Opens(src) : src[o].kind \in {"list", "var", "proto", "pdecl"} =>
       \A i \in o + 1 .. src[o].next - 1 : src[i].kind \notin Declares \cup Statements
  /\ \A i \in DOMAIN src : src[i].kind = "op" => Parent(src, i, "list")

ParseTree(src) == Nested(src) /\ SignaturesFit(src) /\ Flat(src)

MaxOf(S) == CHOOSE x \in S : \A y \in S : y <= x
MinOf(S) == CHOOSE x \in S : \A y \in S : x <= y

-----------------------------------------------------------------------------
(* Scopes as C has them.  A scope is the token that opens it, 0 for the    *)
(* file.                                                                   *)

Scopes(src, i) ==
  {0} \cup {s \in DOMAIN src : s < i /\ src[s].kind \in {"sig", "block"} /\ i < src[s].next}

\* The scope of a list of parameters, until its end; only their names are in it.
Prototype(src, i) ==
  {h \in 1 .. i - 1 : /\ src[h].kind \in {"fdef", "proto", "again"}
                      /\ \A j \in h + 1 .. i - 1 : src[j].kind \notin {"sig", "again", "endproto"}}

\* Where the initialiser of a declarator begins, if it has one.
InitsOf(src, d) == {k \in d .. src[d].next - 1 : src[k].kind = "init"}
HasInit(src, i) == \E k \in i .. src[i].next - 1 : src[k].kind = "init"

\* In C a declarator makes its name visible at its own end, before its initialiser.
DeclaratorEnd(src, d) ==
  IF src[d].kind = "var" /\ HasInit(src, d) THEN MinOf(InitsOf(src, d)) + 1 ELSE src[d].next

\* From token "from" on, text denotes declaration decl in the rest of the scope; the
\* declaration with its initialiser is over at "done".
Bindings(src) ==
  LET bind(text, decl, scope, from, done) ==
        [text |-> text, decl |-> decl, scope |-> scope, from |-> from, done |-> done]
      innermost(i) == MaxOf(Scopes(src, i))
      funcOf(i) == CHOOSE f \in 1 .. i : src[f].kind = "fdef" /\ i < src[f].next
      parameters == {p \in DOMAIN src : src[p].kind \in {"ptype", "pname"}}
  IN {bind(src[d].text, d, innermost(d), DeclaratorEnd(src, d), src[d].next) :
        d \in {i \in DOMAIN src : src[i].kind \in {"var", "proto", "pdecl"}}}
     \cup {bind(src[funcOf(s)].text, funcOf(s), s, s + 1, s + 1) :
        s \in {i \in DOMAIN src : src[i].kind = "sig"}}
     \cup {bind(src[f].text, f, 0, src[f].next, src[f].next) :
        f \in {i \in DOMAIN src : src[i].kind = "fdef"}}
     \cup UNION {{bind(src[p].text, p, h, src[p].next, src[p].next) : h \in Prototype(src, p)} :
        p \in parameters}

\* The declaration that text denotes at token i, by those declarations that are not in
\* out: the last one in the innermost scope around i that has one; 0 if no scope has.
VisibleBut(src, i, text, out) ==
  LET seen == {b \in Bindings(src) : /\ b.text = text /\ b.from <= i /\ b.decl \notin out
                                     /\ b.scope \in Scopes(src, i) \cup Prototype(src, i)}
      inner == {b \in seen : \A c \in seen : c.scope <= b.scope}
  IN IF seen = {} THEN 0 ELSE (CHOOSE b \in inner : \A c \in inner : c.done <= b.done).decl

\* What text denotes at token i in C (6.2.1).
Visible(src, i, text) == VisibleBut(src, i, text, {})

\* The declarations that Ast2Asg has not entered at token i: of a variable whose
\* initialiser it is in, and of a parameter in the list of parameters.
NotEntered(src, i) ==
  {d \in DOMAIN src : \/ src[d].kind = "var" /\ d < i /\ i < src[d].next
                      \/ src[d].kind \in {"ptype", "pname"}}

-----------------------------------------------------------------------------
(* Expressions as trees: <<"leaf", token>>, <<operator, left, right>>,     *)
(* <<"u" operator, operand>>, <<"()", e>>, <<"[]", e, index>>,             *)
(* <<"call", head, arguments ...>>, <<"{}", elements ...>>, <<"{}">>.      *)

Leaf(i) == <<"leaf", i>>
Unary(op) == CASE op = "+" -> "u+" [] op = "-" -> "u-" [] op = "!" -> "u!"

\* The tokens from i to j that stand in the source: those of C's lexer.
Lexemes(src, i, j) ==
  SelectSeq([k \in 1 .. j - i + 1 |-> i + k - 1],
            LAMBDA k : src[k].kind \notin {"list", "endlist", "endun", "init"})

-----------------------------------------------------------------------------
(* Integer constants.                                                      *)

IsConst(specs) == \E k \in DOMAIN specs : specs[k] = "const"
HasInt(specs) == \E k \in DOMAIN specs : specs[k] = "int"

\* The tokens between an opening token, or the "init" in it, and its end.
Inside(src, i) ==
  Lexemes(src, 1 + (IF HasInit(src, i) THEN MinOf(InitsOf(src, i)) ELSE i), src[i].next - 2)
IsArray(src, i) == src[i + 1].kind = "dim"

=============================================================================
