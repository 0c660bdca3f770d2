----------------------------- MODULE Reading -----------------------------
(***************************************************************************)
(* C programs as trees, and the tokens they are written with, from C's     *)
(* rules of precedence, declarators and statements.  It is what the parser *)
(* is compared with, and owes nothing to the rules of C.g4.  At the end:   *)
(* what a parse tree says, as such a tree: a context with one child is     *)
(* what its child is, the operators of a context e (op e)* are applied     *)
(* from the left, a declarator is read from the name outwards.  Ast2Asg    *)
(* reads the contexts in this way.                                         *)
(***************************************************************************)
EXTENDS Parser, SequencesExt

Tree(op, kids) == [op |-> op, kids |-> kids]
Leaf(text) == Tree(text, <<>>)
None == Leaf("none")
Kids(e) == e.kids

-----------------------------------------------------------------------------
(* Expressions.  Every operator binds as strongly as its level says and    *)
(* takes operands of the levels given: C11 6.5.1 to 6.5.17.                *)

Binary(ops, level, left, right) == [op \in ops |-> [level |-> level, needs |-> <<left, right>>]]
Prefix(ops, operand) == [op \in ops |-> [level |-> 15, needs |-> <<operand>>]]
Postfix(ops, needs) == [op \in ops |-> [level |-> 16, needs |-> needs]]

Operators ==
  Binary({","}, 1, 1, 2)
  @@ Binary({"=", "*=", "/=", "%=", "+=", "-=", "<<=", ">>=", "&=", "^=", "|="}, 2, 15, 2)
  @@ ("?:" :> [level |-> 3, needs |-> <<4, 1, 3>>])
  @@ Binary({"||"}, 4, 4, 5) @@ Binary({"&&"}, 5, 5, 6)
  @@ Binary({"|"}, 6, 6, 7) @@ Binary({"^"}, 7, 7, 8) @@ Binary({"&"}, 8, 8, 9)
  @@ Binary({"==", "!="}, 9, 9, 10) @@ Binary({"<", ">", "<=", ">="}, 10, 10, 11)
  @@ Binary({"<<", ">>"}, 11, 11, 12) @@ Binary({"+", "-"}, 12, 12, 13)
  @@ Binary({"*", "/", "%"}, 13, 13, 14)
  @@ ("cast" :> [level |-> 14, needs |-> <<14>>])
  @@ Prefix({"p+", "p-", "p!", "p~", "p*", "p&"}, 14) @@ Prefix({"p++", "p--", "psizeof"}, 15)
  @@ Postfix({"q++", "q--", "call0"}, <<16>>) @@ Postfix({"[]"}, <<16, 1>>)
  @@ Postfix({".", "->"}, <<16, 17>>) @@ Postfix({"call1"}, <<16, 2>>) @@ Postfix({"call2"}, <<16, 2, 2>>)
  @@ ("()" :> [level |-> 17, needs |-> <<1>>])

Level(e) == IF Kids(e) = <<>> THEN 17 ELSE Operators[e.op].level

\* An expression that can be written without further parentheses.
Fits(e) ==
  \/ Kids(e) = <<>>
  \/ /\ \A k \in DOMAIN Kids(e) : Level(Kids(e)[k]) >= Operators[e.op].needs[k]
     /\ e.op \in {".", "->"} => Kids(Kids(e)[2]) = <<>>  \* the name of a member

\* The text of the prefix and postfix operators.
Symbol == [op \in {"p+", "p-", "p!", "p~", "p*", "p&", "p++", "p--", "psizeof", "q++", "q--"} |->
  CASE op = "p+" -> "+" [] op = "p-" -> "-" [] op = "p!" -> "!" [] op = "p~" -> "~"
    [] op = "p*" -> "*" [] op = "p&" -> "&" [] op \in {"p++", "q++"} -> "++"
    [] op \in {"p--", "q--"} -> "--" [] op = "psizeof" -> "sizeof"]

RECURSIVE ExprText(_)
ExprText(e) ==
  LET t(k) == ExprText(Kids(e)[k])
  IN CASE Kids(e) = <<>> -> <<e.op>>
       [] e.op = "?:"    -> t(1) \o <<"?">> \o t(2) \o <<":">> \o t(3)
       [] e.op = "cast"  -> <<"(", "int", ")">> \o t(1)
       [] e.op = "[]"    -> t(1) \o <<"[">> \o t(2) \o <<"]">>
       [] e.op = "call0" -> t(1) \o <<"(", ")">>
       [] e.op = "call1" -> t(1) \o <<"(">> \o t(2) \o <<")">>
       [] e.op = "call2" -> t(1) \o <<"(">> \o t(2) \o <<",">> \o t(3) \o <<")">>
       [] e.op = "()"    -> <<"(">> \o t(1) \o <<")">>
       [] e.op \in {"q++", "q--"} -> t(1) \o <<Symbol[e.op]>>
       [] e.op \in DOMAIN Symbol /\ e.op \notin {"q++", "q--"} -> <<Symbol[e.op]>> \o t(1)
       [] OTHER          -> t(1) \o <<e.op>> \o t(2)

-----------------------------------------------------------------------------
(* Declarations.  A declared name has the derivations that lead from it to *)
(* the type of the specifiers, in that order: "array" with its length,     *)
(* "function" with its parameters, "pointer".                              *)

Join(texts, comma) ==
  FlattenSeq([k \in DOMAIN texts |-> (IF k = 1 \/ ~comma THEN <<>> ELSE <<",">>) \o texts[k]])
Map(F(_), s) == [k \in DOMAIN s |-> F(s[k])]

RECURSIVE InitText(_)
InitText(e) == IF e.op = "{}" THEN <<"{">> \o Join(Map(InitText, Kids(e)), TRUE) \o <<"}">> ELSE ExprText(e)

SpecText(s) == [k \in DOMAIN Kids(s) |-> Kids(s)[k].op]

RECURSIVE DeclText(_), ParamText(_)
\* A pointer is written before the name, the others behind it and stronger.
DeclText(d) ==
  LET ds == Kids(d)
      derive(text, k) ==
        CASE ds[k].op = "pointer"  -> IF k < Len(ds) /\ ds[k + 1].op # "pointer"
                                      THEN <<"(", "*">> \o text \o <<")">> ELSE <<"*">> \o text
          [] ds[k].op = "array"    -> text \o <<"[">> \o Join(Map(ExprText, Kids(ds[k])), TRUE) \o <<"]">>
          [] ds[k].op = "function" -> text \o <<"(">> \o Join(Map(ParamText, Kids(ds[k])), TRUE) \o <<")">>
  IN FoldLeft(derive, IF d.op = "none" THEN <<>> ELSE <<d.op>>, [k \in DOMAIN ds |-> k])
ParamText(p) == SpecText(Kids(p)[1]) \o DeclText(Kids(p)[2])

InitDeclText(d) ==
  DeclText(Kids(d)[1]) \o (IF Len(Kids(d)) = 1 THEN <<>> ELSE <<"=">> \o InitText(Kids(d)[2]))
\* decl: the specifiers and the declared names.
VarText(d) == SpecText(Kids(d)[1]) \o Join(Map(InitDeclText, Tail(Kids(d))), TRUE)

-----------------------------------------------------------------------------
(* Statements and files.                                                   *)

RECURSIVE StmtText(_)
StmtText(s) ==
  LET k == Kids(s)
      e(n) == IF k[n] = None THEN <<>> ELSE ExprText(k[n])
      paren(n) == <<"(">> \o ExprText(k[n]) \o <<")">>
      sub(n) == StmtText(k[n])
  IN CASE s.op = "expr"     -> e(1) \o <<";">>
       [] s.op = "decl"     -> VarText(s) \o <<";">>
       [] s.op = "{"        -> <<"{">> \o Join(Map(StmtText, k), FALSE) \o <<"}">>
       [] s.op = "if"       -> <<"if">> \o paren(1) \o sub(2)
                               \o (IF Len(k) = 3 THEN <<"else">> \o sub(3) ELSE <<>>)
       [] s.op = "switch"   -> <<"switch">> \o paren(1) \o sub(2)
       [] s.op = "while"    -> <<"while">> \o paren(1) \o sub(2)
       [] s.op = "do"       -> <<"do">> \o sub(1) \o <<"while">> \o paren(2) \o <<";">>
       [] s.op = "for"      -> <<"for", "(">> \o (IF k[1].op = "decl" THEN VarText(k[1]) ELSE e(1))
                               \o <<";">> \o e(2) \o <<";">> \o e(3) \o <<")">> \o sub(4)
       [] s.op = "return"   -> <<"return">> \o e(1) \o <<";">>
       [] s.op = "goto"     -> <<"goto", k[1].op, ";">>
       [] s.op = "label"    -> <<k[1].op, ":">> \o sub(2)
       [] s.op = "case"     -> <<"case">> \o e(1) \o <<":">> \o sub(2)
       [] s.op = "default"  -> <<"default", ":">> \o sub(1)
       [] s.op \in {"break", "continue"} -> <<s.op, ";">>
       [] s.op = "fdef"     -> SpecText(k[1]) \o DeclText(k[2]) \o sub(3)
       [] s.op = "file"     -> Join(Map(StmtText, k), FALSE)

\* The statement ends with an "if" that an "else" behind it would belong to.
RECURSIVE EndsOpen(_)
EndsOpen(s) ==
  \/ s.op = "if" /\ Len(Kids(s)) = 2
  \/ s.op \in {"if", "while", "for", "switch", "label", "case", "default"} /\ EndsOpen(Kids(s)[Len(Kids(s))])

\* An "else" belongs to the nearest "if" (C11 6.8.4.1): no other reading is written.
ElsesFit(s) == s.op = "if" /\ Len(Kids(s)) = 3 => ~EndsOpen(Kids(s)[2])

-----------------------------------------------------------------------------
(* Reading a parse tree.                                                   *)

Chains == {"multiplicativeExpression", "additiveExpression", "shiftExpression", "relationalExpression",
           "equalityExpression", "andExpression", "exclusiveOrExpression", "inclusiveOrExpression",
           "logicalAndExpression", "logicalOrExpression", "expression", "forExpression"}

\* Every second child of a list.
Items(t) == [k \in 1 .. (Len(t.kids) + 1) \div 2 |-> t.kids[2 * k - 1]]
Has(t, r) == \E k \in DOMAIN t.kids : t.kids[k].r = r
Child(t, r) == t.kids[CHOOSE k \in DOMAIN t.kids : t.kids[k].r = r]
Tokens(t) == [k \in DOMAIN t.kids |-> t.kids[k].r]

RECURSIVE ReadExpr(_)
ReadExpr(t) ==
  LET k == t.kids
      n == Len(k)
      e(i) == ReadExpr(k[i])
      prefix(op, sub) == Tree("p" \o op, <<sub>>)
      \* a postfix operator begins at child i
      RECURSIVE postfix(_, _)
      postfix(left, i) ==
        IF i > n THEN left
        ELSE CASE k[i].r = "[" -> postfix(Tree("[]", <<left, e(i + 1)>>), i + 3)
               [] k[i].r = "(" /\ k[i + 1].r = ")" -> postfix(Tree("call0", <<left>>), i + 2)
               [] k[i].r = "(" /\ k[i + 1].r # ")" ->
                    LET args == Items(k[i + 1])
                    IN postfix(Tree(IF Len(args) = 1 THEN "call1" ELSE "call2", <<left>> \o Map(ReadExpr, args)), i + 3)
               [] k[i].r \in {".", "->"} -> postfix(Tree(k[i].r, <<left, Leaf(k[i + 1].r)>>), i + 2)
               [] k[i].r \in {"++", "--"} -> postfix(Tree("q" \o k[i].r, <<left>>), i + 1)
      \* ++, -- and sizeof before child i
      RECURSIVE repeated(_, _)
      repeated(sub, i) == IF i = 0 THEN sub ELSE repeated(prefix(k[i].r, sub), i - 1)
  IN CASE n = 0 -> Leaf(t.r)
       [] n = 1 -> e(1)
       [] n > 1 /\ t.r \in Chains ->
            FoldLeft(LAMBDA left, i : Tree(k[2 * i].r, <<left, e(2 * i + 1)>>), e(1), [i \in 1 .. n \div 2 |-> i])
       [] n > 1 /\ t.r = "conditionalExpression" -> Tree("?:", <<e(1), e(3), e(5)>>)
       [] n > 1 /\ t.r = "assignmentExpression"  -> Tree(k[2].kids[1].r, <<e(1), e(3)>>)
       [] n > 1 /\ t.r = "castExpression"        -> Tree("cast", <<e(4)>>)
       [] n > 1 /\ t.r = "primaryExpression"     -> Tree("()", <<e(2)>>)
       [] n > 1 /\ t.r = "postfixExpression"     -> postfix(e(1), 2)
       [] n > 1 /\ t.r = "unaryExpression" ->
            IF k[n].r = "castExpression" THEN repeated(prefix(k[n - 1].kids[1].r, e(n)), n - 2)
            ELSE repeated(e(n), n - 1)

RECURSIVE ReadInit(_)
ReadInit(t) ==
  IF t.kids[1].r # "{" THEN ReadExpr(t)
  ELSE Tree("{}", IF Has(t, "initializerList") THEN Map(ReadInit, Items(Child(t, "initializerList"))) ELSE <<>>)

\* The keywords and names among the specifiers, each below its two contexts.
ReadSpecs(t) == Tree("specs", [k \in DOMAIN t.kids |->
  LET s == t.kids[k].kids[1].kids[1] IN Leaf(IF s.kids = <<>> THEN s.r ELSE s.kids[1].r)])

RECURSIVE ReadDeclarator(_)
ReadDeclarator(t) ==
  LET k == t.kids
      also(d, ds) == Tree(d.op, Kids(d) \o ds)
      param(p) == Tree("param", <<ReadSpecs(p.kids[1]), IF Len(p.kids) = 1 THEN None ELSE ReadDeclarator(p.kids[2])>>)
  IN CASE t.r = "declarator" /\ k[1].r = "pointer" ->
            also(ReadDeclarator(k[2]), [i \in DOMAIN k[1].kids |-> Leaf("pointer")])
       [] k[1].r = "(" -> ReadDeclarator(k[2])
       [] Len(k) = 1 -> IF k[1].kids = <<>> THEN Leaf(k[1].r) ELSE ReadDeclarator(k[1])
       [] Len(k) > 1 /\ k[2].r = "[" ->
            also(ReadDeclarator(k[1]),
                 <<Tree("array", IF Has(t, "assignmentExpression") THEN <<ReadExpr(k[3])>> ELSE <<>>)>>)
       [] Len(k) > 1 /\ k[2].r = "(" ->
            also(ReadDeclarator(k[1]),
                 <<Tree("function", IF Has(t, "parameterTypeList")
                                    THEN Map(param, Items(k[3].kids[1])) ELSE <<>>)>>)

\* A declaration without declarators declares nothing.
ReadDecl(t) ==
  LET one(d) == Tree("init", <<ReadDeclarator(d.kids[1])>>
                             \o (IF Len(d.kids) = 1 THEN <<>> ELSE <<ReadInit(d.kids[3])>>))
  IN Tree("decl", <<ReadSpecs(t.kids[1])>>
                  \o (IF Has(t, "initDeclaratorList") THEN Map(one, Items(Child(t, "initDeclaratorList"))) ELSE <<>>))

\* The three parts of a forCondition: what stands before each ";" and at the end.
Part(t, n) ==
  LET semis == SelectSeq([k \in DOMAIN t.kids |-> k], LAMBDA k : t.kids[k].r = ";")
      from == IF n = 1 THEN 1 ELSE semis[n - 1] + 1
      to == IF n = 3 THEN Len(t.kids) ELSE semis[n] - 1
      part == t.kids[from]
  IN IF from > to THEN None ELSE IF part.r = "forDeclaration" THEN ReadDecl(part) ELSE ReadExpr(part)

RECURSIVE ReadStmt(_)
ReadStmt(t) ==
  LET k == t.kids
      n == Len(k)
      s(i) == ReadStmt(k[i])
      e(i) == ReadExpr(k[i])
      key == k[1].r
  IN CASE t.r \in {"compilationUnit", "externalDeclaration", "statement", "blockItem"} -> s(1)
       [] t.r = "expressionStatement" -> Tree("expr", <<IF n = 1 THEN None ELSE e(1)>>)
       [] t.r = "declaration"         -> ReadDecl(t)
       [] t.r = "compoundStatement"   -> Tree("{", IF n = 2 THEN <<>> ELSE Map(ReadStmt, k[2].kids))
       [] t.r = "selectionStatement"  -> Tree(key, <<e(3), s(5)>> \o (IF n = 7 THEN <<s(7)>> ELSE <<>>))
       [] t.r = "iterationStatement"  ->
            (CASE key = "while" -> Tree(key, <<e(3), s(5)>>)
               [] key = "do"    -> Tree(key, <<s(2), e(5)>>)
               [] key = "for"   -> Tree(key, <<Part(k[3], 1), Part(k[3], 2), Part(k[3], 3), s(5)>>))
       [] t.r = "jumpStatement" ->
            (CASE key = "return" -> Tree(key, <<IF n = 2 THEN None ELSE e(2)>>)
               [] key = "goto"   -> Tree(key, <<Leaf(k[2].r)>>)
               [] OTHER          -> Leaf(key))
       [] t.r = "labeledStatement" ->
            (CASE key = "case"    -> Tree(key, <<e(2), s(4)>>)
               [] key = "default" -> Tree(key, <<s(3)>>)
               [] OTHER           -> Tree("label", <<Leaf(key), s(3)>>))
       [] t.r = "functionDefinition" -> Tree("fdef", <<ReadSpecs(k[1]), ReadDeclarator(k[2]), s(n)>>)
       [] t.r = "translationUnit"    -> Tree("file", Map(ReadStmt, k))

-----------------------------------------------------------------------------
(* Programs that can be read in two ways without knowing which names are   *)
(* types.  The grammar has no such table and SysY declares no types, so C  *)
(* has one reading of each.                                                *)

IsName(e) == Kids(e) = <<>> /\ e.op \in Identifiers
Needs(e, k) == Operators[e.op].needs[k]
Arity(e) == Len(Kids(e))

\* An expression e with the text of a declarator; of a name, taken for a type, and a
\* declarator; of such a type alone, with what is derived from it.
RECURSIVE IsDeclarator(_), IsTyped(_), IsType(_)
Suffixed(IsBase(_), e) ==
  /\ e.op \in {"[]", "call0", "call1", "call2"} /\ IsBase(Kids(e)[1])
  /\ \A n \in 2 .. Arity(e) :
       LET part == Kids(e)[n] IN IF e.op = "[]" THEN Level(part) > 1 ELSE IsTyped(part) \/ IsType(part)
IsDeclarator(e) ==
  \/ IsName(e)
  \/ e.op \in {"p*", "()"} /\ IsDeclarator(Kids(e)[1])
  \/ Suffixed(IsDeclarator, e)
IsTyped(e) ==
  \/ e.op \in {"*", "^", "call1"} /\ IsName(Kids(e)[1]) /\ IsDeclarator(Kids(e)[2])
  \/ Suffixed(IsTyped, e)
IsType(e) == IsName(e) \/ Suffixed(IsType, e)

\* "( name )", or more of a type, at the right edge of an operand where a cast may stand.
RECURSIVE EndsInType(_)
EndsInType(e) ==
  \/ e.op = "()" /\ IsType(Kids(e)[1])
  \/ Kids(e) # <<>> /\ Level(e) <= 15 /\ Needs(e, Arity(e)) <= 14 /\ EndsInType(Kids(e)[Arity(e)])

\* A name that no postfix operator follows, at the left edge of an operand.
RECURSIVE BeginsWithName(_)
BeginsWithName(e) == IsName(e) \/ (Level(e) < 14 /\ BeginsWithName(Kids(e)[1]))

\* "( type )" is a cast of what follows it: a call's arguments, or an operator that is
\* also a prefix operator ("&& name" is the address of a label).  here: a cast may
\* stand where e does.
RECURSIVE MayCast(_, _)
MayCast(e, here) ==
  LET k == Kids(e)
      there(n) == e.op \in DOMAIN Operators => Needs(e, n) <= 14 \/ (Needs(e, n) = 16 /\ here)
  IN \/ e.op \in {"+", "-", "*", "&"} /\ EndsInType(k[1])
     \/ e.op = "&&" /\ EndsInType(k[1]) /\ BeginsWithName(k[2])
     \/ e.op \in {"call1", "call2"} /\ EndsInType(k[1]) /\ here
     \/ \E n \in DOMAIN k : MayCast(k[n], there(n))

\* As IsTyped, with further declarators and initialisers.
RECURSIVE IsDeclaration(_)
IsDeclaration(e) ==
  LET k == Kids(e)
      initialised(IsBase(_), d) == IsBase(d) \/ (d.op = "=" /\ IsBase(Kids(d)[1]))
  IN \/ initialised(IsTyped, e)
     \/ e.op = "," /\ IsDeclaration(k[1]) /\ initialised(IsDeclarator, k[2])

\* The head of a "for" declares nothing, and a name in it is the type, or a part of it:
\* "for (x; ...)", "for (f(x); ...)", "for (int x; ...)".
NamesAType(head) ==
  \/ IsName(head) \/ IsDeclaration(head)
  \/ head.op = "decl" /\ Len(Kids(head)) = 2 /\ Kids(head)[2] \in {Tree("init", <<Leaf(x)>>) : x \in Identifiers}

RECURSIVE MayDeclare(_)
MayDeclare(s) ==
  \/ s.op = "for" /\ NamesAType(Kids(s)[1])
  \/ \E k \in DOMAIN Kids(s) : MayDeclare(Kids(s)[k])

-----------------------------------------------------------------------------
(* Properties.                                                             *)

\* The parse tree of a program's text says what the program is: no operator binds
\* more or less than in C, no declared name becomes part of a type, no "else", comma or
\* bracket goes to another construct, whatever else the grammar could make of it; except
\* the programs that read as a cast or, in the head of a "for", as a declaration when a
\* name is taken for a type: those the parser does read so.
Reads == tree # Rejected /\ ReadStmt(tree) = program
ReadsAsC == tree # NoTree => (Reads <=> ~MayCast(program, TRUE) /\ ~MayDeclare(program))

=============================================================================
