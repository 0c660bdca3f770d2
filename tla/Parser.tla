----------------------------- MODULE Parser -----------------------------
(***************************************************************************)
(* front-end/antlr/CParser.cpp: the parser that ANTLR generates from C.g4, *)
(* one definition for each rule function.  A rule function opens a context,*)
(* matches tokens and calls other rule functions, and asks adaptivePredict *)
(* where the grammar leaves it a choice; the context becomes a child of    *)
(* the caller's.  adaptivePredict is ANTLR's: it takes the first           *)
(* alternative with which the rest of the input can still be parsed.       *)
(* Left out are the alternatives that begin with a keyword the inputs do   *)
(* not have: structures, enumerations, _Generic, _Atomic, _Static_assert,  *)
(* the GCC and Visual C extensions, bit fields.  No error is recovered     *)
(* from: the inputs are programs of the grammar.                           *)
(* A definition X_Y is X with the slip Y.                                  *)
(***************************************************************************)
EXTENDS Integers, Sequences, SequencesExt, TLC

CONSTANTS Identifiers, Constants, StringLiterals,  \* tokens by their text
          Programs,                                \* the programs, as trees
          Text(_)                                  \* the tokens of a program

VARIABLES program, tree

vars == <<program, tree>>

Node(r, kids) == [r |-> r, kids |-> kids]
NoTree == Node("none", <<>>)
Rejected == Node("rejected", <<>>)

\* CLexer: the kind of a token; that of a keyword or a punctuator is its text.
Kind(token) ==
  CASE token \in Identifiers -> "Identifier"
    [] token \in Constants -> "Constant"
    [] token \in StringLiterals -> "StringLiteral"
    [] OTHER -> token

-----------------------------------------------------------------------------
(* What the body of a rule function does: match(kind), the call of a rule, *)
(* one part after the other, a choice, a loop, an optional part, and the   *)
(* loop of a left-recursive rule, which makes the context so far the first *)
(* child of a new one.                                                     *)

AnyTok(kinds) == <<"tok", kinds>>
Tok(kind) == AnyTok({kind})
Rule(r) == <<"rule", r>>
Seq_(parts) == <<"seq", parts>>
Alt(parts) == <<"alt", parts>>
Star(part) == <<"star", part>>
Opt(part) == Alt(<<part, Seq_(<<>>)>>)
Plus(part) == Seq_(<<part, Star(part)>>)
LeftRec(r, base, suffix) == <<"left", r, base, suffix>>

\* rule (op rule)*
Chain(r, ops) == Seq_(<<Rule(r), Star(Seq_(<<AnyTok(ops), Rule(r)>>))>>)
List(r) == Chain(r, {","})
Within(open, part, close) == Seq_(<<Tok(open), part, Tok(close)>>)

-----------------------------------------------------------------------------
(* Expressions.                                                            *)

primaryExpression ==
  Alt(<<Tok("Identifier"), Tok("Constant"), Plus(Tok("StringLiteral")),
        Within("(", Rule("expression"), ")"), Within("(", Rule("compoundStatement"), ")")>>)

postfixExpression ==
  Seq_(<<Alt(<<Rule("primaryExpression"),
               Seq_(<<Within("(", Rule("typeName"), ")"), Tok("{"), Rule("initializerList"),
                      Opt(Tok(",")), Tok("}")>>)>>),
         Star(Alt(<<Within("[", Rule("expression"), "]"),
                    Within("(", Opt(Rule("argumentExpressionList")), ")"),
                    Seq_(<<AnyTok({".", "->"}), Tok("Identifier")>>),
                    Tok("++"), Tok("--")>>))>>)

argumentExpressionList == List("assignmentExpression")

unaryExpression ==
  Seq_(<<Star(AnyTok({"++", "--", "sizeof"})),
         Alt(<<Rule("postfixExpression"),
               Seq_(<<Rule("unaryOperator"), Rule("castExpression")>>),
               Seq_(<<Tok("sizeof"), Within("(", Rule("typeName"), ")")>>),
               Seq_(<<Tok("&&"), Tok("Identifier")>>)>>)>>)

unaryOperator == AnyTok({"&", "*", "+", "-", "~", "!"})

castExpression ==
  Alt(<<Seq_(<<Within("(", Rule("typeName"), ")"), Rule("castExpression")>>), Rule("unaryExpression")>>)

multiplicativeExpression == Chain("castExpression", {"*", "/", "%"})
additiveExpression == Chain("multiplicativeExpression", {"+", "-"})
shiftExpression == Chain("additiveExpression", {"<<", ">>"})
relationalExpression == Chain("shiftExpression", {"<", ">", "<=", ">="})
equalityExpression == Chain("relationalExpression", {"==", "!="})
andExpression == Chain("equalityExpression", {"&"})
exclusiveOrExpression == Chain("andExpression", {"^"})
inclusiveOrExpression == Chain("exclusiveOrExpression", {"|"})
logicalAndExpression == Chain("inclusiveOrExpression", {"&&"})
logicalOrExpression == Chain("logicalAndExpression", {"||"})

conditionalExpression ==
  Seq_(<<Rule("logicalOrExpression"),
         Opt(Seq_(<<Tok("?"), Rule("expression"), Tok(":"), Rule("conditionalExpression")>>))>>)

assignmentExpression ==
  Alt(<<Rule("conditionalExpression"),
        Seq_(<<Rule("unaryExpression"), Rule("assignmentOperator"), Rule("assignmentExpression")>>)>>)

assignmentOperator ==
  AnyTok({"=", "*=", "/=", "%=", "+=", "-=", "<<=", ">>=", "&=", "^=", "|="})

expression == List("assignmentExpression")
constantExpression == Rule("conditionalExpression")

-----------------------------------------------------------------------------
(* Declarations.                                                           *)

\* The list was optional in the grammar this one was made from.
declaration_NoList ==
  Seq_(<<Rule("declarationSpecifiers"), Opt(Rule("initDeclaratorList")), Tok(";")>>)
declaration == Seq_(<<Rule("declarationSpecifiers"), Rule("initDeclaratorList"), Tok(";")>>)

declarationSpecifiers == Plus(Rule("declarationSpecifier"))
declarationSpecifiers2 == Plus(Rule("declarationSpecifier"))
declarationSpecifier ==
  Alt(<<Rule("storageClassSpecifier"), Rule("typeSpecifier"), Rule("typeQualifier")>>)
initDeclaratorList == List("initDeclarator")
initDeclarator == Seq_(<<Rule("declarator"), Opt(Seq_(<<Tok("="), Rule("initializer")>>))>>)
storageClassSpecifier == AnyTok({"typedef", "extern", "static", "auto", "register"})

typeSpecifier ==
  Alt(<<AnyTok({"void", "char", "short", "int", "long", "float", "double", "signed", "unsigned"}),
        Rule("typedefName")>>)
typedefName == Tok("Identifier")

specifierQualifierList ==
  Seq_(<<Alt(<<Rule("typeSpecifier"), Rule("typeQualifier")>>), Opt(Rule("specifierQualifierList"))>>)
typeQualifier == AnyTok({"const", "restrict", "volatile"})

declarator == Seq_(<<Opt(Rule("pointer")), Rule("directDeclarator")>>)

\* What may stand between the brackets of an array declarator.
Dimension ==
  LET quals == Rule("typeQualifierList") length == Rule("assignmentExpression")
  IN Alt(<<Within("[", Seq_(<<Opt(quals), Opt(length)>>), "]"),
           Within("[", Seq_(<<Tok("static"), Opt(quals), length>>), "]"),
           Within("[", Seq_(<<quals, Tok("static"), length>>), "]"),
           Within("[", Seq_(<<Opt(quals), Tok("*")>>), "]")>>)

directDeclarator ==
  LeftRec("directDeclarator",
          Alt(<<Tok("Identifier"), Within("(", Rule("declarator"), ")")>>),
          Alt(<<Dimension, Within("(", Rule("parameterTypeList"), ")"),
                Within("(", Opt(Rule("identifierList")), ")")>>))

pointer == Plus(Seq_(<<AnyTok({"*", "^"}), Opt(Rule("typeQualifierList"))>>))
typeQualifierList == Plus(Rule("typeQualifier"))
parameterTypeList == Seq_(<<Rule("parameterList"), Opt(Seq_(<<Tok(","), Tok("...")>>))>>)
parameterList == List("parameterDeclaration")
parameterDeclaration ==
  Alt(<<Seq_(<<Rule("declarationSpecifiers"), Rule("declarator")>>),
        Seq_(<<Rule("declarationSpecifiers2"), Opt(Rule("abstractDeclarator"))>>)>>)
identifierList == Seq_(<<Tok("Identifier"), Star(Seq_(<<Tok(","), Tok("Identifier")>>))>>)
typeName == Seq_(<<Rule("specifierQualifierList"), Opt(Rule("abstractDeclarator"))>>)
abstractDeclarator ==
  Alt(<<Rule("pointer"), Seq_(<<Opt(Rule("pointer")), Rule("directAbstractDeclarator")>>)>>)
directAbstractDeclarator ==
  LET suffix == Alt(<<Dimension, Within("(", Opt(Rule("parameterTypeList")), ")")>>)
  IN LeftRec("directAbstractDeclarator",
             Alt(<<Within("(", Rule("abstractDeclarator"), ")"), suffix>>), suffix)

initializer ==
  Alt(<<Rule("assignmentExpression"),
        Within("{", Opt(Seq_(<<Rule("initializerList"), Opt(Tok(","))>>)), "}")>>)
initializerList ==
  LET item == Seq_(<<Opt(Rule("designation")), Rule("initializer")>>)
  IN Seq_(<<item, Star(Seq_(<<Tok(","), item>>))>>)
designation == Seq_(<<Rule("designatorList"), Tok("=")>>)
designatorList == Plus(Rule("designator"))
designator ==
  Alt(<<Within("[", Rule("constantExpression"), "]"), Seq_(<<Tok("."), Tok("Identifier")>>)>>)

-----------------------------------------------------------------------------
(* Statements.                                                             *)

statement ==
  Alt(<<Rule("labeledStatement"), Rule("compoundStatement"), Rule("expressionStatement"),
        Rule("selectionStatement"), Rule("iterationStatement"), Rule("jumpStatement")>>)

labeledStatement ==
  Alt(<<Seq_(<<Tok("Identifier"), Tok(":"), Opt(Rule("statement"))>>),
        Seq_(<<Tok("case"), Rule("constantExpression"), Tok(":"), Rule("statement")>>),
        Seq_(<<Tok("default"), Tok(":"), Rule("statement")>>)>>)
compoundStatement == Within("{", Opt(Rule("blockItemList")), "}")
blockItemList == Plus(Rule("blockItem"))
blockItem == Alt(<<Rule("statement"), Rule("declaration")>>)
expressionStatement == Seq_(<<Opt(Rule("expression")), Tok(";")>>)

\* The decision of "else": the first alternative is to read it here.
selectionStatement ==
  LET head(key) == Seq_(<<Tok(key), Within("(", Rule("expression"), ")"), Rule("statement")>>)
  IN Alt(<<Seq_(<<head("if"), Opt(Seq_(<<Tok("else"), Rule("statement")>>))>>), head("switch")>>)

iterationStatement ==
  LET condition == Within("(", Rule("expression"), ")")
  IN Alt(<<Seq_(<<Tok("while"), condition, Rule("statement")>>),
           Seq_(<<Tok("do"), Rule("statement"), Tok("while"), condition, Tok(";")>>),
           Seq_(<<Tok("for"), Within("(", Rule("forCondition"), ")"), Rule("statement")>>)>>)
forCondition ==
  Seq_(<<Alt(<<Rule("forDeclaration"), Opt(Rule("expression"))>>), Tok(";"),
         Opt(Rule("forExpression")), Tok(";"), Opt(Rule("forExpression"))>>)
forDeclaration == Seq_(<<Rule("declarationSpecifiers"), Opt(Rule("initDeclaratorList"))>>)
forExpression == List("assignmentExpression")

jumpStatement ==
  Seq_(<<Alt(<<Seq_(<<Tok("goto"), Tok("Identifier")>>), Tok("continue"), Tok("break"),
               Seq_(<<Tok("return"), Opt(Rule("expression"))>>),
               Seq_(<<Tok("goto"), Rule("unaryExpression")>>)>>), Tok(";")>>)

-----------------------------------------------------------------------------
(* The file.                                                               *)

compilationUnit == Opt(Rule("translationUnit"))
translationUnit == Plus(Rule("externalDeclaration"))
externalDeclaration == Alt(<<Rule("functionDefinition"), Rule("declaration"), Tok(";")>>)
functionDefinition ==
  Seq_(<<Opt(Rule("declarationSpecifiers")), Rule("declarator"), Opt(Rule("declarationList")),
         Rule("compoundStatement")>>)
declarationList == Plus(Rule("declaration"))

Bodies ==
  <<<<"primaryExpression", primaryExpression>>, <<"postfixExpression", postfixExpression>>,
    <<"unaryOperator", unaryOperator>>, <<"unaryExpression", unaryExpression>>,
    <<"castExpression", castExpression>>, <<"multiplicativeExpression", multiplicativeExpression>>,
    <<"additiveExpression", additiveExpression>>, <<"shiftExpression", shiftExpression>>,
    <<"relationalExpression", relationalExpression>>, <<"equalityExpression", equalityExpression>>,
    <<"andExpression", andExpression>>, <<"exclusiveOrExpression", exclusiveOrExpression>>,
    <<"inclusiveOrExpression", inclusiveOrExpression>>,
    <<"logicalAndExpression", logicalAndExpression>>,
    <<"logicalOrExpression", logicalOrExpression>>,
    <<"conditionalExpression", conditionalExpression>>,
    <<"assignmentExpression", assignmentExpression>>,
    <<"argumentExpressionList", argumentExpressionList>>,
    <<"assignmentOperator", assignmentOperator>>, <<"expression", expression>>,
    <<"constantExpression", constantExpression>>,
    <<"storageClassSpecifier", storageClassSpecifier>>, <<"typedefName", typedefName>>,
    <<"typeSpecifier", typeSpecifier>>, <<"typeQualifier", typeQualifier>>,
    <<"declarationSpecifier", declarationSpecifier>>,
    <<"declarationSpecifiers", declarationSpecifiers>>, <<"declaration", declaration>>,
    <<"declarationSpecifiers2", declarationSpecifiers2>>, <<"pointer", pointer>>,
    <<"directDeclarator", directDeclarator>>, <<"declarator", declarator>>,
    <<"initDeclarator", initDeclarator>>, <<"initDeclaratorList", initDeclaratorList>>,
    <<"specifierQualifierList", specifierQualifierList>>,
    <<"typeQualifierList", typeQualifierList>>, <<"parameterDeclaration", parameterDeclaration>>,
    <<"parameterList", parameterList>>, <<"parameterTypeList", parameterTypeList>>,
    <<"identifierList", identifierList>>, <<"typeName", typeName>>,
    <<"directAbstractDeclarator", directAbstractDeclarator>>,
    <<"abstractDeclarator", abstractDeclarator>>, <<"initializer", initializer>>,
    <<"designator", designator>>, <<"designatorList", designatorList>>,
    <<"designation", designation>>, <<"initializerList", initializerList>>,
    <<"labeledStatement", labeledStatement>>, <<"compoundStatement", compoundStatement>>,
    <<"expressionStatement", expressionStatement>>, <<"selectionStatement", selectionStatement>>,
    <<"iterationStatement", iterationStatement>>, <<"jumpStatement", jumpStatement>>,
    <<"statement", statement>>, <<"blockItem", blockItem>>, <<"blockItemList", blockItemList>>,
    <<"forDeclaration", forDeclaration>>, <<"forCondition", forCondition>>,
    <<"forExpression", forExpression>>, <<"functionDefinition", functionDefinition>>,
    <<"externalDeclaration", externalDeclaration>>, <<"translationUnit", translationUnit>>,
    <<"compilationUnit", compilationUnit>>, <<"declarationList", declarationList>>>>

-----------------------------------------------------------------------------
(* The parser.                                                             *)

\* A result is the children made and the number of tokens left.  Of the results that
\* leave the same tokens the first one counts.
FirstOfEach(results) ==
  LET isFirst(k) == \A j \in 1 .. k - 1 : results[j].left # results[k].left
      first == SelectSeq([k \in DOMAIN results |-> k], isFirst)
  IN [n \in DOMAIN first |-> results[first[n]]]

\* What a part of a rule makes of the last tokens, in the order in which its choices
\* are tried; and that for each of several results.  called[n][r] is what rule
\* function r makes of the last n tokens.
RECURSIVE Match(_, _, _, _), Then(_, _, _, _), Nest(_, _, _, _)
Match(part, toks, left, called) ==
  LET nothing == <<[kids |-> <<>>, left |-> left]>>
      token == toks[Len(toks) - left + 1]
  IN CASE part[1] = "tok"  -> IF left > 0 /\ Kind(token) \in part[2]
                              THEN <<[kids |-> <<Node(token, <<>>)>>, left |-> left - 1]>> ELSE <<>>
       [] part[1] = "rule" -> IF left > 0 THEN called[left][part[2]] ELSE <<>>
       [] part[1] = "seq"  -> IF part[2] = <<>> THEN nothing
                              ELSE Then(Match(part[2][1], toks, left, called), Seq_(Tail(part[2])), toks, called)
       [] part[1] = "alt"  -> IF part[2] = <<>> THEN <<>>
                              ELSE Match(part[2][1], toks, left, called)
                                   \o Match(Alt(Tail(part[2])), toks, left, called)
       [] part[1] = "star" -> Then(Match(part[2], toks, left, called), part, toks, called) \o nothing
       [] part[1] = "left" -> Nest(Match(part[3], toks, left, called), part, toks, called)

\* Each result, followed by what next makes of the tokens it leaves.
Then(results, next, toks, called) ==
  IF results = <<>> THEN <<>>
  ELSE LET rest == Match(next, toks, results[1].left, called)
       IN [n \in DOMAIN rest |-> [rest[n] EXCEPT !.kids = results[1].kids \o @]]
          \o Then(Tail(results), next, toks, called)

\* The loop of a left-recursive rule: the suffix again, or what there is.
Nest(results, part, toks, called) ==
  IF results = <<>> THEN <<>>
  ELSE LET context == <<[results[1] EXCEPT !.kids = <<Node(part[2], @)>>]>>
       IN Nest(Then(context, part[4], toks, called), part, toks, called)
          \o <<results[1]>> \o Nest(Tail(results), part, toks, called)

\* What the first n rule functions of Bodies make of the tokens behind later; a rule
\* comes behind those that it may begin with.
RECURSIVE Row(_, _, _)
Row(n, toks, later) ==
  IF n = 0 THEN [r \in {} |-> <<>>]
  ELSE LET row == Row(n - 1, toks, later)
           results == FirstOfEach(Match(Bodies[n][2], toks, Len(later) + 1, Append(later, row)))
       IN row @@ (Bodies[n][1] :> [k \in DOMAIN results |->
                                     [results[k] EXCEPT !.kids = <<Node(Bodies[n][1], @)>>]])

\* What all rule functions make of the last n tokens, for every n.
RECURSIVE Calls(_, _)
Calls(toks, n) ==
  IF n = 0 THEN <<>>
  ELSE LET later == Calls(toks, n - 1)
       IN IF Len(later) = n - 1 THEN Append(later, Row(Len(Bodies), toks, later)) ELSE later

\* compilationUnit(), which matches the end of the file too.
Parse(toks) ==
  LET whole == SelectSeq(Calls(toks, Len(toks))[Len(toks)]["compilationUnit"], LAMBDA m : m.left = 0)
  IN IF whole = <<>> THEN Rejected ELSE whole[1].kids[1]

Init == program \in Programs /\ tree = NoTree

\* main_task2: auto ast = parser.compilationUnit();
CompilationUnit ==
  /\ tree = NoTree
  /\ tree' = Parse(Text(program))
  /\ UNCHANGED program

Next == CompilationUnit

Spec == Init /\ [][Next]_vars
=============================================================================
