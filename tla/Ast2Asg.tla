----------------------------- MODULE Ast2Asg -----------------------------
(***************************************************************************)
(* front-end/Ast2Asg.cpp: the walk over ANTLR's parse tree that builds the *)
(* ASG.  Modelled are the symbol table (a chain of maps that lives on the  *)
(* C++ stack), the links from references to declarations, from jumps to    *)
(* loops and from returns to functions, the expression trees, and the      *)
(* array lengths, which are evaluated while the walk goes on.              *)
(* A definition X_Y is X with the slip Y; no action uses it.               *)
(***************************************************************************)
EXTENDS CSource, SequencesExt

CONSTANTS Sources,  \* the source files the walk may be given
          Names,    \* the identifiers in them
          ArrayLength(_, _, _, _)  \* eval_arrlen on the ASG that src, decl and init
                                   \* are, and an expression: {} when it dies

ASSUME SourcesAssumption ==
  \A file \in Sources :
    /\ file \in Seq(Token) /\ ParseTree(file)
    /\ \A i \in DOMAIN file : file[i].kind = "ref" => file[i].text \in Names

VARIABLES
  src,          \* the source file
  at,           \* the next token to visit
  symtbl,       \* the chain that starts at mSymtbl, the innermost map first
  calls,        \* the calls in progress, with their locals
  val,          \* the expression returned last
  mCurrentFunc, mCurrentIter,
  decl,         \* DeclRefExpr::decl
  link,         \* {Break,Continue}Stmt::loop and ReturnStmt::func
  init,         \* VarDecl::init
  len,          \* ArrayType::len of each array length in the source: {} before it is known
  tree,         \* ExprStmt::expr
  aborted       \* the process has died

vars == <<src, at, symtbl, calls, val, mCurrentFunc, mCurrentIter,
          decl, link, init, len, tree, aborted>>

asgVars == <<decl, link, init, len, tree>>

Null == <<>>   \* no expression
NoDecls == [n \in Names |-> 0]

Init ==
  /\ src \in Sources
  /\ at = 1
  /\ symtbl = <<NoDecls>>
  /\ calls = <<>>
  /\ val = Null
  /\ mCurrentFunc = 0
  /\ mCurrentIter = 0
  /\ decl = [i \in DOMAIN src |-> 0]
  /\ link = [i \in DOMAIN src |-> 0]
  /\ init = [i \in DOMAIN src |-> Null]
  /\ len = [i \in DOMAIN src |-> {}]
  /\ tree = [i \in DOMAIN src |-> Null]
  /\ aborted = FALSE

Visits(kinds) ==
  /\ ~aborted
  /\ at <= Len(src)
  /\ src[at].kind \in kinds
  /\ at' = at + 1
  /\ UNCHANGED <<src, aborted>>

\* ABORT() in the visit of a token of these kinds.
Dies(kinds) ==
  /\ ~aborted
  /\ at <= Len(src)
  /\ src[at].kind \in kinds
  /\ aborted' = TRUE
  /\ UNCHANGED <<src, at, symtbl, calls, val, mCurrentFunc, mCurrentIter, asgVars>>

\* A call of a visitor: its token and its local variables.
Call(ret) == [tok |-> at, ret |-> ret, op |-> "", list |-> <<>>]
Top == calls[1]
Begin(ret) == calls' = <<Call(ret)>> \o calls
Return == calls' = Tail(calls)

-----------------------------------------------------------------------------
(* The symbol table.                                                       *)

OpenScope == <<NoDecls>> \o symtbl
\* The scope that was opened last ends and the one around it is mSymtbl again.
CloseScope_Keep == symtbl
CloseScope == Tail(symtbl)

\* In the innermost map; a second definition replaces the first.
Declare(table, name, d) == [table EXCEPT ![1][name] = d]

\* The declaration of a name, 0 when there is none.
Resolve_Inner(name) == symtbl[1][name]
Resolve(name) ==
  LET has == {k \in DOMAIN symtbl : symtbl[k][name] # 0}
  IN IF has = {} THEN 0 ELSE symtbl[MinOf(has)][name]

-----------------------------------------------------------------------------
(* Expressions.                                                            *)

\* The rules whose visitor reads the first operand only.
FirstOnly == {"|", "^", "&", "<<", ">>", "?:"}

\* Every assignmentOperator becomes kAssign.
NodeOp(op) == IF op \in {"+=", "-=", "*=", "/=", "%="} THEN "=" ELSE op

\* ret of the visitor of a rule e (op e)*, once the next operand was visited.
Combine_Swap(f, e) == IF f.op = "" THEN e ELSE <<f.op, e, f.ret>>
Combine(f, e) == IF f.op = "" THEN e ELSE <<f.op, f.ret, e>>

ListBegin == Visits({"list"}) /\ Begin(Null)
             /\ UNCHANGED <<symtbl, val, mCurrentFunc, mCurrentIter, asgVars>>

Operator ==
  /\ Visits({"op"})
  /\ src[at].text \notin FirstOnly
  /\ calls' = [calls EXCEPT ![1] = [@ EXCEPT !.ret = Combine(Top, val), !.op = NodeOp(src[at].text)]]
  /\ UNCHANGED <<symtbl, val, mCurrentFunc, mCurrentIter, asgVars>>

\* The visitor returns the first operand; the rest is not visited.
OperatorIgnored ==
  /\ ~aborted /\ at <= Len(src)
  /\ src[at].kind = "op" /\ src[at].text \in FirstOnly
  /\ at' = src[Top.tok].next - 1
  /\ UNCHANGED <<src, symtbl, calls, val, mCurrentFunc, mCurrentIter, asgVars, aborted>>

ListEnd ==
  /\ Visits({"endlist"})
  /\ val' = Combine(Top, val)
  /\ Return
  /\ UNCHANGED <<symtbl, mCurrentFunc, mCurrentIter, asgVars>>

\* "(", a unary operator, and the postfix operators behind an expression.
BracketBegin ==
  /\ Visits({"paren", "un", "index", "call", "braces"})
  /\ Begin(IF src[at].kind \in {"index", "call"} THEN val ELSE Null)
  /\ UNCHANGED <<symtbl, val, mCurrentFunc, mCurrentIter, asgVars>>

UnaryEnd ==
  /\ Visits({"endun"})
  /\ val' = <<Unary(src[Top.tok].text), val>>
  /\ Return
  /\ UNCHANGED <<symtbl, mCurrentFunc, mCurrentIter, asgVars>>

ParenEnd ==
  /\ Visits({"endparen"})
  /\ val' = <<"()", val>>
  /\ Return
  /\ UNCHANGED <<symtbl, mCurrentFunc, mCurrentIter, asgVars>>

IndexEnd ==
  /\ Visits({"endindex"})
  /\ val' = <<"[]", Top.ret, val>>
  /\ Return
  /\ UNCHANGED <<symtbl, mCurrentFunc, mCurrentIter, asgVars>>

Argument ==
  /\ Visits({"arg"})
  /\ calls' = [calls EXCEPT ![1].list = Append(@, val)]
  /\ UNCHANGED <<symtbl, val, mCurrentFunc, mCurrentIter, asgVars>>

CallEnd ==
  /\ Visits({"endcall"})
  /\ val' = <<"call", Top.ret>> \o Top.list
  /\ Return
  /\ UNCHANGED <<symtbl, mCurrentFunc, mCurrentIter, asgVars>>

\* An InitListExpr in an initializerList is replaced by its elements.
Flattened(e) == IF e[1] = "{}" THEN Tail(e) ELSE <<e>>

Item ==
  /\ Visits({"item"})
  /\ calls' = [calls EXCEPT ![1].list = @ \o Flattened(val)]
  /\ UNCHANGED <<symtbl, val, mCurrentFunc, mCurrentIter, asgVars>>

BracesEnd ==
  /\ Visits({"endbraces"})
  /\ val' = IF at = Top.tok + 1 THEN <<"implicit">> ELSE <<"{}">> \o Top.list
  /\ Return
  /\ UNCHANGED <<symtbl, mCurrentFunc, mCurrentIter, asgVars>>

Literal ==
  /\ Visits({"lit"})
  /\ val' = Leaf(at)
  /\ UNCHANGED <<symtbl, calls, mCurrentFunc, mCurrentIter, asgVars>>

Reference ==
  /\ Visits({"ref"})
  /\ Resolve(src[at].text) # 0
  /\ decl' = [decl EXCEPT ![at] = Resolve(src[at].text)]
  /\ val' = Leaf(at)
  /\ UNCHANGED <<symtbl, calls, mCurrentFunc, mCurrentIter, link, init, len, tree>>

ReferenceFails == Dies({"ref"}) /\ Resolve(src[at].text) = 0

-----------------------------------------------------------------------------
(* Declarations.                                                           *)

\* What the declaration specifiers amount to: nothing when the visitor dies.
Specified(specs) ==
  LET types == SelectSeq(specs, LAMBDA w : w # "const")
  IN IF Len(types) > 1 \/ \E k \in DOMAIN types : types[k] \notin {"int", "void"} THEN {}
     ELSE {[spec |-> IF types = <<>> THEN "invalid" ELSE types[1], const |-> IsConst(specs)]}

DimBegin == Visits({"dim"}) /\ Begin(Null)
            /\ UNCHANGED <<symtbl, val, mCurrentFunc, mCurrentIter, asgVars>>

Length == ArrayLength(src, decl, init, val)

DimEnd ==
  /\ Visits({"enddim"})
  /\ Length # {}
  /\ len' = [len EXCEPT ![Top.tok] = Length]
  /\ Return
  /\ UNCHANGED <<symtbl, val, mCurrentFunc, mCurrentIter, decl, link, init, tree>>

DimFails == Dies({"enddim"}) /\ Length = {}

\* InitDeclarator and the visits of parameters: the specifiers come first.
DeclaratorBegin ==
  /\ Visits({"var", "proto", "ptype", "pdecl", "pname"})
  /\ Specified(src[at].specs) # {}
  /\ Begin(Null)
  /\ UNCHANGED <<symtbl, val, mCurrentFunc, mCurrentIter, asgVars>>

SpecifiersFail ==
  Dies({"var", "proto", "ptype", "fdef"}) /\ Specified(src[at].specs) = {}

SetInit(d) ==
  IF HasInit(src, d) THEN init' = [init EXCEPT ![d] = val] ELSE UNCHANGED init

\* The name is declared when the initialiser has been visited.
VarEnd ==
  /\ Visits({"endvar"})
  /\ SetInit(Top.tok)
  /\ symtbl' = Declare(symtbl, src[Top.tok].text, Top.tok)
  /\ Return
  /\ UNCHANGED <<val, mCurrentFunc, mCurrentIter, decl, link, len, tree>>

ProtoEnd ==
  /\ Visits({"endproto"})
  /\ symtbl' = Declare(symtbl, src[Top.tok].text, Top.tok)
  /\ Return
  /\ UNCHANGED <<val, mCurrentFunc, mCurrentIter, asgVars>>

ParamTypeEnd ==
  /\ Visits({"endptype", "endpname"})
  /\ Return
  /\ UNCHANGED <<symtbl, val, mCurrentFunc, mCurrentIter, asgVars>>

ParamDeclEnd ==
  /\ Visits({"endpdecl"})
  /\ symtbl' = Declare(symtbl, src[Top.tok].text, Top.tok)
  /\ Return
  /\ UNCHANGED <<val, mCurrentFunc, mCurrentIter, asgVars>>

EnterFunction == at

FunctionBegin ==
  /\ Visits({"fdef"})
  /\ Specified(src[at].specs) # {}
  /\ mCurrentFunc' = EnterFunction
  /\ Begin(Null)
  /\ UNCHANGED <<symtbl, val, mCurrentIter, asgVars>>

\* Behind the signature: the function is in the scope of its parameters.
FunctionScope ==
  /\ Visits({"sig"})
  /\ symtbl' = Declare(OpenScope, src[Top.tok].text, Top.tok)
  /\ UNCHANGED <<calls, val, mCurrentFunc, mCurrentIter, asgVars>>

\* The scope is closed, and TranslationUnit declares the function around it.
FunctionEnd ==
  /\ Visits({"endfdef"})
  /\ symtbl' = Declare(CloseScope, src[Top.tok].text, Top.tok)
  /\ Return
  /\ UNCHANGED <<val, mCurrentFunc, mCurrentIter, asgVars>>

\* What C.g4 accepts and this compiler does not: a stray ";", switch, for, goto,
\* the operators ~ & * ++ -- . -> and so on.
UnsupportedFails == Dies({"unsupported"})

-----------------------------------------------------------------------------
(* Statements.                                                             *)

BlockBegin ==
  /\ Visits({"block"})
  /\ symtbl' = OpenScope
  /\ Begin(Null)
  /\ UNCHANGED <<val, mCurrentFunc, mCurrentIter, asgVars>>

BlockEnd ==
  /\ Visits({"endblock"})
  /\ symtbl' = CloseScope
  /\ Return
  /\ UNCHANGED <<val, mCurrentFunc, mCurrentIter, asgVars>>


StatementBegin ==
  /\ Visits({"if", "while", "ret", "estmt"})
  /\ Begin(Null)
  /\ link' = IF src[at].kind = "ret" THEN [link EXCEPT ![at] = mCurrentFunc] ELSE link
  /\ UNCHANGED <<symtbl, val, mCurrentFunc, mCurrentIter, decl, init, len, tree>>

ExpressionEnd ==
  /\ Visits({"endestmt"})
  /\ tree' = [tree EXCEPT ![Top.tok] = val]
  /\ Return
  /\ UNCHANGED <<symtbl, val, mCurrentFunc, mCurrentIter, decl, link, init, len>>

\* mCurrentIter is set when the condition and the body have been visited.
WhileEnd ==
  /\ Visits({"endwhile"})
  /\ mCurrentIter' = Top.tok
  /\ Return
  /\ UNCHANGED <<symtbl, val, mCurrentFunc, asgVars>>

Jump ==
  /\ Visits({"break", "continue"})
  /\ link' = [link EXCEPT ![at] = mCurrentIter]
  /\ UNCHANGED <<symtbl, calls, val, mCurrentFunc, mCurrentIter, decl, init, len, tree>>

StatementEnd ==
  /\ Visits({"endif", "endret"})
  /\ Return
  /\ UNCHANGED <<symtbl, val, mCurrentFunc, mCurrentIter, asgVars>>

\* A NullStmt; the second pass over parameters begins; an initialiser begins.
OtherNode ==
  /\ Visits({"null", "again", "init"})
  /\ UNCHANGED <<symtbl, calls, val, mCurrentFunc, mCurrentIter, asgVars>>

Next ==
  \/ ListBegin \/ Operator \/ OperatorIgnored \/ ListEnd
  \/ BracketBegin \/ UnaryEnd \/ ParenEnd \/ IndexEnd \/ Argument \/ CallEnd
  \/ Item \/ BracesEnd \/ Literal \/ Reference \/ ReferenceFails
  \/ DimBegin \/ DimEnd \/ DimFails \/ DeclaratorBegin \/ SpecifiersFail
  \/ VarEnd \/ ProtoEnd \/ ParamTypeEnd \/ ParamDeclEnd
  \/ FunctionBegin \/ FunctionScope \/ FunctionEnd \/ UnsupportedFails
  \/ BlockBegin \/ BlockEnd \/ StatementBegin \/ ExpressionEnd \/ WhileEnd
  \/ Jump \/ StatementEnd \/ OtherNode

Spec == Init /\ [][Next]_vars

-----------------------------------------------------------------------------
(* Properties. *)

\* Between any two visits the chain of maps finds for every name what C's block
\* scope makes visible there: nothing survives its block, an inner declaration hides
\* an outer one until its block ends, a function is visible in its own body.  The
\* exceptions are the code's order: in its own initialiser a variable is not entered
\* yet, nor is a parameter in the rest of its list, and what they hide is found.
ScopesAreLexical ==
  \A name \in Names : Resolve(name) = VisibleBut(src, at, name, NotEntered(src, at))
=============================================================================
