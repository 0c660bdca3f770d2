------------------------------- MODULE Task2 -------------------------------
(***************************************************************************)
(* main_task2 of front-end/main.cpp from the ASG on: Typing gives the ASG  *)
(* its types, front-end/asg/Asg2Json.cpp writes it as a JSON document.  A  *)
(* program has in addition to Typing.tla's decls and items its tree, whose *)
(* nodes [k, i, subs] refer to the items (i, that holds the expression or  *)
(* the declaration):                                                       *)
(*   "var", "func" (its body below), "decl", "expr", "compound", "if",     *)
(*   "while", "do", "break", "continue", "return", "null".                 *)
(* Types, on a heap h, and expressions are as in Typing.tla.  A JSON       *)
(* object is                                                               *)
(*   [kind, op, type, name, key, sub]                                      *)
(* op the opcode or value, type the qualType, key the name of the array    *)
(* sub ("": no array).  valueCategory is left out: nothing reads it.       *)
(* A definition X_Y is X with the slip Y; no action uses it.               *)
(***************************************************************************)
EXTENDS CTypes, TypeStrings

(* Asg2Json: a typed ASG as a JSON document.                               *)

Json(kind, op, type, name, key, sub) ==
  [kind |-> kind, op |-> op, type |-> type, name |-> name, key |-> key, sub |-> sub]

\* What the stack holds where a Type was: anything.
Unknown == <<Tok("?")>>
QualType(h, type) == IF type.home = "stack" THEN Unknown ELSE WriteType(h, type)

ExprKind(n) ==
  CASE n.k = "int" -> "IntegerLiteral"
    [] n.k = "ref" -> "DeclRefExpr"
    [] n.k = "paren" -> "ParenExpr"
    [] n.k = "unary" -> "UnaryOperator"
    [] n.k = "binary" -> IF n.a = "index" THEN "ArraySubscriptExpr" ELSE "BinaryOperator"
    [] n.k = "call" -> "CallExpr"
    [] n.k \in {"initlist", "implicit"} -> "InitListExpr"
    [] n.k = "cast" -> "ImplicitCastExpr"

\* castKind is not written.
Opcode(n) == IF n.k \in {"int", "unary", "binary"} /\ n.a # "index" THEN n.a ELSE ""
ArrayName(n) == IF n.k \in {"int", "ref", "implicit"} THEN "" ELSE "inner"

RECURSIVE WriteExpr(_, _)
WriteExpr(h, n) ==
  Json(ExprKind(n), Opcode(n), QualType(h, n.type), 0, ArrayName(n),
       [i \in DOMAIN n.subs |-> WriteExpr(h, n.subs[i])])

\* d is the declaration, type its Type and sub what is inside.
WriteDecl(h, kind, d, type, key, sub) == Json(kind, "", QualType(h, type), d, key, sub)

Plain(kind, key, sub) == Json(kind, "", <<>>, 0, key, sub)
StmtKind ==
  [decl |-> "DeclStmt", compound |-> "CompoundStmt", if |-> "IfStmt", while |-> "WhileStmt",
   do |-> "DoStmt", break |-> "BreakStmt", continue |-> "ContinueStmt", return |-> "ReturnStmt",
   null |-> "NullStmt"]

\* In ASG order, the condition first.
WriteStmt_CondFirst(s, exprs, subs) ==
  IF s.k = "expr" THEN exprs[1]
  ELSE Plain(StmtKind[s.k], IF s.k \in {"break", "continue", "null"} THEN "" ELSE "inner",
             exprs \o subs)

\* exprs: the JSON of the statement's expression, if there is one; subs: of
\* what is below it.
WriteStmt(s, exprs, subs) ==
  IF s.k = "expr" THEN exprs[1]
  ELSE Plain(StmtKind[s.k], IF s.k \in {"break", "continue", "null"} THEN "" ELSE "inner",
             IF s.k = "do" THEN subs \o exprs ELSE exprs \o subs)

-----------------------------------------------------------------------------
(* main_task2: the ASG is typed, then written.                             *)

VARIABLE json   \* the document, <<>> until it is written

T2vars == <<vars, json>>

\* The order in which Typing visits the items of a tree.
RECURSIVE Order(_)
Order(node) ==
  (IF node.i = 0 THEN <<>> ELSE <<node.i>>)
    \o FlattenSeq([j \in DOMAIN node.subs |-> Order(node.subs[j])])

VisitsInOrder(p) ==
  FlattenSeq([j \in DOMAIN p.tree |-> Order(p.tree[j])]) = [i \in DOMAIN p.items |-> i]

RECURSIVE Write(_)
Write(node) ==
  LET subs == [j \in DOMAIN node.subs |-> Write(node.subs[j])]
      item == prog.items[node.i]
      ParmVarDecl(d) == WriteDecl(texps, "ParmVarDecl", d, declType[d], "", <<>>)
      params == prog.decls[item.d].params
      expr == IF node.i = 0 \/ typed[node.i] = Null THEN <<>> ELSE <<WriteExpr(texps, typed[node.i])>>
  IN CASE node.k = "var" -> WriteDecl(texps, "VarDecl", item.d, declType[item.d], "inner", expr)
       [] node.k = "func" ->
            WriteDecl(texps, "FunctionDecl", item.d, declType[item.d], "inner",
                      [i \in DOMAIN params |-> ParmVarDecl(params[i])] \o subs)
       [] OTHER -> WriteStmt(node, expr, subs)

T2Init == Init /\ json = <<>>

WriteJson ==
  /\ ~died
  /\ at > Len(prog.items)
  /\ json = <<>>
  /\ json' = [j \in DOMAIN prog.tree |-> Write(prog.tree[j])]
  /\ UNCHANGED vars

T2Next == (Next /\ UNCHANGED json) \/ WriteJson

T2Spec == T2Init /\ [][T2Next]_T2vars

-----------------------------------------------------------------------------
(***************************************************************************)
(* The document that clang writes (-ast-dump=json), of the keys that       *)
(* test/task2/score.py compares.  A reference expression is [j, t, lv]:    *)
(* its JSON, its type as in TypeStrings.tla and whether it is an lvalue.   *)
(***************************************************************************)
Unspecified == Plain("any", "", <<>>)

IntType == [spec |-> "int", const |-> FALSE, d |-> <<>>]
ObjectType(d, decl) == [spec |-> decl.spec, const |-> decl.const, d |-> DeclaredAs(prog, d).d]
FullType(d) ==
  IF prog.decls[d].fn
    THEN [IntType EXCEPT !.spec = prog.decls[d].spec,
                         !.d = <<FunOf([i \in DOMAIN prog.decls[d].params |->
                                          ObjectType(prog.decls[d].params[i], prog.decls[prog.decls[d].params[i]])])>>]
  ELSE ObjectType(d, prog.decls[d])

Is_(kind, op, t, lv, subs) == [kind |-> kind, op |-> op, t |-> t, lv |-> lv, subs |-> subs]
Ref_(x) ==
  [j |-> Json(x.kind, x.op, TypeName(x.t), 0, IF x.subs = <<>> THEN "" ELSE "inner",
              [i \in DOMAIN x.subs |-> x.subs[i].j]),
   t |-> x.t, lv |-> x.lv]

\* Lvalue, array and function conversion (C17 6.3.2.1).
Converts(x) == x.lv \/ (x.t.d # <<>> /\ Head(x.t.d).k \in {"arr", "fun"})
ConvertedType(t) ==
  CASE t.d = <<>>            -> [t EXCEPT !.const = FALSE]
    [] Head(t.d).k = "arr" -> [t EXCEPT !.d[1] = Ptr]
    [] Head(t.d).k = "fun" -> [t EXCEPT !.d = <<Ptr>> \o @]
    [] OTHER               -> t
Rvalue(x) ==
  IF Converts(x) THEN Ref_(Is_("ImplicitCastExpr", "", ConvertedType(x.t), FALSE, <<x>>)) ELSE x

\* An expression, of its operands and their values.
ClangNode(e, x, v) ==
  CASE e.k = "int" -> Is_("IntegerLiteral", e.a, IntType, FALSE, <<>>)
    [] e.k = "ref" -> Is_("DeclRefExpr", "", FullType(e.d), TRUE, <<>>)
    [] e.k = "paren" -> Is_("ParenExpr", "", x[1].t, x[1].lv, x)
    [] e.k = "unary" -> Is_("UnaryOperator", e.a, IntType, FALSE, v)
    [] e.k = "binary" /\ e.a = "assign" ->
         Is_("BinaryOperator", e.a, x[1].t, FALSE, <<x[1], v[2]>>)
    [] e.k = "binary" /\ e.a = "index" ->
         Is_("ArraySubscriptExpr", "", [v[1].t EXCEPT !.d = Tail(@)], TRUE, v)
    [] e.k = "binary" /\ e.a = "comma" -> Is_("BinaryOperator", e.a, v[2].t, FALSE, v)
    [] e.k = "binary" -> Is_("BinaryOperator", e.a, IntType, FALSE, v)
    [] e.k = "call" -> Is_("CallExpr", "", [IntType EXCEPT !.spec = prog.decls[e.subs[1].d].spec], FALSE, v)

RECURSIVE ClangExpr(_)
ClangExpr(e) ==
  LET Over(x) == Ref_(ClangNode(e, x, [i \in DOMAIN x |-> Rvalue(x[i])]))
  IN Over([i \in DOMAIN e.subs |-> ClangExpr(e.subs[i])])

\* Initialisers are written in their semantic form; the elements of a list
\* that leaves some out go under another key.
RECURSIVE ClangInit(_, _, _), ClangElems(_, _, _, _)
ClangMore(one, list, t, done) == ClangElems(list, one.next, t, Append(done, one.j))
ClangElems(list, pos, t, done) ==
  IF pos > Len(list) \/ Len(done) = Head(t.d).len THEN [j |-> done, next |-> pos]
  ELSE ClangMore(ClangInit(list, pos, [t EXCEPT !.d = Tail(@)]), list, t, done)

ClangList(r, t, next) ==
  [j |-> Json("InitListExpr", "", TypeName(t), 0,
              IF Len(r.j) = Head(t.d).len THEN "inner" ELSE "array_filler", r.j),
   next |-> next]

ClangInit(list, pos, t) ==
  LET e == list[pos] IN
  CASE t.d = <<>> -> [j |-> Rvalue(ClangExpr(IF Braced(e) THEN e.subs[1] ELSE e)).j, next |-> pos + 1]
    [] t.d # <<>> /\ Braced(e) -> ClangList(ClangElems(e.subs, 1, t, <<>>), t, pos + 1)
    [] OTHER -> LET r == ClangElems(list, pos, t, <<>>) IN ClangList(r, t, r.next)

(***************************************************************************)
(* The course's language is C with int alone, and no const in parameters;  *)
(* a brace around a scalar or around nothing is left out as well.          *)
(***************************************************************************)
RECURSIVE PlainBraces(_, _)
PlainBraces(e, lens) ==
  Braced(e) => /\ lens # <<>> /\ e.subs # <<>>
               /\ \A i \in DOMAIN e.subs : PlainBraces(e.subs[i], Tail(lens))

InCourse(item) ==
  LET Simple(d) == prog.decls[d].spec = "int" /\ ~(prog.decls[d].const /\ d \in Parameters(prog))
      exprs == UNION {Within(e) : e \in Exprs(item)}
  IN /\ \A x \in exprs :
          /\ x.k = "int" => x.a = "small"
          /\ x.k = "ref" => \A d \in {x.d} \cup {prog.decls[x.d].params[i] : i \in DOMAIN prog.decls[x.d].params} :
                              Simple(d) \/ prog.decls[d].fn
     /\ item.k = "var" => /\ Simple(item.d)
                          /\ item.init # Null => PlainBraces(item.init, prog.decls[item.d].lens)
     /\ item.k = "ret" => prog.decls[item.f].spec \in {"int", "void"}

Compared == {i \in TypedItems : InCourse(prog.items[i])}

\* An empty list of children is not written.
Inside(kind, type, d, sub) == Json(kind, "", type, d, IF sub = <<>> THEN "" ELSE "inner", sub)
Declares(kind, d, sub) == Inside(kind, TypeName(FullType(d)), d, sub)

\* The initialiser of a variable, the expression of a statement.
ClangInitial(item) ==
  IF item.init = Null THEN <<>> ELSE <<ClangInit(<<item.init>>, 1, FullType(item.d)).j>>
ClangValue(i, compared) ==
  IF i = 0 \/ prog.items[i].e = Null THEN <<>>
  ELSE IF i \in compared THEN <<Rvalue(ClangExpr(prog.items[i].e)).j>>
  ELSE <<Unspecified>>

ClangStmt(kind, exprs, subs) ==
  IF kind = "expr" THEN exprs[1]
  ELSE Inside(StmtKind[kind], <<>>, 0, IF kind = "do" THEN subs \o exprs ELSE exprs \o subs)

ClangFunc(d, subs) ==
  Declares("FunctionDecl", d,
           [i \in DOMAIN prog.decls[d].params |-> Declares("ParmVarDecl", prog.decls[d].params[i], <<>>)] \o subs)

\* A node of the tree, of what is below it; compared are the items that count.
ClangOver(node, compared, subs) ==
  CASE node.k = "var" ->
         IF node.i \in compared THEN Declares("VarDecl", prog.items[node.i].d, ClangInitial(prog.items[node.i]))
         ELSE Unspecified
    [] node.k = "func" -> ClangFunc(prog.items[node.i].d, subs)
    [] OTHER -> ClangStmt(node.k, ClangValue(node.i, compared), subs)

RECURSIVE Clang(_, _)
Clang(node, compared) ==
  ClangOver(node, compared, [j \in DOMAIN node.subs |-> Clang(node.subs[j], compared)])

\* check_ast: the keys of clang's object against those of ours, to its leaves.
RECURSIVE Graded(_, _)
Graded(c, j) ==
  \/ c.kind = "any"
  \/ /\ c.kind = j.kind /\ c.op = j.op /\ c.type = j.type /\ c.name = j.name
     /\ c.key = "inner" => /\ j.key = "inner" /\ Len(c.sub) = Len(j.sub)
                           /\ \A i \in DOMAIN c.sub : Graded(c.sub[i], j.sub[i])

(***************************************************************************)
(* The document has the nodes, types and order of clang's, by the rules of *)
(* score.py, for everything in the course's language.                      *)
(***************************************************************************)
GradedOver(compared) ==
  \A j \in DOMAIN json : Graded(Clang(prog.tree[j], compared), json[j])
GradedAsClang == GradedOver(Compared)

(***************************************************************************)
(* The reader of task 3 reads the type that a string was written for,      *)
(* arrays that never got a length apart.                                   *)
(***************************************************************************)
RECURSIVE Exprs_(_)
Exprs_(n) == {n} \cup UNION {Exprs_(n.subs[i]) : i \in DOMAIN n.subs}

RECURSIVE Meant(_)
Meant(type) ==
  LET te   == texps[type.texp]
      f    == IF te.k = "ptr" THEN te.sub ELSE type.texp
      func == FunOf([i \in DOMAIN texps[f].params |-> Meant(texps[f].params[i])])
  IN [spec |-> type.spec, const |-> type.const,
      d |-> IF Is(texps, type.texp, "fun") THEN <<func>>
            ELSE IF Is(texps, type.texp, "ptr") /\ Is(texps, te.sub, "fun") THEN <<Ptr, func>>
            ELSE Derived(texps, type.texp)]

TypesReadBack ==
  json # <<>> =>
    \A t \in {declType[d] : d \in DOMAIN prog.decls}
               \cup {n.type : n \in UNION {Exprs_(typed[i]) : i \in {k \in DOMAIN typed : typed[k] # Null}}} :
      t.home = "heap" /\ ArrOf(kUnLen) \notin Range(Derived(texps, t.texp)) =>
        LET r == getty(WriteType(texps, t)) IN r.ok /\ r.type = Meant(t)

\* The document serves both its readers, the grader and the next task.
JsonAsClang == GradedAsClang /\ TypesReadBack
=============================================================================
