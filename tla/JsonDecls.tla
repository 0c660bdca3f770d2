---------------------------- MODULE JsonDecls ----------------------------
(***************************************************************************)
(* The local variables of one block on their way from clang's JSON to      *)
(* memory: Json2Asg.cpp reads the declarations and their initialisers,     *)
(* EmitIR::var_init emits the stores, and the program executes them.       *)
(*                                                                         *)
(* A source declaration is [type, init], the type as in TypeStrings.tla    *)
(* and the initialiser an expression [k, a, d, subs] as in Typing.tla or   *)
(* Null; d of a "ref" is the index of the declaration.  A JSON object is   *)
(*   [kind, op, cate, type, id, key, sub]                                  *)
(* op the opcode or castKind, type the qualType string, id of the          *)
(* declaration or of referencedDecl, key the name of the array sub.        *)
(* A definition X_Y is X with the slip Y; no action uses it.               *)
(***************************************************************************)
EXTENDS TypeStrings, CInit

CONSTANTS Blocks,  \* the source declarations
          Ids      \* clang's ids of declarations

VARIABLES
  src,      \* the source
  at,       \* the next declaration that is read
  mIdMap,   \* id -> the declaration it was read as
  decls,    \* the VarDecls: type and init
  todo,     \* what the emitted code has left to do
  mem,      \* the cells of the variables
  aborted

vars == <<src, at, mIdMap, decls, todo, mem, aborted>>

Null == [k |-> "null"]
Lens(type) == [i \in DOMAIN type.d |-> type.d[i].len]

-----------------------------------------------------------------------------
\* What clang writes.

\* Any numbering will do; this one is not that of the declarations.
Id(i) == CHOOSE n \in Ids : Cardinality({m \in Ids : m >= n}) = i

Json(kind, op, cate, type, id, key, sub) ==
  [kind |-> kind, op |-> op, cate |-> cate, type |-> type, id |-> id, key |-> key, sub |-> sub]

Scal(spec) == [spec |-> spec, const |-> FALSE, d |-> <<>>]

RECURSIVE ExprJson(_, _)
ExprJson(p, e) ==
  LET Op(kind, type) ==
        Json(kind, e.a, "prvalue", type, 0, "inner", [i \in DOMAIN e.subs |-> ExprJson(p, e.subs[i])])
      Load(type, x) == Json("ImplicitCastExpr", "LValueToRValue", "prvalue", TypeName(type), 0, "inner", <<x>>)
  IN CASE e.k = "int" -> Json("IntegerLiteral", "", "prvalue", TypeName(Scal("int")), 0, "", <<>>)
       [] e.k = "ref" ->
            Load(p[e.d].type, Json("DeclRefExpr", "", "lvalue", TypeName(p[e.d].type), Id(e.d), "", <<>>))
       [] e.k = "paren" -> Op("ParenExpr", TypeName(Scal("int")))
       [] e.k = "unary" -> Op("UnaryOperator", TypeName(Scal("int")))
       [] e.k = "binary" -> Op("BinaryOperator", TypeName(Scal("int")))
       [] e.k = "initlist" -> Op("InitListExpr", TypeName(Scal("int")))

\* The semantic form of an initialiser: one list per array, with the implicit
\* value of the elements that are left in front ("array_filler").
TypeOf(lens) == [spec |-> "int", const |-> FALSE, d |-> [i \in DOMAIN lens |-> Arr(lens[i])]]

RECURSIVE InitJson(_, _, _, _), ElemsJson(_, _, _, _, _)
ElemsJson(p, list, pos, lens, done) ==
  IF pos > Len(list) \/ Len(done) = Head(lens) THEN [j |-> done, next |-> pos]
  ELSE LET one == InitJson(p, list, pos, Tail(lens))
       IN ElemsJson(p, list, one.next, lens, Append(done, one.j))

ListJson(lens, elems) ==
  LET type == TypeName(TypeOf(lens))
      filler == Json("ImplicitValueInitExpr", "", "prvalue", TypeName(TypeOf(Tail(lens))), 0, "", <<>>)
  IN IF Len(elems) = Head(lens)
       THEN Json("InitListExpr", "", "prvalue", type, 0, "inner", elems)
     ELSE Json("InitListExpr", "", "prvalue", type, 0, "array_filler", <<filler>> \o elems)

InitJson(p, list, pos, lens) ==
  LET e == list[pos] IN
  IF lens = <<>> THEN [j |-> ExprJson(p, e), next |-> pos + 1]
  ELSE IF Braced(e) THEN
    [j |-> ListJson(lens, ElemsJson(p, e.subs, 1, lens, <<>>).j), next |-> pos + 1]
  ELSE LET r == ElemsJson(p, list, pos, lens, <<>>) IN [j |-> ListJson(lens, r.j), next |-> r.next]

VarJson(p, i) ==
  Json("VarDecl", "", "", TypeName(p[i].type), Id(i), "inner",
       IF p[i].init = Null THEN <<>>
       ELSE <<InitJson(p, <<p[i].init>>, 1, Lens(p[i].type)).j>>)

-----------------------------------------------------------------------------
\* The visitors of expressions, as a table from the kinds of JSON to those of
\* the ASG: an operator, a cast or a kind that is not in it aborts.
UnaryOps == {"-", "!", "+"}
BinaryOps == {"*", "/", "%", "+", "-", ">", "<", ">=", "<=", "==", "!=", "&&", "||", "="}
CastKinds == {"LValueToRValue", "ArrayToPointerDecay", "FunctionToPointerDecay"}

AsgKind(j) ==
  CASE j.kind = "IntegerLiteral" -> "int"
    [] j.kind = "DeclRefExpr" -> "ref"
    [] j.kind = "ParenExpr" -> "paren"
    [] j.kind = "UnaryOperator" /\ j.op \in UnaryOps -> "unary"
    [] j.kind = "BinaryOperator" /\ j.op \in BinaryOps -> "binary"
    [] j.kind = "ArraySubscriptExpr" -> "binary"
    [] j.kind = "CallExpr" -> "call"
    [] j.kind = "ImplicitCastExpr" /\ j.op \in CastKinds -> "cast"
    [] j.kind = "InitListExpr" /\ j.key # "" -> "initlist"
    [] j.kind = "ImplicitValueInitExpr" -> "implicit"
    [] OTHER -> "none"

\* The filler is not kept in the list.
Children_Elements(j) == IF j.key = "array_filler" THEN Tail(j.sub) ELSE j.sub

\* A list is read from "inner", or else from "array_filler".
Children(j) == j.sub

RECURSIVE expr(_, _)
expr(ids, j) ==
  LET type == getty(j.type)
      subs == [i \in DOMAIN Children(j) |-> expr(ids, Children(j)[i])]
  IN [ok |-> /\ AsgKind(j) # "none" /\ j.cate \in {"lvalue", "prvalue"} /\ type.ok
             /\ j.kind = "DeclRefExpr" => ids[j.id] # 0
             /\ \A i \in DOMAIN subs : subs[i].ok,
      e  |-> [k |-> AsgKind(j), a |-> j.op, type |-> type.type,
              d |-> IF j.kind = "DeclRefExpr" THEN ids[j.id] ELSE 0,
              subs |-> [i \in DOMAIN subs |-> subs[i].e]]]

Init ==
  /\ src \in Blocks
  /\ at = 1
  /\ mIdMap = [n \in Ids |-> 0]
  /\ decls = <<>>
  /\ todo = <<>>
  /\ mem = <<>>
  /\ aborted = FALSE

\* VarDecl: make<VarDecl>(id) enters the id before the initialiser is read.
ReadVarDecl ==
  /\ ~aborted
  /\ at <= Len(src)
  /\ LET j    == VarJson(src, at)
         ids  == [mIdMap EXCEPT ![j.id] = Len(decls) + 1]
         type == getty(j.type)
         init == IF j.sub = <<>> THEN [ok |-> TRUE, e |-> Null] ELSE expr(ids, j.sub[1])
     IN IF ~type.ok \/ ~init.ok
          THEN aborted' = TRUE /\ UNCHANGED <<at, mIdMap, decls>>
        ELSE /\ at' = at + 1
             /\ mIdMap' = ids
             /\ decls' = Append(decls, [type |-> type.type, init |-> init.e])
             /\ UNCHANGED aborted
  /\ UNCHANGED <<src, todo, mem>>

-----------------------------------------------------------------------------
\* var_init: the effects of the code it emits.  The lengths are those of each list's own
\* type, as it was read.  ImplicitInitExpr at the head of a list stands for the elements
\* that are left out.
Set(lo, n) == [lo |-> lo, n |-> n, e |-> [k |-> "implicit"]]
Store(c, e) == [lo |-> c, n |-> 1, e |-> e]

HasFiller(list) == list # <<>> /\ list[1].k = "implicit"

RECURSIVE var_init(_, _)
var_init(base, e) ==
  IF e.k = "initlist"
    THEN LET lens == Lens(e.type)
             skip == IF HasFiller(e.subs) THEN 1 ELSE 0
             size == Size(Tail(lens))
         IN (IF skip = 1 THEN <<Set(base, Size(lens))>> ELSE <<>>)
              \o FlattenSeq([i \in 1 .. Len(e.subs) - skip |->
                   var_init(base + (i - 1) * size, e.subs[i + skip])])
  ELSE <<Store(base, e)>>

\* An ImplicitInitExpr anywhere else has no visitor: the one of Expr calls itself for it
\* until the stack is full.
RECURSIVE Endless(_)
Endless(e) ==
  \/ e.k = "implicit"
  \/ /\ e.k = "initlist"
     /\ \E i \in DOMAIN e.subs : ~(i = 1 /\ HasFiller(e.subs)) /\ Endless(e.subs[i])

\* Once the whole document is read, EmitIR emits the declarations in order.
Emit ==
  /\ ~aborted
  /\ at = Len(src) + 1
  /\ Len(mem) < Len(decls)
  /\ todo = <<>>
  /\ LET d == decls[Len(mem) + 1] IN
     /\ aborted' = Endless(d.init)
     /\ todo' = IF d.init = Null \/ aborted' THEN <<>> ELSE var_init(0, d.init)
     /\ mem' = Append(mem, [c \in 0 .. Size(Lens(d.type)) - 1 |-> [k |-> "undef"]])
  /\ UNCHANGED <<src, at, mIdMap, decls>>

\* The program executes the stores, in the order they were emitted.
Execute ==
  /\ todo # <<>>
  /\ LET s == Head(todo) IN
     mem' = [mem EXCEPT ![Len(mem)] =
               [c \in DOMAIN @ |-> IF s.lo <= c /\ c < s.lo + s.n THEN s.e ELSE @[c]]]
  /\ todo' = Tail(todo)
  /\ UNCHANGED <<src, at, mIdMap, decls, aborted>>

Next == ReadVarDecl \/ Emit \/ Execute

Spec == Init /\ [][Next]_vars

-----------------------------------------------------------------------------
RECURSIVE SourceOf(_)
SourceOf(e) ==
  IF e.k = "cast" THEN SourceOf(e.subs[1])
  ELSE [k |-> e.k, a |-> e.a, d |-> e.d, subs |-> [i \in DOMAIN e.subs |-> SourceOf(e.subs[i])]]

\* A type of at most two derivations, with parameters of such types.
RECURSIVE Shallow(_)
Shallow(type) ==
  /\ Len(type.d) <= 2
  /\ \A i \in DOMAIN type.d : \A j \in DOMAIN type.d[i].params : Shallow(type.d[i].params[j])

(***************************************************************************)
(* The types read are those that clang's strings name, arrays, functions   *)
(* and pointers applied in C's order whatever parentheses it takes to      *)
(* write them, except exactly those with three derivations or more:        *)
(* against the comment above it turn_texp does not turn these inside out   *)
(* but keeps the outermost and the innermost.                              *)
(***************************************************************************)
TypesReadBack ==
  \A i \in DOMAIN decls : decls[i].type = src[i].type <=> Shallow(src[i].type)

(***************************************************************************)
(* When the code of a declaration whose type was read as it is has run,    *)
(* every element that C initialises holds its expression, with the         *)
(* variables it names, and the others of an initialised array are zero:    *)
(* the fillers of clang's lists are told from their elements at every      *)
(* level, and each list is laid out by its own type.                       *)
(***************************************************************************)
MemoryAsInC ==
  todo = <<>> =>
    \A i \in DOMAIN mem : src[i].init # Null /\ decls[i].type = src[i].type =>
      LET cells == CCells(src[i].init, Lens(src[i].type)) IN
      \A c \in DOMAIN mem[i] :
        IF c \in DOMAIN cells THEN SourceOf(mem[i][c]) = cells[c]
        ELSE mem[i][c].k = "implicit"
=============================================================================
