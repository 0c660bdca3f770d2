----------------------------- MODULE Typing -----------------------------
(***************************************************************************)
(* front-end/asg/Typing.cpp: the walk over an untyped ASG that gives every *)
(* expression its type and category and inserts the implicit casts.        *)
(*                                                                         *)
(* A program is decls, a sequence of                                       *)
(*   [fn, spec, const, lens, params]   a VarDecl with the array lengths    *)
(*                       of its declarator, or a FunctionDecl with the     *)
(*                       indices of its parameters                         *)
(* and items, the sequence of the visits: "var" (a VarDecl with its init), *)
(* "func" (a FunctionDecl), and the expressions of the statements: "expr", *)
(* "cond" (of if, while and do, typed before the statements under it),     *)
(* "ret" (of the function f).  The other statements change nothing and are *)
(* left out, as are StringLiterals: no visitor of Ast2Asg makes one.       *)
(*                                                                         *)
(* An expression is [k, a, d, subs], a typed one has a type and a cate as  *)
(* well; a is the value, the operator or the cast's kind, d the index of   *)
(* the declaration referred to.                                            *)
(* A definition X_Y is X with the slip Y; no action uses it.               *)
(***************************************************************************)
EXTENDS CInit

(***************************************************************************)
(* The types of the ASG (asg/asg.hpp, asg/asg.cpp): a Type is a            *)
(* specifier, a qualifier and a pointer to a TypeExpr.  No Type changes    *)
(* after it has been handed out, so that a Type is its value here; the     *)
(* TypeExprs are shared and some do change, so that they live on a heap h, *)
(* a sequence of records, and a pointer is an index (0: nullptr).          *)
(***************************************************************************)

\* Type::Spec, the arithmetic ones with their rank.
Rank == [char |-> 1, int |-> 2, long |-> 3, longlong |-> 4]
Arithmetic == DOMAIN Rank
Specs == Arithmetic \cup {"void"}

\* home: whether the object outlives the call that made it.
Type(spec, const, texp) == [spec |-> spec, const |-> const, texp |-> texp, home |-> "heap"]

PointerType(sub) == [k |-> "ptr", sub |-> sub]
ArrayType(len, sub) == [k |-> "arr", sub |-> sub, len |-> len]
FunctionType(params) == [k |-> "fun", sub |-> 0, params |-> params]

Is(h, p, k) == p # 0 /\ h[p].k = k

\* TypeExpr::operator== and the three __equal__, Type::operator==.
RECURSIVE Equal(_, _, _)
Equal(h, p, q) ==
  \/ p = q
  \/ /\ p # 0 /\ q # 0
     /\ h[p].k = h[q].k
     /\ CASE h[p].k = "ptr" -> Equal(h, h[p].sub, h[q].sub)
          [] h[p].k = "arr" -> h[p].len = h[q].len /\ Equal(h, h[p].sub, h[q].sub)
          [] h[p].k = "fun" ->
               LET P == h[p].params   Q == h[q].params IN
               /\ Len(P) = Len(Q)
               /\ \A i \in DOMAIN P : /\ P[i].spec = Q[i].spec
                                      /\ P[i].const = Q[i].const
                                      /\ Equal(h, P[i].texp, Q[i].texp)

(***************************************************************************)
(* operator== compares this and &other with nullptr, which an optimising   *)
(* compiler may take to be false (a reference is never null): the          *)
(* comparison of two type expressions one of which is a proper prefix of   *)
(* the other is undefined, and goes through null.                          *)
(***************************************************************************)
RECURSIVE MeetsNull(_, _, _)
MeetsNull(h, p, q) ==
  /\ p # q
  /\ \/ p = 0 \/ q = 0
     \/ /\ h[p].k = h[q].k
        /\ \/ h[p].k = "ptr" /\ MeetsNull(h, h[p].sub, h[q].sub)
           \/ /\ h[p].k = "arr" /\ h[p].len = h[q].len
              /\ MeetsNull(h, h[p].sub, h[q].sub)
           \/ /\ h[p].k = "fun"
              /\ Len(h[p].params) = Len(h[q].params)
              /\ \E i \in DOMAIN h[p].params :
                   LET a == h[p].params[i]   b == h[q].params[i] IN
                   /\ a.spec = b.spec /\ a.const = b.const
                   /\ MeetsNull(h, a.texp, b.texp)

-----------------------------------------------------------------------------
CONSTANT Programs

VARIABLES
  prog,     \* the program
  at,       \* the next item to visit
  texps,    \* the heap of TypeExprs
  cache,    \* mTypeCache
  declType, \* Decl::type
  typed,    \* what became of the items visited
  died      \* ABORT() or a crash

vars == <<prog, at, texps, cache, declType, typed, died>>

Null == [k |-> "null"]

\* The TypeExprs of a declarator, which Ast2Asg makes anew for each: an
\* ArrayType per length, or a FunctionType.
Declarator(d, base) ==
  IF d.fn THEN <<FunctionType(<<>>)>>
  ELSE [i \in DOMAIN d.lens |->
          ArrayType(d.lens[i], IF i = Len(d.lens) THEN 0 ELSE base + i + 1)]

\* How many TypeExprs the declarations before d have.
Base(p, d) ==
  FoldLeft(LAMBDA n, e : n + Len(Declarator(e, 0)), 0, SubSeq(p.decls, 1, d - 1))

Init ==
  /\ prog \in Programs
  /\ at = 1
  /\ texps = FlattenSeq([d \in DOMAIN prog.decls |->
                           Declarator(prog.decls[d], Base(prog, d))])
  /\ cache = <<>>
  /\ declType = [d \in DOMAIN prog.decls |->
                   Type(prog.decls[d].spec, prog.decls[d].const,
                        IF Declarator(prog.decls[d], 0) = <<>> THEN 0
                        ELSE Base(prog, d) + 1)]
  /\ typed = <<>>
  /\ died = FALSE

-----------------------------------------------------------------------------
(***************************************************************************)
(* The state a visitor threads through its calls: h the heap, c the cache, *)
(* d the types of the declarations, ok: not aborted, ub: undefined         *)
(* behaviour was met.  A visitor returns [s, e], a state and a typed       *)
(* expression; after an abort e means nothing.                             *)
(***************************************************************************)
Ret(s, e) == [s |-> s, e |-> e]
ABORT(s) == Ret([s EXCEPT !.ok = FALSE], Null)
New(s, te) == [s EXCEPT !.h = Append(@, te)]

\* Applies f to the expression of r, unless the process has died.
Then(r, f(_, _)) == IF r.s.ok THEN f(r.s, r.e) ELSE r

\* Applies op to x, then to y, and k to what became of them.
Both(s, op(_, _), x, y, k(_, _, _)) ==
  Then(op(s, x), LAMBDA t, l : Then(op(t, y), LAMBDA u, r : k(u, l, r)))

\* Searches that take two types for one.
mTypeCache_FirstAlike(s, spec, const, texp) ==
  LET hits == {i \in DOMAIN s.c : /\ s.c[i].spec = spec /\ s.c[i].const = const
                                  /\ (s.c[i].texp = 0) = (texp = 0)}
      new  == Type(spec, const, texp)
  IN [s |-> [s EXCEPT !.c = IF hits = {} THEN Append(@, new) ELSE @],
      t |-> IF hits = {} THEN new ELSE s.c[CHOOSE i \in hits : TRUE]]

\* Type::Cache: a linear search, which stops at the first entry that fits.
mTypeCache(s, spec, const, texp) ==
  LET Alike(i)  == s.c[i].spec = spec /\ s.c[i].const = const
      hits      == {i \in DOMAIN s.c : Alike(i) /\ Equal(s.h, texp, s.c[i].texp)}
      first     == IF hits = {} THEN Len(s.c) + 1 ELSE CHOOSE i \in hits : \A j \in hits : i <= j
      shaky     == \E i \in 1 .. first - 1 :
                     /\ Alike(i) /\ texp # 0 /\ s.c[i].texp # 0
                     /\ MeetsNull(s.h, texp, s.c[i].texp)
      new       == Type(spec, const, texp)
  IN [s |-> [s EXCEPT !.c = IF hits = {} THEN Append(@, new) ELSE @,
                      !.ub = @ \/ shaky],
      t |-> IF hits = {} THEN new ELSE s.c[first]]

\* e with the type that the cache has for it.
Typed(s, e, spec, const, texp, cate) ==
  LET q == mTypeCache(s, spec, const, texp)
  IN Ret(q.s, [k |-> e.k, a |-> e.a, d |-> e.d, subs |-> e.subs, type |-> q.t, cate |-> cate])

With(e, type, cate) ==
  [k |-> e.k, a |-> e.a, d |-> e.d, subs |-> e.subs, type |-> type, cate |-> cate]

Cast(kind, e) == [k |-> "cast", a |-> kind, d |-> 0, subs |-> <<e>>]


ensure_rvalue(s, e) ==
  IF Is(s.h, e.type.texp, "arr")
    THEN LET p == New(s, PointerType(e.type.texp))
         IN Typed(p, Cast("ArrayToPointerDecay", e),
                  e.type.spec, e.type.const, Len(p.h), "RValue")
  ELSE CASE e.cate = "LValue" -> Typed(s, Cast("LValueToRValue", e),
                                       e.type.spec, FALSE, e.type.texp, "RValue")
         [] e.cate = "RValue" -> Typed(s, e, e.type.spec, FALSE, e.type.texp, "RValue")
         [] e.cate = "INVALID" -> ABORT(s)

\* The cast's cate is left as the constructor has it.
promote_integer(s, e, to) ==
  IF e.type.texp # 0 \/ e.type.spec \notin Arithmetic THEN ABORT(s)
  ELSE IF Rank[e.type.spec] >= Rank[to] THEN Ret(s, e)
  ELSE Typed(s, Cast("IntegralCast", e), to, FALSE, 0, "INVALID")

\* Pointers have no elements.
ArrayOf_NoPointers(h, texp) == IF Is(h, texp, "arr") THEN texp ELSE 0

\* The array that a type is, or whose elements it points to; 0 for none.
ArrayOf(h, texp) ==
  CASE Is(h, texp, "arr") -> texp
    [] Is(h, texp, "ptr") /\ Is(h, h[texp].sub, "arr") -> h[texp].sub
    [] OTHER -> 0

assignment_cast(s0, type, cate, e0) ==
  IF cate # "LValue" \/ {type.spec, e0.type.spec} \cap Arithmetic # {type.spec, e0.type.spec}
    THEN ABORT(s0)
  ELSE Then(ensure_rvalue(s0, e0), LAMBDA s, e :
    IF type.texp # 0
      THEN LET to   == ArrayOf(s.h, type.texp)
               from == ArrayOf(s.h, e.type.texp)
           IN IF \/ to = 0 \/ from = 0 \/ type.spec # e.type.spec
                 \/ s.h[to].len # kUnLen /\ s.h[from].len = kUnLen
                 \/ ~Equal(s.h, s.h[to].sub, s.h[from].sub)
              THEN ABORT(s)
              ELSE IF type.const
                THEN Typed(s, Cast("NoOp", e), e.type.spec, TRUE, e.type.texp, "INVALID")
                ELSE Ret(s, e)
    ELSE IF e.type.texp # 0 THEN ABORT(s)
    ELSE IF e.type.spec = type.spec THEN Ret(s, e)
    ELSE Ret(s, With(Cast("IntegralCast", e), type, "INVALID")))

-----------------------------------------------------------------------------
\* The expressions.

Whole(e, subs, type, cate) ==
  [k |-> e.k, a |-> e.a, d |-> e.d, subs |-> subs, type |-> type, cate |-> cate]

Promoted(s, e) == Then(ensure_rvalue(s, e), LAMBDA t, x : promote_integer(t, x, "int"))

\* The operands of an arithmetic or relational operator.
Converted(s, lft, rht) ==
  Both(s, Promoted, lft, rht, LAMBDA t, l, r :
    Then(promote_integer(t, l, r.type.spec), LAMBDA u, l1 :
      Then(promote_integer(u, r, l1.type.spec), LAMBDA v, r1 :
        Ret(v, <<l1, r1>>))))

Rvalues(s, lft, rht) == Both(s, ensure_rvalue, lft, rht, LAMBDA t, l, r : Ret(t, <<l, r>>))

\* e over its typed operands, of the type that the cache has for it.
Built(s, e, subs, spec, const, texp, cate) ==
  LET q == mTypeCache(s, spec, const, texp) IN Ret(q.s, Whole(e, subs, q.t, cate))

Binary(s, e, lft, rht) ==
  LET IntOf(t, subs) == Built(t, e, subs, "int", FALSE, 0, "RValue")
      array          == ArrayOf(s.h, lft.type.texp)
  IN CASE e.a = "arith" ->
            Then(Converted(s, lft, rht), LAMBDA t, subs : Ret(t, Whole(e, subs, subs[1].type, "RValue")))
       [] e.a = "rel"   -> Then(Converted(s, lft, rht), IntOf)
       [] e.a = "logic" -> Then(Rvalues(s, lft, rht), IntOf)
       [] e.a = "comma" ->
            Then(Rvalues(s, lft, rht), LAMBDA t, subs : Ret(t, Whole(e, subs, subs[2].type, subs[2].cate)))
       [] e.a = "assign" ->
            IF lft.type.const THEN ABORT(s)
            ELSE Then(assignment_cast(s, lft.type, lft.cate, rht), LAMBDA t, r :
                   Ret(t, Whole(e, <<lft, r>>, r.type, r.cate)))
       [] e.a = "index" ->
            IF array = 0 \/ rht.type.texp # 0 \/ rht.type.spec \notin Arithmetic
              THEN ABORT(s)
            ELSE Then(Rvalues(s, lft, rht), LAMBDA t, subs :
                   Built(t, e, subs, subs[1].type.spec, subs[1].type.const, s.h[array].sub, "LValue"))

\* The arguments, from the last to the first.
RECURSIVE Expr(_, _)
Args(s, args, params) ==
  FoldRight(LAMBDA i, r :
              IF ~r.s.ok THEN r
              ELSE Then(Expr(r.s, args[i]), LAMBDA t, x :
                     Then(assignment_cast(t, params[i], "LValue", x), LAMBDA u, y :
                       Ret(u, <<y>> \o r.e))),
            [i \in DOMAIN args |-> i], Ret(s, <<>>))

Call(s0, e) ==
  Then(Expr(s0, e.subs[1]), LAMBDA s, head :
    IF ~Is(s.h, head.type.texp, "fun") THEN ABORT(s)
    ELSE LET fexp == s.h[head.type.texp]
             p    == New(s, PointerType(head.type.texp))
             f2p  == With(Cast("FunctionToPointerDecay", head),
                          Type(head.type.spec, head.type.const, Len(p.h)), "INVALID")
         IN IF Len(fexp.params) # Len(e.subs) - 1 THEN ABORT(s)
            ELSE Then(Args(p, Tail(e.subs), fexp.params), LAMBDA t, args :
                   Built(t, e, <<f2p>> \o args, head.type.spec, FALSE, fexp.sub, "RValue")))

Expr(s, e) ==
  CASE e.k = "int" ->
         Typed(s, e, IF e.a = "big" THEN "longlong" ELSE "int", TRUE, 0, "RValue")
    [] e.k = "ref" -> Ret(s, With(e, s.d[e.d], "LValue"))
    [] e.k = "paren" ->
         Then(Expr(s, e.subs[1]), LAMBDA t, x : Ret(t, Whole(e, <<x>>, x.type, x.cate)))
    [] e.k = "unary" ->
         Then(Expr(s, e.subs[1]), LAMBDA t, x :
           Then(Promoted(t, x), LAMBDA u, y :
             Built(u, e, <<y>>, IF e.a = "not" THEN "int" ELSE y.type.spec, FALSE, 0, "RValue")))
    [] e.k = "binary" ->
         Both(s, Expr, e.subs[1], e.subs[2], LAMBDA t, l, r : Binary(t, e, l, r))
    [] e.k = "call" -> Call(s, e)

\* The value of an expression, as the statements want it.
Value(s, e) == Then(Expr(s, e), ensure_rvalue)

-----------------------------------------------------------------------------
\* The initialisers.

\* What Ast2Asg has made of an initialiser: one level of braces is left, and
\* an empty pair is an ImplicitInitExpr.
RECURSIVE Flattened(_)
Flattened(e) ==
  IF e.k # "initlist" THEN e
  ELSE IF e.subs = <<>> THEN [e EXCEPT !.k = "implicit"]
  ELSE [e EXCEPT !.subs =
          FlattenSeq([i \in DOMAIN e.subs |->
                        LET x == Flattened(e.subs[i])
                        IN IF x.k = "initlist" THEN x.subs ELSE <<x>>])]

Implicit(to) ==
  [k |-> "implicit", a |-> "", d |-> 0, subs |-> <<>>, type |-> to, cate |-> "INVALID"]

\* infer_initlist returns the first element it has not used as well.
RECURSIVE infer_init(_, _, _), infer_initlist(_, _, _, _), Elements(_, _, _, _, _)

Using(r, next) == [s |-> r.s, e |-> r.e, next |-> next]
ListOf(r, type) ==
  Using(Ret(r.s, [k |-> "initlist", a |-> "", d |-> 0, subs |-> r.e, type |-> type, cate |-> "RValue"]), r.next)

infer_init(s, e, to) ==
  IF e.k = "implicit" /\ (to.texp = 0 \/ Is(s.h, to.texp, "arr")) THEN Ret(s, Implicit(to))
  ELSE IF to.texp = 0 THEN
    IF e.k # "initlist"
      THEN Then(Expr(s, e), LAMBDA t, x : assignment_cast(t, to, "LValue", x))
    ELSE IF e.subs = <<>> THEN Ret(s, Implicit(to))
    ELSE infer_init(s, e.subs[1], to)
  ELSE IF ~Is(s.h, to.texp, "arr") THEN ABORT(s)
  ELSE IF e.k = "initlist" THEN
    Then(infer_initlist(s, e.subs, 1, to), Ret)
  ELSE IF to.spec # "char" THEN ABORT(s)
  ELSE Then(Expr(s, e), LAMBDA t, x :   \* meant for string literals
    LET p == x.type.texp   unknown == t.h[to.texp].len = kUnLen
    IN IF ~Is(t.h, p, "arr") \/ t.h[p].sub # 0 \/ x.type.spec # "char" THEN ABORT(t)
       ELSE IF unknown THEN Ret([t EXCEPT !.h[to.texp].len = t.h[p].len], x)
       ELSE Ret([t EXCEPT !.h[p].len = t.h[to.texp].len], x))

infer_initlist(s, list, begin, to) ==
  IF to.texp = 0 THEN Using(infer_init(s, list[begin], to), begin + 1)
  ELSE LET q     == mTypeCache(s, to.spec, to.const, to.texp)
           grows == q.s.h[to.texp].len = kUnLen
           from  == IF grows THEN [q.s EXCEPT !.h[to.texp].len = 0] ELSE q.s
       IN ListOf(Elements(from, list, begin, [to |-> to, grows |-> grows], <<>>), q.t)

\* The rest of the loop, from the element r on, of an array whose length is
\* not known yet or is.
More(r, list, array, done) ==
  Elements(IF array.grows THEN [r.s EXCEPT !.h[array.to.texp].len = @ + 1] ELSE r.s,
           list, r.next, array, Append(done, r.e))

\* elemTy is a local of the caller.
Element(s, list, begin, array) ==
  infer_initlist(s, list, begin, [array.to EXCEPT !.texp = s.h[array.to.texp].sub, !.home = "stack"])

\* The loop runs once too often.
Elements_OneMore(s, list, begin, array, done) ==
  IF \/ ~s.ok \/ begin > Len(list)
     \/ ~array.grows /\ Len(done) > s.h[array.to.texp].len
  THEN Using(Ret(s, done), begin)
  ELSE More(Element(s, list, begin, array), list, array, done)

\* The loop over the elements of an array.  No element is of length 0, or the
\* loop of an array that grows would not end.
Elements(s, list, begin, array, done) ==
  IF \/ ~s.ok \/ begin > Len(list)
     \/ ~array.grows /\ Len(done) = s.h[array.to.texp].len
  THEN Using(Ret(s, done), begin)
  ELSE More(Element(s, list, begin, array), list, array, done)

-----------------------------------------------------------------------------
\* The declarations and the statements.

state == [h |-> texps, c |-> cache, d |-> declType, ok |-> TRUE, ub |-> FALSE]

Visits(k) == ~died /\ at <= Len(prog.items) /\ prog.items[at].k = k /\ at' = at + 1

\* What is left of the state after the visit; undefined behaviour on the way
\* may have ended the process instead.
Done(r) ==
  /\ UNCHANGED prog
  /\ \/ /\ ~r.s.ok \/ r.s.ub
        /\ died' = TRUE
        /\ UNCHANGED <<texps, cache, declType, typed>>
     \/ /\ r.s.ok
        /\ texps' = r.s.h /\ cache' = r.s.c /\ declType' = r.s.d
        /\ typed' = Append(typed, r.e)
        /\ UNCHANGED died

VisitVarDecl ==
  /\ Visits("var")
  /\ LET item == prog.items[at]   type == declType[item.d]
     IN Done(IF type.spec \notin Arithmetic THEN ABORT(state)
             ELSE IF item.init.k = "null" THEN Ret(state, Null)
             ELSE infer_init(state, Flattened(item.init), type))

\* A parameter of array type becomes a pointer, here and in the function's
\* type; the parameters are taken from the last to the first.
Param(s, f, i) ==
  LET d == prog.decls[f].params[i]   type == s.d[d]   fexp == s.d[f].texp
      p == New(s, PointerType(type.texp))
  IN IF ~s.ok \/ type.spec \notin Arithmetic THEN [s EXCEPT !.ok = FALSE]
     ELSE IF Is(s.h, type.texp, "arr")
       THEN [p EXCEPT !.d[d].texp = Len(p.h), !.h[fexp].params[i].texp = Len(p.h)]
       ELSE s

VisitFunctionDecl ==
  /\ Visits("func")
  /\ LET f == prog.items[at].d   type == declType[f]
         ps == prog.decls[f].params
         s == IF type.spec \notin Specs \/ ~Is(texps, type.texp, "fun")
                THEN [state EXCEPT !.ok = FALSE]
              ELSE FoldRight(LAMBDA i, t : Param(t, f, i), [i \in DOMAIN ps |-> i],
                     [state EXCEPT !.h[type.texp].params =
                                     [i \in DOMAIN ps |-> declType[ps[i]]]])
     IN Done(Ret(s, Null))

VisitExprStmt ==
  /\ Visits("expr")
  /\ Done(Value(state, prog.items[at].e))

\* IfStmt, WhileStmt and DoStmt.
VisitCondition ==
  /\ Visits("cond")
  /\ Done(Value(state, prog.items[at].e))

VisitReturnStmt ==
  /\ Visits("ret")
  /\ LET e == prog.items[at].e   ftype == declType[prog.items[at].f]
         q == mTypeCache(state, ftype.spec, ftype.const, 0)
     IN Done(IF (e.k = "null") # (ftype.spec = "void") THEN ABORT(state)
             ELSE IF e.k = "null" THEN Ret(state, Null)
             ELSE Then(Value(q.s, e), LAMBDA t, x : assignment_cast(t, q.t, "LValue", x)))

Next ==
  \/ VisitVarDecl
  \/ VisitFunctionDecl
  \/ VisitExprStmt
  \/ VisitCondition
  \/ VisitReturnStmt

Spec == Init /\ [][Next]_vars
=============================================================================
