----------------------------- MODULE CTypes -----------------------------
(***************************************************************************)
(* What C says of the programs of Typing.tla: the type of an expression    *)
(* (C17 6.5).  A C type is a specifier and the derivations from the        *)
(* outside in; pointers come from arrays only, and are subscripted and     *)
(* passed on, nothing else.                                                *)
(***************************************************************************)
EXTENDS Typing, TypeStrings

PtrTo == Ptr
ArrOf(n) == Arr(n)
Fun == [k |-> "fun"]

CType(spec, d) == [spec |-> spec, d |-> d]
IsArith(t) == t.d = <<>> /\ t.spec \in Arithmetic
IsArr(t) == t.d # <<>> /\ Head(t.d).k = "arr"
IsPtr(t) == t.d # <<>> /\ Head(t.d).k = "ptr"
Decayed(t) == IF IsArr(t) THEN [t EXCEPT !.d[1] = PtrTo] ELSE t

Higher(s1, s2) == IF Rank[s1] >= Rank[s2] THEN s1 ELSE s2
Arith(t1, t2) == CType(Higher("int", Higher(t1.spec, t2.spec)), <<>>)

\* What a Type stands for: a pointer to an array is a pointer to its elements.
RECURSIVE Derived(_, _)
Derived(h, p) ==
  IF p = 0 THEN <<>>
  ELSE CASE h[p].k = "arr" -> <<ArrOf(h[p].len)>> \o Derived(h, h[p].sub)
         [] h[p].k = "fun" -> <<Fun>>
         [] h[p].k = "ptr" ->
              <<PtrTo>> \o Derived(h, IF Is(h, h[p].sub, "arr") THEN h[h[p].sub].sub
                                      ELSE h[p].sub)
Denoted(h, type) == CType(type.spec, Derived(h, type.texp))

-----------------------------------------------------------------------------
\* The declared types.
Parameters(p) == UNION {{p.decls[f].params[i] : i \in DOMAIN p.decls[f].params} :
                          f \in {g \in DOMAIN p.decls : p.decls[g].fn}}

\* The lengths of an array, the first from its initialiser where none is written.
Inits(p, d) == {item.init : item \in {i \in Range(p.items) : i.k = "var" /\ i.d = d}}
Lengths(lens, inits) ==
  IF lens = <<>> \/ lens[1] # kUnLen \/ inits = {} THEN lens
  ELSE [lens EXCEPT ![1] = CLength(CHOOSE init \in inits : TRUE, lens)]

Array(spec, lens) == CType(spec, [i \in DOMAIN lens |-> ArrOf(lens[i])])
DeclaredAs(p, d) ==
  CASE p.decls[d].fn        -> CType(p.decls[d].spec, <<Fun>>)
    [] d \in Parameters(p) -> Decayed(Array(p.decls[d].spec, p.decls[d].lens))
    [] OTHER               -> Array(p.decls[d].spec, Lengths(p.decls[d].lens, Inits(p, d)))

\* The type of an expression, whether it is an lvalue and whether of a const
\* object; ok: it has a type at all.
Has(t, lv, const) == [ok |-> TRUE, t |-> t, lv |-> lv, const |-> const]
Value_(t) == Has(t, FALSE, FALSE)
Ill == [ok |-> FALSE, t |-> CType("void", <<>>), lv |-> FALSE, const |-> FALSE]

\* Whether a value of x fits an object of type t.
Assignable(t, const, x) ==
  /\ x.ok
  /\ \/ IsArith(t) /\ IsArith(x.t)
     \/ IsPtr(t) /\ Decayed(x.t) = t /\ (x.const => const)

\* An expression, of what its operands have.
CNode(p, e, x) ==
  LET both == x[1].ok /\ x[2].ok
      ints == both /\ IsArith(x[1].t) /\ IsArith(x[2].t)
  IN CASE e.k = "int" -> Value_(CType(IF e.a = "big" THEN "longlong" ELSE "int", <<>>))
       [] e.k = "ref" -> Has(DeclaredAs(p, e.d), TRUE, p.decls[e.d].const)
       [] e.k = "paren" -> x[1]
       [] e.k = "unary" ->
            IF ~x[1].ok \/ ~IsArith(x[1].t) THEN Ill
            ELSE Value_(IF e.a = "not" THEN CType("int", <<>>) ELSE Arith(x[1].t, x[1].t))
       [] e.k = "binary" /\ e.a = "arith" -> IF ints THEN Value_(Arith(x[1].t, x[2].t)) ELSE Ill
       [] e.k = "binary" /\ e.a \in {"rel", "logic"} ->
            IF ints THEN Value_(CType("int", <<>>)) ELSE Ill
       [] e.k = "binary" /\ e.a = "comma" -> IF both THEN Value_(Decayed(x[2].t)) ELSE Ill
       [] e.k = "binary" /\ e.a = "assign" ->
            IF ints /\ x[1].lv /\ ~x[1].const THEN Value_(x[1].t) ELSE Ill
       [] e.k = "binary" /\ e.a = "index" ->
            IF both /\ (IsArr(x[1].t) \/ IsPtr(x[1].t)) /\ IsArith(x[2].t)
              THEN Has([x[1].t EXCEPT !.d = Tail(@)], TRUE, x[1].const) ELSE Ill
       [] e.k = "call" ->
            LET f == e.subs[1].d   params == p.decls[f].params IN
            IF /\ e.subs[1].k = "ref" /\ p.decls[f].fn
               /\ Len(e.subs) = Len(params) + 1
               /\ \A i \in DOMAIN params :
                    Assignable(DeclaredAs(p, params[i]), p.decls[params[i]].const, x[i + 1])
            THEN Value_(CType(p.decls[f].spec, <<>>)) ELSE Ill
       [] OTHER -> Ill   \* braces in an expression

RECURSIVE CExpr(_, _)
CExpr(p, e) == CNode(p, e, [i \in DOMAIN e.subs |-> CExpr(p, e.subs[i])])

-----------------------------------------------------------------------------
\* The program that a typed expression was made from.
RECURSIVE Source(_)
Source(n) ==
  IF n.k = "cast" THEN Source(n.subs[1])
  ELSE [k |-> n.k, a |-> n.a, d |-> n.d, subs |-> [i \in DOMAIN n.subs |-> Source(n.subs[i])]]

CT(e) == CExpr(prog, e)
IsValue(n, d) == n.cate # "LValue" /\ ~IsArr(d)

\* A typed expression, what its type stands for and what C says of it.
Read(n) == [n |-> n, d |-> Denoted(texps, n.type), c |-> CT(Source(n)), value |-> IsValue(n, Denoted(texps, n.type))]

\* x has the type C gives it, and its operands the types it needs.
Fits(x, subs) ==
  LET n == x.n
      s == subs[1]
      r == subs[2]
      up == Arith(s.c.t, subs[Len(subs)].c.t)
  IN /\ n.type.home = "heap" \/ (n.k = "cast" /\ n.a = "IntegralCast")
     /\ n.k # "cast" => x.d = x.c.t /\ (n.cate = "LValue" <=> x.c.lv)
     /\ CASE n.k = "cast" ->
               (CASE n.a = "LValueToRValue" -> s.n.cate = "LValue" /\ ~IsArr(s.d) /\ x.d = s.d
                  [] n.a = "ArrayToPointerDecay" -> IsArr(s.d) /\ x.d = Decayed(s.d)
                  [] n.a = "IntegralCast" -> s.value /\ IsArith(s.d) /\ IsArith(x.d)
                  [] n.a = "FunctionToPointerDecay" -> s.d.d = <<Fun>>
                  [] n.a = "NoOp" -> x.d = s.d)
          [] n.k = "unary" -> s.value /\ s.d = up
          [] n.k = "binary" /\ n.a \in {"arith", "rel"} ->
               s.value /\ r.value /\ s.d = up /\ r.d = up
          [] n.k = "binary" /\ n.a \in {"logic", "comma"} -> s.value /\ r.value
          [] n.k = "binary" /\ n.a = "assign" -> s.n.cate = "LValue" /\ r.value /\ r.d = s.d
          [] n.k = "binary" /\ n.a = "index" -> s.value /\ IsPtr(s.d) /\ r.value
          [] n.k = "call" ->
               \A i \in 2 .. Len(subs) :
                 /\ subs[i].value
                 /\ subs[i].d = DeclaredAs(prog, prog.decls[Source(s.n).d].params[i - 1])
          [] OTHER -> TRUE

\* Every operator of an expression fits.
RECURSIVE WellTyped(_)
WellTyped(n) ==
  /\ Fits(Read(n), [i \in DOMAIN n.subs |-> Read(n.subs[i])])
  /\ \A i \in DOMAIN n.subs : WellTyped(n.subs[i])

\* A value of type t, from e.
Yields(n, e, t) ==
  Source(n) = e /\ WellTyped(n) /\ IsValue(n, t) /\ Denoted(texps, n.type) = t

\* The expressions that initialise the cells of an object, as they were typed.
RECURSIVE Cells(_, _, _)
Cells(n, lens, base) ==
  CASE n.k = "implicit" -> <<>>
    [] n.k = "initlist" ->
         FoldLeft(LAMBDA m, i : m @@ Cells(n.subs[i], Tail(lens),
                                           base + (i - 1) * Size(Tail(lens))),
                  <<>>, [i \in DOMAIN n.subs |-> i])
    [] OTHER -> base :> n

\* What an item asks of C, and the expressions in it.
RECURSIVE Within(_)
Within(e) == {e} \cup UNION {Within(e.subs[i]) : i \in DOMAIN e.subs}

InitCells(item) ==
  IF item.init.k = "null" THEN <<>> ELSE CCells(item.init, prog.decls[item.d].lens)

Number(c) == c.ok /\ IsArith(c.t)

Legal(item) ==
  CASE item.k \in {"expr", "cond"} -> CT(item.e).ok
    [] item.k = "ret" ->
         IF item.e.k = "null" THEN prog.decls[item.f].spec = "void"
         ELSE Number(CT(item.e)) /\ prog.decls[item.f].spec # "void"
    [] item.k = "var" ->
         /\ prog.decls[item.d].spec # "void"
         /\ item.init.k # "null" =>
              LET lens == prog.decls[item.d].lens IN
              /\ Filled(item.init, lens).ok
              /\ lens # <<>> => Braced(item.init) /\ DOMAIN InitCells(item) # {}
         /\ \A e \in Range(InitCells(item)) : Number(CT(e))
    [] item.k = "func" -> TRUE

\* No braces inside others leave elements out, but for the last ones.
RECURSIVE RowsAreFull(_, _)
RowsAreFull(e, lens) ==
  Braced(e) /\ lens # <<>> =>
    \A i \in DOMAIN e.subs :
      /\ RowsAreFull(e.subs[i], Tail(lens))
      /\ Braced(e.subs[i]) /\ i < Len(e.subs)
           => Cardinality(DOMAIN CCells(e.subs[i], Tail(lens))) = Size(Tail(lens))

FullRows(item) ==
  item.k = "var" /\ item.init.k # "null" => RowsAreFull(item.init, prog.decls[item.d].lens)

\* The typed items of a program that is legal up to them, and whose braces
\* Ast2Asg may remove.
TypedItems ==
  {i \in DOMAIN typed : \A j \in 1 .. i : Legal(prog.items[j]) /\ FullRows(prog.items[j])}

\* The values that an item needs: the typed expression, its source and type.
Demand(n, e, t) == [n |-> n, e |-> e, t |-> t]
Demanded(item, n) ==
  CASE item.k \in {"expr", "cond"} -> {Demand(n, item.e, Decayed(CT(item.e).t))}
    [] item.k = "ret" /\ item.e.k # "null" ->
         {Demand(n, item.e, CType(prog.decls[item.f].spec, <<>>))}
    [] item.k = "var" /\ item.init.k # "null" ->
         {Demand(c, Source(c), CType(prog.decls[item.d].spec, <<>>)) :
            c \in Range(Cells(n, prog.decls[item.d].lens, 0))}
    [] OTHER -> {}

-----------------------------------------------------------------------------
(***************************************************************************)
(* Typing gives every expression of a legal statement or initialiser the   *)
(* type C gives it, with the conversions C asks for and no other change to *)
(* the tree; and it keeps it, whatever is typed later: the types come from *)
(* a cache that is shared, and array lengths are filled in late.           *)
(***************************************************************************)
TypedAsInC ==
  \A i \in TypedItems : \A x \in Demanded(prog.items[i], typed[i]) : Yields(x.n, x.e, x.t)

(***************************************************************************)
(* An initialiser list fills the elements that C fills with it, although   *)
(* Ast2Asg has removed the inner braces before the types were known; and   *)
(* an array declared without a length gets the one C gives it.  Braces     *)
(* that leave elements out, and are not the last, are lost.                *)
(***************************************************************************)
InitsLandAsInC ==
  \A i \in TypedItems :
    LET item == prog.items[i] IN
    item.k = "var" /\ item.init.k # "null" =>
      LET lens  == prog.decls[item.d].lens
          cells == Cells(typed[i], lens, 0)
      IN /\ [c \in DOMAIN cells |-> Source(cells[c])] = CCells(item.init, lens)
         /\ Denoted(texps, declType[item.d]) = DeclaredAs(prog, item.d)

(***************************************************************************)
(* Where Typing aborts on a legal item: an assignment that converts its    *)
(* right operand has no category, and every parent asks for one; an array  *)
(* parameter with a length takes no array of unknown length.               *)
(***************************************************************************)
ConvertsAsValue(e) ==
  \E x \in Within(e) : /\ x.k = "binary" /\ x.a = "assign"
                       /\ CT(x).ok /\ CT(x.subs[1]).t # CT(x.subs[2]).t

\* An expression that is an array of unknown length: a parameter declared with [], or
\* an array that has no initialiser to take its length from.
RECURSIVE Unsized(_)
Unsized(e) ==
  CASE e.k = "paren" -> Unsized(e.subs[1])
    [] e.k = "binary" -> e.a = "comma" /\ Unsized(e.subs[2])
    [] e.k = "ref" -> /\ prog.decls[e.d].lens # <<>> /\ prog.decls[e.d].lens[1] = kUnLen
                      /\ e.d \in Parameters(prog) \/ Inits(prog, e.d) = {}
    [] OTHER -> FALSE

\* A call hands such an array to a parameter that is declared with a length.
LosesLength(e) ==
  \E x \in Within(e) :
    /\ x.k = "call" /\ x.subs[1].k = "ref"
    /\ LET params == prog.decls[x.subs[1].d].params
       IN \E i \in DOMAIN params \cap 1 .. Len(x.subs) - 1 :
            LET lens == prog.decls[params[i]].lens
            IN lens # <<>> /\ lens[1] # kUnLen /\ Unsized(x.subs[i + 1])

Exprs(item) ==
  CASE item.k = "var" -> Range(InitCells(item))
    [] item.k = "func" -> {}
    [] OTHER -> IF item.e.k = "null" THEN {} ELSE {item.e}

\* Two array types one of which continues the other have met in the cache.
Tails(lens) == {SubSeq(lens, i, Len(lens)) : i \in 1 .. Len(lens)}
RanksDiffer ==
  LET items == {prog.items[i] : i \in 1 .. at - 1}
      used  == {item.d : item \in {it \in items : it.k = "var"}}
                 \cup {x.d : x \in {y \in UNION {UNION {Within(e) : e \in Exprs(item)} : item \in items} :
                                     y.k = "ref"}}
      Lens(d) == IF d \in Parameters(prog) \/ prog.decls[d].fn THEN prog.decls[d].lens
                 ELSE [i \in DOMAIN prog.decls[d].lens |-> DeclaredAs(prog, d).d[i].len]
      all   == UNION {Tails(Lens(d)) : d \in used}
  IN \E s, t \in all : s # t /\ IsPrefix(s, t)

\* Typing ends the process on illegal items only, the cases above apart.
RejectsOnlyErrors ==
  died => LET item == prog.items[at - 1] IN
          \/ ~Legal(item)
          \/ RanksDiffer
          \/ \E e \in Exprs(item) : ConvertsAsValue(e) \/ LosesLength(e)

\* What the path to an element starts from.
RECURSIVE Root(_)
Root(e) == IF e.k \in {"paren", "binary"} THEN Root(e.subs[1]) ELSE e

(***************************************************************************)
(* No assignment to an element of a const array, or to a const object, is  *)
(* let through, except by way of a parameter: a const array that has       *)
(* become a parameter's pointer loses its const with the load.             *)
(***************************************************************************)
ConstKept ==
  \A i \in DOMAIN typed :
    prog.items[i].k \in {"expr", "cond", "ret"} /\ prog.items[i].e.k # "null" =>
      \A x \in Within(prog.items[i].e) :
        x.k = "binary" /\ x.a = "assign" /\ CT(x.subs[1]).const
          => Root(x.subs[1]).d \in Parameters(prog)

\* The process dies of the errors in the types of a program and of nothing else, and
\* no assignment to what is const gets past it.
RejectsRightly == RejectsOnlyErrors /\ ConstKept
=============================================================================
