--------------------------- MODULE MCJsonDecls ---------------------------
(***************************************************************************)
(* Blocks of one variable of every type of up to three derivations, and    *)
(* of a scalar and an array with an initialiser of every shape below.      *)
(***************************************************************************)
EXTENDS JsonDecls

T(spec, const, d) == [spec |-> spec, const |-> const, d |-> d]
IntT == T("int", FALSE, <<>>)

Params == {<<>>, <<IntT>>, <<T("longlong", FALSE, <<>>), T("int", TRUE, <<Ptr>>)>>,
           <<T("int", FALSE, <<Ptr, Arr(2)>>), T("char", FALSE, <<Ptr, FunOf(<<IntT>>)>>)>>}
Derivations == {Ptr, Arr(2), Arr(3)} \cup {FunOf(ps) : ps \in Params}

\* No functions that return functions or arrays, no arrays of functions.
Legal(d) ==
  \A i \in 1 .. Len(d) - 1 :
    /\ d[i].k = "fun" => d[i + 1].k = "ptr"
    /\ d[i].k = "arr" => d[i + 1].k # "fun"

Types == {T(spec, const, d) :
            spec \in {"int", "longlong"}, const \in BOOLEAN,
            d \in {x \in UNION {[1 .. n -> Derivations] : n \in 0 .. 3} : Legal(x)}}

Lit == [k |-> "int", a |-> "", d |-> 0, subs |-> <<>>]
RefTo(i) == [k |-> "ref", a |-> "", d |-> i, subs |-> <<>>]
Un(op, e) == [k |-> "unary", a |-> op, d |-> 0, subs |-> <<e>>]
Bin(op, l, r) == [k |-> "binary", a |-> op, d |-> 0, subs |-> <<l, r>>]
List(es) == [k |-> "initlist", a |-> "", d |-> 0, subs |-> es]

Exprs == {RefTo(1), Bin("+", RefTo(2), Lit), Bin(",", Lit, RefTo(1)), Un("-", RefTo(2)), Un("~", Lit)}

Rows == {List([i \in 1 .. n |-> IF i = 1 THEN RefTo(1) ELSE Lit]) : n \in 0 .. 2}
Lists == {List([i \in 1 .. n |-> IF i % 2 = 0 THEN RefTo(2) ELSE Lit]) : n \in 0 .. 6}
           \cup {List(<<r>>) : r \in Rows} \cup {List(<<r, s>>) : r, s \in Rows}
           \cup {List(<<r, s, t>>) : r, s, t \in Rows}
           \cup {List(<<r, Lit, RefTo(1), s>>) : r, s \in Rows}
           \cup {List(<<List(<<List(<<RefTo(1)>>)>>), List(<<Lit, Lit, Lit>>)>>)}

Arrays == {<<2>>, <<4>>, <<3, 2>>, <<2, 2, 2>>}
Scalars == <<[type |-> IntT, init |-> Null], [type |-> IntT, init |-> RefTo(1)]>>

MCBlocks ==
  {<<[type |-> t, init |-> Null]>> : t \in Types}
    \cup {Scalars \o <<[type |-> IntT, init |-> e]>> : e \in Exprs}
    \cup {Scalars \o <<[type |-> TypeOf(lens), init |-> e]>> :
            lens \in Arrays, e \in Lists}
\* Braces around the initialiser of a scalar are left out.
RECURSIVE Bare(_)
Bare(j) == /\ j.kind = "InitListExpr" => j.type # TypeName(Scal("int"))
           /\ \A i \in DOMAIN j.sub : Bare(j.sub[i])
MCLegalBlocks ==
  {p \in MCBlocks : \A i \in DOMAIN p : p[i].init # Null =>
     Filled(p[i].init, Lens(p[i].type)).ok /\ Bare(VarJson(p, i))}
MCIds == 1 .. 3
=============================================================================
