---------------------------- MODULE MCTask2 ----------------------------
(***************************************************************************)
(* Programs for task 2: every expression of one or two operators over the  *)
(* declarations below, after a statement that puts types into the cache,   *)
(* and initialisers with and without inner braces.                         *)
(***************************************************************************)
EXTENDS Task2

Lit(a) == [k |-> "int", a |-> a, d |-> 0, subs |-> <<>>]
Ref(d) == [k |-> "ref", a |-> "", d |-> d, subs |-> <<>>]
Paren(e) == [k |-> "paren", a |-> "", d |-> 0, subs |-> <<e>>]
Un(op, e) == [k |-> "unary", a |-> op, d |-> 0, subs |-> <<e>>]
Bin(op, l, r) == [k |-> "binary", a |-> op, d |-> 0, subs |-> <<l, r>>]
CallOf(f, args) == [k |-> "call", a |-> "", d |-> 0, subs |-> <<Ref(f)>> \o args]
List(es) == [k |-> "initlist", a |-> "", d |-> 0, subs |-> es]

Var(spec, const, lens) ==
  [fn |-> FALSE, spec |-> spec, const |-> const, lens |-> lens, params |-> <<>>]
Func(spec, params) ==
  [fn |-> TRUE, spec |-> spec, const |-> FALSE, lens |-> <<>>, params |-> params]

\*   char c; int x; long long l; const int k = 1; int a[2][3]; int m[3];
\*   const int v[4] = {1, 1}; int u[] = {1, k, k};
\*   void f(int n, int p[][3]); int g(const int q[]); int h(int w[4]);
\*   int o(int z[]);
Decls ==
  <<Var("char", FALSE, <<>>), Var("int", FALSE, <<>>), Var("longlong", FALSE, <<>>),
    Var("int", TRUE, <<>>), Var("int", FALSE, <<2, 3>>), Var("int", FALSE, <<3>>),
    Var("int", TRUE, <<4>>), Var("int", FALSE, <<kUnLen>>),
    Func("void", <<10, 11>>), Var("int", FALSE, <<>>), Var("int", FALSE, <<kUnLen, 3>>),
    Func("int", <<13>>), Var("int", TRUE, <<kUnLen>>),
    Func("int", <<15>>), Var("int", FALSE, <<4>>),
    Func("int", <<17>>), Var("int", FALSE, <<kUnLen>>)>>
c == 1   x == 2   l == 3   k == 4   a == 5   m == 6   v == 7   u == 8   f == 9
n == 10   p == 11   g == 12   q == 13   h == 14   w == 15   o == 16   z == 17

VarItem(d, e) == [k |-> "var", d |-> d, init |-> e]
FuncItem(d) == [k |-> "func", d |-> d]
Stmt(e) == [k |-> "expr", e |-> e]
Cond(e) == [k |-> "cond", e |-> e]
Return(fn, e) == [k |-> "ret", f |-> fn, e |-> e]

Globals ==
  <<VarItem(k, Lit("small")), VarItem(v, List(<<Lit("small"), Lit("small")>>)),
    VarItem(u, List(<<Lit("small"), Ref(k), Ref(k)>>))>>

Leaves == {Ref(d) : d \in {c, x, l, k, n}} \cup {Lit("small"), Lit("big")}
Arrays == {Ref(d) : d \in {a, m, v, u, p, q, w, z}}
Elements_ == {Bin("index", r, Lit("small")) : r \in Arrays}
Ops == {"arith", "rel", "logic", "comma", "assign", "index"}

One ==
  {Un(op, e) : op \in {"neg", "not"}, e \in Leaves \cup Elements_}
    \cup {Bin(op, e1, e2) : op \in Ops, e1, e2 \in Leaves \cup {Ref(a), Ref(q)}}
    \cup {Bin("index", Bin("index", r, Ref(x)), e) : r \in {Ref(a), Ref(p)}, e \in Leaves}
    \cup {Bin("assign", e1, e2) : e1, e2 \in Elements_ \cup {Bin("index", Bin("index", Ref(a), Ref(x)), Ref(x))}}
    \cup {CallOf(f, <<e1, e2>>) : e1 \in {Ref(c), Lit("small"), Ref(m)}, e2 \in Arrays}
    \cup {CallOf(g, <<e>>) : e \in Arrays \cup Elements_}
    \cup {CallOf(fn, <<e>>) : fn \in {h, o}, e \in Arrays \cup {Paren(Bin("comma", Ref(x), Ref(z)))}}
    \cup {CallOf(g, <<>>)}

Two ==
  {Bin(op, Paren(e), Ref(c)) : op \in {"arith", "rel", "comma"},
     e \in {Bin("arith", Ref(l), Ref(c)), Bin("assign", Ref(x), Ref(k)), CallOf(g, <<Ref(u)>>)}}

\* The trees: node(kind, item, below).
node(kind, i, subs) == [k |-> kind, i |-> i, subs |-> subs]
leaf(kind) == node(kind, 0, <<>>)
compound(subs) == node("compound", 0, subs)

GlobalNodes == <<node("var", 1, <<>>), node("var", 2, <<>>), node("var", 3, <<>>),
                 node("func", 4, <<>>), node("func", 5, <<>>), node("func", 6, <<>>)>>
InFunction(stmts) == GlobalNodes \o <<node("func", 7, <<compound(stmts \o <<node("return", 10, <<>>)>>)>>)>>

\* A statement that puts types into the cache, before the expression or in
\* the body of its loop.
Warm(s) ==
  CASE s = 1 -> [before |-> FALSE, stmt |-> Un("neg", Ref(l)),
                 tree |-> <<node("expr", 8, <<>>), node("if", 9, <<leaf("null"), compound(<<>>)>>)>>]
    [] s = 2 -> [before |-> FALSE, stmt |-> Bin("index", Ref(m), Ref(x)),
                 tree |-> <<node("expr", 8, <<>>), node("if", 9, <<leaf("null")>>)>>]
    [] s = 3 -> [before |-> TRUE, stmt |-> Bin("index", Bin("index", Ref(a), Ref(x)), Ref(x)),
                 tree |-> <<node("while", 8, <<compound(<<node("expr", 9, <<>>), leaf("continue"), leaf("break")>>)>>)>>]
    [] s = 4 -> [before |-> TRUE, stmt |-> CallOf(g, <<Ref(v)>>),
                 tree |-> <<node("do", 8, <<node("expr", 9, <<>>)>>)>>]

Expressions ==
  {LET first == Warm(s) IN
   [decls |-> Decls,
    items |-> Globals \o <<FuncItem(f), FuncItem(h), FuncItem(o), FuncItem(g)>>
                \o (IF first.before THEN <<Cond(e), Stmt(first.stmt)>> ELSE <<Stmt(first.stmt), Cond(e)>>)
                \o <<Return(g, e)>>,
    tree |-> InFunction(first.tree)] : s \in 1 .. 4, e \in One \cup Two}

Lists ==
  {List([i \in 1 .. j |-> Lit("small")]) : j \in 0 .. 6}
    \cup {List(<<List(<<Lit("small")>>), List(<<Ref(x)>>)>>), List(<<List(<<>>), Ref(x)>>),
          List(<<List(<<Ref(x), Lit("small"), Lit("small")>>), List(<<Ref(c)>>)>>),
          List(<<List(<<Lit("small"), Lit("small"), Lit("small")>>),
                 List(<<Lit("small"), Ref(x), Lit("small")>>)>>)}

Initialised ==
  {[decls |-> <<Var("char", FALSE, <<>>), Var("int", FALSE, <<>>), Var("int", FALSE, lens), Func("void", <<>>)>>,
    items |-> <<FuncItem(4), VarItem(3, e), Stmt(IF Len(lens) = 0 THEN Ref(3) ELSE Bin("index", Ref(3), Ref(2))),
                Return(4, Null)>>,
    tree |-> <<node("func", 1, <<compound(<<node("decl", 0, <<node("var", 2, <<>>)>>),
                                            node("expr", 3, <<>>), node("return", 4, <<>>)>>)>>)>>] :
      lens \in {<<>>, <<3>>, <<kUnLen>>, <<2, 3>>, <<kUnLen, 3>>, <<3, 2>>}, e \in Lists}

MCPrograms == {prg \in Expressions \cup Initialised : VisitsInOrder(prg)}
=============================================================================
