----------------------------- MODULE MCParser -----------------------------
(***************************************************************************)
(* Instances of Reading for TLC: every well-formed expression with two     *)
(* operators, and with three from one of each level; statements within     *)
(* statements; the heads of "for"; declarators, initialisers and files.    *)
(***************************************************************************)
EXTENDS Reading, TLC

CONSTANT FewOps  \* the operators of the expressions with three

x == Leaf("x")
one == Leaf("1")

\* The expressions of n operators from ops, for every n up to max.
RECURSIVE Table(_, _, _)
Table(ops, leaves, max) ==
  IF max = 0 THEN <<leaves>>
  ELSE LET table == Table(ops, leaves, max - 1)
           of(n) == table[n + 1]
           n == max - 1
           splits == {s \in (0 .. n) \X (0 .. n) : s[1] + s[2] = n}
           splits3 == {s \in (0 .. n) \X (0 .. n) \X (0 .. n) : s[1] + s[2] + s[3] = n}
           arity(op) == Len(Operators[op].needs)
           operands(op) ==
             CASE arity(op) = 1 -> {<<a>> : a \in of(n)}
               [] arity(op) = 2 -> UNION {of(s[1]) \X of(s[2]) : s \in splits}
               [] arity(op) = 3 -> UNION {of(s[1]) \X of(s[2]) \X of(s[3]) : s \in splits3}
       IN Append(table, UNION {{e \in {Tree(op, k) : k \in operands(op)} : Fits(e)} : op \in ops})
Exprs(ops, leaves, max) == Table(ops, leaves, max)[max + 1]

Specs(words) == Tree("specs", Map(Leaf, words))
Int_ == Specs(<<"int">>)
Fun(params) == Tree("function", params)
Array(len) == Tree("array", len)
Named(name, ds) == Tree(name, ds)
Declared(d) == Tree("init", <<d>>)
Decl(specs, ds) == Tree("decl", <<specs>> \o ds)
Block(ss) == Tree("{", ss)
Fdef(params, ss) == Tree("fdef", <<Int_, Named("f", <<Fun(params)>>), Block(ss)>>)
Expr(e) == Tree("expr", <<e>>)
File(ds) == Tree("file", ds)

ExprPrograms ==
  {File(<<Fdef(<<>>, <<Expr(e)>>)>>) :
     e \in Exprs(DOMAIN Operators, {x}, 2) \cup Exprs(DOMAIN Operators, {x, Tree("()", <<one>>)}, 1)
           \cup Exprs(FewOps, {x}, 3)}

\* Statements of every kind around one or two others.
Simple == {Expr(x), Expr(None), Tree("return", <<None>>), Leaf("break"), Block(<<>>)}
Around(inner) ==
  {Tree(op, <<x, s>>) : op \in {"if", "while", "switch"}, s \in inner}
  \cup {Tree("if", <<x, s, r>>) : s \in inner, r \in inner}
  \cup {Tree("do", <<s, x>>) : s \in inner}
  \cup {Block(<<s, r>>) : s \in inner, r \in inner}
  \cup {Tree("for", <<e, e, e, s>>) : s \in inner, e \in {None, Tree(",", <<x, x>>)}}
  \cup {Tree(op, <<Leaf("x"), s>>) : op \in {"label", "case"}, s \in inner}
  \cup {Tree("default", <<s>>) : s \in inner}
Nested ==
  LET inner == {Expr(x), Leaf("continue")}
      once == Around(inner)
      reps == {s \in once : \A k \in DOMAIN Kids(s) : Kids(s)[k] # Leaf("continue")} \cup inner
  IN {s \in Around(reps) \cup Around(Simple) : ElsesFit(s)}
  \cup {Tree("goto", <<x>>), Tree("return", <<Tree("()", <<x>>)>>), Leaf("continue"),
        Tree("for", <<Decl(Int_, <<Tree("init", <<Named("x", <<>>), one>>)>>), x, None, Expr(x)>>)}

StmtPrograms == {File(<<Fdef(<<>>, <<s>>)>>) : s \in Nested}

\* Declarators of at most two derivations, initialisers, several declared names.
Derivations ==
  {Leaf("pointer"), Array(<<>>), Array(<<Tree("+", <<x, one>>)>>), Fun(<<>>),
   Fun(<<Tree("param", <<Int_, Named("x", <<>>)>>), Tree("param", <<Int_, Named("y", <<Array(<<>>)>>)>>)>>),
   Fun(<<Tree("param", <<Specs(<<"void">>), None>>)>>)}
Declarators == {Named("x", ds) : ds \in UNION {[1 .. n -> Derivations] : n \in 0 .. 3}}
Inits ==
  LET list(es) == Tree("{}", es)
  IN {one, x, list(<<>>), list(<<one>>), list(<<one, Tree("=", <<x, one>>)>>), list(<<list(<<one, x>>), list(<<>>)>>)}

Declarations ==
  {Decl(Int_, <<Declared(d)>>) : d \in Declarators}
  \cup {Decl(Specs(s), <<Tree("init", <<d, e>>)>> \o more) :
          s \in {<<"const", "int">>, <<"int", "const">>, <<"unsigned", "long">>, <<"static", "int">>},
          d \in {Named("x", <<>>), Named("x", <<Array(<<one>>)>>)}, e \in Inits,
          more \in {<<>>, <<Declared(Named("y", <<Array(<<one>>)>>)), Tree("init", <<Named("f", <<>>), one>>)>>}}

DeclPrograms ==
  {File(<<d>>) : d \in Declarations}
  \cup {File(<<Fdef(<<>>, <<d, Expr(x)>>)>>) : d \in Declarations}
  \cup {File(<<d, Fdef(<<Tree("param", <<Int_, Named("x", <<>>)>>)>>, <<d>>), d>>) :
          d \in {Decl(Int_, <<Declared(Named("x", <<>>))>>), Decl(Int_, <<Declared(Named("f", <<Fun(<<>>)>>))>>)}}

\* Names in parentheses, and what may stand before or behind them.
CastPrograms ==
  {File(<<Fdef(<<>>, <<Expr(e)>>)>>) :
     e \in Exprs({"-", "&&", "cast", "psizeof", "call0", "call1", "[]", "()"}, {x}, 3)}

\* The head of a "for": expressions with one operator, with two, those that look
\* like declarations with three, and declarations with and without an initialiser.
Heads ==
  Exprs({"*", "^", "-", "=", "*=", ",", "call0", "call1", "call2", "[]", "()", "p*", "p-", "q++"}, {x}, 2)
  \cup Exprs(DOMAIN Operators, {x, Tree("()", <<one>>)}, 1)
  \cup Exprs({"*", "^", "call1", ",", "="}, {x}, 3)
  \cup {Decl(specs, <<Declared(d)>> \o more) :
          specs \in {Int_, Specs(<<"const", "int">>)}, d \in {Named("x", ds) : ds \in UNION {[1 .. n -> Derivations] : n \in 0 .. 1}},
          more \in {<<>>, <<Declared(Named("y", <<>>))>>}}
ForPrograms == {File(<<Fdef(<<>>, <<Tree("for", <<e, x, None, Expr(x)>>)>>)>>) : e \in Heads}

MCPrograms == ExprPrograms \cup StmtPrograms \cup DeclPrograms \cup CastPrograms \cup ForPrograms
=============================================================================
