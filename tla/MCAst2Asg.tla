----------------------------- MODULE MCAst2Asg -----------------------------
(***************************************************************************)
(* Instances of Ast2Asg for TLC: bounded source files of three kinds, for  *)
(* expression trees, for scopes and jumps, and for array lengths.          *)
(***************************************************************************)
EXTENDS Ast2AsgExprs

CONSTANTS MaxOps,    \* operators of an expression
          MaxItems,  \* statements and declarations of a function
          SmallItems \* of each function in a file with two

\* Tokens are made with next relative to their own position.
Tk(kind, text) ==
  [kind |-> kind, text |-> text, next |-> 1, specs |-> <<>>, chars |-> <<>>, n |-> 0]
Span(kind, text, specs, inner, end) ==
  <<[Tk(kind, text) EXCEPT !.next = Len(inner) + 2, !.specs = specs]>>
  \o inner \o <<Tk(end, "")>>
Constant(chars, n) == <<[Tk("lit", "") EXCEPT !.chars = chars, !.n = n]>>
Lit(n) == Constant(<<n>>, n)  \* one digit
Ref(x) == <<Tk("ref", x)>>
Op(op) == <<Tk("op", op)>>
ListOf(chain) == Span("list", "", <<>>, chain, "endlist")
Un(op, e) == Span("un", op, <<>>, e, "endun")
Paren(e) == Span("paren", "", <<>>, e, "endparen")
Index(e, i) == e \o Span("index", "", <<>>, i, "endindex")
CallOf(e, args) ==
  e \o Span("call", "", <<>>, FlattenSeq([k \in DOMAIN args |-> args[k] \o <<Tk("arg", "")>>]), "endcall")
BracesOf(es) ==
  Span("braces", "", <<>>, FlattenSeq([k \in DOMAIN es |-> es[k] \o <<Tk("item", "")>>]), "endbraces")

ExprStmt(e) == Span("estmt", "", <<>>, e, "endestmt")
Return_(e) == Span("ret", "", <<>>, e, "endret")
If(e, b) == Span("if", "", <<>>, e \o b, "endif")
While(e, b) == Span("while", "", <<>>, e \o b, "endwhile")
Block(b) == Span("block", "", <<>>, b, "endblock")
Dim(e) == Span("dim", "", <<>>, e, "enddim")
Var(specs, x, dims, e) ==
  Span("var", x, specs, dims \o (IF e = <<>> THEN <<>> ELSE <<Tk("init", "")>> \o e), "endvar")
IntSpec == <<"int">>
ConstIntSpec == <<"const", "int">>

\* A parameter is [specs, text, dims]; its declarator is visited twice.
Params(kind, end, params) ==
  FlattenSeq([k \in DOMAIN params |-> Span(kind, params[k].text, params[k].specs, params[k].dims, end)])
Proto(x, params) ==
  Span("proto", x, IntSpec, Params("ptype", "endptype", params) \o <<Tk("again", "")>>
                        \o Params("pname", "endpname", params), "endproto")
Fdef(x, params, body) ==
  LET scope == Params("pdecl", "endpdecl", params) \o Block(body)
  IN Span("fdef", x, IntSpec, Params("ptype", "endptype", params)
                          \o <<[Tk("sig", "") EXCEPT !.next = Len(scope) + 2]>> \o scope, "endfdef")
IntParam(x) == [specs |-> IntSpec, text |-> x, dims |-> <<>>]

Placed(toks) == [i \in DOMAIN toks |-> [toks[i] EXCEPT !.next = i + @]]

-----------------------------------------------------------------------------
(* Expressions by the rules of C.g4, one operator for each rule; level 1   *)
(* is "expression", 9 unaryExpression, 10 postfixExpression, 11 primary.   *)

RuleOps == <<{","}, {"=", "+="}, {"||"}, {"&&"}, {"|", "=="}, {"<"}, {"-"}, {"*"}>>

\* all: the expressions of a level with n operators; open: those that are a
\* chain e (op e)+ of the level's own rule, not yet a list.
Table ==
  LET row(tab, n, l) ==
        LET at_(m, k) == tab[<<m, k>>].all
            split(F(_)) == UNION {F(j) : j \in 0 .. n - 1}
            chains ==
              IF l = 2
              THEN split(LAMBDA j : {a \o Op(o) \o b : a \in at_(j, 9), o \in RuleOps[2], b \in at_(n - 1 - j, 2)})
              ELSE split(LAMBDA j : {a \o Op(o) \o b : a \in at_(j, l + 1) \cup tab[<<j, l>>].open,
                                                       o \in RuleOps[l], b \in at_(n - 1 - j, l + 1)})
            own ==
              CASE n = 0   -> {}
                [] l <= 8  -> {ListOf(c) : c \in chains}
                [] l = 9   -> {Un("-", e) : e \in at_(n - 1, 9)}
                [] l = 10  -> split(LAMBDA j : {Index(a, i) : a \in at_(j, 10), i \in at_(n - 1 - j, 1)})
                              \cup split(LAMBDA j : {CallOf(a, <<i>>) : a \in at_(j, 10), i \in at_(n - 1 - j, 2)})
                              \cup {CallOf(a, <<>>) : a \in at_(n - 1, 10)}
                              \cup {CallOf(a, <<Lit(1), Lit(1)>>) : a \in at_(n - 1, 10)}
                [] l = 11  -> {Paren(e) : e \in at_(n - 1, 1)}
            below == IF l = 11 THEN (IF n = 0 THEN {Lit(1)} ELSE {}) ELSE at_(n, l + 1)
        IN tab @@ (<<n, l>> :> [all |-> own \cup below, open |-> IF l <= 8 /\ n > 0 THEN chains ELSE {}])
      cells == [k \in 1 .. (MaxOps + 1) * 11 |-> <<(k - 1) \div 11, 11 - ((k - 1) % 11)>>]
  IN FoldLeft(LAMBDA tab, c : row(tab, c[1], c[2]), <<>>, cells)

TreeSources == {Fdef("f", <<>>, ExprStmt(e)) : e \in Table[<<MaxOps, 1>>].all}

-----------------------------------------------------------------------------
(* Functions of at most max items, over the names x and f.                 *)

ItemLists(max, leaves, nests) ==
  LET body[n \in 0 .. max] ==
        IF n = 0 THEN {<<>>}
        ELSE UNION {{s \o b : s \in (IF k = 1 THEN leaves ELSE {})
                                         \cup (IF "block" \in nests THEN {Block(c) : c \in body[k - 1]} ELSE {})
                                         \cup (IF "if" \in nests THEN {If(Lit(1), c) : c \in body[k - 1]} ELSE {})
                                         \cup (IF "while" \in nests THEN {While(Lit(1), c) : c \in body[k - 1]} ELSE {}),
                              b \in body[n - k]} : k \in 1 .. n}
  IN UNION {body[n] : n \in 0 .. max}

ScopeLeaves ==
  {Var(IntSpec, "x", <<>>, <<>>), Var(IntSpec, "x", <<>>, Ref("x")), ExprStmt(Ref("x")),
   ExprStmt(CallOf(Ref("f"), <<Ref("x")>>)), Var(IntSpec, "f", <<>>, <<>>)}

ScopeSources ==
  {g \o Fdef("f", p, b) \o Var(IntSpec, "g", <<>>, Ref("f")) :
     g \in {<<>>, Var(IntSpec, "x", <<>>, <<>>), Proto("x", <<IntParam("x")>>)},
     p \in {<<>>, <<IntParam("x")>>, <<IntParam("f")>>},
     b \in ItemLists(MaxItems, ScopeLeaves, {"block"})}

JumpLeaves == {<<Tk("break", "")>>, <<Tk("continue", "")>>, Return_(<<>>)}
JumpSources ==
  LET bodies == ItemLists(SmallItems, JumpLeaves, {"if", "while"})
  IN {Fdef("f", <<>>, b) \o Proto("x", <<IntParam("x")>>) \o Fdef("g", <<>>, c) : b \in bodies, c \in bodies}

-----------------------------------------------------------------------------
(* Array lengths made of constants, in the file, in a function and in a    *)
(* parameter; and the specifiers that are refused.                         *)

Lengths ==
  {Lit(3), Ref("n"), Un("-", Ref("n")), ListOf(Ref("n") \o Op("-") \o Lit(1) \o Op("-") \o Lit(1)),
   ListOf(Constant(<<0, 1, 0>>, 8) \o Op("+") \o Un("+", Ref("n"))), ListOf(Ref("n") \o Op("*") \o Lit(2)), Paren(Ref("n"))}
Initialisers ==
  Lengths \cup {BracesOf(<<Ref("n"), Lit(0)>>), BracesOf(<<BracesOf(<<Lit(5)>>), Lit(4)>>), BracesOf(<<>>),
                BracesOf(<<BracesOf(<<>>), Lit(4)>>)}
Specs == {IntSpec, ConstIntSpec, <<"int", "const">>, <<"const">>, <<"long">>, <<"int", "int">>}

LengthSources ==
  \* constants that depend on one another, and hide one another
  {Var(ConstIntSpec, "n", <<>>, e) \o Fdef("f", <<>>, Var(s, "n", <<>>, d) \o Var(IntSpec, "a", Dim(l), <<>>)) :
     e \in {Lit(7)}, s \in Specs, d \in Initialisers \cup {<<>>}, l \in Lengths}
  \cup {Var(s, "n", <<>>, d) \o Var(IntSpec, "a", Dim(l) \o Dim(Ref("n")), <<>>) :
     s \in Specs, d \in {Constant(<<1, 0>>, 10), Constant(<<0, 16, 1, 15>>, 31), BracesOf(<<Lit(6)>>), Ref("n"), <<>>}, l \in Lengths}
  \* arrays as parameters, next to parameters and functions of that name
  \cup {Var(ConstIntSpec, "n", <<>>, Lit(7)) \o Var(IntSpec, "m", <<>>, <<>>) \o
        (IF proto THEN Proto(f, ps) ELSE Fdef(f, ps, Var(IntSpec, "b", Dim(Ref("n")), <<>>))) :
     proto \in BOOLEAN, f \in {"f", "n"},
     ps \in {<<q, [specs |-> IntSpec, text |-> "a", dims |-> Dim(l)]>> :
                q \in {IntParam("m"), IntParam("n"), [IntParam("n") EXCEPT !.specs = ConstIntSpec]},
                l \in Lengths \cup {Ref("m")}}}
  \cup {Fdef("f", <<>>, <<Tk("null", "")>>) \o <<Tk("unsupported", "")>> \o Var(IntSpec, "n", <<>>, <<>>)}

MCSources == {Placed(s) : s \in TreeSources \cup ScopeSources \cup JumpSources \cup LengthSources}
=============================================================================
