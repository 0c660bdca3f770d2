--------------------------- MODULE TypeStrings ---------------------------
(***************************************************************************)
(* Types as strings: the parser of Json2Asg.cpp and the printer of         *)
(* Asg2Json.cpp.  A string is the sequence of its tokens, spaces apart; a  *)
(* type expression is the sequence of its derivations, in the order of the *)
(* sub pointers,                                                           *)
(*   [k : "arr", "fun", "ptr"; len : of an array; params : of a function]  *)
(* and a type is [spec, const, d].  A definition X_Y is X with the slip Y. *)
(***************************************************************************)
EXTENDS Integers, Sequences, SequencesExt

NoType == [spec |-> "INVALID", const |-> FALSE, d |-> <<>>]
Ptr == [k |-> "ptr", len |-> 0, params |-> <<>>]
Arr(n) == [k |-> "arr", len |-> n, params |-> <<>>]
FunOf(params) == [k |-> "fun", len |-> 0, params |-> params]

Tok(t) == [t |-> t, n |-> 0]
Num(n) == [t |-> "num", n |-> n]

-----------------------------------------------------------------------------
(***************************************************************************)
(* The parser.  A function returns [i, v]: the token after what it has     *)
(* read, or 0 for nullptr, and the value; ASSERT and ABORT give NoParse.   *)
(***************************************************************************)
Got(i, v) == [i |-> i, v |-> v]
Fails == Got(0, <<>>)

Match(s, i, t) == i # 0 /\ i <= Len(s) /\ s[i].t = t

BaseTokens == {"void", "char", "int", "long", "const"}

\* parse_base: a second specifier has to make long long.
Based(type, t) ==
  CASE t = "const" -> [type EXCEPT !.const = TRUE]
    [] t = "long" /\ type.spec = "long" -> [type EXCEPT !.spec = "longlong"]
    [] type.spec = "INVALID" -> [type EXCEPT !.spec = t]

\* The first derivation is put behind the last, whose sub is what it was put behind
\* before: of more than two derivations only these two are left.
RECURSIVE turn_texp(_)
turn_texp(d) == IF Len(d) <= 1 THEN d ELSE <<Head(turn_texp(Tail(d))), Head(d)>>

RECURSIVE parse_bases(_, _, _)
parse_bases(s, i, type) ==
  IF i <= Len(s) /\ s[i].t \in BaseTokens THEN parse_bases(s, i + 1, Based(type, s[i].t))
  ELSE Got(i, type)

RECURSIVE parse_type(_, _), parse_texp_0(_, _), parse_more(_, _, _), parse_texp_2(_, _),
          parse_args(_, _), parse_params(_, _, _)

parse_type(s, i) ==
  IF i > Len(s) \/ s[i].t \notin BaseTokens THEN Got(0, NoType)
  ELSE LET b == parse_bases(s, i, NoType)
           x == parse_texp_2(s, b.i)
       IN Got(x.i, [b.v EXCEPT !.d = turn_texp(x.v)])

\* The parenthesised part first, as an argument list only if that fails.
parse_texp_0_ParenFirst(s, i) ==
  LET array == Match(s, i, "[") /\ Match(s, i + 1, "num") /\ Match(s, i + 2, "]")
      args  == IF Match(s, i, "(") THEN parse_args(s, i + 1) ELSE Fails
      paren == IF Match(s, i, "(") THEN parse_texp_2(s, i + 1) ELSE Fails
  IN IF array THEN Got(i + 3, <<Arr(s[i + 1].n)>>)
     ELSE IF Match(s, paren.i, ")") THEN Got(paren.i + 1, paren.v)
     ELSE IF Match(s, args.i, ")") THEN Got(args.i + 1, <<FunOf(args.v)>>)
     ELSE Got(i, <<>>)

\* RULE_1, RULE_2 and RULE_3 in this order, and EMPTY.
parse_texp_0(s, i) ==
  LET array == Match(s, i, "[") /\ Match(s, i + 1, "num") /\ Match(s, i + 2, "]")
      args  == IF Match(s, i, "(") THEN parse_args(s, i + 1) ELSE Fails
      paren == IF Match(s, i, "(") THEN parse_texp_2(s, i + 1) ELSE Fails
  IN IF array THEN Got(i + 3, <<Arr(s[i + 1].n)>>)
     ELSE IF Match(s, args.i, ")") THEN Got(args.i + 1, <<FunOf(args.v)>>)
     ELSE IF Match(s, paren.i, ")") THEN Got(paren.i + 1, paren.v)
     ELSE Got(i, <<>>)

\* The loop of parse_texp_1: sup->sub = texp, whatever sup's sub was.
parse_more(s, i, texp) ==
  LET sup == parse_texp_0(s, i)
  IN IF sup.i = i THEN Got(i, texp) ELSE parse_more(s, sup.i, <<Head(sup.v)>> \o texp)

parse_texp_1(s, i) ==
  LET x == parse_texp_0(s, i) IN IF x.i = i THEN x ELSE parse_more(s, x.i, x.v)

parse_texp_2(s, i) ==
  IF Match(s, i, "*")
    THEN LET x == parse_texp_2(s, i + 1)
         IN IF x.i = 0 THEN Fails ELSE Got(x.i, <<Ptr>> \o x.v)
  ELSE parse_texp_1(s, i)

parse_args(s, i) ==
  LET x == parse_type(s, i) IN IF x.i = 0 THEN Got(i, <<>>) ELSE parse_params(s, x.i, <<x.v>>)

parse_params(s, i, params) ==
  LET x == parse_type(s, i + 1)
  IN IF ~Match(s, i, ",") THEN Got(i, params)
     ELSE IF x.i = 0 THEN Fails
     ELSE parse_params(s, x.i, Append(params, x.v))

\* getty: the string has to be read to its end.  mTyMap, which remembers the
\* types of strings, is left out: nothing changes a type that was read.
getty(s) ==
  LET x == parse_type(s, 1)
  IN [ok |-> x.i = Len(s) + 1, type |-> x.v]

-----------------------------------------------------------------------------
\* C's syntax of type names (C17 6.7.7), as clang writes them: a type is a
\* specifier and the derivations from the outside in, and its name is written
\* from the inside out.
RECURSIVE Declared(_, _), TypeName(_)
Separated(names) ==
  FoldLeft(LAMBDA s, i : s \o (IF i = 1 THEN <<>> ELSE <<Tok(",")>>) \o names[i],
           <<>>, [i \in DOMAIN names |-> i])

Declared(d, inner) ==
  IF d = <<>> THEN inner
  ELSE CASE Head(d).k = "arr" ->
              Declared(Tail(d), inner \o <<Tok("["), Num(Head(d).len), Tok("]")>>)
         [] Head(d).k = "fun" ->
              LET ps == Head(d).params IN
              Declared(Tail(d),
                inner \o <<Tok("(")>> \o Separated([i \in DOMAIN ps |-> TypeName(ps[i])])
                      \o <<Tok(")")>>)
         [] Head(d).k = "ptr" ->
              LET star == <<Tok("*")>> \o inner IN
              Declared(Tail(d), IF Tail(d) # <<>> /\ Head(Tail(d)).k # "ptr"
                                  THEN <<Tok("(")>> \o star \o <<Tok(")")>> ELSE star)

SpecName(type) ==
  (IF type.const THEN <<Tok("const")>> ELSE <<>>)
    \o IF type.spec = "longlong" THEN <<Tok("long"), Tok("long")>> ELSE <<Tok(type.spec)>>

TypeName(type) == SpecName(type) \o Declared(type.d, <<>>)

-----------------------------------------------------------------------------
\* The printer of Asg2Json, for a pointer p into a heap h of type expressions
\* as in Typing.tla.  A pointer prints the array it points to without its
\* length; kUnLen prints nothing.
RECURSIVE WriteTexp(_, _), WriteType(_, _)
Written(h, params) ==
  <<Tok("(")>> \o Separated([i \in DOMAIN params |-> WriteType(h, params[i])]) \o <<Tok(")")>>

WriteTexp(h, p) ==
  IF p = 0 THEN <<>>
  ELSE CASE h[p].k = "arr" ->
              <<Tok("[")>> \o (IF h[p].len = -1 THEN <<>> ELSE <<Num(h[p].len)>>)
                \o <<Tok("]")>> \o WriteTexp(h, h[p].sub)
         [] h[p].k = "fun" ->
              (IF h[p].sub = 0 THEN <<>>
               ELSE <<Tok("(")>> \o WriteTexp(h, h[p].sub) \o <<Tok(")")>>)
                \o Written(h, h[p].params)
         [] h[p].k = "ptr" /\ h[h[p].sub].k = "arr" ->
              IF h[h[p].sub].sub = 0 THEN <<Tok("*")>>
              ELSE <<Tok("("), Tok("*"), Tok(")")>> \o WriteTexp(h, h[h[p].sub].sub)
         [] h[p].k = "ptr" /\ h[h[p].sub].k = "fun" ->
              <<Tok("("), Tok("*"), Tok(")")>> \o Written(h, h[h[p].sub].params)

WriteType(h, type) == SpecName(type) \o WriteTexp(h, type.texp)
=============================================================================
