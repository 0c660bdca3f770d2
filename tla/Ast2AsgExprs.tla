--------------------------- MODULE Ast2AsgExprs ---------------------------
(***************************************************************************)
(* Expressions in Ast2Asg: eval_arrlen, which follows references, and what *)
(* C says of the expressions and of the array lengths of a source file.    *)
(***************************************************************************)
EXTENDS Ast2Asg

-----------------------------------------------------------------------------
(* eval_arrlen. *)

\* The value of a Constant: of digits in base ten, eight or sixteen.
LiteralValue(chars) ==
  LET value(digits, base) == FoldLeft(LAMBDA v, digit : v * base + digit, 0, digits)
  IN IF chars[1] # 0 THEN value(chars, 10)
     ELSE IF Len(chars) = 1 THEN 0
     ELSE IF chars[2] = 16 THEN value(SubSeq(chars, 3, Len(chars)), 16)
     ELSE value(Tail(chars), 8)

\* The length that a constant without an initialiser gives: the process dies.
NoInit == {}

\* eval_arrlen: the value in a set, which is empty when it dies.  References
\* are followed into the initialiser of the constant they were linked to.
RECURSIVE EvalArrlen(_, _, _, _)
EvalArrlen(file, declOf, initOf, e) ==
  LET eval(x) == EvalArrlen(file, declOf, initOf, x)
  IN CASE e = Null -> NoInit
       [] e[1] = "leaf" /\ file[e[2]].kind = "lit" -> {LiteralValue(file[e[2]].chars)}
       [] e[1] = "leaf" /\ file[e[2]].kind = "ref" ->
            LET d == declOf[e[2]]
            IN IF file[d].kind \in {"var", "pdecl"}
                  /\ \E s \in Specified(file[d].specs) : s.const /\ s.spec = "int"
               THEN eval(initOf[d]) ELSE {}
       [] e[1] = "u+" -> eval(e[2])
       [] e[1] = "u-" -> {0 - x : x \in eval(e[2])}
       [] e[1] \in {"+", "-"} ->
            {IF e[1] = "+" THEN x + y ELSE x - y : x \in eval(e[2]), y \in eval(e[3])}
       [] e[1] = "{}" -> eval(e[2])
       [] OTHER -> {}

-----------------------------------------------------------------------------
(* C's expressions and integer constants. *)

Precedence(op) ==
  CASE op = ","              -> 1
    [] op = "="              -> 2
    [] op = "||"             -> 3
    [] op = "&&"             -> 4
    [] op \in {"==", "!="}   -> 5
    [] op \in {"<", ">", "<=", ">="} -> 6
    [] op \in {"+", "-"}     -> 7
    [] op \in {"*", "/", "%"} -> 8

Opening == {"paren", "index", "call", "braces"}
Closing == {"endparen", "endindex", "endcall", "endbraces"}

\* C's expression for a sequence of lexemes, by precedence: an operator outside
\* of brackets with the lowest precedence is the root, the last one unless it is "=".
RECURSIVE Parse(_)
Parse(s) ==
  LET kind(k) == src[s[k]].kind
      depth(k) == Cardinality({j \in 1 .. k : kind(j) \in Opening})
                  - Cardinality({j \in 1 .. k : kind(j) \in Closing})
      part(i, j) == Parse(SubSeq(s, i, j))
      ops == {k \in DOMAIN s : kind(k) = "op" /\ depth(k) = 0}
      prec(k) == Precedence(src[s[k]].text)
      low == {k \in ops : \A j \in ops : prec(k) <= prec(j)}
      root == IF src[s[MinOf(low)]].text = "=" THEN MinOf(low) ELSE MaxOf(low)
      n == Len(s)
      open == MaxOf({k \in DOMAIN s : kind(k) \in Opening /\ depth(k) = 1})
      \* the commas of the bracket that ends the sequence
      ends == {k \in open .. n : kind(k) \in {"arg", "item"} /\ depth(k) = 1}
      from(k) == MaxOf({open} \cup {j \in ends : j < k}) + 1
      nth(m) == CHOOSE k \in ends : Cardinality({j \in ends : j <= k}) = m
      elements == [m \in 1 .. Cardinality(ends) |-> part(from(nth(m)), nth(m) - 1)]
  IN IF ops # {} THEN <<src[s[root]].text, part(1, root - 1), part(root + 1, n)>>
     ELSE IF kind(1) = "un" THEN <<Unary(src[s[1]].text), part(2, n)>>
     ELSE CASE kind(n) = "endindex"  -> <<"[]", part(1, open - 1), part(open + 1, n - 1)>>
            [] kind(n) = "endcall"   -> <<"call", part(1, open - 1)>> \o elements
            [] kind(n) = "endparen"  -> <<"()", part(2, n - 1)>>
            [] kind(n) = "endbraces" -> <<"{}">> \o elements
            [] OTHER                 -> Leaf(s[n])

\* The value of an array length made of literals, constants, + and -: a set
\* with at most one element.
RECURSIVE ConstantValue(_)
ConstantValue(t) ==
  CASE t[1] = "leaf" ->
         IF src[t[2]].kind = "lit" THEN {src[t[2]].n}
         ELSE LET d == Visible(src, t[2], src[t[2]].text)
              IN IF /\ d # 0
                    /\ src[d].kind = "var" /\ HasInit(src, d) /\ ~IsArray(src, d)
                    /\ IsConst(src[d].specs) /\ HasInt(src[d].specs)
                    /\ src[d].next <= t[2]  \* no value in its own initialiser
                 THEN ConstantValue(Parse(Inside(src, d))) ELSE {}
    [] t[1] = "u-" -> {0 - x : x \in ConstantValue(t[2])}
    [] t[1] = "u+" -> ConstantValue(t[2])
    [] t[1] = "+" -> {x + y : x \in ConstantValue(t[2]), y \in ConstantValue(t[3])}
    [] t[1] = "-" -> {x - y : x \in ConstantValue(t[2]), y \in ConstantValue(t[3])}
    [] t[1] = "{}" -> IF Len(t) = 1 THEN {} ELSE ConstantValue(t[2])
    [] OTHER -> {}

-----------------------------------------------------------------------------
(* Properties. *)

\* An array length is the value of C's constant expression in its place in the
\* source, whatever was declared between the constants and their use.
LengthsAreConstant ==
  \A i \in DOMAIN src :
    LET value == ConstantValue(Parse(Inside(src, i)))
    IN src[i].kind = "dim" /\ {len[i], value} \cap {{}} = {} => len[i] = value

\* Every ExprStmt gets the tree that C's precedence and associativity give its lexemes.
\* (Of the operators that SysY does not have some are dropped: see NodeOp, FirstOnly.)
TreesFollowPrecedence ==
  \A i \in DOMAIN src :
    /\ tree[i] # Null
    /\ \A k \in i .. src[i].next - 1 :
         src[k].kind = "op" => src[k].text \notin FirstOnly /\ NodeOp(src[k].text) = src[k].text
    => tree[i] = Parse(Inside(src, i))

\* The process dies for five reasons only: a name that C does not know there, one whose
\* own initialiser or list of parameters is not over and that hides no other, which
\* may well be C, a length that is not a constant expression of the kind above,
\* specifiers other than one type and "const", and what it does not support.
DiesOnlyOnErrors ==
  aborted =>
    CASE src[at].kind = "ref" -> Visible(src, at, src[at].text) \in {0} \cup NotEntered(src, at)
      [] src[at].kind = "enddim" ->
           ConstantValue(Parse(Inside(src, Top.tok))) = {}
      [] src[at].kind = "unsupported" -> TRUE
      [] OTHER ->
           LET w == src[at].specs
               types == {k \in DOMAIN w : w[k] # "const"}
           IN Cardinality(types) > 1 \/ \E k \in types : w[k] \notin {"int", "void"}
=============================================================================
