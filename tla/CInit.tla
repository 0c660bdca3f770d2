------------------------------ MODULE CInit ------------------------------
(***************************************************************************)
(* Which cells of an object an initialiser fills in C (C17 6.7.9).  The    *)
(* object is an array of the lengths lens, or a scalar; a cell is a number *)
(* in memory order; an initialiser is an expression, or [k |-> "initlist", *)
(* subs] for one in braces.                                                *)
(***************************************************************************)
EXTENDS Integers, Sequences, SequencesExt, FiniteSetsExt, TLC

kUnLen == -1  \* UINT32_MAX, the length of a []

Size(lens) == FoldLeft(LAMBDA n, l : n * l, 1, lens)
Ceil(n, m) == (n + m - 1) \div m

\* The cells of an object of type lens, at base, that an initialiser fills:
\* [m : cell -> expression, next : the first of the list it has not used,
\*  ok : no braces hold too much].  An element that starts with a brace takes
\* the braced list, any other takes what it needs of the list.
Braced(e) == e.k = "initlist"
RECURSIVE Fill(_, _, _, _), FillAll(_, _, _, _, _)

FillAll(list, pos, lens, base, i) ==   \* the elements from the i-th on
  IF pos > Len(list) \/ (Head(lens) # kUnLen /\ i > Head(lens))
    THEN [m |-> <<>>, next |-> pos, ok |-> TRUE]
  ELSE LET one  == Fill(list, pos, Tail(lens), base + (i - 1) * Size(Tail(lens)))
           rest == FillAll(list, one.next, lens, base, i + 1)
       IN [m |-> one.m @@ rest.m, next |-> rest.next, ok |-> one.ok /\ rest.ok]

Fill(list, pos, lens, base) ==
  LET e == list[pos] IN
  IF lens = <<>> THEN
    [m |-> IF ~Braced(e) THEN base :> e ELSE IF e.subs = <<>> THEN <<>> ELSE base :> e.subs[1],
     next |-> pos + 1, ok |-> Braced(e) => Len(e.subs) <= 1]
  ELSE IF Braced(e) THEN
    LET all == FillAll(e.subs, 1, lens, base, 1)
    IN [m |-> all.m, next |-> pos + 1, ok |-> all.ok /\ all.next > Len(e.subs)]
  ELSE FillAll(list, pos, lens, base, 1)

Filled(e, lens) == Fill(<<e>>, 1, lens, 0)
CCells(e, lens) == Filled(e, lens).m

\* The length of an array that is declared without one (6.7.9, 22).
CLength(e, lens) ==
  Ceil(1 + Max(DOMAIN CCells(e, lens) \cup {-1}), Size(Tail(lens)))
=============================================================================
