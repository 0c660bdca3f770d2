------------------------------- MODULE MemIR -------------------------------
(***************************************************************************)
(* LLVM functions as mem2reg sees them: blocks of allocas, loads, stores   *)
(* and phis, with calls as everything else, and the graph of their         *)
(* branches, whose conditions are opaque.  Dominance, dominance frontiers  *)
(* and the effect of an execution are LLVM's own definitions.              *)
(***************************************************************************)
EXTENDS Integers, SequencesExt

CONSTANT Graphs   \* the control flow graphs: block number -> its successors
Entry == 1

\* Every successor is a block, and nothing branches back to the first one.
ASSUME MemIRAssumption ==
  \A g \in Graphs : /\ g \in Seq(Seq(Nat)) /\ Len(g) > 0
                   /\ \A b \in DOMAIN g : \A k \in DOMAIN g[b] : g[b][k] \in DOMAIN g \ {Entry}

\* Operands: a constant, what an instruction yields, undef and poison.
Const(n) == [k |-> "const", n |-> n]
Inst(id) == [k |-> "inst", n |-> id]
Undef == [k |-> "undef", n |-> 0]
Poison == [k |-> "poison", n |-> 0]
Operand == [k : {"const", "inst", "undef", "poison"}, n : Nat]
IsUndefValue(v) == v \in {Undef, Poison}

\* A store writes val through ptr, a load reads through ptr, a call is given val
\* and yields something new; inc are the entries of a phi.
PhiEntry == [val : Operand, pred : Nat]
Instr == [id : Nat, op : {"alloca", "load", "store", "call", "phi"},
          ptr : Operand, val : Operand, inc : Seq(PhiEntry)]
MkInstr(id, op, ptr, val) == [id |-> id, op |-> op, ptr |-> ptr, val |-> val, inc |-> <<>>]
Load(id, ptr) == MkInstr(id, "load", ptr, Undef)
Store(id, val, ptr) == MkInstr(id, "store", ptr, val)
Call(id, val) == MkInstr(id, "call", Undef, val)
Alloca(id) == MkInstr(id, "alloca", Undef, Undef)
Phi(id, inc) == [MkInstr(id, "phi", Undef, Undef) EXCEPT !.inc = inc]

-----------------------------------------------------------------------------
(* Where instructions are. *)

\* Each instruction has a number of its own.
Unique(f) ==
  \A b, c \in DOMAIN f : \A p \in DOMAIN f[b], q \in DOMAIN f[c] :
    f[b][p].id = f[c][q].id => b = c /\ p = q
Ids(f) == UNION {{f[b][p].id : p \in DOMAIN f[b]} : b \in DOMAIN f}
BlockOf(f, id) == CHOOSE b \in DOMAIN f : \E p \in DOMAIN f[b] : f[b][p].id = id
IndexOf(f, id) == LET b == BlockOf(f, id) IN CHOOSE p \in DOMAIN f[b] : f[b][p].id = id
InstrOf(f, id) == f[BlockOf(f, id)][IndexOf(f, id)]

Operands(i) == {i.ptr, i.val} \cup {i.inc[k].val : k \in DOMAIN i.inc}
Users(f, id) == {u \in Ids(f) : Inst(id) \in Operands(InstrOf(f, u))}

\* A map with v for a.
With(map, a, v) == [x \in DOMAIN map \cup {a} |-> IF x = a THEN v ELSE map[x]]

\* Value::replaceAllUsesWith, of all the values that by maps at once.
Replaced(v, by) == IF v.k = "inst" /\ v.n \in DOMAIN by THEN by[v.n] ELSE v
ReplacedIn(i, by) ==
  [i EXCEPT !.ptr = Replaced(@, by), !.val = Replaced(@, by),
            !.inc = [k \in DOMAIN @ |-> [val |-> Replaced(@[k].val, by), pred |-> @[k].pred]]]
Replace(f, by) == [b \in DOMAIN f |-> [p \in DOMAIN f[b] |-> ReplacedIn(f[b][p], by)]]
\* What is at the places P of s, in order.
Picked(s, P) == [k \in 1 .. Cardinality(P) |-> s[CHOOSE p \in P : Cardinality({q \in P : q <= p}) = k]]
Erase(f, ids) == [b \in DOMAIN f |-> Picked(f[b], {p \in DOMAIN f[b] : f[b][p].id \notin ids})]

-----------------------------------------------------------------------------
(* The graph. *)

Succs(g, b) == ToSet(g[b])
Preds(g, b) == {p \in DOMAIN g : b \in Succs(g, p)}
Edges(g, p, b) == IF p \in DOMAIN g THEN Cardinality({k \in DOMAIN g[p] : g[p][k] = b}) ELSE 0
PredEdges(g, b) == UNION {{p} \X {k \in DOMAIN g[p] : g[p][k] = b} : p \in DOMAIN g}
PredSize(g, b) == Cardinality(PredEdges(g, b))

\* The blocks on a path from b that avoids cut.
Closure(g, B, cut) ==
  LET closure[C \in SUBSET DOMAIN g] ==
        LET more == (UNION {Succs(g, b) : b \in C}) \ (C \cup cut)
        IN IF more = {} THEN C ELSE closure[C \cup more]
  IN closure[B]
Reachable(g) == Closure(g, {Entry}, {})
Dominates(g, b, c) == b = c \/ b = Entry \/ c \notin Closure(g, {Entry}, {b})

\* The pruned iterated dominance frontier (llvm::ForwardIDFCalculator).
Frontier(g, b) ==
  {c \in DOMAIN g : /\ \E p \in Preds(g, c) \cap Reachable(g) : Dominates(g, b, p)
                    /\ b = c \/ ~Dominates(g, b, c)}
IDF(g, B, liveIn) ==
  LET idf[P \in SUBSET DOMAIN g] ==
        LET more == UNION {Frontier(g, b) \cap liveIn : b \in (B \cup P) \cap Reachable(g)}
        IN IF more \subseteq P THEN P ELSE idf[P \cup more]
  IN idf[{}]

-----------------------------------------------------------------------------
(* Executions. *)

\* The executions of up to n blocks: where they went.
Paths(g, n) ==
  LET paths[k \in 1 .. n] ==
        IF k = 1 THEN {<<Entry>>}
        ELSE UNION {IF g[Last(p)] = <<>> THEN {p} ELSE {Append(p, s) : s \in Succs(g, Last(p))} :
                      p \in paths[k - 1]}
  IN paths[n]

\* What a value is in an execution: unknown, wrong (an operand that nothing has
\* given a value), a number, what the n-th call yielded, or an address.
Unknown == <<"unknown", 0>>
Wrong == <<"wrong", 0>>
ValueIn(e, v) ==
  CASE v.k = "const" -> <<"number", v.n>>
    [] v.k = "inst" -> IF v.n \in DOMAIN e.val THEN e.val[v.n] ELSE Wrong
    [] OTHER -> Unknown

Executed(e, i) ==
  LET yields(v) == [e EXCEPT !.val = (i.id :> v) @@ @]
      at == ValueIn(e, i.ptr)
  IN CASE i.op = "alloca" -> yields(<<"address", i.id>>)
       [] i.op = "load" ->
            yields(IF at[1] = "address" /\ at[2] \in DOMAIN e.mem THEN e.mem[at[2]]
                   ELSE IF at = Wrong THEN Wrong ELSE Unknown)
       [] i.op = "store" ->
            [e EXCEPT !.mem = IF at[1] = "address" THEN (at[2] :> ValueIn(e, i.val)) @@ @ ELSE @]
       [] i.op = "call" ->
            [yields(<<"result", Len(e.calls) + 1>>) EXCEPT !.calls = Append(@, ValueIn(e, i.val))]
       [] OTHER -> e

\* The phis of a block take their values at once, by the edge that was followed.
PhisTaken(e, code, from) ==
  LET phis == {p \in DOMAIN code : code[p].op = "phi"}
      taken(p) == LET inc == code[p].inc
                      here == {k \in DOMAIN inc : inc[k].pred = from}
                  IN IF here = {} THEN Wrong ELSE ValueIn(e, inc[CHOOSE k \in here : TRUE].val)
      at(id) == CHOOSE p \in phis : code[p].id = id
  IN [e EXCEPT !.val = [id \in {code[p].id : p \in phis} |-> taken(at(id))] @@ @]

\* What the calls of an execution are given.
Calls(f, path) ==
  LET started == [val |-> <<>>, mem |-> <<>>, calls |-> <<>>]
      after[k \in 0 .. Len(path)] ==
        IF k = 0 THEN started
        ELSE LET code == f[path[k]]
             IN FoldLeft(Executed,
                         PhisTaken(after[k - 1], code, IF k = 1 THEN 0 ELSE path[k - 1]), code)
  IN after[Len(path)].calls

\* new does what old does on every one of the paths, where old does something known.
SameCalls(old, new, paths) ==
  \A p \in paths :
    LET a == Calls(old, p)
        b == Calls(new, p)
    IN Len(a) = Len(b) /\ \A k \in DOMAIN a : a[k] \in {Unknown, b[k]}
=============================================================================
