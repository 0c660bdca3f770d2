----------------------------- MODULE Opt_proofs -----------------------------
(***************************************************************************)
(* What holds of the two scalar passes for every program, proved with      *)
(* TLAPS: the function stays one that verifyModule accepts, whatever is    *)
(* folded and not yet erased, inserted and not yet used; nothing that      *)
(* could be folded is left; and after each step the function returns what  *)
(* the one that was given does, on machine integers of any width.          *)
(***************************************************************************)
EXTENDS Opt, SequenceTheorems, FiniteSetTheorems, WellFoundedInduction, TLAPS

(* A function by its blocks b and the places k in them.                     *)

CanFold(i) == i.op \in FoldOps /\ IsConst(i.l) /\ IsConst(i.r)
Earlier(c, j, b, k) == c < b \/ (c = b /\ j < k)
Defined(f, id, b, k) ==
  \E c \in DOMAIN f : \E j \in DOMAIN f[c] : f[c][j].id = id /\ Earlier(c, j, b, k)
OpsDefined(f, i, b, k) == \A o \in {i.l, i.r} : o.k = "inst" => Defined(f, o.n, b, k)
NoUse(i, id) == i.l # Inst(id) /\ i.r # Inst(id)
Unique(f) ==
  \A b, c \in DOMAIN f : \A k \in DOMAIN f[b] : \A j \in DOMAIN f[c] :
    f[b][k].id = f[c][j].id => b = c /\ k = j
Dominated(f) == \A b \in DOMAIN f : \A k \in DOMAIN f[b] : OpsDefined(f, f[b][k], b, k)
IsFunc(f) == f \in Seq(Seq(Instr))

LEMMA WidthIs == W \in Nat /\ M \in Nat \ {0} /\ W < M /\ \A k \in 0 .. W : Pow2(k) \in Nat \ {0}
BY WidthAssumption DEF M

LEMMA InstrIs ==
  ASSUME NEW i \in Instr
  PROVE  i.id \in Nat /\ i.l \in Operand /\ i.r \in Operand /\ i.op \in BinaryOps \cup {"ret"}
BY DEF Instr

LEMMA OperandIs ==
  ASSUME NEW o \in Operand, NEW id
  PROVE  /\ o.k \in {"const", "arg", "inst"} /\ o.n \in Nat
         /\ o = Inst(id) <=> o.k = "inst" /\ o.n = id
BY DEF Operand, Inst

LEMMA OperandsMade ==
  /\ \A z \in Int : Const(z) \in Operand /\ Const(z).k = "const" /\ IsConst(Const(z))
  /\ \A id \in Nat : Inst(id) \in Operand /\ Inst(id).k = "inst" /\ Inst(id).n = id /\ ~IsConst(Inst(id))
BY WidthIs DEF Const, Inst, Operand, IsConst

LEMMA SameLength ==
  ASSUME NEW m \in Nat, NEW n \in Nat, 1 .. m = 1 .. n
  PROVE  m = n
<1>1. \A j \in Int : 1 <= j /\ j <= m <=> 1 <= j /\ j <= n
  BY SMT
<1>. QED
  BY <1>1

LEMMA FuncIs ==
  ASSUME NEW f, IsFunc(f)
  PROVE  /\ Len(f) \in Nat /\ DOMAIN f = 1 .. Len(f)
         /\ \A b \in DOMAIN f : /\ f[b] \in Seq(Instr) /\ Len(f[b]) \in Nat /\ DOMAIN f[b] = 1 .. Len(f[b])
                                /\ \A k \in DOMAIN f[b] : f[b][k] \in Instr
BY DEF IsFunc

LEMMA SubstIs ==
  ASSUME NEW i \in Instr, NEW old, NEW o \in Operand
  PROVE  /\ Subst(i, old, o) \in Instr
         /\ Subst(i, old, o).id = i.id /\ Subst(i, old, o).op = i.op
         /\ Subst(i, old, o).l = IF i.l = Inst(old) THEN o ELSE i.l
         /\ Subst(i, old, o).r = IF i.r = Inst(old) THEN o ELSE i.r
BY DEF Subst, Instr

LEMMA ReplaceUsesIs ==
  ASSUME NEW f, IsFunc(f), NEW old, NEW o \in Operand
  PROVE  LET g == ReplaceUses(f, old, o)
         IN /\ IsFunc(g) /\ DOMAIN g = DOMAIN f
            /\ \A b \in DOMAIN f : DOMAIN g[b] = DOMAIN f[b] /\ Len(g[b]) = Len(f[b])
            /\ \A b \in DOMAIN f : \A k \in DOMAIN f[b] : g[b][k] = Subst(f[b][k], old, o)
<1>. DEFINE g == ReplaceUses(f, old, o)
<1>1. DOMAIN g = 1 .. Len(f) /\ Len(f) \in Nat
  BY FuncIs DEF ReplaceUses
<1>2. ASSUME NEW b \in DOMAIN f
      PROVE  /\ g[b] \in Seq(Instr) /\ DOMAIN g[b] = DOMAIN f[b] /\ Len(g[b]) = Len(f[b])
             /\ \A k \in DOMAIN f[b] : g[b][k] = Subst(f[b][k], old, o)
  <2>1. g[b] = [k \in DOMAIN f[b] |-> Subst(f[b][k], old, o)]
    BY DEF ReplaceUses
  <2>2. DOMAIN f[b] = 1 .. Len(f[b]) /\ Len(f[b]) \in Nat /\ \A k \in DOMAIN f[b] : f[b][k] \in Instr
    BY FuncIs
  <2>3. \A k \in DOMAIN f[b] : Subst(f[b][k], old, o) \in Instr
    BY <2>2, SubstIs
  <2>. QED
    BY <2>1, <2>2, <2>3
<1>3. DOMAIN f = 1 .. Len(f)
  BY FuncIs
<1>4. g \in [1 .. Len(f) -> Seq(Instr)]
  BY <1>1, <1>2, <1>3 DEF ReplaceUses
<1>. HIDE DEF g
<1>5. IsFunc(g)
  <2>. DEFINE n == Len(f)
              S == Seq(Instr)
  <2>1. n \in Nat /\ g \in [1 .. n -> S]
    BY <1>1, <1>4
  <2>. HIDE DEF n, S
  <2>2. g \in Seq(S)
    BY <2>1, SeqDef
  <2>. QED
    BY <2>2 DEF IsFunc, S
<1>6. DOMAIN g = DOMAIN f
  BY <1>1, <1>3
<1>. QED
  BY <1>2, <1>5, <1>6 DEF g

\* The instruction at k leaves a block, and one comes in at k.
LEMMA RemoveAtIs ==
  ASSUME NEW S, NEW s \in Seq(S), NEW k \in 1 .. Len(s)
  PROVE  /\ RemoveAt(s, k) \in Seq(S) /\ Len(RemoveAt(s, k)) = Len(s) - 1
         /\ \A j \in 1 .. Len(s) - 1 : RemoveAt(s, k)[j] = IF j < k THEN s[j] ELSE s[j + 1]
<1>. DEFINE a == SubSeq(s, 1, k - 1)
            z == SubSeq(s, k + 1, Len(s))
<1>1. a \in Seq(S) /\ Len(a) = k - 1 /\ \A j \in 1 .. k - 1 : a[j] = s[j]
  OBVIOUS
<1>2. z \in Seq(S) /\ Len(z) = Len(s) - k /\ \A j \in 1 .. Len(s) - k : z[j] = s[k + j]
  OBVIOUS
<1>3. RemoveAt(s, k) = a \o z
  BY DEF RemoveAt
<1>. HIDE DEF a, z
<1>4. /\ a \o z \in Seq(S) /\ Len(a \o z) = Len(s) - 1
      /\ \A j \in 1 .. Len(s) - 1 : (a \o z)[j] = IF j <= k - 1 THEN a[j] ELSE z[j - (k - 1)]
  <2>1. /\ a \o z \in Seq(S) /\ Len(a \o z) = Len(a) + Len(z)
        /\ \A j \in 1 .. Len(a) + Len(z) : (a \o z)[j] = IF j <= Len(a) THEN a[j] ELSE z[j - Len(a)]
    BY <1>1, <1>2, ConcatProperties, Zenon
  <2>. QED
    BY <1>1, <1>2, <2>1
<1>5. ASSUME NEW j \in 1 .. Len(s) - 1 PROVE (a \o z)[j] = IF j < k THEN s[j] ELSE s[j + 1]
  <2>1. CASE j < k
    BY <1>1, <1>4, <2>1
  <2>2. CASE j >= k
    <3>1. j - (k - 1) \in 1 .. Len(s) - k /\ k + (j - (k - 1)) = j + 1
      BY <2>2
    <3>2. (a \o z)[j] = z[j - (k - 1)]
      BY <1>4, <2>2
    <3>. QED
      BY <1>2, <2>2, <3>1, <3>2
  <2>3. j < k \/ j >= k
    OBVIOUS
  <2>. QED
    BY <2>1, <2>2, <2>3, Zenon
<1>. QED
  BY <1>3, <1>4, <1>5

LEMMA InsertAtIs ==
  ASSUME NEW S, NEW s \in Seq(S), NEW k \in 1 .. Len(s), NEW e \in S
  PROVE  /\ InsertAt(s, k, e) \in Seq(S) /\ Len(InsertAt(s, k, e)) = Len(s) + 1
         /\ \A j \in 1 .. Len(s) + 1 :
              InsertAt(s, k, e)[j] = IF j < k THEN s[j] ELSE IF j = k THEN e ELSE s[j - 1]
BY DEF InsertAt

-----------------------------------------------------------------------------
(* An instruction that nothing uses goes.                                   *)

Removed(f, b, k) == [f EXCEPT ![b] = RemoveAt(@, k)]

LEMMA RemovedIs ==
  ASSUME NEW f, IsFunc(f), NEW b \in DOMAIN f, NEW k \in DOMAIN f[b]
  PROVE  LET g == Removed(f, b, k)
         IN /\ IsFunc(g) /\ DOMAIN g = DOMAIN f
            /\ \A c \in DOMAIN f \ {b} : g[c] = f[c]
            /\ Len(g[b]) = Len(f[b]) - 1 /\ DOMAIN g[b] = 1 .. Len(f[b]) - 1
            /\ \A j \in DOMAIN g[b] : g[b][j] = IF j < k THEN f[b][j] ELSE f[b][j + 1]
<1>. DEFINE s == RemoveAt(f[b], k)
            g == Removed(f, b, k)
<1>1. f[b] \in Seq(Instr) /\ k \in 1 .. Len(f[b]) /\ Len(f[b]) \in Nat
  BY FuncIs
<1>2. /\ s \in Seq(Instr) /\ Len(s) = Len(f[b]) - 1
      /\ \A j \in 1 .. Len(f[b]) - 1 : s[j] = IF j < k THEN f[b][j] ELSE f[b][j + 1]
  BY <1>1, RemoveAtIs
<1>3. DOMAIN s = 1 .. Len(f[b]) - 1
  BY <1>2
<1>4. g = [f EXCEPT ![b] = s]
  BY DEF Removed
<1>. HIDE DEF s, g
<1>5. IsFunc(g) /\ DOMAIN g = DOMAIN f /\ g[b] = s /\ \A c \in DOMAIN f \ {b} : g[c] = f[c]
  BY <1>2, <1>4 DEF IsFunc
<1>. QED
  BY <1>2, <1>3, <1>5 DEF g

\* Where the instructions of the shorter function were, and where the others are.
OldPlace(b, k, c, j) == IF c = b /\ j >= k THEN j + 1 ELSE j
NewPlace(b, k, c, j) == IF c = b /\ j > k THEN j - 1 ELSE j

LEMMA RemovedPlaces ==
  ASSUME NEW f, IsFunc(f), NEW b \in DOMAIN f, NEW k \in DOMAIN f[b],
         NEW c \in DOMAIN f
  PROVE  /\ \A j \in DOMAIN Removed(f, b, k)[c] :
              LET old == OldPlace(b, k, c, j)
              IN old \in DOMAIN f[c] /\ ~(c = b /\ old = k) /\ Removed(f, b, k)[c][j] = f[c][old]
         /\ \A j \in DOMAIN f[c] : ~(c = b /\ j = k) =>
              LET new == NewPlace(b, k, c, j)
              IN new \in DOMAIN Removed(f, b, k)[c] /\ Removed(f, b, k)[c][new] = f[c][j]
<1>. DEFINE g == Removed(f, b, k)
<1>1. /\ IsFunc(g) /\ DOMAIN g = DOMAIN f /\ (\A d \in DOMAIN f \ {b} : g[d] = f[d])
      /\ Len(g[b]) = Len(f[b]) - 1 /\ DOMAIN g[b] = 1 .. Len(f[b]) - 1
      /\ \A j \in DOMAIN g[b] : g[b][j] = IF j < k THEN f[b][j] ELSE f[b][j + 1]
  BY RemovedIs
<1>2. DOMAIN f[c] = 1 .. Len(f[c]) /\ Len(f[c]) \in Nat
  BY FuncIs
<1>3. DOMAIN f[b] = 1 .. Len(f[b]) /\ Len(f[b]) \in Nat
  BY FuncIs
<1>. HIDE DEF g
<1>4. ASSUME NEW j \in DOMAIN g[c], NEW old, old = OldPlace(b, k, c, j)
      PROVE  old \in DOMAIN f[c] /\ ~(c = b /\ old = k) /\ g[c][j] = f[c][old]
  <2>1. CASE c = b
    <3>1. j \in 1 .. Len(f[b]) - 1 /\ k \in 1 .. Len(f[b]) /\ Len(f[b]) \in Nat
      BY <1>1, <1>3, <2>1, Zenon
    <3>2. g[b][j] = IF j < k THEN f[b][j] ELSE f[b][j + 1]
      BY <1>1, <2>1
    <3>3. old = IF j >= k THEN j + 1 ELSE j
      BY <1>4, <2>1 DEF OldPlace
    <3>. QED
      BY <1>3, <2>1, <3>1, <3>2, <3>3
  <2>2. CASE c # b
    BY <1>1, <1>4, <2>2 DEF OldPlace
  <2>. QED
    BY <2>1, <2>2
<1>5. ASSUME NEW j \in DOMAIN f[c], ~(c = b /\ j = k), NEW new, new = NewPlace(b, k, c, j)
      PROVE  new \in DOMAIN g[c] /\ g[c][new] = f[c][j]
  <2>1. CASE c = b
    <3>1. j \in 1 .. Len(f[b]) /\ k \in 1 .. Len(f[b]) /\ Len(f[b]) \in Nat /\ j # k
      BY <1>3, <1>5, <2>1
    <3>2. new = IF j > k THEN j - 1 ELSE j
      BY <1>5, <2>1 DEF NewPlace
    <3>3. new \in 1 .. Len(f[b]) - 1 /\ j = IF new < k THEN new ELSE new + 1
      BY <3>1, <3>2
    <3>4. g[b][new] = IF new < k THEN f[b][new] ELSE f[b][new + 1]
      BY <1>1, <3>3
    <3>. QED
      BY <1>1, <2>1, <3>3, <3>4
  <2>2. CASE c # b
    BY <1>1, <1>5, <2>2 DEF NewPlace
  <2>. QED
    BY <2>1, <2>2
<1>. QED
  BY <1>4, <1>5 DEF g

LEMMA RemovedDefined ==
  ASSUME NEW f, IsFunc(f), NEW b \in DOMAIN f, NEW k \in DOMAIN f[b],
         NEW id, id # f[b][k].id,
         NEW c \in DOMAIN f, NEW j \in DOMAIN Removed(f, b, k)[c],
         Defined(f, id, c, OldPlace(b, k, c, j))
  PROVE  Defined(Removed(f, b, k), id, c, j)
<1>. DEFINE g == Removed(f, b, k)
            old == OldPlace(b, k, c, j)
<1>1. DOMAIN g = DOMAIN f /\ IsFunc(g)
  BY RemovedIs
<1>2. PICK d \in DOMAIN f : \E i \in DOMAIN f[d] : f[d][i].id = id /\ Earlier(d, i, c, old)
  BY Zenon DEF Defined
<1>3. PICK i \in DOMAIN f[d] : f[d][i].id = id /\ Earlier(d, i, c, old)
  BY <1>2
<1>. DEFINE new == NewPlace(b, k, d, i)
<1>4. ~(d = b /\ i = k)
  BY <1>3
<1>5. new \in DOMAIN g[d] /\ g[d][new].id = id
  BY <1>3, <1>4, RemovedPlaces
<1>6. i \in Int /\ j \in Int /\ k \in Int /\ b \in Int /\ c \in Int /\ d \in Int
  BY <1>1, FuncIs, SMTT(30)
<1>7. Earlier(d, new, c, j)
  BY <1>3, <1>4, <1>6 DEF Earlier, OldPlace, NewPlace
<1>. QED
  BY <1>1, <1>5, <1>7, Zenon DEF Defined

LEMMA RemovedKeeps ==
  ASSUME NEW f, IsFunc(f), NEW b \in DOMAIN f, NEW k \in DOMAIN f[b], Unique(f), Dominated(f),
         \A c \in DOMAIN f : \A j \in DOMAIN f[c] : NoUse(f[c][j], f[b][k].id)
  PROVE  Unique(Removed(f, b, k)) /\ Dominated(Removed(f, b, k))
<1>. DEFINE g == Removed(f, b, k)
            old(c, j) == OldPlace(b, k, c, j)
<1>1. DOMAIN g = DOMAIN f /\ IsFunc(g)
  BY RemovedIs
<1>2. ASSUME NEW c \in DOMAIN g, NEW j \in DOMAIN g[c]
      PROVE  old(c, j) \in DOMAIN f[c] /\ g[c][j] = f[c][old(c, j)] /\ ~(c = b /\ old(c, j) = k) /\ j \in Int
  BY <1>1, RemovedPlaces, FuncIs
<1>3. k \in Int
  BY FuncIs
<1>. HIDE DEF g
<1>4. Unique(g)
  <2>. SUFFICES ASSUME NEW c \in DOMAIN g, NEW d \in DOMAIN g, NEW j \in DOMAIN g[c], NEW i \in DOMAIN g[d],
                       g[c][j].id = g[d][i].id
                PROVE  c = d /\ j = i
    BY Zenon DEF Unique
  <2>1. f[c][old(c, j)].id = f[d][old(d, i)].id
    BY <1>2
  <2>2. old(c, j) \in DOMAIN f[c] /\ old(d, i) \in DOMAIN f[d] /\ c \in DOMAIN f /\ d \in DOMAIN f
    BY <1>1, <1>2
  <2>3. c = d /\ old(c, j) = old(d, i)
    BY <2>1, <2>2 DEF Unique
  <2>. QED
    BY <1>2, <1>3, <2>3 DEF OldPlace
<1>5. Dominated(g)
  <2>. SUFFICES ASSUME NEW c \in DOMAIN g, NEW j \in DOMAIN g[c],
                       NEW o \in {g[c][j].l, g[c][j].r}, o.k = "inst"
                PROVE  Defined(g, o.n, c, j)
    BY Zenon DEF Dominated, OpsDefined
  <2>1. /\ c \in DOMAIN f /\ old(c, j) \in DOMAIN f[c] /\ g[c][j] = f[c][old(c, j)]
        /\ f[c][old(c, j)] \in Instr
    BY <1>1, <1>2, FuncIs
  <2>2. NoUse(f[c][old(c, j)], f[b][k].id) /\ Defined(f, o.n, c, old(c, j))
    BY <2>1, Zenon DEF Dominated, OpsDefined
  <2>3. o.n # f[b][k].id
    BY <2>1, <2>2, InstrIs, OperandIs DEF NoUse
  <2>. QED
    BY <2>1, <2>2, <2>3, RemovedDefined DEF g
<1>. QED
  BY <1>4, <1>5 DEF g

-----------------------------------------------------------------------------
(* Two instructions come in before the one at k.                            *)

InsertionOf(u, s, k, d) ==
  /\ u \in Seq(Instr) /\ Len(u) = Len(s) + 1
  /\ \A j \in 1 .. Len(s) + 1 : u[j] = IF j < k THEN s[j] ELSE IF j = k THEN d ELSE s[j - 1]

TwoInsertions(u, s, k, d, e) ==
  /\ u \in Seq(Instr) /\ Len(u) = Len(s) + 2
  /\ \A j \in 1 .. Len(s) + 2 :
       u[j] = IF j < k THEN s[j] ELSE IF j = k THEN d ELSE IF j = k + 1 THEN e ELSE s[j - 2]

LEMMA OneInserted ==
  ASSUME NEW s, s \in Seq(Instr), NEW k, k \in 1 .. Len(s), NEW d \in Instr
  PROVE  InsertionOf(InsertAt(s, k, d), s, k, d)
BY SMT DEF InsertionOf, InsertAt

LEMMA TwoInserted ==
  ASSUME NEW t, t \in Seq(Instr), NEW k \in 1 .. Len(t), NEW d \in Instr, NEW e \in Instr
  PROVE  TwoInsertions(InsertAt(InsertAt(t, k, e), k, d), t, k, d, e)
<1>. DEFINE s == InsertAt(t, k, e)
            u == InsertAt(s, k, d)
<1>1. Len(t) \in Nat
  OBVIOUS
<1>2. InsertionOf(s, t, k, e)
  BY OneInserted, Zenon
<1>. HIDE DEF s
<1>3. k \in 1 .. Len(s) /\ s \in Seq(Instr) /\ Len(s) = Len(t) + 1
  BY <1>1, <1>2 DEF InsertionOf
<1>4. InsertionOf(u, s, k, d)
  BY <1>3, OneInserted, Zenon
<1>. HIDE DEF u
<1>5. ASSUME NEW j \in 1 .. Len(t) + 2
      PROVE  u[j] = IF j < k THEN t[j] ELSE IF j = k THEN d ELSE IF j = k + 1 THEN e ELSE t[j - 2]
  <2>1. CASE j < k
    <3>1. j \in 1 .. Len(t) + 1
      BY <1>1, <2>1
    <3>. QED
      BY <1>2, <1>3, <1>4, <2>1, <3>1 DEF InsertionOf
  <2>2. CASE j = k
    BY <1>1, <1>3, <1>4, <2>2 DEF InsertionOf
  <2>3. CASE j > k
    <3>1. j - 1 \in 1 .. Len(t) + 1 /\ j - 1 >= k /\ j - 1 - 1 = j - 2
      BY <1>1, <2>3
    <3>2. u[j] = s[j - 1]
      BY <1>1, <1>3, <1>4, <2>3 DEF InsertionOf
    <3>3. s[j - 1] = IF j - 1 = k THEN e ELSE t[j - 2]
      BY <1>1, <1>2, <3>1 DEF InsertionOf
    <3>. QED
      BY <1>1, <2>3, <3>2, <3>3
  <2>. QED
    BY <1>1, <2>1, <2>2, <2>3
<1>6. u \in Seq(Instr) /\ Len(u) = Len(t) + 2
  BY <1>1, <1>3, <1>4 DEF InsertionOf
<1>. QED
  BY <1>5, <1>6 DEF TwoInsertions, u, s

Inserted(f, b, k, d, e) == [f EXCEPT ![b] = InsertAt(InsertAt(@, k, e), k, d)]
Shifted(b, k, c, j) == IF c = b /\ j >= k THEN j + 2 ELSE j

LEMMA InsertedIs ==
  ASSUME NEW f, IsFunc(f), NEW b \in DOMAIN f, NEW k \in DOMAIN f[b], NEW d \in Instr, NEW e \in Instr
  PROVE  LET g == Inserted(f, b, k, d, e)
         IN /\ IsFunc(g) /\ DOMAIN g = DOMAIN f
            /\ \A c \in DOMAIN f \ {b} : g[c] = f[c]
            /\ Len(g[b]) = Len(f[b]) + 2 /\ DOMAIN g[b] = 1 .. Len(f[b]) + 2
            /\ \A j \in DOMAIN g[b] :
                 g[b][j] = IF j < k THEN f[b][j] ELSE IF j = k THEN d ELSE IF j = k + 1 THEN e ELSE f[b][j - 2]
<1>. DEFINE u == InsertAt(InsertAt(f[b], k, e), k, d)
            g == Inserted(f, b, k, d, e)
<1>1. f[b] \in Seq(Instr) /\ k \in 1 .. Len(f[b])
  BY FuncIs
<1>2. TwoInsertions(u, f[b], k, d, e)
  BY <1>1, TwoInserted, Zenon
<1>3. g = [f EXCEPT ![b] = u]
  BY DEF Inserted
<1>. HIDE DEF u, g
<1>4. DOMAIN u = 1 .. Len(f[b]) + 2
  BY <1>2 DEF TwoInsertions
<1>5. IsFunc(g) /\ DOMAIN g = DOMAIN f /\ g[b] = u /\ \A c \in DOMAIN f \ {b} : g[c] = f[c]
  BY <1>2, <1>3 DEF IsFunc, TwoInsertions
<1>. QED
  BY <1>2, <1>4, <1>5 DEF g, TwoInsertions

LEMMA InsertedPlaces ==
  ASSUME NEW f, IsFunc(f), NEW b \in DOMAIN f, NEW k \in DOMAIN f[b], NEW d \in Instr, NEW e \in Instr,
         NEW g, g = Inserted(f, b, k, d, e),
         NEW c \in DOMAIN f
  PROVE  /\ \A j \in DOMAIN f[c] : Shifted(b, k, c, j) \in DOMAIN g[c] /\ g[c][Shifted(b, k, c, j)] = f[c][j]
         /\ c = b => k \in DOMAIN g[c] /\ k + 1 \in DOMAIN g[c] /\ g[c][k] = d /\ g[c][k + 1] = e
         /\ \A j \in DOMAIN g[c] :
              (c = b /\ j \in {k, k + 1}) \/ \E i \in DOMAIN f[c] : j = Shifted(b, k, c, i)
<1>1. /\ \A a \in DOMAIN f \ {b} : g[a] = f[a]
      /\ DOMAIN g[b] = 1 .. Len(f[b]) + 2
      /\ \A j \in DOMAIN g[b] :
           g[b][j] = IF j < k THEN f[b][j] ELSE IF j = k THEN d ELSE IF j = k + 1 THEN e ELSE f[b][j - 2]
  BY InsertedIs
<1>2. DOMAIN f[b] = 1 .. Len(f[b]) /\ Len(f[b]) \in Nat /\ k \in 1 .. Len(f[b])
  BY FuncIs
<1>3. CASE c # b
  BY <1>1, <1>3 DEF Shifted
<1>4. CASE c = b
  <2>1. k \in DOMAIN g[b] /\ k + 1 \in DOMAIN g[b] /\ g[b][k] = d /\ g[b][k + 1] = e
    BY <1>1, <1>2
  <2>2. ASSUME NEW j \in DOMAIN f[b]
        PROVE  Shifted(b, k, b, j) \in DOMAIN g[b] /\ g[b][Shifted(b, k, b, j)] = f[b][j]
    <3>1. CASE j < k
      BY <1>1, <1>2, <3>1 DEF Shifted
    <3>2. CASE j >= k
      <4>1. j + 2 \in DOMAIN g[b] /\ j + 2 - 2 = j /\ ~(j + 2 < k) /\ j + 2 # k /\ j + 2 # k + 1
        BY <1>1, <1>2, <3>2
      <4>. QED
        BY <1>1, <3>2, <4>1 DEF Shifted
    <3>. QED
      BY <1>2, <3>1, <3>2
  <2>3. ASSUME NEW j \in DOMAIN g[b], j \notin {k, k + 1}
        PROVE  \E i \in DOMAIN f[b] : j = Shifted(b, k, b, i)
    <3>1. CASE j < k
      BY <1>1, <1>2, <3>1 DEF Shifted
    <3>2. CASE j > k + 1
      <4>1. j - 2 \in DOMAIN f[b] /\ j = Shifted(b, k, b, j - 2)
        BY <1>1, <1>2, <3>2 DEF Shifted
      <4>. QED
        BY <4>1
    <3>. QED
      BY <1>1, <1>2, <2>3, <3>1, <3>2
  <2>. QED
    BY <1>4, <2>1, <2>2, <2>3
<1>. QED
  BY <1>3, <1>4

LEMMA InsertedDefined ==
  ASSUME NEW f, IsFunc(f), NEW b \in DOMAIN f, NEW k \in DOMAIN f[b], NEW d \in Instr, NEW e \in Instr,
         NEW g, g = Inserted(f, b, k, d, e),
         NEW id
  PROVE  /\ \A c \in DOMAIN f : \A j \in DOMAIN f[c] :
              Defined(f, id, c, j) => Defined(g, id, c, Shifted(b, k, c, j))
         /\ Defined(f, id, b, k) => Defined(g, id, b, k)
         /\ id = d.id => Defined(g, id, b, k + 1)
<1>1. DOMAIN g = DOMAIN f
  BY InsertedIs
<1>2. \A c \in DOMAIN f : c \in Int /\ \A j \in DOMAIN f[c] : j \in Int
  BY FuncIs
<1>3. ASSUME NEW c \in DOMAIN f, NEW j \in DOMAIN f[c], Defined(f, id, c, j)
      PROVE  Defined(g, id, c, Shifted(b, k, c, j))
  <2>1. PICK a \in DOMAIN f : \E i \in DOMAIN f[a] : f[a][i].id = id /\ Earlier(a, i, c, j)
    BY <1>3, Zenon DEF Defined
  <2>2. PICK i \in DOMAIN f[a] : f[a][i].id = id /\ Earlier(a, i, c, j)
    BY <2>1
  <2>3. Shifted(b, k, a, i) \in DOMAIN g[a] /\ g[a][Shifted(b, k, a, i)].id = id
    BY <2>2, InsertedPlaces
  <2>4. Earlier(a, Shifted(b, k, a, i), c, Shifted(b, k, c, j))
    BY <1>2, <2>2 DEF Earlier, Shifted
  <2>. QED
    BY <1>1, <2>3, <2>4, Zenon DEF Defined
<1>4. ASSUME Defined(f, id, b, k) PROVE Defined(g, id, b, k)
  <2>1. PICK a \in DOMAIN f : \E i \in DOMAIN f[a] : f[a][i].id = id /\ Earlier(a, i, b, k)
    BY <1>4, Zenon DEF Defined
  <2>2. PICK i \in DOMAIN f[a] : f[a][i].id = id /\ Earlier(a, i, b, k)
    BY <2>1
  <2>3. Shifted(b, k, a, i) \in DOMAIN g[a] /\ g[a][Shifted(b, k, a, i)].id = id
    BY <2>2, InsertedPlaces
  <2>4. Earlier(a, Shifted(b, k, a, i), b, k)
    BY <1>2, <2>2 DEF Earlier, Shifted
  <2>. QED
    BY <1>1, <2>3, <2>4, Zenon DEF Defined
<1>5. ASSUME id = d.id PROVE Defined(g, id, b, k + 1)
  <2>1. k \in DOMAIN g[b] /\ g[b][k].id = id /\ Earlier(b, k, b, k + 1)
    BY <1>2, <1>5, InsertedPlaces DEF Earlier
  <2>. QED
    BY <1>1, <2>1, Zenon DEF Defined
<1>. QED
  BY <1>3, <1>4, <1>5

LEMMA InsertedKeeps ==
  ASSUME NEW f, IsFunc(f), NEW b \in DOMAIN f, NEW k \in DOMAIN f[b], Unique(f), Dominated(f),
         NEW d \in Instr, NEW e \in Instr, d.id # e.id,
         \A c \in DOMAIN f : \A j \in DOMAIN f[c] : f[c][j].id # d.id /\ f[c][j].id # e.id,
         OpsDefined(f, d, b, k),
         \A o \in {e.l, e.r} : o.k = "inst" => o.n = d.id
  PROVE  Unique(Inserted(f, b, k, d, e)) /\ Dominated(Inserted(f, b, k, d, e))
<1>. DEFINE g == Inserted(f, b, k, d, e)
            to(c, j) == Shifted(b, k, c, j)
<1>1. DOMAIN g = DOMAIN f
  BY InsertedIs
<1>2. \A c \in DOMAIN f : c \in Int /\ \A j \in DOMAIN f[c] : j \in Int
  BY FuncIs
<1>3. ASSUME NEW c \in DOMAIN g, NEW j \in DOMAIN g[c]
      PROVE  \/ c = b /\ j = k /\ g[c][j] = d
             \/ c = b /\ j = k + 1 /\ g[c][j] = e
             \/ \E i \in DOMAIN f[c] : j = to(c, i) /\ g[c][j] = f[c][i]
  BY <1>1, InsertedPlaces
<1>. HIDE DEF g, to
<1>4. Unique(g)
  <2>. SUFFICES ASSUME NEW c \in DOMAIN g, NEW a \in DOMAIN g, NEW j \in DOMAIN g[c], NEW i \in DOMAIN g[a],
                       g[c][j].id = g[a][i].id
                PROVE  c = a /\ j = i
    BY Zenon DEF Unique
  <2>1. CASE (\E m \in DOMAIN f[c] : j = to(c, m) /\ g[c][j] = f[c][m])
             /\ (\E m \in DOMAIN f[a] : i = to(a, m) /\ g[a][i] = f[a][m])
    BY <1>1, <2>1 DEF Unique
  <2>. QED
    BY <1>1, <1>3, <2>1
<1>5. Dominated(g)
  <2>. SUFFICES ASSUME NEW c \in DOMAIN g, NEW j \in DOMAIN g[c],
                       NEW o \in {g[c][j].l, g[c][j].r}, o.k = "inst"
                PROVE  Defined(g, o.n, c, j)
    BY Zenon DEF Dominated, OpsDefined
  <2>1. CASE c = b /\ j = k /\ g[c][j] = d
    BY <2>1, InsertedDefined DEF OpsDefined, g
  <2>2. CASE c = b /\ j = k + 1 /\ g[c][j] = e
    BY <2>2, InsertedDefined, SMTT(30) DEF g
  <2>3. CASE \E i \in DOMAIN f[c] : j = to(c, i) /\ g[c][j] = f[c][i]
    <3>1. PICK i \in DOMAIN f[c] : j = to(c, i) /\ g[c][j] = f[c][i]
      BY <2>3
    <3>2. Defined(f, o.n, c, i)
      BY <1>1, <3>1 DEF Dominated, OpsDefined
    <3>. QED
      BY <1>1, <3>1, <3>2, InsertedDefined DEF g, to
  <2>. QED
    BY <1>3, <2>1, <2>2, <2>3
<1>. QED
  BY <1>4, <1>5 DEF g

-----------------------------------------------------------------------------
(* An operand stands for the instruction that it replaces.                  *)

LEMMA FoldedKeeps ==
  ASSUME NEW f, IsFunc(f), Unique(f), Dominated(f),
         NEW old \in Nat, NEW o \in Operand, o.k # "inst"
  PROVE  LET g == ReplaceUses(f, old, o)
         IN /\ IsFunc(g) /\ Unique(g) /\ Dominated(g)
            /\ \A c \in DOMAIN g : \A j \in DOMAIN g[c] :
                 /\ NoUse(g[c][j], old)
                 /\ \A id \in Nat : NoUse(f[c][j], id) => NoUse(g[c][j], id)
<1>. DEFINE g == ReplaceUses(f, old, o)
<1>1. /\ IsFunc(g) /\ DOMAIN g = DOMAIN f /\ (\A c \in DOMAIN f : DOMAIN g[c] = DOMAIN f[c])
      /\ \A c \in DOMAIN f : \A j \in DOMAIN f[c] : g[c][j] = Subst(f[c][j], old, o)
  BY ReplaceUsesIs
<1>2. ASSUME NEW c \in DOMAIN f, NEW j \in DOMAIN f[c]
      PROVE  /\ f[c][j] \in Instr /\ g[c][j].id = f[c][j].id
             /\ g[c][j].l = IF f[c][j].l = Inst(old) THEN o ELSE f[c][j].l
             /\ g[c][j].r = IF f[c][j].r = Inst(old) THEN o ELSE f[c][j].r
  <2>1. f[c][j] \in Instr /\ g[c][j] = Subst(f[c][j], old, o)
    BY <1>1, FuncIs
  <2>. QED
    BY <2>1, SubstIs
<1>. HIDE DEF g
<1>3. \A id, c, j : Defined(f, id, c, j) => Defined(g, id, c, j)
  BY <1>1, <1>2 DEF Defined
<1>4. Unique(g)
  BY <1>1, <1>2 DEF Unique
<1>5. Dominated(g)
  <2>. SUFFICES ASSUME NEW c \in DOMAIN g, NEW j \in DOMAIN g[c],
                       NEW p \in {g[c][j].l, g[c][j].r}, p.k = "inst"
                PROVE  Defined(g, p.n, c, j)
    BY Zenon DEF Dominated, OpsDefined
  <2>1. c \in DOMAIN f /\ j \in DOMAIN f[c] /\ p \in {f[c][j].l, f[c][j].r}
    BY <1>1, <1>2
  <2>. QED
    BY <1>3, <2>1 DEF Dominated, OpsDefined
<1>6. ASSUME NEW c \in DOMAIN g, NEW j \in DOMAIN g[c]
      PROVE  /\ NoUse(g[c][j], old)
             /\ \A id \in Nat : NoUse(f[c][j], id) => NoUse(g[c][j], id)
  <2>1. \A id \in Nat : o # Inst(id)
    BY OperandIs
  <2>. QED
    BY <1>1, <1>2, <1>6, <2>1 DEF NoUse
<1>. QED
  BY <1>1, <1>4, <1>5, <1>6 DEF g

\* The new instruction is at the place of the old one.
Placed(f, b, old, new) == [f EXCEPT ![b] = [k \in DOMAIN @ |-> IF @[k].id = old THEN new ELSE @[k]]]

LEMMA PlacedIs ==
  ASSUME NEW f, IsFunc(f), Unique(f), NEW b \in DOMAIN f, NEW k \in DOMAIN f[b], NEW new \in Instr
  PROVE  LET g == Placed(f, b, f[b][k].id, new)
         IN /\ IsFunc(g) /\ DOMAIN g = DOMAIN f /\ \A c \in DOMAIN f : DOMAIN g[c] = DOMAIN f[c]
            /\ \A c \in DOMAIN f : \A j \in DOMAIN f[c] :
                 g[c][j] = IF c = b /\ j = k THEN new ELSE f[c][j]
<1>. DEFINE old == f[b][k].id
            g == Placed(f, b, old, new)
            u == [j \in DOMAIN f[b] |-> IF f[b][j].id = old THEN new ELSE f[b][j]]
<1>1. f \in Seq(Seq(Instr)) /\ f[b] \in Seq(Instr) /\ DOMAIN f[b] = 1 .. Len(f[b]) /\ Len(f[b]) \in Nat
      /\ \A j \in DOMAIN f[b] : f[b][j] \in Instr
  BY FuncIs DEF IsFunc
<1>2. u \in Seq(Instr) /\ DOMAIN u = DOMAIN f[b]
  <2>1. u \in [1 .. Len(f[b]) -> Instr] /\ DOMAIN u = DOMAIN f[b]
    BY <1>1
  <2>. HIDE DEF u
  <2>2. u \in Seq(Instr)
    <3>. DEFINE n == Len(f[b])
    <3>1. n \in Nat /\ u \in [1 .. n -> Instr]
      BY <1>1, <2>1
    <3>. HIDE DEF n
    <3>. QED
      BY <3>1, SeqDef
  <2>. QED
    BY <2>1, <2>2
<1>3. \A j \in DOMAIN f[b] : u[j] = IF j = k THEN new ELSE f[b][j]
  BY DEF Unique
<1>4. g = [f EXCEPT ![b] = u]
  BY DEF Placed
<1>. HIDE DEF g, u
<1>5. IsFunc(g) /\ DOMAIN g = DOMAIN f /\ g[b] = u /\ \A c \in DOMAIN f \ {b} : g[c] = f[c]
  BY <1>1, <1>2, <1>4 DEF IsFunc
<1>. QED
  BY <1>2, <1>3, <1>5 DEF g

Replaced(f, b, old, new) == ReplaceUses(Placed(f, b, old, new), old, Inst(new.id))

LEMMA ReplacedIs ==
  ASSUME NEW f, IsFunc(f), Unique(f), NEW b \in DOMAIN f, NEW k \in DOMAIN f[b], NEW new \in Instr
  PROVE  LET g == Replaced(f, b, f[b][k].id, new)
         IN /\ IsFunc(g) /\ DOMAIN g = DOMAIN f
            /\ \A c \in DOMAIN f : DOMAIN g[c] = DOMAIN f[c] /\ Len(g[c]) = Len(f[c])
            /\ \A c \in DOMAIN f : \A j \in DOMAIN f[c] :
                 g[c][j] = Subst(IF c = b /\ j = k THEN new ELSE f[c][j], f[b][k].id, Inst(new.id))
<1>. DEFINE h == Placed(f, b, f[b][k].id, new)
            g == ReplaceUses(h, f[b][k].id, Inst(new.id))
<1>1. Inst(new.id) \in Operand
  BY InstrIs, OperandsMade
<1>2. /\ IsFunc(h) /\ DOMAIN h = DOMAIN f /\ (\A c \in DOMAIN f : DOMAIN h[c] = DOMAIN f[c])
      /\ \A c \in DOMAIN f : \A j \in DOMAIN f[c] : h[c][j] = IF c = b /\ j = k THEN new ELSE f[c][j]
  BY PlacedIs
<1>. HIDE DEF h
<1>3. /\ IsFunc(g) /\ DOMAIN g = DOMAIN h /\ (\A c \in DOMAIN h : DOMAIN g[c] = DOMAIN h[c])
      /\ \A c \in DOMAIN h : \A j \in DOMAIN h[c] : g[c][j] = Subst(h[c][j], f[b][k].id, Inst(new.id))
  BY <1>1, <1>2, ReplaceUsesIs
<1>4. Replaced(f, b, f[b][k].id, new) = g
  BY DEF Replaced, h
<1>. HIDE DEF g
<1>5. \A c \in DOMAIN f : Len(g[c]) = Len(f[c])
  <2>1. ASSUME NEW c \in DOMAIN f PROVE Len(g[c]) = Len(f[c])
    <3>1. DOMAIN g[c] = 1 .. Len(g[c]) /\ DOMAIN f[c] = 1 .. Len(f[c]) /\ Len(g[c]) \in Nat /\ Len(f[c]) \in Nat
      BY <1>2, <1>3, FuncIs, Zenon
    <3>2. 1 .. Len(g[c]) = 1 .. Len(f[c])
      BY <1>2, <1>3, <3>1, Zenon
    <3>. QED
      BY <3>1, <3>2, SameLength, Zenon
  <2>. QED
    BY <2>1
<1>. QED
  BY <1>2, <1>3, <1>4, <1>5

LEMMA ReplacedKeeps ==
  ASSUME NEW f, IsFunc(f), Unique(f), Dominated(f), NEW b \in DOMAIN f, NEW k \in DOMAIN f[b],
         NEW new \in Instr, \A c \in DOMAIN f : \A j \in DOMAIN f[c] : f[c][j].id # new.id,
         OpsDefined(f, new, b, k),
         NEW g, g = Replaced(f, b, f[b][k].id, new)
  PROVE  /\ Unique(g) /\ Dominated(g)
         /\ \A c \in DOMAIN f : \A j \in DOMAIN f[c] :
              /\ g[c][j].id = IF c = b /\ j = k THEN new.id ELSE f[c][j].id
              /\ CanFold(g[c][j]) => CanFold(IF c = b /\ j = k THEN new ELSE f[c][j])
         /\ \A i \in Instr : \A c, j :
              OpsDefined(f, i, c, j) => OpsDefined(g, Subst(i, f[b][k].id, Inst(new.id)), c, j)
<1>. DEFINE old == f[b][k].id
            from(c, j) == IF c = b /\ j = k THEN new ELSE f[c][j]
<1>1. /\ IsFunc(g) /\ DOMAIN g = DOMAIN f /\ (\A c \in DOMAIN f : DOMAIN g[c] = DOMAIN f[c])
      /\ \A c \in DOMAIN f : \A j \in DOMAIN f[c] : g[c][j] = Subst(from(c, j), old, Inst(new.id))
  BY ReplacedIs
<1>2. new.id \in Nat /\ Inst(new.id) \in Operand /\ ~IsConst(Inst(new.id)) /\ Inst(new.id).k = "inst" /\ Inst(new.id).n = new.id
  BY InstrIs, OperandsMade
<1>3. ASSUME NEW i \in Instr
      PROVE  LET h == Subst(i, old, Inst(new.id))
             IN /\ h.id = i.id /\ h.op = i.op
                /\ h.l = IF i.l = Inst(old) THEN Inst(new.id) ELSE i.l
                /\ h.r = IF i.r = Inst(old) THEN Inst(new.id) ELSE i.r
  BY <1>2, SubstIs
<1>4. ASSUME NEW c \in DOMAIN f, NEW j \in DOMAIN f[c]
      PROVE  /\ from(c, j) \in Instr
             /\ g[c][j].id = IF c = b /\ j = k THEN new.id ELSE f[c][j].id
             /\ CanFold(g[c][j]) => CanFold(from(c, j))
  <2>1. from(c, j) \in Instr
    BY FuncIs
  <2>2. g[c][j].id = from(c, j).id
    BY <1>1, <1>3, <2>1
  <2>3. CanFold(g[c][j]) => CanFold(from(c, j))
    BY <1>1, <1>2, <1>3, <2>1 DEF CanFold
  <2>. QED
    BY <2>1, <2>2, <2>3
<1>5. ASSUME NEW id, NEW c, NEW j, Defined(f, id, c, j)
      PROVE  Defined(g, IF id = old THEN new.id ELSE id, c, j)
  <2>1. PICK a \in DOMAIN f : \E i \in DOMAIN f[a] : f[a][i].id = id /\ Earlier(a, i, c, j)
    BY <1>5, Zenon DEF Defined
  <2>2. PICK i \in DOMAIN f[a] : f[a][i].id = id /\ Earlier(a, i, c, j)
    BY <2>1
  <2>3. g[a][i].id = IF id = old THEN new.id ELSE id
    <3>1. CASE a = b /\ i = k
      BY <1>4, <2>2, <3>1
    <3>2. CASE ~(a = b /\ i = k)
      <4>1. id # old
        BY <2>2, <3>2 DEF Unique
      <4>. QED
        BY <1>4, <2>2, <3>2, <4>1
    <3>. QED
      BY <3>1, <3>2
  <2>. QED
    BY <1>1, <2>2, <2>3, Zenon DEF Defined
<1>6. ASSUME NEW i \in Instr, NEW c, NEW j, OpsDefined(f, i, c, j)
      PROVE  OpsDefined(g, Subst(i, old, Inst(new.id)), c, j)
  <2>. DEFINE h == Subst(i, old, Inst(new.id))
  <2>. SUFFICES ASSUME NEW o \in {h.l, h.r}, o.k = "inst" PROVE Defined(g, o.n, c, j)
    BY Zenon DEF OpsDefined
  <2>1. PICK p \in {i.l, i.r} : o = IF p = Inst(old) THEN Inst(new.id) ELSE p
    BY <1>3
  <2>2. p \in Operand /\ (p = Inst(old) <=> p.k = "inst" /\ p.n = old)
    BY InstrIs, OperandIs
  <2>3. p.k = "inst" /\ o.n = IF p.n = old THEN new.id ELSE p.n
    BY <1>2, <2>1, <2>2, OperandsMade
  <2>. HIDE DEF h
  <2>4. Defined(f, p.n, c, j)
    BY <1>6, <2>3 DEF OpsDefined
  <2>5. Defined(g, IF p.n = old THEN new.id ELSE p.n, c, j)
    BY <1>5, <2>4
  <2>. QED
    BY <2>3, <2>5
<1>7. Unique(g)
  <2>. SUFFICES ASSUME NEW c \in DOMAIN g, NEW a \in DOMAIN g, NEW j \in DOMAIN g[c], NEW i \in DOMAIN g[a],
                       g[c][j].id = g[a][i].id
                PROVE  c = a /\ j = i
    BY Zenon DEF Unique
  <2>1. /\ c \in DOMAIN f /\ j \in DOMAIN f[c] /\ a \in DOMAIN f /\ i \in DOMAIN f[a]
        /\ g[c][j].id = (IF c = b /\ j = k THEN new.id ELSE f[c][j].id)
        /\ g[a][i].id = (IF a = b /\ i = k THEN new.id ELSE f[a][i].id)
    BY <1>1, <1>4
  <2>2. f[c][j].id # new.id /\ f[a][i].id # new.id
    BY <2>1
  <2>3. f[c][j].id = f[a][i].id => c = a /\ j = i
    BY <2>1 DEF Unique
  <2>. HIDE DEF from
  <2>. QED
    BY <2>1, <2>2, <2>3, Zenon
<1>8. Dominated(g)
  <2>. SUFFICES ASSUME NEW c \in DOMAIN g, NEW j \in DOMAIN g[c] PROVE OpsDefined(g, g[c][j], c, j)
    BY Zenon DEF Dominated
  <2>1. c \in DOMAIN f /\ j \in DOMAIN f[c] /\ g[c][j] = Subst(from(c, j), old, Inst(new.id)) /\ from(c, j) \in Instr
    BY <1>1, <1>4
  <2>2. OpsDefined(f, from(c, j), c, j)
    BY <2>1 DEF Dominated
  <2>. HIDE DEF from
  <2>. QED
    BY <1>6, <2>1, <2>2
<1>. QED
  BY <1>4, <1>6, <1>7, <1>8

-----------------------------------------------------------------------------
(* What holds after every step.                                             *)

Replacement == [old : Nat, new : Instr]

TypeOK ==
  /\ IsFunc(func)
  /\ pass \in {"fold", "reduce", "done"} /\ aborted \in BOOLEAN
  /\ blk \in Nat \ {0} /\ at \in Nat \ {0}
  /\ erase \in Seq(Nat) /\ replace \in Seq(Replacement)

\* What waits to be erased is in the block, visited, and not used any more.
ErasedAreUnused ==
  /\ erase # <<>> => pass = "fold" /\ blk \in DOMAIN func
  /\ \A e \in DOMAIN erase :
       /\ \E k \in DOMAIN func[blk] : k < at /\ func[blk][k].id = erase[e]
       /\ \A b \in DOMAIN func : \A k \in DOMAIN func[b] : NoUse(func[b][k], erase[e])
       /\ \A d \in DOMAIN erase : erase[d] = erase[e] => d = e

\* What waits to replace another can take its place, and has a number of its own.
ReplacementsFit ==
  /\ replace # <<>> => pass = "reduce" /\ blk \in DOMAIN func
  /\ \A r \in DOMAIN replace :
       /\ \E k \in DOMAIN func[blk] :
            k < at /\ func[blk][k].id = replace[r].old /\ OpsDefined(func, replace[r].new, blk, k)
       /\ ~CanFold(replace[r].new)
       /\ \A b \in DOMAIN func : \A k \in DOMAIN func[b] : func[b][k].id # replace[r].new.id
       /\ \A q \in DOMAIN replace \ {r} :
            replace[q].old # replace[r].old /\ replace[q].new.id # replace[r].new.id

\* Behind the loops of ConstantFolding, only what waits to be erased can be folded.
VisitedIsFolded ==
  \A b \in DOMAIN func : \A k \in DOMAIN func[b] :
    CanFold(func[b][k]) /\ (pass = "fold" => Earlier(b, k, blk, at)) =>
      pass = "fold" /\ b = blk /\ \E e \in DOMAIN erase : erase[e] = func[b][k].id

IInv ==
  /\ TypeOK /\ Unique(func) /\ Dominated(func)
  /\ ErasedAreUnused /\ ReplacementsFit /\ VisitedIsFolded

LEMMA Facts ==
  ASSUME IInv
  PROVE  /\ IsFunc(func) /\ Unique(func) /\ Dominated(func)
         /\ Len(func) \in Nat /\ DOMAIN func = 1 .. Len(func) /\ blk \in Nat \ {0} /\ at \in Nat \ {0}
         /\ \A b \in DOMAIN func :
              /\ b \in Nat /\ Len(func[b]) \in Nat /\ DOMAIN func[b] = 1 .. Len(func[b])
              /\ \A k \in DOMAIN func[b] : func[b][k] \in Instr /\ func[b][k].id \in Nat
  BY FuncIs, InstrIs DEF IInv, TypeOK

LEMMA SignedIs ==
  ASSUME NEW n \in 0 .. M - 1
  PROVE  Signed(n) \in Int /\ (Signed(n) = 0 => n = 0)
BY WidthIs DEF Signed

LEMMA QuotientIs ==
  ASSUME NEW a \in Int, NEW b \in Int, b # 0
  PROVE  Quotient(a, b) \in Int
<1>1. \A c \in Int : Magnitude(c) \in Nat /\ (Magnitude(c) = 0 => c = 0)
  BY DEF Magnitude
<1>2. \A m, n \in Nat : n # 0 => m \div n \in Int
  BY SMT
<1>. DEFINE q == Magnitude(a) \div Magnitude(b)
<1>3. q \in Int
  BY <1>1, <1>2
<1>. HIDE DEF q
<1>4. q \in Int /\ -q \in Int
  BY <1>3
<1>. QED
  BY <1>4 DEF Quotient, q

\* The arithmetic of the pass gives an integer, whatever it is given.
LEMMA FoldedIs ==
  ASSUME IInv, Visiting("fold"), Foldable
  PROVE  Folded \in Operand /\ Folded.k = "const"
<1>1. Current \in Instr
  BY FuncIs DEF IInv, TypeOK, Visiting, Current, Block
<1>2. Current.l.n \in 0 .. M - 1 /\ Current.r.n \in 0 .. M - 1
  BY <1>1, InstrIs DEF Foldable, IsConst, Operand
<1>3. \A n \in 0 .. M - 1 : Signed(n) \in Int /\ (Signed(n) = 0 => n = 0)
  BY SignedIs
<1>4. \A a, b \in Int : b # 0 => Quotient(a, b) \in Int
  BY QuotientIs
<1>5. ~DividesByZero => Result \in Int
  <2>. DEFINE a == Signed(Current.l.n)
              b == Signed(Current.r.n)
  <2>1. a \in Int /\ b \in Int
    BY <1>2, <1>3
  <2>2. ~DividesByZero /\ Current.op \in {"udiv", "sdiv"} => b # 0
    BY <1>2, <1>3 DEF DividesByZero
  <2>3. Result = CASE Current.op = "add" -> a + b
                   [] Current.op = "sub" -> a - b
                   [] Current.op = "mul" -> a * b
                   [] Current.op \in {"udiv", "sdiv"} -> Quotient(a, b)
    BY DEF Result
  <2>4. Current.op \in FoldOps
    BY DEF Foldable
  <2>. HIDE DEF a, b
  <2>5. a + b \in Int /\ a - b \in Int /\ a * b \in Int
    BY <2>1
  <2>. QED
    BY <1>4, <2>1, <2>2, <2>3, <2>4, <2>5 DEF FoldOps
<1>. QED
  BY <1>5, OperandsMade DEF Folded

LEMMA FoldInstKeeps ==
  ASSUME IInv, FoldInst, UNCHANGED replace
  PROVE  IInv'
<1>. DEFINE id == Current.id
<1>1. /\ Foldable /\ Visiting("fold") /\ pass = "fold" /\ blk \in DOMAIN func /\ at \in DOMAIN func[blk]
      /\ func' = ReplaceUses(func, id, Folded) /\ erase' = Append(erase, id) /\ at' = at + 1
      /\ UNCHANGED <<pass, blk, aborted, replace>>
      /\ id = func[blk][at].id /\ id \in Nat
  BY Facts DEF FoldInst, Visiting, FoldedUses, AfterFold, Current, Block
<1>2. /\ IsFunc(func') /\ Unique(func') /\ Dominated(func')
      /\ \A c \in DOMAIN func' : \A j \in DOMAIN func'[c] :
           NoUse(func'[c][j], id) /\ \A m \in Nat : NoUse(func[c][j], m) => NoUse(func'[c][j], m)
  <2>1. Folded \in Operand /\ Folded.k # "inst"
    BY <1>1, FoldedIs
  <2>. DEFINE o == Folded
              g == ReplaceUses(func, id, o)
  <2>2. o \in Operand /\ o.k # "inst" /\ id \in Nat /\ IsFunc(func) /\ Unique(func) /\ Dominated(func)
    BY <1>1, <2>1, Facts
  <2>. HIDE DEF id, o
  <2>3. /\ IsFunc(g) /\ Unique(g) /\ Dominated(g)
        /\ \A c \in DOMAIN g : \A j \in DOMAIN g[c] :
             NoUse(g[c][j], id) /\ \A m \in Nat : NoUse(func[c][j], m) => NoUse(g[c][j], m)
    BY <2>2, FoldedKeeps
  <2>4. func' = g
    BY <1>1 DEF o
  <2>. HIDE DEF g
  <2>. QED
    BY <2>3, <2>4
<1>3. /\ DOMAIN func' = DOMAIN func /\ (\A c \in DOMAIN func : DOMAIN func'[c] = DOMAIN func[c])
      /\ \A c \in DOMAIN func : \A j \in DOMAIN func[c] :
           /\ func'[c][j].id = func[c][j].id
           /\ NoUse(func[c][j], id) => func'[c][j] = func[c][j]
  <2>1. /\ DOMAIN func' = DOMAIN func /\ (\A c \in DOMAIN func : DOMAIN func'[c] = DOMAIN func[c])
        /\ \A c \in DOMAIN func : \A j \in DOMAIN func[c] : func'[c][j] = Subst(func[c][j], id, Folded)
    BY <1>1, Facts, ReplaceUsesIs, FoldedIs
  <2>2. ASSUME NEW c \in DOMAIN func, NEW j \in DOMAIN func[c]
        PROVE  /\ Subst(func[c][j], id, Folded).id = func[c][j].id
               /\ NoUse(func[c][j], id) => Subst(func[c][j], id, Folded) = func[c][j]
    <3>1. func[c][j] \in Instr /\ Folded \in Operand
      BY <1>1, Facts, FoldedIs
    <3>2. Subst(func[c][j], id, Folded).id = func[c][j].id
      BY <3>1, SubstIs
    <3>3. NoUse(func[c][j], id) => Subst(func[c][j], id, Folded) = func[c][j]
      BY <3>1 DEF NoUse, Subst, Instr
    <3>. QED
      BY <3>2, <3>3
  <2>. QED
    BY <2>1, <2>2
<1>4. /\ erase \in Seq(Nat) /\ erase' \in Seq(Nat) /\ Len(erase) \in Nat
      /\ DOMAIN erase = 1 .. Len(erase) /\ DOMAIN erase' = 1 .. Len(erase) + 1
      /\ \A e \in DOMAIN erase : e \in DOMAIN erase' /\ erase'[e] = erase[e]
      /\ Len(erase) + 1 \in DOMAIN erase' /\ erase'[Len(erase) + 1] = id
      /\ \A e \in DOMAIN erase' : e \in DOMAIN erase \/ e = Len(erase) + 1
  <2>1. erase \in Seq(Nat)
    BY DEF IInv, TypeOK
  <2>. HIDE DEF id
  <2>. QED
    BY <1>1, <2>1
<1>5. TypeOK'
  BY <1>1, <1>2, <1>4, Facts DEF IInv, TypeOK
<1>6. ErasedAreUnused'
  <2>1. ASSUME NEW e \in DOMAIN erase
        PROVE  /\ \E k \in DOMAIN func'[blk] : k < at' /\ func'[blk][k].id = erase[e]
               /\ \A b \in DOMAIN func' : \A k \in DOMAIN func'[b] : NoUse(func'[b][k], erase[e])
               /\ erase[e] # id
               /\ \A d \in DOMAIN erase : erase[d] = erase[e] => d = e
    <3>1. PICK k \in DOMAIN func[blk] : k < at /\ func[blk][k].id = erase[e]
      BY DEF IInv, ErasedAreUnused
    <3>2. k \in Nat /\ at \in Nat
      BY <1>1, Facts
    <3>3. erase[e] # id
      BY <1>1, <3>1, <3>2, Facts DEF Unique
    <3>4. erase[e] \in Nat
      BY <1>4
    <3>5. \A b \in DOMAIN func : \A j \in DOMAIN func[b] : NoUse(func[b][j], erase[e])
      BY DEF IInv, ErasedAreUnused
    <3>6. \A d \in DOMAIN erase : erase[d] = erase[e] => d = e
      BY DEF IInv, ErasedAreUnused
    <3>. HIDE DEF id
    <3>7. \A b \in DOMAIN func' : \A j \in DOMAIN func'[b] : NoUse(func'[b][j], erase[e])
      BY <1>2, <1>3, <3>4, <3>5
    <3>. QED
      BY <1>1, <1>3, <3>1, <3>2, <3>3, <3>6, <3>7
  <2>2. /\ \E k \in DOMAIN func'[blk] : k < at' /\ func'[blk][k].id = id
        /\ \A b \in DOMAIN func' : \A k \in DOMAIN func'[b] : NoUse(func'[b][k], id)
    <3>1. at \in DOMAIN func'[blk] /\ at < at' /\ func'[blk][at].id = id
      BY <1>1, <1>3, Facts
    <3>. QED
      BY <1>2, <3>1
  <2>. HIDE DEF id
  <2>. QED
    BY <1>1, <1>3, <1>4, <2>1, <2>2 DEF ErasedAreUnused
<1>7. ReplacementsFit'
  <2>1. replace = <<>> /\ replace' = <<>>
    BY <1>1 DEF IInv, ReplacementsFit
  <2>. QED
    BY <2>1 DEF ReplacementsFit
<1>8. VisitedIsFolded'
  <2>. SUFFICES ASSUME NEW b \in DOMAIN func', NEW k \in DOMAIN func'[b],
                       CanFold(func'[b][k]), Earlier(b, k, blk, at')
                PROVE  b = blk /\ \E e \in DOMAIN erase' : erase'[e] = func'[b][k].id
    BY <1>1 DEF VisitedIsFolded
  <2>0. b \in DOMAIN func /\ k \in DOMAIN func[b] /\ b \in Int /\ k \in Int /\ at \in Int /\ blk \in Int
    BY <1>3, Facts
  <2>1. CASE b = blk /\ k = at
    BY <1>1, <1>3, <1>4, <2>0, <2>1
  <2>2. CASE ~(b = blk /\ k = at)
    <3>1. Earlier(b, k, blk, at)
      BY <1>1, <2>0, <2>2 DEF Earlier
    <3>2. NoUse(func[b][k], id)
      <4>1. ~Defined(func, id, b, k)
        <5>. SUFFICES ASSUME NEW c \in DOMAIN func, NEW j \in DOMAIN func[c],
                             func[c][j].id = id, Earlier(c, j, b, k)
                      PROVE  FALSE
          BY Zenon DEF Defined
        <5>1. c = blk /\ j = at
          BY <1>1, Facts DEF Unique
        <5>. QED
          BY <2>0, <3>1, <5>1 DEF Earlier
      <4>2. OpsDefined(func, func[b][k], b, k)
        BY <2>0, Facts DEF Dominated
      <4>3. Inst(id).k = "inst" /\ Inst(id).n = id
        BY <1>1, OperandsMade
      <4>. HIDE DEF id
      <4>. QED
        BY <4>1, <4>2, <4>3 DEF OpsDefined, NoUse
    <3>3. func'[b][k] = func[b][k]
      BY <1>3, <2>0, <3>2
    <3>4. b = blk /\ \E e \in DOMAIN erase : erase[e] = func[b][k].id
      BY <1>1, <2>0, <3>1, <3>3 DEF IInv, VisitedIsFolded
    <3>. QED
      BY <1>3, <1>4, <2>0, <3>3, <3>4
  <2>. QED
    BY <2>1, <2>2
<1>. QED
  BY <1>2, <1>5, <1>6, <1>7, <1>8 DEF IInv

\* Nothing happens to the function, and nothing new waits.
LEMMA OnwardKeeps ==
  ASSUME IInv, UNCHANGED <<func, erase, replace>>,
         pass' \in {"fold", "reduce", "done"}, aborted' \in BOOLEAN,
         blk' \in Nat \ {0}, at' \in Nat \ {0},
         erase # <<>> => pass' = "fold" /\ blk' = blk /\ at' >= at,
         replace # <<>> => pass' = "reduce" /\ blk' = blk /\ at' >= at,
         VisitedIsFolded'
  PROVE  IInv'
<1>1. TypeOK' /\ Unique(func') /\ Dominated(func')
  BY Facts DEF IInv, TypeOK
<1>2. blk \in DOMAIN func => \A k \in DOMAIN func[blk] : k \in Nat /\ at \in Nat
  BY Facts
<1>3. ErasedAreUnused'
  <2>1. CASE erase = <<>>
    BY <2>1 DEF ErasedAreUnused
  <2>2. CASE erase # <<>>
    <3>. USE <2>2
    <3>1. blk \in DOMAIN func /\ \A k \in DOMAIN func[blk] : k < at => k < at'
      BY <1>2 DEF IInv, ErasedAreUnused
    <3>. QED
      BY <3>1, Zenon DEF IInv, ErasedAreUnused
  <2>. QED
    BY <2>1, <2>2
<1>4. ReplacementsFit'
  <2>1. CASE replace = <<>>
    BY <2>1 DEF ReplacementsFit
  <2>2. CASE replace # <<>>
    <3>. USE <2>2
    <3>1. blk \in DOMAIN func /\ \A k \in DOMAIN func[blk] : k < at => k < at'
      BY <1>2 DEF IInv, ReplacementsFit
    <3>. QED
      BY <3>1 DEF IInv, ReplacementsFit
  <2>. QED
    BY <2>1, <2>2
<1>. QED
  BY <1>1, <1>3, <1>4 DEF IInv

LEMMA FoldTrapKeeps ==
  ASSUME IInv, FoldTrap, UNCHANGED replace
  PROVE  IInv'
<1>1. VisitedIsFolded'
  BY Zenon DEF FoldTrap, IInv, VisitedIsFolded
<1>. QED
  BY <1>1, OnwardKeeps DEF FoldTrap, IInv, TypeOK, ErasedAreUnused, ReplacementsFit

LEMMA FoldSkipKeeps ==
  ASSUME IInv, FoldSkip, UNCHANGED replace
  PROVE  IInv'
<1>1. /\ pass = "fold" /\ blk \in DOMAIN func /\ at \in DOMAIN func[blk] /\ ~Foldable /\ at' = at + 1
      /\ UNCHANGED <<func, pass, blk, aborted, erase, replace>>
  BY DEF FoldSkip, Visiting, Block
<1>2. VisitedIsFolded'
  <2>. SUFFICES ASSUME NEW b \in DOMAIN func, NEW k \in DOMAIN func[b],
                       CanFold(func[b][k]), Earlier(b, k, blk, at')
                PROVE  b = blk /\ \E e \in DOMAIN erase : erase[e] = func[b][k].id
    BY <1>1 DEF VisitedIsFolded
  <2>1. ~(b = blk /\ k = at)
    BY <1>1 DEF Foldable, CanFold, Current, Block
  <2>2. Earlier(b, k, blk, at)
    BY <1>1, <2>1, Facts DEF Earlier
  <2>. QED
    BY <1>1, <2>2 DEF IInv, VisitedIsFolded
<1>3. at \in Nat \ {0} /\ at + 1 >= at /\ at + 1 \in Nat \ {0}
  BY Facts
<1>. QED
  BY <1>1, <1>2, <1>3, OnwardKeeps DEF IInv, TypeOK, ErasedAreUnused, ReplacementsFit

LEMMA FoldBlockEndKeeps ==
  ASSUME IInv, FoldBlockEnd, UNCHANGED replace
  PROVE  IInv'
<1>1. /\ pass = "fold" /\ blk \in DOMAIN func /\ at \notin DOMAIN func[blk] /\ blk' = blk + 1 /\ at' = 1
      /\ erase = <<>> /\ UNCHANGED <<func, pass, aborted, erase, replace>>
  BY DEF FoldBlockEnd, LeftLoop, Block, NextBlock
<1>2. VisitedIsFolded'
  <2>. SUFFICES ASSUME NEW b \in DOMAIN func, NEW k \in DOMAIN func[b],
                       CanFold(func[b][k]), Earlier(b, k, blk', 1)
                PROVE  FALSE
    BY <1>1 DEF VisitedIsFolded
  <2>1. Earlier(b, k, blk, at)
    BY <1>1, Facts DEF Earlier
  <2>. QED
    BY <1>1, <2>1 DEF IInv, VisitedIsFolded
<1>3. replace = <<>>
  BY <1>1 DEF IInv, ReplacementsFit
<1>4. blk + 1 \in Nat \ {0}
  BY Facts
<1>. QED
  BY <1>1, <1>2, <1>3, <1>4, OnwardKeeps DEF IInv, TypeOK

LEMMA FoldEndKeeps ==
  ASSUME IInv, FoldEnd, UNCHANGED replace
  PROVE  IInv'
<1>1. /\ pass = "fold" /\ blk \notin DOMAIN func /\ pass' = "reduce" /\ blk' = 1 /\ at' = 1
      /\ UNCHANGED <<func, aborted, erase, replace>>
  BY DEF FoldEnd, NextPass
<1>2. erase = <<>> /\ replace = <<>>
  BY <1>1 DEF IInv, ErasedAreUnused, ReplacementsFit
<1>3. VisitedIsFolded'
  <2>. SUFFICES ASSUME NEW b \in DOMAIN func, NEW k \in DOMAIN func[b], CanFold(func[b][k])
                PROVE  FALSE
    BY <1>1 DEF VisitedIsFolded
  <2>1. Earlier(b, k, blk, at)
    BY <1>1, Facts DEF Earlier
  <2>. QED
    BY <1>1, <1>2, <2>1 DEF IInv, VisitedIsFolded
<1>. QED
  BY <1>1, <1>2, <1>3, OnwardKeeps DEF IInv, TypeOK

LEMMA FoldEraseKeeps ==
  ASSUME IInv, FoldErase, UNCHANGED replace
  PROVE  IInv'
<1>. DEFINE k == CHOOSE k \in DOMAIN Block : Block[k].id = Head(erase)
<1>1. /\ pass = "fold" /\ blk \in DOMAIN func /\ at \notin DOMAIN func[blk] /\ erase # <<>>
      /\ func' = Removed(func, blk, k) /\ erase' = Tail(erase)
      /\ UNCHANGED <<pass, blk, at, aborted, replace>>
  BY DEF FoldErase, LeftLoop, Block, Removed
<1>2. /\ erase \in Seq(Nat) /\ Len(erase) \in Nat \ {0} /\ DOMAIN erase = 1 .. Len(erase) /\ Head(erase) = erase[1]
      /\ erase' \in Seq(Nat) /\ DOMAIN erase' = 1 .. Len(erase) - 1
      /\ \A e \in 1 .. Len(erase) - 1 : erase'[e] = erase[e + 1]
  <2>1. erase \in Seq(Nat)
    BY DEF IInv, TypeOK
  <2>. QED
    BY <1>1, <2>1
<1>3. k \in DOMAIN func[blk] /\ func[blk][k].id = erase[1]
  <2>1. \E j \in DOMAIN func[blk] : func[blk][j].id = erase[1]
    BY <1>2 DEF IInv, ErasedAreUnused
  <2>. QED
    BY <1>2, <2>1 DEF Block
<1>. HIDE DEF k
<1>4. /\ IsFunc(func') /\ Unique(func') /\ Dominated(func') /\ DOMAIN func' = DOMAIN func
  <2>1. \A c \in DOMAIN func : \A j \in DOMAIN func[c] : NoUse(func[c][j], func[blk][k].id)
    BY <1>2, <1>3 DEF IInv, ErasedAreUnused
  <2>2. IsFunc(Removed(func, blk, k)) /\ DOMAIN Removed(func, blk, k) = DOMAIN func
    BY <1>1, <1>3, Facts, RemovedIs
  <2>. QED
    BY <1>1, <1>3, <2>1, <2>2, Facts, RemovedKeeps
<1>5. ASSUME NEW c \in DOMAIN func
      PROVE  /\ \A j \in DOMAIN func'[c] :
                  LET old == OldPlace(blk, k, c, j)
                  IN old \in DOMAIN func[c] /\ ~(c = blk /\ old = k) /\ func'[c][j] = func[c][old]
             /\ \A j \in DOMAIN func[c] : ~(c = blk /\ j = k) =>
                  LET new == NewPlace(blk, k, c, j)
                  IN new \in DOMAIN func'[c] /\ func'[c][new] = func[c][j]
  BY <1>1, <1>3, Facts, RemovedPlaces, SMTT(30)
<1>6. TypeOK'
  BY <1>1, <1>2, <1>4, Facts DEF IInv, TypeOK
<1>7. ErasedAreUnused'
  <2>1. ASSUME NEW e \in DOMAIN erase'
        PROVE  /\ \E j \in DOMAIN func'[blk] : j < at /\ func'[blk][j].id = erase'[e]
               /\ \A b \in DOMAIN func' : \A j \in DOMAIN func'[b] : NoUse(func'[b][j], erase'[e])
               /\ \A d \in DOMAIN erase' : erase'[d] = erase'[e] => d = e
    <3>1. e \in 1 .. Len(erase) - 1 /\ e + 1 \in DOMAIN erase /\ erase'[e] = erase[e + 1] /\ 1 \in DOMAIN erase /\ e + 1 # 1
      BY <1>2
    <3>2. PICK j \in DOMAIN func[blk] : j < at /\ func[blk][j].id = erase'[e]
      BY <3>1 DEF IInv, ErasedAreUnused
    <3>3. \A d \in DOMAIN erase : erase[d] = erase[e + 1] => d = e + 1
      BY <3>1 DEF IInv, ErasedAreUnused
    <3>4. \A d \in DOMAIN erase' : erase'[d] = erase'[e] => d = e
      <4>. SUFFICES ASSUME NEW d \in DOMAIN erase', erase'[d] = erase'[e] PROVE d = e
        OBVIOUS
      <4>1. d + 1 \in DOMAIN erase /\ erase[d + 1] = erase[e + 1] /\ d \in Int /\ e \in Int
        BY <1>2, <3>1, SMTT(30)
      <4>2. d + 1 = e + 1
        BY <3>3, <4>1
      <4>. QED
        BY <4>1, <4>2
    <3>5. j # k
      BY <1>3, <3>1, <3>2, <3>3
    <3>6. NewPlace(blk, k, blk, j) \in DOMAIN func'[blk] /\ func'[blk][NewPlace(blk, k, blk, j)].id = erase'[e]
      BY <1>1, <1>5, <3>2, <3>5
    <3>7. NewPlace(blk, k, blk, j) < at
      BY <1>1, <3>2, Facts DEF NewPlace
    <3>8. \A b \in DOMAIN func : \A i \in DOMAIN func[b] : NoUse(func[b][i], erase'[e])
      BY <3>1 DEF IInv, ErasedAreUnused
    <3>9. \A b \in DOMAIN func' : \A i \in DOMAIN func'[b] : NoUse(func'[b][i], erase'[e])
      BY <1>4, <1>5, <3>8
    <3>. QED
      BY <3>4, <3>6, <3>7, <3>9
  <2>. QED
    BY <1>1, <1>4, <2>1 DEF ErasedAreUnused
<1>8. ReplacementsFit'
  <2>1. replace = <<>> /\ replace' = <<>>
    BY <1>1 DEF IInv, ReplacementsFit
  <2>. QED
    BY <2>1 DEF ReplacementsFit
<1>9. VisitedIsFolded'
  <2>. SUFFICES ASSUME NEW b \in DOMAIN func, NEW j \in DOMAIN func'[b],
                       CanFold(func'[b][j]), Earlier(b, j, blk, at)
                PROVE  b = blk /\ \E e \in DOMAIN erase' : erase'[e] = func'[b][j].id
    BY <1>1, <1>4 DEF VisitedIsFolded
  <2>. DEFINE old == OldPlace(blk, k, b, j)
  <2>1. old \in DOMAIN func[b] /\ ~(b = blk /\ old = k) /\ func'[b][j] = func[b][old]
    BY <1>5
  <2>2. Earlier(b, old, blk, at)
    <3>1. CASE b = blk
      <4>1. old < at
        BY <1>1, <2>1, <3>1, Facts
      <4>. QED
        BY <3>1, <4>1 DEF Earlier
    <3>2. CASE b # blk
      BY <3>2 DEF Earlier
    <3>. QED
      BY <3>1, <3>2
  <2>. HIDE DEF old
  <2>3. PICK e \in DOMAIN erase : erase[e] = func[b][old].id /\ b = blk
    BY <1>1, <2>1, <2>2 DEF IInv, VisitedIsFolded
  <2>4. e # 1
    BY <1>1, <1>3, <2>1, <2>3, Facts DEF Unique
  <2>5. e - 1 \in DOMAIN erase' /\ erase'[e - 1] = erase[e]
    BY <1>2, <2>4
  <2>. QED
    BY <2>1, <2>3, <2>5
<1>. QED
  BY <1>4, <1>6, <1>7, <1>8, <1>9 DEF IInv

-----------------------------------------------------------------------------
(* New numbers are greater than all others.                                 *)

BoundedTo(q, m) == \E bound \in Nat : \A i \in 1 .. m : q[i] <= bound

LEMMA SeqBounded ==
  ASSUME NEW n \in Nat, NEW q \in [1 .. n -> Nat]
  PROVE  BoundedTo(q, n)
<1>. DEFINE T == {m \in 0 .. n : ~BoundedTo(q, m)}
<1>. SUFFICES ASSUME ~BoundedTo(q, n) PROVE FALSE
  OBVIOUS
<1>1. T # {} /\ T \subseteq Nat
  <2>1. n \in T
    OBVIOUS
  <2>. QED
    BY <2>1
<1>. HIDE DEF T
<1>2. PICK m \in T : \A j \in T : ~(<<j, m>> \in OpToRel(<, Nat))
  BY <1>1, WFMin, NatLessThanWellFounded, Zenon
<1>3. \A j \in T : ~(j < m)
  BY <1>1, <1>2 DEF OpToRel
<1>4. m \in 0 .. n /\ ~BoundedTo(q, m)
  BY DEF T
<1>5. m # 0
  <2>1. \A i \in 1 .. 0 : q[i] <= 0
    OBVIOUS
  <2>. QED
    BY <1>4, <2>1 DEF BoundedTo
<1>6. m - 1 \in 0 .. n /\ m - 1 < m /\ q[m] \in Nat
  BY <1>4, <1>5
<1>7. BoundedTo(q, m - 1)
  BY <1>3, <1>6 DEF T
<1>8. PICK bound \in Nat : \A i \in 1 .. m - 1 : q[i] <= bound
  BY <1>7 DEF BoundedTo
<1>9. bound + q[m] \in Nat /\ \A i \in 1 .. m : q[i] <= bound + q[m]
  <2>. DEFINE y == q[m]
  <2>1. y \in Nat
    BY <1>6
  <2>2. ASSUME NEW i \in 1 .. m PROVE q[i] <= bound + y
    <3>1. CASE i = m
      BY <2>1, <3>1
    <3>2. CASE i # m
      <4>1. i \in 1 .. m - 1 /\ i \in 1 .. n
        BY <1>4, <3>2
      <4>2. q[i] \in Nat /\ q[i] <= bound
        BY <1>8, <4>1
      <4>. HIDE DEF y
      <4>. QED
        BY <2>1, <4>2
    <3>. QED
      BY <3>1, <3>2
  <2>. HIDE DEF y
  <2>3. bound + y \in Nat
    BY <2>1
  <2>. QED
    BY <2>2, <2>3 DEF y
<1>. QED
  BY <1>4, <1>9 DEF BoundedTo

LEMMA MaxIs ==
  ASSUME NEW S, S \subseteq Nat, S # {}, NEW bound \in Nat, \A n \in S : n <= bound
  PROVE  Max(S) \in S /\ \A n \in S : n <= Max(S)
<1>. DEFINE T == {m \in Nat : \A n \in S : n <= m}
<1>1. T # {} /\ T \subseteq Nat
  OBVIOUS
<1>. HIDE DEF T
<1>2. PICK m \in T : \A j \in T : ~(<<j, m>> \in OpToRel(<, Nat))
  BY <1>1, WFMin, NatLessThanWellFounded, Zenon
<1>3. m \in Nat /\ (\A n \in S : n <= m) /\ \A j \in T : ~(j < m)
  BY <1>1, <1>2 DEF OpToRel, T
<1>4. m \in S
  <2>. SUFFICES ASSUME m \notin S PROVE FALSE
    OBVIOUS
  <2>1. \A n \in S : n \in Nat /\ n <= m - 1
    BY <1>3
  <2>2. m - 1 \in Nat
    <3>1. PICK n \in S : TRUE
      OBVIOUS
    <3>2. n \in Nat /\ n <= m - 1 /\ m \in Nat
      BY <1>3, <2>1
    <3>. QED
      BY <3>2
  <2>3. m - 1 \in T /\ m - 1 < m
    BY <1>3, <2>1, <2>2 DEF T
  <2>. QED
    BY <1>3, <2>3
<1>5. \E x \in S : \A y \in S : x >= y
  BY <1>3, <1>4
<1>6. Max(S) \in S /\ \A y \in S : Max(S) >= y
  BY <1>5, Zenon DEF Max
<1>. DEFINE x == Max(S)
<1>. HIDE DEF x
<1>7. x \in S /\ \A y \in S : x >= y
  BY <1>6 DEF x
<1>8. \A y \in S : y <= x
  BY <1>7
<1>. QED
  BY <1>7, <1>8 DEF x

LEMMA SitesAre ==
  ASSUME NEW f
  PROVE  /\ \A s \in Sites(f) : s = <<s[1], s[2]>> /\ s[1] \in DOMAIN f /\ s[2] \in DOMAIN f[s[1]]
         /\ \A b \in DOMAIN f : \A k \in DOMAIN f[b] : <<b, k>> \in Sites(f)
BY DEF Sites

LEMMA FreshIs ==
  ASSUME IInv, Visiting("reduce")
  PROVE  /\ Fresh \in Nat
         /\ \A b \in DOMAIN func : \A k \in DOMAIN func[b] : func[b][k].id < Fresh
         /\ \A r \in DOMAIN replace : replace[r].new.id < Fresh
<1>1. blk \in DOMAIN func /\ at \in DOMAIN func[blk]
  BY DEF Visiting, Block
<1>2. replace \in Seq(Replacement) /\ Len(replace) \in Nat /\ DOMAIN replace = 1 .. Len(replace)
      /\ \A r \in DOMAIN replace : replace[r].new \in Instr /\ replace[r].new.id \in Nat
  <2>1. replace \in Seq(Replacement)
    BY DEF IInv, TypeOK
  <2>2. Len(replace) \in Nat /\ DOMAIN replace = 1 .. Len(replace)
        /\ \A r \in DOMAIN replace : replace[r] \in Replacement
    BY <2>1
  <2>3. \A r \in DOMAIN replace : replace[r].new \in Instr
    BY <2>2 DEF Replacement
  <2>. QED
    BY <2>1, <2>2, <2>3, InstrIs
<1>3. PICK p \in Nat : \A r \in DOMAIN replace : replace[r].new.id <= p
  <2>. DEFINE q == [r \in 1 .. Len(replace) |-> replace[r].new.id]
  <2>1. q \in [1 .. Len(replace) -> Nat]
    BY <1>2
  <2>2. \A r \in DOMAIN replace : r \in 1 .. Len(replace) /\ q[r] = replace[r].new.id
    BY <1>2
  <2>. HIDE DEF q
  <2>3. BoundedTo(q, Len(replace))
    BY <1>2, <2>1, SeqBounded
  <2>. QED
    BY <1>2, <2>2, <2>3 DEF BoundedTo
<1>4. ASSUME NEW b \in DOMAIN func
      PROVE  \E m \in Nat : \A k \in DOMAIN func[b] : func[b][k].id <= m
  <2>. DEFINE q == [k \in 1 .. Len(func[b]) |-> func[b][k].id]
  <2>1. q \in [1 .. Len(func[b]) -> Nat]
    BY Facts
  <2>2. \A k \in DOMAIN func[b] : k \in 1 .. Len(func[b]) /\ q[k] = func[b][k].id
    BY Facts
  <2>. HIDE DEF q
  <2>3. BoundedTo(q, Len(func[b]))
    BY <2>1, Facts, SeqBounded
  <2>. QED
    BY <2>2, <2>3, Facts DEF BoundedTo
<1>5. PICK m \in Nat : \A b \in DOMAIN func : \A k \in DOMAIN func[b] : func[b][k].id <= m
  <2>. DEFINE Bounds(b) == {i \in Nat : \A k \in DOMAIN func[b] : func[b][k].id <= i}
              q == [b \in 1 .. Len(func) |-> CHOOSE i \in Nat : i \in Bounds(b)]
  <2>1. \A b \in DOMAIN func : q[b] \in Nat /\ q[b] \in Bounds(b)
    BY <1>4, Facts
  <2>2. q \in [1 .. Len(func) -> Nat] /\ Len(func) \in Nat /\ DOMAIN func = 1 .. Len(func)
    BY <2>1, Facts
  <2>. HIDE DEF q
  <2>3. PICK i \in Nat : \A b \in DOMAIN func : q[b] <= i
    BY <2>2, SeqBounded DEF BoundedTo
  <2>4. \A b \in DOMAIN func : \A k \in DOMAIN func[b] : func[b][k].id <= i
    BY <2>1, <2>3, Facts
  <2>. QED
    BY <2>4
<1>6. /\ Ids \subseteq Nat /\ Ids # {}
      /\ \A b \in DOMAIN func : \A k \in DOMAIN func[b] : func[b][k].id \in Ids
      /\ \A r \in DOMAIN replace : replace[r].new.id \in Ids
      /\ \A n \in Ids : n <= m + p
  <2>1. \A b \in DOMAIN func : \A k \in DOMAIN func[b] : func[b][k].id \in Ids
    <3>1. ASSUME NEW b \in DOMAIN func, NEW k \in DOMAIN func[b] PROVE func[b][k].id \in Ids
      <4>1. <<b, k>> \in Sites(func) /\ <<b, k>>[1] = b /\ <<b, k>>[2] = k
        BY SitesAre
      <4>. QED
        BY <4>1 DEF Ids
    <3>. QED
      BY <3>1
  <2>2. \A r \in DOMAIN replace : replace[r].new.id \in Ids
    BY DEF Ids
  <2>3. ASSUME NEW n \in Ids PROVE n \in Nat /\ n <= m + p
    <3>1. CASE \E s \in Sites(func) : n = func[s[1]][s[2]].id
      <4>1. PICK s \in Sites(func) : n = func[s[1]][s[2]].id
        BY <3>1
      <4>2. n \in Nat /\ n <= m
        BY <1>5, <4>1, SitesAre, Facts
      <4>. QED
        BY <4>2
    <3>2. CASE \E r \in DOMAIN replace : n = replace[r].new.id
      BY <1>2, <1>3, <3>2
    <3>. QED
      BY <3>1, <3>2 DEF Ids
  <2>. QED
    BY <1>1, <2>1, <2>2, <2>3
<1>. DEFINE x == Max(Ids)
<1>7. x \in Ids /\ \A n \in Ids : n <= x
  <2>. DEFINE bound == m + p
  <2>1. bound \in Nat
    OBVIOUS
  <2>. HIDE DEF bound
  <2>2. \A n \in Ids : n <= bound
    BY <1>6 DEF bound
  <2>. QED
    BY <1>6, <2>1, <2>2, MaxIs
<1>8. Fresh = x + 1
  BY DEF Fresh
<1>. HIDE DEF x
<1>9. Fresh \in Nat /\ \A n \in Ids : n \in Nat /\ n < Fresh
  <2>1. x \in Nat /\ \A n \in Ids : n \in Nat /\ n < x + 1
    BY <1>6, <1>7
  <2>. QED
    BY <1>8, <2>1
<1>. QED
  BY <1>6, <1>9, Zenon

-----------------------------------------------------------------------------
(* StrengthReduction.                                                       *)

LEMMA ReduceSkipKeeps ==
  ASSUME IInv, ReduceSkip \/ ReduceBreak, UNCHANGED erase
  PROVE  IInv'
<1>1. /\ pass = "reduce" /\ blk \in DOMAIN func /\ at \in DOMAIN func[blk]
      /\ at' \in {at + 1, Len(func[blk]) + 1}
      /\ UNCHANGED <<func, pass, blk, aborted, erase, replace>>
  BY DEF ReduceSkip, ReduceBreak, Visiting, Block
<1>2. VisitedIsFolded'
  BY <1>1 DEF IInv, VisitedIsFolded
<1>3. at' \in Nat \ {0} /\ at' >= at
  BY <1>1, Facts
<1>. QED
  BY <1>1, <1>2, <1>3, OnwardKeeps DEF IInv, TypeOK, ErasedAreUnused, ReplacementsFit

LEMMA ReduceBlockEndKeeps ==
  ASSUME IInv, ReduceBlockEnd \/ ReduceEnd, UNCHANGED erase
  PROVE  IInv'
<1>1. /\ pass = "reduce" /\ pass' \in {"reduce", "done"} /\ blk' \in {1, blk + 1} /\ at' = 1
      /\ UNCHANGED <<func, aborted, erase, replace>>
  BY DEF ReduceBlockEnd, ReduceEnd, LeftLoop, NextBlock, NextPass
<1>2. erase = <<>> /\ replace = <<>>
  BY <1>1 DEF IInv, ErasedAreUnused, ReplacementsFit, ReduceBlockEnd, ReduceEnd, NextPass
<1>3. VisitedIsFolded'
  BY <1>1 DEF IInv, VisitedIsFolded
<1>4. blk + 1 \in Nat \ {0}
  BY Facts
<1>. QED
  BY <1>1, <1>2, <1>3, <1>4, OnwardKeeps DEF IInv, TypeOK

\* The operand that is not the constant is one of the instruction's.
LEMMA OneConstIs ==
  ASSUME IInv, Visiting("reduce"), OneConst, IsPowerOf2(TheConst.n)
  PROVE  /\ pass = "reduce" /\ blk \in DOMAIN func /\ at \in DOMAIN func[blk] /\ Current = func[blk][at]
         /\ TheVar \in Operand /\ ~IsConst(TheVar) /\ TheConst \in Operand /\ IsConst(TheConst)
         /\ Log2(TheConst.n) \in Int
         /\ TheVar.k = "inst" => Defined(func, TheVar.n, blk, at)
<1>1. pass = "reduce" /\ blk \in DOMAIN func /\ at \in DOMAIN func[blk] /\ Current = func[blk][at]
  BY DEF Visiting, Block, Current
<1>2. Current.l \in Operand /\ Current.r \in Operand
  BY <1>1, Facts, InstrIs
<1>3. /\ TheVar \in {Current.l, Current.r} /\ TheConst \in {Current.l, Current.r}
      /\ ~IsConst(TheVar) /\ IsConst(TheConst)
  BY DEF TheVar, TheConst, OneConst, IsConst
<1>4. \E k \in 0 .. W - 2 : Pow2(k) = TheConst.n
  BY Zenon DEF IsPowerOf2, PowersOfTwo
<1>5. Log2(TheConst.n) \in 0 .. W - 2
  BY <1>4, Zenon DEF Log2
<1>6. OpsDefined(func, Current, blk, at)
  BY <1>1, Facts DEF Dominated
<1>. QED
  BY <1>1, <1>2, <1>3, <1>5, <1>6, WidthIs DEF OpsDefined

\* One more instruction waits.
LEMMA AppendedFits ==
  ASSUME NEW R, NEW q \in Seq(R), NEW r \in R
  PROVE  /\ Append(q, r) \in Seq(R) /\ Append(q, r) # <<>>
         /\ \A i \in DOMAIN q : i \in DOMAIN Append(q, r) /\ Append(q, r)[i] = q[i]
         /\ \A i \in DOMAIN Append(q, r) :
              \/ i \in DOMAIN q /\ Append(q, r)[i] = q[i]
              \/ i = Len(q) + 1 /\ i \notin DOMAIN q /\ Append(q, r)[i] = r
OBVIOUS

LEMMA WaitingIs ==
  ASSUME IInv, NEW r \in DOMAIN replace
  PROVE  /\ pass = "reduce" /\ blk \in DOMAIN func
         /\ replace[r].new \in Instr /\ replace[r].old \in Nat /\ replace[r].new.id \in Nat
         /\ \E k \in DOMAIN func[blk] :
              k < at /\ func[blk][k].id = replace[r].old /\ OpsDefined(func, replace[r].new, blk, k)
         /\ ~CanFold(replace[r].new)
         /\ \A b \in DOMAIN func : \A k \in DOMAIN func[b] : func[b][k].id # replace[r].new.id
         /\ \A q \in DOMAIN replace \ {r} :
              replace[q].old # replace[r].old /\ replace[q].new.id # replace[r].new.id
<1>1. replace \in Seq(Replacement)
  BY DEF IInv, TypeOK
<1>2. replace # <<>> /\ replace[r] \in Replacement
  BY <1>1
<1>3. replace[r].new \in Instr /\ replace[r].old \in Nat
  BY <1>2 DEF Replacement
<1>. QED
  BY <1>2, <1>3, InstrIs DEF IInv, ReplacementsFit

Fits(r, f, b, n) ==
  /\ \E k \in DOMAIN f[b] : k < n /\ f[b][k].id = r.old /\ OpsDefined(f, r.new, b, k)
  /\ ~CanFold(r.new)
  /\ \A c \in DOMAIN f : \A k \in DOMAIN f[c] : f[c][k].id # r.new.id

LEMMA OneMoreFits ==
  ASSUME IInv, pass' = "reduce", blk' \in DOMAIN func',
         NEW item \in Replacement, replace' = Append(replace, item), Fits(item, func', blk', at'),
         \A r \in DOMAIN replace :
           Fits(replace[r], func', blk', at') /\ replace[r].old # item.old /\ replace[r].new.id # item.new.id
  PROVE  ReplacementsFit' /\ replace' \in Seq(Replacement)
<1>1. /\ replace \in Seq(Replacement) /\ replace' \in Seq(Replacement)
      /\ \A i \in DOMAIN replace' :
           \/ i \in DOMAIN replace /\ replace'[i] = replace[i]
           \/ i = Len(replace) + 1 /\ replace'[i] = item
  <2>1. replace \in Seq(Replacement)
    BY DEF IInv, TypeOK
  <2>. QED
    BY <2>1, AppendedFits
<1>2. ASSUME NEW i \in DOMAIN replace', NEW q \in DOMAIN replace' \ {i}
      PROVE  replace'[q].old # replace'[i].old /\ replace'[q].new.id # replace'[i].new.id
  <2>1. CASE i \in DOMAIN replace /\ replace'[i] = replace[i] /\ q \in DOMAIN replace /\ replace'[q] = replace[q]
    BY <2>1, WaitingIs
  <2>2. CASE i \in DOMAIN replace /\ replace'[i] = replace[i] /\ replace'[q] = item
    BY <2>2
  <2>3. CASE replace'[i] = item /\ q \in DOMAIN replace /\ replace'[q] = replace[q]
    BY <2>3
  <2>. QED
    BY <1>1, <2>1, <2>2, <2>3
<1>3. \A r \in DOMAIN replace' :
        /\ \E k \in DOMAIN func'[blk'] :
             k < at' /\ func'[blk'][k].id = replace'[r].old /\ OpsDefined(func', replace'[r].new, blk', k)
        /\ ~CanFold(replace'[r].new)
        /\ \A b \in DOMAIN func' : \A k \in DOMAIN func'[b] : func'[b][k].id # replace'[r].new.id
  <2>1. ASSUME NEW r \in DOMAIN replace'
        PROVE  /\ \E k \in DOMAIN func'[blk'] :
                    k < at' /\ func'[blk'][k].id = replace'[r].old /\ OpsDefined(func', replace'[r].new, blk', k)
               /\ ~CanFold(replace'[r].new)
               /\ \A b \in DOMAIN func' : \A k \in DOMAIN func'[b] : func'[b][k].id # replace'[r].new.id
    <3>1. PICK x : replace'[r] = x /\ (x = item \/ \E i \in DOMAIN replace : x = replace[i])
      BY <1>1
    <3>2. /\ \E k \in DOMAIN func'[blk'] :
               k < at' /\ func'[blk'][k].id = x.old /\ OpsDefined(func', x.new, blk', k)
          /\ ~CanFold(x.new)
          /\ \A b \in DOMAIN func' : \A k \in DOMAIN func'[b] : func'[b][k].id # x.new.id
      BY <3>1 DEF Fits
    <3>. QED
      BY <3>1, <3>2
  <2>. QED
    BY <2>1
<1>. QED
  BY <1>1, <1>2, <1>3 DEF ReplacementsFit

LEMMA ReduceMulKeeps ==
  ASSUME IInv, ReduceMul, UNCHANGED erase
  PROVE  IInv'
<1>. DEFINE new == [id |-> Fresh, op |-> "shl", l |-> TheVar, r |-> ShiftFor(TheConst.n)]
            item == [old |-> Current.id, new |-> new]
<1>1. /\ Visiting("reduce") /\ OneConst /\ IsPowerOf2(TheConst.n)
      /\ replace' = Append(replace, item) /\ at' = at + 1
      /\ UNCHANGED <<func, pass, blk, aborted, erase>>
  BY DEF ReduceMul
<1>2. /\ pass = "reduce" /\ blk \in DOMAIN func /\ at \in DOMAIN func[blk] /\ Current = func[blk][at]
      /\ Current.id \in Nat /\ at \in Nat /\ at' \in Nat \ {0} /\ at < at'
  BY <1>1, OneConstIs, Facts
<1>3. new \in Instr /\ ~CanFold(new) /\ OpsDefined(func, new, blk, at) /\ new.id = Fresh
  <2>1. TheVar \in Operand /\ (TheVar.k = "inst" => Defined(func, TheVar.n, blk, at))
    BY <1>1, OneConstIs
  <2>2. ShiftFor(TheConst.n) \in Operand /\ ShiftFor(TheConst.n).k = "const"
    BY <1>1, OneConstIs, OperandsMade DEF ShiftFor
  <2>3. new \in Instr
    BY <1>1, <2>1, <2>2, FreshIs DEF Instr, BinaryOps
  <2>4. ~CanFold(new)
    BY DEF CanFold, FoldOps
  <2>5. OpsDefined(func, new, blk, at)
    BY <2>1, <2>2 DEF OpsDefined
  <2>. QED
    BY <2>3, <2>4, <2>5
<1>4. item \in Replacement /\ item.old = Current.id /\ item.new = new
  BY <1>2, <1>3 DEF Replacement
<1>. HIDE DEF new, item
<1>5. Fits(item, func', blk', at')
  <2>1. \A b \in DOMAIN func : \A k \in DOMAIN func[b] : func[b][k].id # Fresh
    BY <1>1, FreshIs, Facts
  <2>. QED
    BY <1>1, <1>2, <1>3, <1>4, <2>1 DEF Fits
<1>6. ASSUME NEW i \in DOMAIN replace
      PROVE  Fits(replace[i], func', blk', at') /\ replace[i].old # item.old /\ replace[i].new.id # item.new.id
  <2>1. PICK k \in DOMAIN func[blk] :
          k < at /\ func[blk][k].id = replace[i].old /\ OpsDefined(func, replace[i].new, blk, k)
    BY WaitingIs
  <2>2. k < at'
    BY <1>2, <2>1, Facts
  <2>3. replace[i].old # item.old
    BY <1>2, <1>4, <2>1, Facts DEF Unique
  <2>4. replace[i].new.id \in Nat /\ replace[i].new.id < Fresh /\ Fresh \in Nat
    BY <1>1, WaitingIs, FreshIs
  <2>5. replace[i].new.id # item.new.id
    BY <1>3, <1>4, <2>4
  <2>6. Fits(replace[i], func', blk', at')
    BY <1>1, <2>1, <2>2, WaitingIs DEF Fits
  <2>. QED
    BY <2>3, <2>5, <2>6
<1>7. ReplacementsFit' /\ replace' \in Seq(Replacement)
  BY <1>1, <1>2, <1>4, <1>5, <1>6, OneMoreFits
<1>8. TypeOK' /\ Unique(func') /\ Dominated(func')
  BY <1>1, <1>2, <1>7, Facts DEF IInv, TypeOK
<1>9. ErasedAreUnused'
  <2>1. erase = <<>> /\ erase' = <<>>
    BY <1>1, <1>2 DEF IInv, ErasedAreUnused
  <2>. QED
    BY <2>1 DEF ErasedAreUnused
<1>10. VisitedIsFolded'
  BY <1>1, <1>2 DEF IInv, VisitedIsFolded
<1>. QED
  BY <1>7, <1>8, <1>9, <1>10 DEF IInv

LEMMA ReduceRemKeeps ==
  ASSUME IInv, ReduceRem, UNCHANGED erase
  PROVE  IInv'
<1>. DEFINE div == [id |-> Fresh, op |-> "sdiv", l |-> TheVar, r |-> TheConst]
            shl == [id |-> Fresh + 1, op |-> "shl", l |-> Inst(Fresh), r |-> Const(Log2(TheConst.n))]
            sub == [id |-> Fresh + 2, op |-> "sub", l |-> TheVar, r |-> Inst(Fresh + 1)]
            item == [old |-> Current.id, new |-> sub]
<1>1. /\ Visiting("reduce") /\ OneConst /\ IsPowerOf2(TheConst.n)
      /\ func' = Inserted(func, blk, at, div, shl)
      /\ replace' = Append(replace, item) /\ at' = at + 3
      /\ UNCHANGED <<pass, blk, aborted, erase>>
  BY DEF ReduceRem, AfterInsert, Inserted
<1>2. /\ pass = "reduce" /\ blk \in DOMAIN func /\ at \in DOMAIN func[blk] /\ Current = func[blk][at]
      /\ Current.id \in Nat /\ at \in Nat /\ at' \in Nat \ {0} /\ at + 2 < at' /\ at < at'
  BY <1>1, OneConstIs, Facts
<1>3. Fresh \in Nat /\ Fresh + 1 \in Nat /\ Fresh + 2 \in Nat
  BY <1>1, FreshIs
<1>4. /\ TheVar \in Operand /\ ~IsConst(TheVar) /\ (TheVar.k = "inst" => Defined(func, TheVar.n, blk, at))
      /\ TheConst \in Operand /\ TheConst.k = "const"
  BY <1>1, OneConstIs DEF IsConst
<1>5. /\ Const(Log2(TheConst.n)) \in Operand /\ Const(Log2(TheConst.n)).k = "const"
      /\ Inst(Fresh) \in Operand /\ Inst(Fresh).n = Fresh
      /\ Inst(Fresh + 1) \in Operand /\ Inst(Fresh + 1).n = Fresh + 1 /\ ~IsConst(Inst(Fresh + 1))
  BY <1>1, <1>3, OneConstIs, OperandsMade
<1>6. /\ div \in Instr /\ shl \in Instr /\ sub \in Instr
      /\ div.id = Fresh /\ shl.id = Fresh + 1 /\ sub.id = Fresh + 2
  BY <1>3, <1>4, <1>5 DEF Instr, BinaryOps, FoldOps
<1>7. ~CanFold(div) /\ ~CanFold(shl) /\ ~CanFold(sub)
  BY <1>4, <1>5 DEF CanFold, FoldOps
<1>8. OpsDefined(func, div, blk, at)
  BY <1>4 DEF OpsDefined
<1>9. \A o \in {shl.l, shl.r} : o.k = "inst" => o.n = div.id
  BY <1>5
<1>10. \A o \in {sub.l, sub.r} : o = TheVar \/ o.n = shl.id
  BY <1>5
<1>11. item \in Replacement /\ item.old = Current.id /\ item.new = sub
  BY <1>2, <1>6 DEF Replacement
<1>. HIDE DEF div, shl, sub, item
<1>12. ASSUME NEW b \in DOMAIN func, NEW k \in DOMAIN func[b]
       PROVE  func[b][k].id \in Nat /\ func[b][k].id < Fresh
  BY <1>1, FreshIs, Facts
<1>13. /\ IsFunc(func') /\ DOMAIN func' = DOMAIN func /\ Unique(func') /\ Dominated(func')
  <2>1. div.id # shl.id /\ \A c \in DOMAIN func : \A j \in DOMAIN func[c] : func[c][j].id # div.id /\ func[c][j].id # shl.id
    BY <1>3, <1>6, <1>12
  <2>. HIDE DEF IInv
  <2>2. IsFunc(Inserted(func, blk, at, div, shl)) /\ DOMAIN Inserted(func, blk, at, div, shl) = DOMAIN func
    BY <1>2, <1>6, Facts, InsertedIs
  <2>3. Unique(Inserted(func, blk, at, div, shl)) /\ Dominated(Inserted(func, blk, at, div, shl))
    BY <1>2, <1>6, <1>8, <1>9, <2>1, Facts, InsertedKeeps
  <2>. QED
    BY <1>1, <2>2, <2>3
<1>14. ASSUME NEW c \in DOMAIN func
       PROVE  /\ \A j \in DOMAIN func[c] : Shifted(blk, at, c, j) \in DOMAIN func'[c]
                                         /\ func'[c][Shifted(blk, at, c, j)] = func[c][j]
              /\ c = blk => at \in DOMAIN func'[c] /\ at + 1 \in DOMAIN func'[c] /\ func'[c][at] = div /\ func'[c][at + 1] = shl
              /\ \A j \in DOMAIN func'[c] :
                   (c = blk /\ j \in {at, at + 1}) \/ \E i \in DOMAIN func[c] : j = Shifted(blk, at, c, i)
  <2>1. IsFunc(func) /\ blk \in DOMAIN func /\ at \in DOMAIN func[blk]
        /\ div \in Instr /\ shl \in Instr /\ func' = Inserted(func, blk, at, div, shl)
    BY <1>1, <1>2, <1>6, Facts
  <2>. QED
    BY <2>1, InsertedPlaces
<1>15. ASSUME NEW id, NEW c \in DOMAIN func, NEW j \in DOMAIN func[c], Defined(func, id, c, j)
       PROVE  Defined(func', id, c, Shifted(blk, at, c, j))
  <2>1. IsFunc(func) /\ blk \in DOMAIN func /\ at \in DOMAIN func[blk]
        /\ div \in Instr /\ shl \in Instr /\ func' = Inserted(func, blk, at, div, shl)
    BY <1>1, <1>2, <1>6, Facts
  <2>. QED
    BY <1>15, <2>1, InsertedDefined
<1>16. ASSUME NEW b \in DOMAIN func', NEW j \in DOMAIN func'[b]
       PROVE  func'[b][j] \in {div, shl} \/ \E i \in DOMAIN func[b] : func'[b][j] = func[b][i]
  BY <1>13, <1>14
<1>17. Shifted(blk, at, blk, at) = at + 2 /\ \A k \in DOMAIN func[blk] : k < at => Shifted(blk, at, blk, k) = k
  BY <1>2, Facts DEF Shifted
<1>18. Fits(item, func', blk', at')
  <2>1. at + 2 \in DOMAIN func'[blk] /\ func'[blk][at + 2].id = item.old
    BY <1>2, <1>11, <1>14, <1>17
  <2>2. OpsDefined(func', sub, blk, at + 2)
    <3>1. Defined(func', shl.id, blk, at + 2)
      <4>1. at + 1 \in DOMAIN func'[blk] /\ func'[blk][at + 1].id = shl.id /\ Earlier(blk, at + 1, blk, at + 2)
        BY <1>2, <1>14 DEF Earlier
      <4>. QED
        BY <1>2, <1>13, <4>1, Zenon DEF Defined
    <3>2. TheVar.k = "inst" => Defined(func', TheVar.n, blk, at + 2)
      BY <1>2, <1>4, <1>15, <1>17
    <3>. QED
      BY <1>10, <3>1, <3>2 DEF OpsDefined
  <2>3. \A b \in DOMAIN func' : \A k \in DOMAIN func'[b] : func'[b][k].id # sub.id
    BY <1>3, <1>6, <1>12, <1>13, <1>16
  <2>. QED
    BY <1>1, <1>2, <1>7, <1>11, <2>1, <2>2, <2>3 DEF Fits
<1>19. ASSUME NEW i \in DOMAIN replace
       PROVE  Fits(replace[i], func', blk', at') /\ replace[i].old # item.old /\ replace[i].new.id # item.new.id
  <2>1. PICK k \in DOMAIN func[blk] :
          k < at /\ func[blk][k].id = replace[i].old /\ OpsDefined(func, replace[i].new, blk, k)
    BY WaitingIs
  <2>2. k < at' /\ k \in DOMAIN func'[blk] /\ func'[blk][k].id = replace[i].old
    BY <1>2, <1>14, <1>17, <2>1, Facts
  <2>3. replace[i].old # item.old
    BY <1>2, <1>11, <2>1, Facts DEF Unique
  <2>4. replace[i].new.id \in Nat /\ replace[i].new.id < Fresh /\ Fresh \in Nat
    BY <1>1, WaitingIs, FreshIs
  <2>5. replace[i].new.id # item.new.id
    BY <1>6, <1>11, <2>4
  <2>6. OpsDefined(func', replace[i].new, blk, k)
    BY <1>2, <1>15, <1>17, <2>1 DEF OpsDefined
  <2>7. \A b \in DOMAIN func' : \A j \in DOMAIN func'[b] : func'[b][j].id # replace[i].new.id
    BY <1>3, <1>6, <1>13, <1>16, <2>4, WaitingIs
  <2>8. Fits(replace[i], func', blk', at')
    BY <1>1, <2>2, <2>6, <2>7, WaitingIs DEF Fits
  <2>. QED
    BY <2>3, <2>5, <2>8
<1>20. ReplacementsFit' /\ replace' \in Seq(Replacement)
  BY <1>1, <1>2, <1>11, <1>13, <1>18, <1>19, OneMoreFits
<1>21. TypeOK'
  BY <1>1, <1>2, <1>13, <1>20, Facts DEF IInv, TypeOK
<1>22. ErasedAreUnused'
  <2>1. erase = <<>> /\ erase' = <<>>
    BY <1>1, <1>2 DEF IInv, ErasedAreUnused
  <2>. QED
    BY <2>1 DEF ErasedAreUnused
<1>23. VisitedIsFolded'
  <2>1. \A b \in DOMAIN func : \A k \in DOMAIN func[b] : ~CanFold(func[b][k])
    BY <1>2 DEF IInv, VisitedIsFolded
  <2>2. \A b \in DOMAIN func' : \A k \in DOMAIN func'[b] : ~CanFold(func'[b][k])
    BY <1>7, <1>13, <1>16, <2>1
  <2>. QED
    BY <2>2 DEF VisitedIsFolded
<1>. QED
  BY <1>13, <1>20, <1>21, <1>22, <1>23 DEF IInv

LEMMA ReplaceInstKeeps ==
  ASSUME IInv, ReplaceInst, UNCHANGED erase
  PROVE  IInv'
<1>. DEFINE old == replace[1].old
            new == replace[1].new
<1>1. /\ pass = "reduce" /\ blk \in DOMAIN func /\ replace # <<>>
      /\ func' = Replaced(func, blk, Head(replace).old, Head(replace).new) /\ replace' = Waiting
      /\ UNCHANGED <<pass, blk, at, aborted, erase>>
  BY DEF ReplaceInst, LeftLoop, Replaced, Placed
<1>2. /\ replace \in Seq(Replacement) /\ Len(replace) \in Nat \ {0} /\ DOMAIN replace = 1 .. Len(replace)
      /\ 1 \in DOMAIN replace /\ Head(replace) = replace[1]
      /\ Tail(replace) \in Seq(Replacement) /\ DOMAIN Tail(replace) = 1 .. Len(replace) - 1
      /\ \A r \in DOMAIN Tail(replace) : r + 1 \in DOMAIN replace \ {1} /\ Tail(replace)[r] = replace[r + 1]
  <2>1. replace \in Seq(Replacement)
    BY DEF IInv, TypeOK
  <2>. QED
    BY <1>1, <2>1
<1>3. PICK k \in DOMAIN func[blk] : func[blk][k].id = old /\ OpsDefined(func, new, blk, k)
  BY <1>2, WaitingIs
<1>4. /\ new \in Instr /\ ~CanFold(new) /\ old \in Nat /\ new.id \in Nat
      /\ \A b \in DOMAIN func : \A j \in DOMAIN func[b] : func[b][j].id # new.id
  BY <1>2, WaitingIs
<1>5. func' = Replaced(func, blk, func[blk][k].id, new)
  BY <1>1, <1>2, <1>3
<1>. DEFINE To(i) == Subst(i, old, Inst(new.id))
<1>. HIDE DEF old, new
<1>6. /\ IsFunc(func') /\ DOMAIN func' = DOMAIN func
      /\ \A c \in DOMAIN func : DOMAIN func'[c] = DOMAIN func[c]
  <2>1. IsFunc(func) /\ Unique(func)
    BY Facts
  <2>. QED
    BY <1>1, <1>3, <1>4, <1>5, <2>1, ReplacedIs
<1>7. /\ Unique(func') /\ Dominated(func')
      /\ \A c \in DOMAIN func : \A j \in DOMAIN func[c] :
           /\ func'[c][j].id = IF c = blk /\ j = k THEN new.id ELSE func[c][j].id
           /\ CanFold(func'[c][j]) => CanFold(IF c = blk /\ j = k THEN new ELSE func[c][j])
      /\ \A i \in Instr : \A c, j : OpsDefined(func, i, c, j) => OpsDefined(func', To(i), c, j)
  <2>1. IsFunc(func) /\ Unique(func) /\ Dominated(func)
    BY Facts
  <2>. QED
    BY <1>1, <1>3, <1>4, <1>5, <2>1, ReplacedKeeps
<1>8. ASSUME NEW i \in Instr
      PROVE  To(i) \in Instr /\ To(i).id = i.id /\ (CanFold(To(i)) => CanFold(i))
  <2>1. Inst(new.id) \in Operand /\ ~IsConst(Inst(new.id))
    BY <1>4, OperandsMade
  <2>. QED
    BY <2>1, SubstIs DEF CanFold
<1>9. ASSUME NEW r \in DOMAIN replace'
      PROVE  /\ r \in Nat /\ r + 1 \in DOMAIN replace \ {1}
             /\ replace'[r] \in Replacement
             /\ replace'[r].old = replace[r + 1].old /\ replace'[r].new = To(replace[r + 1].new)
  <2>1. r \in DOMAIN Tail(replace)
    BY <1>1 DEF Waiting
  <2>2. replace'[r] = [Tail(replace)[r] EXCEPT !.new = Subst(@, Head(replace).old, Inst(Head(replace).new.id))]
    BY <1>1, <2>1 DEF Waiting
  <2>3. r \in Nat /\ r + 1 \in DOMAIN replace \ {1} /\ Tail(replace)[r] = replace[r + 1] /\ replace[r + 1] \in Replacement
    BY <1>2, <2>1
  <2>4. replace'[r] = [replace[r + 1] EXCEPT !.new = To(replace[r + 1].new)]
    BY <1>2, <2>2, <2>3 DEF old, new
  <2>. HIDE DEF To
  <2>5. replace[r + 1].new \in Instr /\ To(replace[r + 1].new) \in Instr
    BY <1>8, <2>3 DEF Replacement
  <2>. QED
    BY <2>3, <2>4, <2>5 DEF Replacement
<1>10. replace' \in Seq(Replacement)
  <2>. DEFINE n == Len(replace) - 1
  <2>1. n \in Nat
    BY <1>2
  <2>2. replace' \in [1 .. n -> Replacement]
    BY <1>1, <1>2, <1>9 DEF Waiting
  <2>. HIDE DEF n
  <2>. QED
    BY <2>1, <2>2, SeqDef
<1>. HIDE DEF To
<1>11. ASSUME NEW r \in DOMAIN replace'
       PROVE  Fits(replace'[r], func', blk, at)
  <2>. DEFINE item == replace[r + 1]
  <2>1. /\ item.new \in Instr /\ item.old # old /\ item.new.id # new.id /\ ~CanFold(item.new)
        /\ \A b \in DOMAIN func : \A j \in DOMAIN func[b] : func[b][j].id # item.new.id
    BY <1>2, <1>9, WaitingIs DEF old, new
  <2>2. PICK i \in DOMAIN func[blk] : i < at /\ func[blk][i].id = item.old /\ OpsDefined(func, item.new, blk, i)
    BY <1>9, WaitingIs
  <2>3. replace'[r].old = item.old /\ replace'[r].new = To(item.new)
    BY <1>9
  <2>. HIDE DEF item
  <2>4. i \in DOMAIN func'[blk] /\ func'[blk][i].id = item.old
    BY <1>1, <1>3, <1>6, <1>7, <2>1, <2>2
  <2>5. OpsDefined(func', To(item.new), blk, i)
    BY <1>7, <2>1, <2>2
  <2>6. To(item.new).id = item.new.id /\ ~CanFold(To(item.new))
    BY <1>8, <2>1
  <2>7. \A c \in DOMAIN func' : \A j \in DOMAIN func'[c] : func'[c][j].id # item.new.id
    BY <1>6, <1>7, <2>1
  <2>. QED
    BY <2>2, <2>3, <2>4, <2>5, <2>6, <2>7 DEF Fits
<1>12. ASSUME NEW r \in DOMAIN replace', NEW q \in DOMAIN replace' \ {r}
       PROVE  replace'[q].old # replace'[r].old /\ replace'[q].new.id # replace'[r].new.id
  <2>1. r + 1 \in DOMAIN replace /\ q + 1 \in DOMAIN replace \ {r + 1}
    BY <1>9
  <2>2. replace[q + 1].old # replace[r + 1].old /\ replace[q + 1].new.id # replace[r + 1].new.id
        /\ replace[q + 1].new \in Instr /\ replace[r + 1].new \in Instr
    BY <2>1, WaitingIs
  <2>3. To(replace[q + 1].new).id = replace[q + 1].new.id /\ To(replace[r + 1].new).id = replace[r + 1].new.id
    BY <1>8, <2>2
  <2>. QED
    BY <1>9, <2>2, <2>3
<1>13. TypeOK'
  BY <1>1, <1>6, <1>10, Facts DEF IInv, TypeOK
<1>14. ErasedAreUnused'
  <2>1. erase = <<>> /\ erase' = <<>>
    BY <1>1 DEF IInv, ErasedAreUnused
  <2>. QED
    BY <2>1 DEF ErasedAreUnused
<1>15. ReplacementsFit'
  BY <1>1, <1>6, <1>11, <1>12 DEF ReplacementsFit, Fits
<1>16. VisitedIsFolded'
  <2>1. \A b \in DOMAIN func : \A j \in DOMAIN func[b] : ~CanFold(func[b][j])
    BY <1>1 DEF IInv, VisitedIsFolded
  <2>2. \A b \in DOMAIN func' : \A j \in DOMAIN func'[b] : ~CanFold(func'[b][j])
    BY <1>4, <1>6, <1>7, <2>1
  <2>. QED
    BY <2>2 DEF VisitedIsFolded
<1>. QED
  BY <1>7, <1>13, <1>14, <1>15, <1>16 DEF IInv

-----------------------------------------------------------------------------
(* The theorems on the shape of the function.                               *)

LEMMA DefsAre ==
  ASSUME NEW f, NEW id, NEW b \in DOMAIN f, NEW k \in DOMAIN f[b]
  PROVE  Defs(f, id, <<b, k>>) # {} <=> Defined(f, id, b, k)
<1>1. ASSUME NEW s \in Defs(f, id, <<b, k>>) PROVE Defined(f, id, b, k)
  <2>1. s \in Sites(f) /\ f[s[1]][s[2]].id = id /\ Precedes(s, <<b, k>>)
    BY DEF Defs
  <2>2. s[1] \in DOMAIN f /\ s[2] \in DOMAIN f[s[1]] /\ Earlier(s[1], s[2], b, k)
    BY <2>1, SitesAre DEF Precedes, Earlier
  <2>. QED
    BY <2>1, <2>2, Zenon DEF Defined
<1>2. ASSUME NEW c \in DOMAIN f, NEW j \in DOMAIN f[c], f[c][j].id = id, Earlier(c, j, b, k)
      PROVE  <<c, j>> \in Defs(f, id, <<b, k>>)
  BY <1>2, SitesAre DEF Defs, Precedes, Earlier
<1>. QED
  BY <1>1, <1>2 DEF Defined

LEMMA UsesAre ==
  ASSUME NEW f, NEW i, NEW b \in DOMAIN f, NEW k \in DOMAIN f[b]
  PROVE  UsesDefined(f, i, <<b, k>>) <=> OpsDefined(f, i, b, k)
<1>1. UsesDefined(f, i, <<b, k>>) <=> \A id \in Uses(i) : Defined(f, id, b, k)
  BY DefsAre DEF UsesDefined
<1>. QED
  BY <1>1 DEF Uses, OpsDefined

LEMMA WellFormedIs ==
  ASSUME NEW f, IsFunc(f)
  PROVE  WellFormed(f) <=> Unique(f) /\ Dominated(f)
<1>1. \A b \in DOMAIN f : b \in Int /\ \A k \in DOMAIN f[b] : k \in Int
  BY FuncIs
<1>2. WellFormed(f) <=> \A b \in DOMAIN f : \A k \in DOMAIN f[b] : ~Defined(f, f[b][k].id, b, k) /\ OpsDefined(f, f[b][k], b, k)
  <2>1. ASSUME NEW b \in DOMAIN f, NEW k \in DOMAIN f[b]
        PROVE  /\ <<b, k>> \in Sites(f) /\ <<b, k>>[1] = b /\ <<b, k>>[2] = k
               /\ Defs(f, f[b][k].id, <<b, k>>) = {} <=> ~Defined(f, f[b][k].id, b, k)
               /\ UsesDefined(f, f[b][k], <<b, k>>) <=> OpsDefined(f, f[b][k], b, k)
    BY SitesAre, DefsAre, UsesAre
  <2>2. ASSUME NEW t \in Sites(f)
        PROVE  t = <<t[1], t[2]>> /\ t[1] \in DOMAIN f /\ t[2] \in DOMAIN f[t[1]]
    BY SitesAre
  <2>3. ASSUME WellFormed(f), NEW b \in DOMAIN f, NEW k \in DOMAIN f[b]
        PROVE  ~Defined(f, f[b][k].id, b, k) /\ OpsDefined(f, f[b][k], b, k)
    BY <2>1, <2>3 DEF WellFormed
  <2>4. ASSUME \A b \in DOMAIN f : \A k \in DOMAIN f[b] : ~Defined(f, f[b][k].id, b, k) /\ OpsDefined(f, f[b][k], b, k),
               NEW t \in Sites(f)
        PROVE  Defs(f, f[t[1]][t[2]].id, t) = {} /\ UsesDefined(f, f[t[1]][t[2]], t)
    BY <2>1, <2>2, <2>4
  <2>. QED
    BY <2>3, <2>4 DEF WellFormed
<1>3. (\A b \in DOMAIN f : \A k \in DOMAIN f[b] : ~Defined(f, f[b][k].id, b, k)) <=> Unique(f)
  <2>1. ASSUME Unique(f), NEW b \in DOMAIN f, NEW k \in DOMAIN f[b], Defined(f, f[b][k].id, b, k)
        PROVE  FALSE
    <3>1. Earlier(b, k, b, k)
      BY <2>1, Zenon DEF Unique, Defined
    <3>. QED
      BY <1>1, <3>1 DEF Earlier
  <2>2. ASSUME \A b \in DOMAIN f : \A k \in DOMAIN f[b] : ~Defined(f, f[b][k].id, b, k),
               NEW b \in DOMAIN f, NEW c \in DOMAIN f, NEW k \in DOMAIN f[b], NEW j \in DOMAIN f[c],
               f[b][k].id = f[c][j].id
        PROVE  b = c /\ k = j
    <3>1. ~Earlier(b, k, c, j) /\ ~Earlier(c, j, b, k)
      BY <2>2, Zenon DEF Defined
    <3>. QED
      BY <1>1, <3>1 DEF Earlier
  <2>. QED
    BY <2>1, <2>2, Zenon DEF Unique
<1>. QED
  BY <1>2, <1>3 DEF Dominated

LEMMA InitHolds == Init => IInv
<1>. SUFFICES ASSUME Init PROVE IInv
  OBVIOUS
<1>1. /\ func \in Programs /\ pass = "fold" /\ blk = 1 /\ at = 1 /\ aborted = FALSE
      /\ erase = <<>> /\ replace = <<>>
  BY DEF Init, IRInit
<1>2. IsFunc(func) /\ Unique(func) /\ Dominated(func)
  BY <1>1, ProgramsAreSSA, WellFormedIs DEF IsFunc
<1>3. TypeOK
  <2>1. erase \in Seq(Nat) /\ replace \in Seq(Replacement)
    BY <1>1
  <2>2. 1 \in Nat \ {0}
    OBVIOUS
  <2>. QED
    BY <1>1, <1>2, <2>1, <2>2, Zenon DEF TypeOK
<1>4. ErasedAreUnused /\ ReplacementsFit
  BY <1>1 DEF ErasedAreUnused, ReplacementsFit
<1>5. VisitedIsFolded
  <2>1. \A b \in DOMAIN func : b \in Nat /\ b >= 1 /\ \A k \in DOMAIN func[b] : k \in Nat /\ k >= 1
    BY <1>2, FuncIs
  <2>. QED
    BY <1>1, <2>1 DEF VisitedIsFolded, Earlier
<1>. QED
  BY <1>2, <1>3, <1>4, <1>5 DEF IInv

LEMMA StepKeeps == IInv /\ [Next]_vars => IInv'
<1>. SUFFICES ASSUME IInv, [Next]_vars PROVE IInv'
  OBVIOUS
<1>1. CASE FoldStep /\ UNCHANGED replace
  BY <1>1, FoldInstKeeps, FoldTrapKeeps, FoldSkipKeeps, FoldEraseKeeps, FoldBlockEndKeeps, FoldEndKeeps
     DEF FoldStep
<1>2. CASE ReduceStep /\ UNCHANGED erase
  BY <1>2, ReduceSkipKeeps, ReduceMulKeeps, ReduceRemKeeps, ReplaceInstKeeps, ReduceBlockEndKeeps
     DEF ReduceStep
<1>3. CASE UNCHANGED vars
  <2>1. UNCHANGED <<func, pass, blk, at, aborted, erase, replace>>
    BY <1>3 DEF vars, irVars
  <2>2. VisitedIsFolded'
    BY <2>1, Zenon DEF IInv, VisitedIsFolded
  <2>. QED
    BY <2>1, <2>2, Facts, OnwardKeeps DEF IInv, TypeOK, ErasedAreUnused, ReplacementsFit
<1>. QED
  BY <1>1, <1>2, <1>3 DEF Next

LEMMA AlwaysIInv == Spec => []IInv
BY InitHolds, StepKeeps, PTL DEF Spec

\* The passes never leave the states they are written for: an iterator of a loop
\* is at an instruction or behind the last, and every instruction that they make
\* is one of LLVM's.
THEOREM AlwaysTypeOK == Spec => []TypeOK
<1>1. IInv => TypeOK
  BY DEF IInv
<1>. QED
  BY <1>1, AlwaysIInv, PTL

\* Whatever program the passes are given, after each of their steps every
\* instruction is defined once, and before its uses: nothing erases an instruction
\* that is used or that one waiting in InstToReplace uses.
THEOREM AlwaysDefsDominate == Spec => []DefsDominate
<1>1. ASSUME IInv PROVE DefsDominate
  <2>1. WellFormed(func)
    BY <1>1, Facts, WellFormedIs
  <2>2. ASSUME NEW s \in Sites(func), NEW r \in DOMAIN replace, replace[r].old = func[s[1]][s[2]].id
        PROVE  UsesDefined(func, replace[r].new, s)
    <3>1. s = <<s[1], s[2]>> /\ s[1] \in DOMAIN func /\ s[2] \in DOMAIN func[s[1]]
      BY SitesAre
    <3>2. PICK k \in DOMAIN func[blk] :
            blk \in DOMAIN func /\ func[blk][k].id = replace[r].old /\ OpsDefined(func, replace[r].new, blk, k)
      BY <1>1, WaitingIs
    <3>3. s[1] = blk /\ s[2] = k
      BY <1>1, <2>2, <3>1, <3>2, Facts DEF Unique
    <3>4. UsesDefined(func, replace[r].new, <<blk, k>>)
      BY <3>2, UsesAre
    <3>. QED
      BY <3>1, <3>3, <3>4
  <2>. QED
    BY <2>1, <2>2 DEF DefsDominate
<1>. QED
  BY <1>1, AlwaysIInv, PTL

\* Whatever program the passes are given, ConstantFolding leaves no instruction
\* on two constants that it could compute, though it visits each only once; and
\* StrengthReduction makes none.
THEOREM AlwaysFoldingComplete == Spec => []FoldingComplete
<1>1. ASSUME IInv PROVE FoldingComplete
  <2>. SUFFICES ASSUME pass # "fold", NEW s \in Sites(func), CanFold(func[s[1]][s[2]])
                PROVE  FALSE
    BY DEF FoldingComplete, CanFold
  <2>1. s[1] \in DOMAIN func /\ s[2] \in DOMAIN func[s[1]]
    BY SitesAre
  <2>. QED
    BY <1>1, <2>1, Zenon DEF IInv, VisitedIsFolded
<1>. QED
  BY <1>1, AlwaysIInv, PTL

-----------------------------------------------------------------------------
(* What a function computes is well defined: there is one value for each    *)
(* place, by the order of the places.                                       *)

LEMMA FirstSite ==
  ASSUME NEW T, T \subseteq Nat \X Nat, T # {}
  PROVE  \E t \in T : \A s \in T : ~Precedes(s, t)
<1>. DEFINE R == LexPairOrdering(OpToRel(<, Nat), OpToRel(<, Nat), Nat, Nat)
<1>1. IsWellFoundedOn(R, Nat \X Nat)
  BY NatLessThanWellFounded, WFLexPairOrdering, Zenon
<1>2. PICK t \in T : \A s \in T : ~(<<s, t>> \in R)
  <2>. HIDE DEF R
  <2>. QED
    BY <1>1, WFMin, Zenon
<1>3. ASSUME NEW s \in T, Precedes(s, t) PROVE FALSE
  <2>1. s \in Nat \X Nat /\ t \in Nat \X Nat
    OBVIOUS
  <2>2. <<s, t>> \in R
    BY <1>3, <2>1 DEF LexPairOrdering, OpToRel, Precedes
  <2>. HIDE DEF R
  <2>. QED
    BY <1>2, <2>2
<1>. QED
  BY <1>3

LEMMA SitesArePairs ==
  ASSUME NEW f, IsFunc(f)
  PROVE  Sites(f) \subseteq Nat \X Nat
<1>1. ASSUME NEW s \in Sites(f) PROVE s \in Nat \X Nat
  <2>1. s = <<s[1], s[2]>> /\ s[1] \in DOMAIN f /\ s[2] \in DOMAIN f[s[1]]
    BY SitesAre
  <2>2. s[1] \in Nat /\ s[2] \in Nat
    BY <2>1, FuncIs
  <2>. QED
    BY <2>1, <2>2
<1>. QED
  BY <1>1

LEMMA PrecedesIs ==
  ASSUME NEW q \in Nat \X Nat, NEW r \in Nat \X Nat, NEW s \in Nat \X Nat
  PROVE  ~Precedes(q, q) /\ (Precedes(q, r) /\ Precedes(r, s) => Precedes(q, s))
BY DEF Precedes

UpTo(f, s) == {r \in Sites(f) : r = s \/ Precedes(r, s)}
Solves(g, f, x, s) == \A r \in UpTo(f, s) : g[r] = Computed(f, x, g, r)

LEMMA ComputedAgrees ==
  ASSUME NEW f, NEW x, NEW g, NEW h, NEW t,
         \A s \in Sites(f) : Precedes(s, t) => g[s] = h[s]
  PROVE  Computed(f, x, g, t) = Computed(f, x, h, t)
<1>1. ASSUME NEW o PROVE OperandValue(f, x, g, o, t) = OperandValue(f, x, h, o, t)
  <2>. DEFINE defs == Defs(f, o.n, t)
              s == CHOOSE s \in defs : TRUE
  <2>1. defs # {} => s \in defs
    BY Zenon
  <2>2. defs # {} => g[s] = h[s]
    BY <2>1, Zenon DEF Defs
  <2>. QED
    BY <2>2, Zenon DEF OperandValue
<1>. QED
  BY <1>1 DEF Computed

LEMMA OneSolution ==
  ASSUME NEW f, IsFunc(f), NEW x, NEW g, NEW h, NEW s \in Sites(f), NEW u \in Sites(f),
         Solves(g, f, x, s), Solves(h, f, x, u), NEW r \in UpTo(f, s) \cap UpTo(f, u)
  PROVE  g[r] = h[r]
<1>. DEFINE T == {q \in UpTo(f, s) \cap UpTo(f, u) : g[q] # h[q]}
<1>. SUFFICES ASSUME T # {} PROVE FALSE
  OBVIOUS
<1>1. T \subseteq Nat \X Nat
  BY SitesArePairs DEF UpTo
<1>2. PICK t \in T : \A q \in T : ~Precedes(q, t)
  <2>. HIDE DEF T
  <2>. QED
    BY <1>1, FirstSite
<1>3. ASSUME NEW q \in Sites(f), Precedes(q, t) PROVE g[q] = h[q]
  <2>1. q \in UpTo(f, s) \cap UpTo(f, u)
    BY <1>3, SitesArePairs, PrecedesIs DEF UpTo
  <2>. QED
    BY <1>2, <1>3, <2>1
<1>4. Computed(f, x, g, t) = Computed(f, x, h, t)
  BY <1>3, ComputedAgrees
<1>. QED
  BY <1>4 DEF Solves

Solution(f, x, s) == CHOOSE g : Solves(g, f, x, s)
Solutions(f, x) == [s \in Sites(f) |-> Solution(f, x, s)[s]]

\* At a place before which there are solutions, they make one.
LEMMA SolutionsMeet ==
  ASSUME NEW f, IsFunc(f), NEW x, NEW r \in Sites(f),
         Solves(Solution(f, x, r), f, x, r),
         \A q \in Sites(f) : Precedes(q, r) => Solves(Solution(f, x, q), f, x, q),
         NEW h, \A q \in Sites(f) : Precedes(q, r) => h[q] = Solutions(f, x)[q]
  PROVE  Solutions(f, x)[r] = Computed(f, x, h, r)
<1>. DEFINE g == Solution(f, x, r)
<1>1. Solutions(f, x)[r] = g[r] /\ g[r] = Computed(f, x, g, r)
  BY DEF Solutions, Solves, UpTo
<1>2. ASSUME NEW q \in Sites(f), Precedes(q, r) PROVE g[q] = h[q]
  <2>1. q \in UpTo(f, r) \cap UpTo(f, q)
    BY <1>2 DEF UpTo
  <2>2. Solves(Solution(f, x, q), f, x, q)
    BY <1>2
  <2>3. g[q] = Solution(f, x, q)[q]
    BY <2>1, <2>2, OneSolution
  <2>. QED
    BY <1>2, <2>3 DEF Solutions
<1>. HIDE DEF g
<1>3. Computed(f, x, g, r) = Computed(f, x, h, r)
  BY <1>2, ComputedAgrees
<1>. QED
  BY <1>1, <1>3

LEMMA Solvable ==
  ASSUME NEW f, IsFunc(f), NEW x, NEW s \in Sites(f)
  PROVE  Solves(Solution(f, x, s), f, x, s)
<1>. DEFINE T == {q \in Sites(f) : ~Solves(Solution(f, x, q), f, x, q)}
<1>. SUFFICES ASSUME T # {} PROVE FALSE
  OBVIOUS
<1>1. T \subseteq Nat \X Nat
  BY SitesArePairs
<1>2. PICK t \in T : \A q \in T : ~Precedes(q, t)
  <2>. HIDE DEF T
  <2>. QED
    BY <1>1, FirstSite
<1>3. t \in Sites(f) /\ ~Solves(Solution(f, x, t), f, x, t)
      /\ \A q \in Sites(f) : Precedes(q, t) => Solves(Solution(f, x, q), f, x, q)
  BY <1>2
<1>. HIDE DEF T
<1>. DEFINE k == Solutions(f, x)
            h == [k EXCEPT ![t] = Computed(f, x, k, t)]
<1>4. \A q \in Sites(f) : q # t => h[q] = k[q]
  BY DEF Solutions
<1>5. h[t] = Computed(f, x, k, t)
  BY <1>3 DEF Solutions
<1>. HIDE DEF h
<1>6. \A q, r \in Sites(f) : ~Precedes(q, q) /\ (Precedes(q, r) /\ Precedes(r, t) => Precedes(q, t))
  BY <1>3, SitesArePairs, PrecedesIs
<1>7. ASSUME NEW r \in Sites(f), Precedes(r, t) PROVE h[r] = Computed(f, x, h, r)
  <2>1. \A q \in Sites(f) : Precedes(q, r) => Solves(Solution(f, x, q), f, x, q) /\ h[q] = k[q]
    BY <1>3, <1>4, <1>6, <1>7
  <2>2. Solves(Solution(f, x, r), f, x, r) /\ h[r] = k[r]
    BY <1>3, <1>4, <1>6, <1>7
  <2>3. k[r] = Computed(f, x, h, r)
    BY <2>1, <2>2, SolutionsMeet
  <2>. QED
    BY <2>2, <2>3
<1>8. h[t] = Computed(f, x, h, t)
  <2>1. \A q \in Sites(f) : Precedes(q, t) => h[q] = k[q]
    BY <1>3, <1>4, <1>6
  <2>2. Computed(f, x, h, t) = Computed(f, x, k, t)
    BY <2>1, ComputedAgrees
  <2>. QED
    BY <1>5, <2>2
<1>9. Solves(h, f, x, t)
  BY <1>7, <1>8 DEF Solves, UpTo
<1>10. Solves(Solution(f, x, t), f, x, t)
  BY <1>9, Zenon DEF Solution
<1>. QED
  BY <1>3, <1>10

LEMMA ValuesAre ==
  ASSUME NEW f, IsFunc(f), NEW x
  PROVE  /\ DOMAIN Values(f, x) = Sites(f)
         /\ \A t \in Sites(f) : Values(f, x)[t] = Computed(f, x, Values(f, x), t)
<1>. DEFINE k == Solutions(f, x)
<1>1. ASSUME NEW t \in Sites(f) PROVE k[t] = Computed(f, x, k, t)
  BY Solvable, SolutionsMeet
<1>2. k = [t \in Sites(f) |-> Computed(f, x, k, t)]
  BY <1>1, Zenon DEF Solutions
<1>3. Values(f, x) = CHOOSE v : v = [t \in Sites(f) |-> Computed(f, x, v, t)]
  BY DEF Values
<1>. HIDE DEF k
<1>4. Values(f, x) = [t \in Sites(f) |-> Computed(f, x, Values(f, x), t)]
  BY <1>2, <1>3, Zenon
<1>. QED
  BY <1>4, Zenon

-----------------------------------------------------------------------------
(* A run of a function: a value for each number, as its instructions say.   *)

ValueOf(o, x, e) == IF o.k = "const" THEN o.n ELSE IF o.k = "arg" THEN x ELSE e[o.n]
Yields(i, x, e) == Value(i.op, ValueOf(i.l, x, e), ValueOf(i.r, x, e))
Runs(f, x, e) ==
  /\ e \in [Nat -> 0 .. M - 1]
  /\ \A b \in DOMAIN f : \A k \in DOMAIN f[b] : e[f[b][k].id] = Yields(f[b][k], x, e)
Ends(f) ==
  /\ Len(f) \in DOMAIN f /\ Len(f[Len(f)]) \in DOMAIN f[Len(f)]
  /\ f[Len(f)][Len(f[Len(f)])].op = "ret"
Returned(f) == f[Len(f)][Len(f[Len(f)])].id

LEMMA DivMod ==
  ASSUME NEW m \in Nat \ {0}, NEW z \in Int
  PROVE  z \div m \in Int /\ z % m \in 0 .. m - 1 /\ z = m * (z \div m) + (z % m)
OBVIOUS

LEMMA ModIs ==
  ASSUME NEW m \in Nat \ {0}, NEW q \in Int, NEW r \in 0 .. m - 1
  PROVE  (m * q + r) % m = r
<1>. DEFINE z == m * q + r
            p == z \div m
            s == z % m
<1>1. z \in Int
  OBVIOUS
<1>2. p \in Int /\ s \in 0 .. m - 1 /\ z = m * p + s
  BY <1>1, DivMod
<1>3. m * (q - p) = s - r
  <2>. HIDE DEF p, s
  <2>. QED
    BY <1>2
<1>. HIDE DEF p, s, z
<1>4. q - p = 0
  <2>1. q - p \in Int
    BY <1>2
  <2>2. CASE q - p >= 1
    <3>1. m * (q - p) >= m
      BY <1>2, <2>2
    <3>. QED
      BY <1>2, <1>3, <3>1
  <2>3. CASE q - p <= -1
    <3>1. m * (q - p) <= -m
      BY <1>2, <2>3
    <3>. QED
      BY <1>2, <1>3, <3>1
  <2>. QED
    BY <2>1, <2>2, <2>3
<1>5. m * (q - p) = 0
  BY <1>4
<1>. QED
  BY <1>2, <1>3, <1>5 DEF s, z

LEMMA ModSame ==
  ASSUME NEW m \in Nat \ {0}, NEW y \in Int, NEW k \in Int
  PROVE  (y + m * k) % m = y % m
<1>. DEFINE q == y \div m
            r == y % m
<1>1. q \in Int /\ r \in 0 .. m - 1 /\ y = m * q + r
  BY DivMod
<1>. HIDE DEF q, r
<1>2. y + m * k = m * (q + k) + r
  BY <1>1
<1>3. (m * (q + k) + r) % m = r
  BY <1>1, ModIs
<1>. QED
  BY <1>2, <1>3 DEF r

\* What an instruction yields is a value of the type, or nothing.
LEMMA ValueIs ==
  ASSUME NEW op \in BinaryOps \cup {"ret"}, op # "udiv",
         NEW a \in 0 .. M - 1 \cup {Undef}, NEW b \in 0 .. M - 1 \cup {Undef}
  PROVE  Value(op, a, b) \in 0 .. M - 1 \cup {Undef}
<1>1. CASE a = Undef \/ b = Undef
  BY <1>1 DEF Value
<1>2. CASE a # Undef /\ b # Undef
  <2>1. a \in 0 .. M - 1 /\ b \in 0 .. M - 1
    BY <1>2
  <2>2. \A z \in Int : z % M \in 0 .. M - 1
    BY WidthIs, DivMod
  <2>3. CASE op \in {"add", "sub", "mul"}
    <3>1. a + b \in Int /\ a - b \in Int /\ a * b \in Int
      BY <2>1, WidthIs
    <3>2. Value(op, a, b) \in {(a + b) % M, (a - b) % M, (a * b) % M}
      BY <1>2, <2>3 DEF Value
    <3>. HIDE DEF Value
    <3>. QED
      BY <2>2, <3>1, <3>2
  <2>4. CASE op = "shl"
    <3>1. b < W => Pow2(b) \in Nat
      BY <2>1, WidthIs
    <3>2. b < W => a * Pow2(b) \in Int
      BY <2>1, <3>1, WidthIs
    <3>3. Value(op, a, b) = IF b < W THEN (a * Pow2(b)) % M ELSE Undef
      BY <1>2, <2>4 DEF Value
    <3>. HIDE DEF Value
    <3>. QED
      BY <2>2, <3>2, <3>3
  <2>5. CASE op \in {"sdiv", "srem"}
    <3>. DEFINE c == Signed(a)
                d == Signed(b)
                q == Quotient(c, d)
    <3>1. c \in Int /\ d \in Int /\ (d = 0 => b = 0)
      BY <2>1, SignedIs
    <3>2. b # 0 => q \in Int
      BY <3>1, QuotientIs
    <3>3. Value(op, a, b) \in {Undef, q % M, (c - q * d) % M} /\ (b = 0 => Value(op, a, b) = Undef)
      BY <1>2, <2>5 DEF Value
    <3>. HIDE DEF Value, c, d, q
    <3>4. b # 0 => c - q * d \in Int
      BY <3>1, <3>2
    <3>. QED
      BY <2>2, <3>2, <3>3, <3>4
  <2>6. CASE op = "ret"
    BY <1>2, <2>6 DEF Value
  <2>. QED
    BY <2>3, <2>4, <2>5, <2>6 DEF BinaryOps, FoldOps
<1>. QED
  BY <1>1, <1>2

LEMMA ComputedIs ==
  ASSUME NEW f, IsFunc(f), Dominated(f), NEW x, NEW values, NEW e,
         NEW b \in DOMAIN f, NEW k \in DOMAIN f[b],
         \A s \in Sites(f) : Precedes(s, <<b, k>>) => values[s] = e[f[s[1]][s[2]].id]
  PROVE  Computed(f, x, values, <<b, k>>) = Yields(f[b][k], x, e)
<1>. DEFINE t == <<b, k>>
            i == f[b][k]
<1>1. i \in Instr /\ OpsDefined(f, i, b, k)
  BY FuncIs DEF Dominated
<1>2. ASSUME NEW o \in {i.l, i.r} PROVE OperandValue(f, x, values, o, t) = ValueOf(o, x, e)
  <2>1. o \in Operand /\ o.k \in {"const", "arg", "inst"}
    BY <1>1, InstrIs, OperandIs
  <2>2. CASE o.k = "inst"
    <3>. DEFINE defs == Defs(f, o.n, t)
                s == CHOOSE s \in defs : TRUE
    <3>1. defs # {}
      BY <1>1, <2>2, DefsAre DEF OpsDefined
    <3>2. s \in defs
      BY <3>1, Zenon
    <3>3. values[s] = e[o.n]
      BY <3>2, Zenon DEF Defs
    <3>4. OperandValue(f, x, values, o, t) = values[s]
      BY <2>2, <3>1 DEF OperandValue
    <3>. QED
      BY <2>2, <3>3, <3>4 DEF ValueOf
  <2>. QED
    BY <2>1, <2>2 DEF OperandValue, ValueOf
<1>3. t[1] = b /\ t[2] = k
  OBVIOUS
<1>. HIDE DEF t
<1>. QED
  BY <1>2, <1>3 DEF Computed, Yields, t

LEMMA EndIs ==
  ASSUME NEW f, IsFunc(f)
  PROVE  Ends(f) => End(f) \in Sites(f) /\ Returned(f) = f[End(f)[1]][End(f)[2]].id /\ Returned(f) \in Nat
<1>. SUFFICES ASSUME Ends(f) PROVE End(f) \in Sites(f) /\ Returned(f) = f[End(f)[1]][End(f)[2]].id /\ Returned(f) \in Nat
  OBVIOUS
<1>1. Len(f) \in DOMAIN f /\ Len(f[Len(f)]) \in DOMAIN f[Len(f)]
  BY DEF Ends
<1>2. End(f) \in Sites(f)
  BY <1>1, SitesAre DEF End
<1>3. Returned(f) \in Nat
  BY <1>1, FuncIs, InstrIs DEF Returned
<1>. QED
  BY <1>2, <1>3 DEF Returned, End

\* What a function returns is what any of its runs gives to the ret.
LEMMA RunIsMeaning ==
  ASSUME NEW f, IsFunc(f), Dominated(f), Ends(f), NEW x, NEW e, Runs(f, x, e)
  PROVE  Meaning(f, x) = e[Returned(f)]
<1>. DEFINE v == Values(f, x)
            T == {t \in Sites(f) : v[t] # e[f[t[1]][t[2]].id]}
<1>1. T = {}
  <2>. SUFFICES ASSUME T # {} PROVE FALSE
    OBVIOUS
  <2>1. T \subseteq Nat \X Nat
    BY SitesArePairs
  <2>2. PICK t \in T : \A s \in T : ~Precedes(s, t)
    <3>. HIDE DEF T
    <3>. QED
      BY <2>1, FirstSite
  <2>3. t \in Sites(f) /\ v[t] # e[f[t[1]][t[2]].id]
        /\ \A s \in Sites(f) : Precedes(s, t) => v[s] = e[f[s[1]][s[2]].id]
    BY <2>2
  <2>. HIDE DEF T
  <2>4. t = <<t[1], t[2]>> /\ t[1] \in DOMAIN f /\ t[2] \in DOMAIN f[t[1]]
    BY <2>3, SitesAre
  <2>5. v[t] = Computed(f, x, v, t)
    BY <2>3, ValuesAre
  <2>. DEFINE b == t[1]
              k == t[2]
  <2>6. b \in DOMAIN f /\ k \in DOMAIN f[b] /\ t = <<b, k>>
    BY <2>4
  <2>. HIDE DEF v, b, k
  <2>7. Computed(f, x, v, <<b, k>>) = Yields(f[b][k], x, e)
    BY <2>3, <2>6, ComputedIs
  <2>8. e[f[b][k].id] = Yields(f[b][k], x, e)
    BY <2>6 DEF Runs
  <2>. QED
    BY <2>3, <2>5, <2>6, <2>7, <2>8 DEF b, k
<1>2. ASSUME NEW t \in Sites(f) PROVE v[t] = e[f[t[1]][t[2]].id] /\ v[t] # Undef
  <2>1. v[t] = e[f[t[1]][t[2]].id]
    BY <1>1
  <2>2. t[1] \in DOMAIN f /\ t[2] \in DOMAIN f[t[1]]
    BY SitesAre
  <2>3. f[t[1]][t[2]].id \in Nat
    BY <2>2, FuncIs, InstrIs
  <2>. DEFINE y == e[f[t[1]][t[2]].id]
  <2>4. y \in 0 .. M - 1
    BY <2>3 DEF Runs
  <2>. HIDE DEF y
  <2>5. y # Undef
    BY <2>4, WidthIs DEF Undef
  <2>. QED
    BY <2>1, <2>5 DEF y
<1>3. Meaning(f, x) = IF \E t \in Sites(f) : v[t] = Undef THEN Undef ELSE v[End(f)]
  BY DEF Meaning
<1>. HIDE DEF v
<1>. QED
  BY <1>2, <1>3, EndIs

NoUdiv(f) == \A b \in DOMAIN f : \A k \in DOMAIN f[b] : f[b][k].op # "udiv"

\* A function that returns something has a run.
LEMMA MeaningHasRun ==
  ASSUME NEW f, IsFunc(f), Unique(f), Dominated(f), Ends(f), NoUdiv(f),
         NEW x \in 0 .. M - 1, Meaning(f, x) # Undef
  PROVE  \E e : Runs(f, x, e) /\ e[Returned(f)] = Meaning(f, x)
<1>. DEFINE v == Values(f, x)
            T == {t \in Sites(f) : v[t] \notin 0 .. M - 1 \cup {Undef}}
<1>1. T = {}
  <2>. SUFFICES ASSUME T # {} PROVE FALSE
    OBVIOUS
  <2>1. T \subseteq Nat \X Nat
    BY SitesArePairs
  <2>2. PICK t \in T : \A s \in T : ~Precedes(s, t)
    <3>. HIDE DEF T
    <3>. QED
      BY <2>1, FirstSite
  <2>3. t \in Sites(f) /\ v[t] \notin 0 .. M - 1 \cup {Undef}
        /\ \A s \in Sites(f) : Precedes(s, t) => v[s] \in 0 .. M - 1 \cup {Undef}
    BY <2>2
  <2>. HIDE DEF T
  <2>. DEFINE i == f[t[1]][t[2]]
  <2>4. i \in Instr /\ i.op \in BinaryOps \cup {"ret"} /\ i.op # "udiv" /\ i.l \in Operand /\ i.r \in Operand
    BY <2>3, SitesAre, FuncIs, InstrIs DEF NoUdiv
  <2>5. v[t] = Value(i.op, OperandValue(f, x, v, i.l, t), OperandValue(f, x, v, i.r, t))
    BY <2>3, ValuesAre DEF Computed
  <2>. HIDE DEF v
  <2>6. ASSUME NEW o \in Operand PROVE OperandValue(f, x, v, o, t) \in 0 .. M - 1 \cup {Undef}
    <3>. DEFINE defs == Defs(f, o.n, t)
                s == CHOOSE s \in defs : TRUE
    <3>1. defs # {} => s \in defs
      BY Zenon
    <3>2. defs # {} => v[s] \in 0 .. M - 1 \cup {Undef}
      BY <2>3, <3>1, Zenon DEF Defs
    <3>3. o.k \in {"const", "arg", "inst"} /\ (o.k = "const" => o.n \in 0 .. M - 1)
      BY DEF Operand
    <3>4. OperandValue(f, x, v, o, t) = IF o.k = "const" THEN o.n ELSE IF o.k = "arg" THEN x
                                        ELSE IF defs = {} THEN Undef ELSE v[s]
      BY <3>3 DEF OperandValue
    <3>. HIDE DEF defs, s
    <3>. QED
      BY <3>2, <3>3, <3>4
  <2>. QED
    BY <2>3, <2>4, <2>5, <2>6, ValueIs, Zenon, ZenonT(40)
<1>2. Meaning(f, x) = IF \E t \in Sites(f) : v[t] = Undef THEN Undef ELSE v[End(f)]
  BY DEF Meaning
<1>3. \A t \in Sites(f) : v[t] \in 0 .. M - 1
  BY <1>1, <1>2
<1>4. Meaning(f, x) = v[End(f)]
  BY <1>2
<1>. HIDE DEF v
<1>. DEFINE At(n) == {t \in Sites(f) : f[t[1]][t[2]].id = n}
            e == [n \in Nat |-> IF At(n) = {} THEN 0 ELSE v[CHOOSE t \in At(n) : TRUE]]
<1>5. e \in [Nat -> 0 .. M - 1]
  <2>1. ASSUME NEW n \in Nat PROVE (IF At(n) = {} THEN 0 ELSE v[CHOOSE t \in At(n) : TRUE]) \in 0 .. M - 1
    <3>1. At(n) # {} => (CHOOSE t \in At(n) : TRUE) \in At(n)
      BY Zenon
    <3>2. At(n) # {} => v[CHOOSE t \in At(n) : TRUE] \in 0 .. M - 1
      BY <1>3, <3>1, Zenon
    <3>. QED
      BY <3>2, WidthIs
  <2>. QED
    BY <2>1
<1>6. ASSUME NEW t \in Sites(f) PROVE e[f[t[1]][t[2]].id] = v[t]
  <2>. DEFINE n == f[t[1]][t[2]].id
              u == CHOOSE u \in At(n) : TRUE
  <2>1. t = <<t[1], t[2]>> /\ t[1] \in DOMAIN f /\ t[2] \in DOMAIN f[t[1]]
    BY SitesAre
  <2>2. n \in Nat
    BY <2>1, FuncIs, InstrIs
  <2>3. t \in At(n)
    OBVIOUS
  <2>4. u \in At(n)
    BY <2>3, Zenon
  <2>5. u = <<u[1], u[2]>> /\ u[1] \in DOMAIN f /\ u[2] \in DOMAIN f[u[1]] /\ f[u[1]][u[2]].id = n
    BY <2>4, SitesAre, Zenon
  <2>6. u[1] = t[1] /\ u[2] = t[2]
    <3>1. f[u[1]][u[2]].id = f[t[1]][t[2]].id
      BY <2>5, Zenon
    <3>. HIDE DEF u, n
    <3>2. \A b, c \in DOMAIN f : \A k \in DOMAIN f[b] : \A j \in DOMAIN f[c] :
            f[b][k].id = f[c][j].id => b = c /\ k = j
      BY Zenon DEF Unique
    <3>. QED
      BY <2>1, <2>5, <3>1, <3>2
  <2>7. u = t
    BY <2>1, <2>5, <2>6, Zenon
  <2>8. e[n] = v[u]
    BY <2>2, <2>3, Zenon
  <2>. QED
    BY <2>7, <2>8, Zenon
<1>. HIDE DEF e
<1>7. ASSUME NEW b \in DOMAIN f, NEW k \in DOMAIN f[b]
      PROVE  e[f[b][k].id] = Yields(f[b][k], x, e)
  <2>1. <<b, k>> \in Sites(f) /\ <<b, k>>[1] = b /\ <<b, k>>[2] = k
    BY SitesAre
  <2>2. e[f[b][k].id] = v[<<b, k>>]
    BY <1>6, <2>1
  <2>3. v[<<b, k>>] = Computed(f, x, v, <<b, k>>)
    BY <2>1, ValuesAre DEF v
  <2>4. Computed(f, x, v, <<b, k>>) = Yields(f[b][k], x, e)
    <3>1. \A s \in Sites(f) : Precedes(s, <<b, k>>) => v[s] = e[f[s[1]][s[2]].id]
      BY <1>6
    <3>. QED
      BY <3>1, ComputedIs
  <2>. QED
    BY <2>2, <2>3, <2>4
<1>8. Runs(f, x, e)
  BY <1>5, <1>7 DEF Runs
<1>9. e[Returned(f)] = v[End(f)]
  BY <1>6, EndIs
<1>. QED
  BY <1>4, <1>8, <1>9

-----------------------------------------------------------------------------
(* Instructions that yield the same.                                        *)

LEMMA AgreeYields ==
  ASSUME NEW i \in Instr, NEW x, NEW e, NEW h,
         \A o \in {i.l, i.r} : o.k = "inst" => e[o.n] = h[o.n]
  PROVE  Yields(i, x, e) = Yields(i, x, h)
<1>1. ASSUME NEW o \in {i.l, i.r} PROVE ValueOf(o, x, e) = ValueOf(o, x, h)
  <2>1. o.k \in {"const", "arg", "inst"}
    BY InstrIs, OperandIs
  <2>. QED
    BY <2>1 DEF ValueOf
<1>. QED
  BY <1>1 DEF Yields

LEMMA SubstYields ==
  ASSUME NEW i \in Instr, NEW old \in Nat, NEW o \in Operand, NEW x, NEW e, ValueOf(o, x, e) = e[old]
  PROVE  Yields(Subst(i, old, o), x, e) = Yields(i, x, e)
<1>1. ValueOf(Inst(old), x, e) = e[old]
  BY OperandsMade DEF ValueOf
<1>. QED
  BY <1>1, SubstIs DEF Yields

LEMMA SignedMod ==
  ASSUME NEW a \in 0 .. M - 1
  PROVE  \E k \in {0, 1} : Signed(a) = a - M * k
BY WidthIs DEF Signed

LEMMA SmallMod ==
  ASSUME NEW a \in 0 .. M - 1
  PROVE  a % M = a
<1>. DEFINE m == M
<1>1. m \in Nat \ {0}
  BY WidthIs
<1>2. a \in 0 .. m - 1
  OBVIOUS
<1>. HIDE DEF m
<1>3. (m * 0 + a) % m = a
  BY <1>1, <1>2, ModIs
<1>4. m * 0 + a = a
  BY <1>1, <1>2
<1>. QED
  BY <1>3, <1>4 DEF m

\* The arithmetic of the pass, on signed numbers, is that of the instructions.
LEMMA SignedArithmetic ==
  ASSUME NEW a \in 0 .. M - 1, NEW b \in 0 .. M - 1
  PROVE  /\ (Signed(a) + Signed(b)) % M = (a + b) % M
         /\ (Signed(a) - Signed(b)) % M = (a - b) % M
         /\ (Signed(a) * Signed(b)) % M = (a * b) % M
<1>. DEFINE m == M
<1>1. m \in Nat \ {0} /\ a \in Int /\ b \in Int
  BY WidthIs
<1>2. PICK k \in {0, 1} : Signed(a) = a - m * k
  BY SignedMod
<1>3. PICK j \in {0, 1} : Signed(b) = b - m * j
  BY SignedMod
<1>. HIDE DEF m
<1>4. (Signed(a) + Signed(b)) % m = (a + b) % m
  <2>1. Signed(a) + Signed(b) = (a + b) + m * (-(k + j)) /\ a + b \in Int /\ -(k + j) \in Int
    BY <1>1, <1>2, <1>3
  <2>. QED
    BY <1>1, <2>1, ModSame
<1>5. (Signed(a) - Signed(b)) % m = (a - b) % m
  <2>1. Signed(a) - Signed(b) = (a - b) + m * (j - k) /\ a - b \in Int /\ j - k \in Int
    BY <1>1, <1>2, <1>3
  <2>. QED
    BY <1>1, <2>1, ModSame
<1>6. (Signed(a) * Signed(b)) % m = (a * b) % m
  <2>. DEFINE y == a * b
              z == m * (k * j) - a * j - b * k
  <2>1. y \in Int /\ z \in Int
    BY <1>1
  <2>2. Signed(a) * Signed(b) = y + m * z
    <3>1. CASE k = 0 /\ j = 0
      BY <1>1, <1>2, <1>3, <3>1
    <3>2. CASE k = 0 /\ j = 1
      BY <1>1, <1>2, <1>3, <3>2
    <3>3. CASE k = 1 /\ j = 0
      BY <1>1, <1>2, <1>3, <3>3
    <3>4. CASE k = 1 /\ j = 1
      BY <1>1, <1>2, <1>3, <3>4
    <3>. QED
      BY <3>1, <3>2, <3>3, <3>4
  <2>. HIDE DEF y, z
  <2>3. (y + m * z) % m = y % m
    BY <1>1, <2>1, ModSame
  <2>. QED
    BY <2>2, <2>3 DEF y
<1>. QED
  BY <1>4, <1>5, <1>6 DEF m

LEMMA FoldedMeans ==
  ASSUME NEW op \in FoldOps \ {"udiv"}, NEW a \in 0 .. M - 1, NEW b \in 0 .. M - 1,
         Value(op, a, b) # Undef
  PROVE  /\ op = "add" => Value(op, a, b) = (Signed(a) + Signed(b)) % M
         /\ op = "sub" => Value(op, a, b) = (Signed(a) - Signed(b)) % M
         /\ op = "mul" => Value(op, a, b) = (Signed(a) * Signed(b)) % M
         /\ op = "sdiv" => b # 0 /\ Value(op, a, b) = Quotient(Signed(a), Signed(b)) % M
<1>1. a # Undef /\ b # Undef
  BY WidthIs DEF Undef
<1>2. op = "add" => Value(op, a, b) = (a + b) % M
  BY <1>1 DEF Value
<1>3. op = "sub" => Value(op, a, b) = (a - b) % M
  BY <1>1 DEF Value
<1>4. op = "mul" => Value(op, a, b) = (a * b) % M
  BY <1>1 DEF Value
<1>5. op = "sdiv" => b # 0 /\ Value(op, a, b) = Quotient(Signed(a), Signed(b)) % M
  BY <1>1 DEF Value
<1>. QED
  BY <1>2, <1>3, <1>4, <1>5, SignedArithmetic

\* A remainder by subtraction.
LEMMA RemBySub ==
  ASSUME NEW a \in 0 .. M - 1, NEW b \in 0 .. M - 1, NEW q \in Int
  PROVE  (Signed(a) - q * Signed(b)) % M = (a - (((q % M) * b) % M)) % M
<1>. DEFINE m == M
            p == q % m
            y == p * b
            z == y % m
            c == Signed(a)
            d == Signed(b)
<1>1. m \in Nat \ {0} /\ a \in Int /\ b \in Int
  BY WidthIs
<1>2. PICK k \in {0, 1} : c = a - m * k
  BY SignedMod
<1>3. PICK j \in {0, 1} : d = b - m * j
  BY SignedMod
<1>. HIDE DEF m, c, d
<1>4. PICK s \in Int : p \in Int /\ q = m * s + p
  <2>1. q \div m \in Int /\ p \in Int /\ q = m * (q \div m) + p
    BY <1>1, DivMod
  <2>. QED
    BY <2>1
<1>. HIDE DEF p
<1>5. y \in Int
  BY <1>1, <1>4
<1>. DEFINE t == y \div m
<1>. HIDE DEF y
<1>6. t \in Int /\ z \in Int /\ y = m * t + z
  BY <1>1, <1>5, DivMod
<1>. HIDE DEF z, t
<1>. DEFINE w == k + s * d - p * j + t
<1>7. c \in Int /\ d \in Int /\ s * d \in Int /\ p * j \in Int /\ w \in Int
  BY <1>1, <1>2, <1>3, <1>4, <1>6
<1>8. c - q * d = (a - z) + m * (-w)
  <2>1. q * d = m * (s * d) + p * d
    BY <1>1, <1>4, <1>7
  <2>2. p * d = y - m * (p * j)
    <3>1. CASE j = 0
      BY <1>1, <1>3, <1>4, <3>1 DEF y
    <3>2. CASE j = 1
      BY <1>1, <1>3, <1>4, <3>2 DEF y
    <3>. QED
      BY <3>1, <3>2
  <2>3. m * (-w) = -(m * k) - m * (s * d) + m * (p * j) - m * t
    BY <1>1, <1>6, <1>7
  <2>. HIDE DEF w
  <2>. QED
    BY <1>1, <1>2, <1>4, <1>5, <1>6, <1>7, <2>1, <2>2, <2>3
<1>9. a - z \in Int /\ -w \in Int
  BY <1>1, <1>6, <1>7
<1>. DEFINE u == a - z
            v == -w
<1>. HIDE DEF u, v, w
<1>10. (u + m * v) % m = u % m
  BY <1>1, <1>9, ModSame DEF u, v
<1>. QED
  BY <1>8, <1>10 DEF u, v, m, z, y, p, c, d

-----------------------------------------------------------------------------
(* What holds after every step.                                             *)

\* The operators of EmitIR; a remainder is by a constant, or of the argument.  (A
\* power of two on the left of the others is taken for the divisor.)
Simple(i) == i.op # "udiv" /\ (i.op = "srem" => IsConst(i.r) \/ i.l.k = "arg")
IsSimple(f) == \A b \in DOMAIN f : \A k \in DOMAIN f[b] : Simple(f[b][k])

RetStays ==
  /\ Ends(func)
  /\ \A b \in DOMAIN func : \A k \in DOMAIN func[b] : func[b][k].op = "ret" =>
       /\ \A e \in DOMAIN erase : erase[e] # func[b][k].id
       /\ \A r \in DOMAIN replace : replace[r].old # func[b][k].id

ReplacementsAreSimple == \A r \in DOMAIN replace : replace[r].new.op \in {"shl", "sub"}

\* What waits yields what it will replace does.
SameRun(f, q, x, e) ==
  Runs(f, x, e) /\ \A r \in DOMAIN q : Yields(q[r].new, x, e) = e[q[r].old]
RunsKept ==
  \A x \in 0 .. M - 1 : Meaning(orig, x) # Undef =>
    \E e : SameRun(func, replace, x, e) /\ e[Returned(func)] = Meaning(orig, x)

MInv == RetStays /\ IsSimple(func) /\ ReplacementsAreSimple /\ RunsKept

\* The function and what waits to replace are as before.
LEMMA OnwardMeans ==
  ASSUME IInv, MInv, UNCHANGED <<func, orig, erase, replace>>
  PROVE  MInv'
<1>1. RetStays' /\ IsSimple(func') /\ ReplacementsAreSimple'
  BY DEF MInv, RetStays, ReplacementsAreSimple
<1>2. RunsKept'
  BY Zenon DEF MInv, RunsKept
<1>. QED
  BY <1>1, <1>2 DEF MInv

LEMMA FoldInstMeans ==
  ASSUME IInv, MInv, FoldInst, UNCHANGED replace
  PROVE  MInv'
<1>. DEFINE id == Current.id
            o == Folded
<1>1. /\ Foldable /\ Visiting("fold") /\ pass = "fold" /\ blk \in DOMAIN func /\ at \in DOMAIN func[blk]
      /\ func' = ReplaceUses(func, id, o) /\ erase' = Append(erase, id) /\ UNCHANGED <<orig, replace>>
      /\ Current = func[blk][at] /\ Current \in Instr /\ id \in Nat
  BY Facts DEF FoldInst, Visiting, FoldedUses, Current, Block
<1>2. o \in Operand /\ o.k = "const"
  BY <1>1, FoldedIs
<1>3. replace = <<>>
  BY <1>1 DEF IInv, ReplacementsFit
<1>4. Current.op # "udiv"
  BY <1>1 DEF MInv, IsSimple, Simple
<1>5. ASSUME NEW x, NEW e, Runs(func, x, e) PROVE o.n = e[id]
  <2>. DEFINE a == Current.l.n
              b == Current.r.n
              op == Current.op
  <2>1. a \in 0 .. M - 1 /\ b \in 0 .. M - 1 /\ op \in FoldOps \ {"udiv"}
        /\ Current.l.k = "const" /\ Current.r.k = "const"
    BY <1>1, <1>4, InstrIs DEF Foldable, IsConst, Operand
  <2>2. e[id] = Value(op, a, b)
    BY <1>1, <1>5, <2>1 DEF Runs, Yields, ValueOf
  <2>. DEFINE y == e[id]
  <2>3. y \in 0 .. M - 1
    BY <1>1, <1>5 DEF Runs
  <2>4. Value(op, a, b) # Undef
    <3>. HIDE DEF y
    <3>1. y # Undef
      BY <2>3, WidthIs DEF Undef
    <3>. QED
      BY <2>2, <3>1 DEF y
  <2>5. o = (IF op = "sdiv" /\ b = 0 THEN Const(0) ELSE Const(Result))
    BY <2>1 DEF Folded, DividesByZero
  <2>6. Result = CASE op = "add" -> Signed(a) + Signed(b)
                   [] op = "sub" -> Signed(a) - Signed(b)
                   [] op = "mul" -> Signed(a) * Signed(b)
                   [] op \in {"udiv", "sdiv"} -> Quotient(Signed(a), Signed(b))
    BY DEF Result
  <2>7. Const(Result).n = Result % M
    BY DEF Const
  <2>. HIDE DEF o, a, b, op, id
  <2>8. /\ op = "add" => Value(op, a, b) = (Signed(a) + Signed(b)) % M
        /\ op = "sub" => Value(op, a, b) = (Signed(a) - Signed(b)) % M
        /\ op = "mul" => Value(op, a, b) = (Signed(a) * Signed(b)) % M
        /\ op = "sdiv" => b # 0 /\ Value(op, a, b) = Quotient(Signed(a), Signed(b)) % M
    BY <2>1, <2>4, FoldedMeans
  <2>9. op \in {"add", "sub", "mul", "sdiv"}
    BY <2>1 DEF FoldOps
  <2>10. o = Const(Result)
    BY <2>5, <2>8
  <2>11. Value(op, a, b) = Result % M
    BY <2>6, <2>8, <2>9
  <2>. QED
    BY <2>2, <2>7, <2>10, <2>11
<1>. HIDE DEF id, o
<1>6. /\ IsFunc(func') /\ DOMAIN func' = DOMAIN func
      /\ \A c \in DOMAIN func : DOMAIN func'[c] = DOMAIN func[c] /\ Len(func'[c]) = Len(func[c])
      /\ \A c \in DOMAIN func : \A j \in DOMAIN func[c] : func'[c][j] = Subst(func[c][j], id, o)
  BY <1>1, <1>2, Facts, ReplaceUsesIs
<1>7. ASSUME NEW c \in DOMAIN func, NEW j \in DOMAIN func[c]
      PROVE  /\ func[c][j] \in Instr /\ func'[c][j].id = func[c][j].id /\ func'[c][j].op = func[c][j].op
             /\ func'[c][j].l = (IF func[c][j].l = Inst(id) THEN o ELSE func[c][j].l)
             /\ func'[c][j].r = (IF func[c][j].r = Inst(id) THEN o ELSE func[c][j].r)
             /\ \A x, e : Runs(func, x, e) => Yields(func'[c][j], x, e) = Yields(func[c][j], x, e)
  <2>1. func[c][j] \in Instr
    BY Facts
  <2>2. ASSUME NEW x, NEW e, Runs(func, x, e) PROVE Yields(func'[c][j], x, e) = Yields(func[c][j], x, e)
    <3>1. ValueOf(o, x, e) = e[id]
      BY <1>2, <1>5, <2>2, Zenon DEF ValueOf
    <3>. QED
      BY <1>1, <1>2, <1>6, <2>1, <3>1, SubstYields
  <2>. QED
    BY <1>2, <1>6, <2>1, <2>2, SubstIs
<1>8. Len(func') = Len(func)
  <2>1. IsFunc(func) /\ DOMAIN func' = DOMAIN func
    BY <1>6, Facts
  <2>2. func' = [b \in DOMAIN func |-> func'[b]]
    BY <1>1, <1>6 DEF ReplaceUses
  <2>3. Len(func') \in Nat /\ DOMAIN func' = 1 .. Len(func') /\ Len(func) \in Nat /\ DOMAIN func = 1 .. Len(func)
    BY <1>6, <2>1, FuncIs
  <2>. QED
    BY <2>1, <2>3, SameLength, Zenon
<1>9. Ends(func') /\ Returned(func') = Returned(func)
  BY <1>6, <1>7, <1>8 DEF MInv, RetStays, Ends, Returned
<1>10. RetStays'
  <2>1. ASSUME NEW b \in DOMAIN func, NEW k \in DOMAIN func[b], func[b][k].op = "ret", NEW e \in DOMAIN erase'
        PROVE  erase'[e] # func[b][k].id
    <3>1. Current.op # "ret"
      BY <1>1 DEF Foldable, FoldOps
    <3>2. id # func[b][k].id
      BY <1>1, <2>1, <3>1, Facts DEF Unique, id
    <3>3. erase \in Seq(Nat)
      BY DEF IInv, TypeOK
    <3>4. (e \in DOMAIN erase /\ erase'[e] = erase[e]) \/ erase'[e] = id
      BY <1>1, <3>3
    <3>. QED
      BY <2>1, <3>2, <3>4 DEF MInv, RetStays
  <2>. QED
    BY <1>1, <1>3, <1>6, <1>7, <1>9, <2>1 DEF RetStays
<1>11. IsSimple(func')
  BY <1>2, <1>6, <1>7, OperandIs DEF MInv, IsSimple, Simple, IsConst, Inst
<1>12. ReplacementsAreSimple'
  BY <1>1 DEF MInv, ReplacementsAreSimple
<1>13. RunsKept'
  <2>. SUFFICES ASSUME NEW x \in 0 .. M - 1, Meaning(orig, x) # Undef
                PROVE  \E e : SameRun(func', replace', x, e) /\ e[Returned(func')] = Meaning(orig, x)
    BY <1>1 DEF RunsKept
  <2>1. PICK e : SameRun(func, replace, x, e) /\ e[Returned(func)] = Meaning(orig, x)
    BY DEF MInv, RunsKept
  <2>2. Runs(func, x, e)
    BY <2>1 DEF SameRun
  <2>3. ASSUME NEW b \in DOMAIN func, NEW k \in DOMAIN func[b]
        PROVE  e[func'[b][k].id] = Yields(func'[b][k], x, e)
    <3>1. func'[b][k].id = func[b][k].id /\ Yields(func'[b][k], x, e) = Yields(func[b][k], x, e)
      BY <1>7, <2>2
    <3>. QED
      BY <2>2, <3>1 DEF Runs
  <2>4. Runs(func', x, e)
    BY <1>6, <2>2, <2>3 DEF Runs
  <2>5. SameRun(func', replace', x, e)
    BY <1>3, <1>1, <2>4 DEF SameRun
  <2>. QED
    BY <1>9, <2>1, <2>5
<1>. QED
  BY <1>10, <1>11, <1>12, <1>13 DEF MInv

LEMMA OnwardStepMeans ==
  ASSUME IInv, MInv,
         \/ (FoldTrap \/ FoldSkip \/ FoldBlockEnd \/ FoldEnd) /\ UNCHANGED replace
         \/ (ReduceSkip \/ ReduceBreak \/ ReduceBlockEnd \/ ReduceEnd) /\ UNCHANGED erase
  PROVE  MInv'
<1>1. UNCHANGED <<func, orig, erase, replace>>
  BY Zenon DEF FoldTrap, FoldSkip, FoldBlockEnd, FoldEnd, ReduceSkip, ReduceBreak, ReduceBlockEnd, ReduceEnd,
         NextBlock, NextPass
<1>. QED
  BY <1>1, OnwardMeans

\* As many blocks as before, and its last instruction is the one before.
LEMMA SameEnd ==
  ASSUME NEW f, IsFunc(f), NEW g, IsFunc(g), DOMAIN g = DOMAIN f, Ends(f),
         LET b == Len(f)
         IN /\ Len(g[b]) \in DOMAIN g[b]
            /\ g[b][Len(g[b])].id = f[b][Len(f[b])].id /\ g[b][Len(g[b])].op = f[b][Len(f[b])].op
  PROVE  Ends(g) /\ Returned(g) = Returned(f)
<1>1. Len(g) \in Nat /\ DOMAIN g = 1 .. Len(g) /\ Len(f) \in Nat /\ DOMAIN f = 1 .. Len(f)
  BY FuncIs, Zenon
<1>2. Len(g) = Len(f)
  BY <1>1, SameLength, Zenon
<1>. QED
  BY <1>2 DEF Ends, Returned

LEMMA FoldEraseMeans ==
  ASSUME IInv, MInv, FoldErase, UNCHANGED replace
  PROVE  MInv'
<1>. DEFINE k == CHOOSE k \in DOMAIN Block : Block[k].id = Head(erase)
            last == Len(func)
<1>1. /\ pass = "fold" /\ blk \in DOMAIN func /\ at \notin DOMAIN func[blk] /\ erase # <<>>
      /\ func' = Removed(func, blk, k) /\ erase' = Tail(erase)
      /\ UNCHANGED <<orig, replace>>
  BY DEF FoldErase, LeftLoop, Block, Removed
<1>2. /\ erase \in Seq(Nat) /\ Len(erase) \in Nat \ {0} /\ DOMAIN erase = 1 .. Len(erase) /\ Head(erase) = erase[1]
      /\ 1 \in DOMAIN erase /\ DOMAIN erase' = 1 .. Len(erase) - 1
      /\ \A e \in DOMAIN erase' : e + 1 \in DOMAIN erase /\ erase'[e] = erase[e + 1]
  <2>1. erase \in Seq(Nat)
    BY DEF IInv, TypeOK
  <2>. QED
    BY <1>1, <2>1
<1>3. k \in DOMAIN func[blk] /\ func[blk][k].id = erase[1]
  <2>1. \E j \in DOMAIN func[blk] : func[blk][j].id = erase[1]
    BY <1>2 DEF IInv, ErasedAreUnused
  <2>. QED
    BY <1>2, <2>1 DEF Block
<1>. HIDE DEF k
<1>4. /\ IsFunc(func) /\ IsFunc(func') /\ DOMAIN func' = DOMAIN func
      /\ \A c \in DOMAIN func \ {blk} : func'[c] = func[c]
      /\ Len(func'[blk]) = Len(func[blk]) - 1 /\ DOMAIN func'[blk] = 1 .. Len(func[blk]) - 1
      /\ \A j \in DOMAIN func'[blk] : func'[blk][j] = IF j < k THEN func[blk][j] ELSE func[blk][j + 1]
  <2>1. IsFunc(func)
    BY Facts
  <2>2. blk \in DOMAIN func /\ func' = Removed(func, blk, k)
    BY <1>1
  <2>. QED
    BY <1>3, <2>1, <2>2, RemovedIs
<1>5. ASSUME NEW c \in DOMAIN func, NEW j \in DOMAIN func'[c]
      PROVE  \E i \in DOMAIN func[c] : func'[c][j] = func[c][i]
  <2>1. IsFunc(func) /\ func' = Removed(func, blk, k)
    BY <1>1, <1>4
  <2>. QED
    BY <1>1, <1>3, <2>1, RemovedPlaces
<1>6. Ends(func) /\ last \in DOMAIN func /\ Len(func[last]) \in DOMAIN func[last]
      /\ func[last][Len(func[last])].op = "ret"
  BY DEF MInv, RetStays, Ends
<1>7. ~(blk = last /\ k = Len(func[last]))
  BY <1>2, <1>3, <1>6 DEF MInv, RetStays
<1>8. Len(func'[last]) \in DOMAIN func'[last] /\ func'[last][Len(func'[last])] = func[last][Len(func[last])]
  <2>1. CASE blk = last
    <3>. DEFINE n == Len(func[last])
    <3>1. n \in Nat /\ k \in 1 .. n /\ k # n
      BY <1>3, <1>4, <1>7, <2>1, FuncIs
    <3>2. n - 1 \in 1 .. n - 1 /\ ~(n - 1 < k) /\ (n - 1) + 1 = n
      <4>. HIDE DEF n
      <4>. QED
        BY <3>1
    <3>3. DOMAIN func'[last] = 1 .. n - 1 /\ Len(func'[last]) = n - 1
      BY <1>4, <2>1
    <3>4. func'[last][n - 1] = func[last][(n - 1) + 1]
      <4>. HIDE DEF n
      <4>. QED
        BY <1>4, <2>1, <3>2, <3>3
    <3>. HIDE DEF n
    <3>. QED
      BY <3>2, <3>3, <3>4 DEF n
  <2>2. CASE blk # last
    BY <1>4, <1>6, <2>2
  <2>. QED
    BY <2>1, <2>2
<1>. HIDE DEF last
<1>9. Ends(func') /\ Returned(func') = Returned(func)
  BY <1>4, <1>6, <1>8, SameEnd DEF last
<1>10. RetStays'
  <2>1. ASSUME NEW b \in DOMAIN func, NEW j \in DOMAIN func'[b], func'[b][j].op = "ret", NEW e \in DOMAIN erase'
        PROVE  erase'[e] # func'[b][j].id
    <3>1. PICK i \in DOMAIN func[b] : func'[b][j] = func[b][i]
      BY <1>5
    <3>. QED
      BY <1>2, <2>1, <3>1 DEF MInv, RetStays
  <2>2. replace = <<>> /\ replace' = <<>>
    BY <1>1 DEF IInv, ReplacementsFit
  <2>. QED
    BY <1>4, <1>9, <2>1, <2>2 DEF RetStays
<1>11. IsSimple(func')
  BY <1>4, <1>5 DEF MInv, IsSimple
<1>12. ReplacementsAreSimple'
  BY <1>1 DEF MInv, ReplacementsAreSimple
<1>13. RunsKept'
  <2>1. ASSUME NEW x, NEW e, SameRun(func, replace, x, e) PROVE SameRun(func', replace', x, e)
    <3>1. replace = <<>> /\ replace' = <<>>
      BY <1>1 DEF IInv, ReplacementsFit
    <3>2. Runs(func, x, e)
      BY <2>1 DEF SameRun
    <3>3. ASSUME NEW b \in DOMAIN func, NEW j \in DOMAIN func'[b]
          PROVE  e[func'[b][j].id] = Yields(func'[b][j], x, e)
      <4>1. PICK i \in DOMAIN func[b] : func'[b][j] = func[b][i]
        BY <1>5
      <4>. QED
        BY <3>2, <4>1 DEF Runs
    <3>4. Runs(func', x, e)
      BY <1>4, <3>2, <3>3 DEF Runs
    <3>. QED
      BY <3>1, <3>4 DEF SameRun
  <2>. QED
    BY <1>1, <1>9, <2>1 DEF MInv, RunsKept
<1>. QED
  BY <1>10, <1>11, <1>12, <1>13 DEF MInv

-----------------------------------------------------------------------------
(* A power of two.                                                          *)

LEMMA PowerIs ==
  ASSUME IInv, Visiting("reduce"), OneConst, IsPowerOf2(TheConst.n)
  PROVE  /\ Log2(TheConst.n) \in Nat /\ Log2(TheConst.n) < W /\ Pow2(Log2(TheConst.n)) = TheConst.n
         /\ Const(Log2(TheConst.n)).n = Log2(TheConst.n) /\ TheConst.n \in 1 .. M - 1
<1>. DEFINE n == TheConst.n
            k == Log2(n)
<1>1. \E j \in 0 .. W - 2 : Pow2(j) = n
  BY DEF IsPowerOf2, PowersOfTwo
<1>2. k \in 0 .. W - 2 /\ Pow2(k) = n
  BY <1>1, Zenon DEF Log2
<1>3. TheConst \in Operand /\ IsConst(TheConst)
  BY OneConstIs
<1>4. n \in 0 .. M - 1
  BY <1>3 DEF Operand, IsConst
<1>. HIDE DEF n, k
<1>5. k \in Nat /\ k < W /\ k \in 0 .. M - 1 /\ k \in 0 .. W
  BY <1>2, WidthIs
<1>6. n \in Nat \ {0}
  BY <1>2, <1>5, WidthIs
<1>7. k % M = k
  BY <1>5, SmallMod
<1>8. Const(k).n = k % M
  BY DEF Const
<1>. QED
  BY <1>2, <1>4, <1>5, <1>6, <1>7, <1>8 DEF k, n

\* What an operand is worth in a run.
LEMMA ValueOfIs ==
  ASSUME NEW o \in Operand, NEW x \in 0 .. M - 1, NEW e \in [Nat -> 0 .. M - 1]
  PROVE  ValueOf(o, x, e) \in 0 .. M - 1 /\ ValueOf(o, x, e) # Undef
<1>1. ValueOf(o, x, e) \in 0 .. M - 1
  BY DEF ValueOf, Operand
<1>. DEFINE v == ValueOf(o, x, e)
<1>. HIDE DEF v
<1>2. v \in 0 .. M - 1 => v # Undef
  BY WidthIs DEF Undef
<1>. QED
  BY <1>1, <1>2 DEF v

LEMMA ReduceMulMeans ==
  ASSUME IInv, MInv, ReduceMul, UNCHANGED erase
  PROVE  MInv'
<1>. DEFINE new == [id |-> Fresh, op |-> "shl", l |-> TheVar, r |-> ShiftFor(TheConst.n)]
            item == [old |-> Current.id, new |-> new]
            n == TheConst.n
<1>1. /\ Visiting("reduce") /\ OneConst /\ IsPowerOf2(TheConst.n) /\ Current.op = "mul"
      /\ replace' = Append(replace, item)
      /\ UNCHANGED <<func, orig, erase>>
  BY DEF ReduceMul
<1>2. /\ blk \in DOMAIN func /\ at \in DOMAIN func[blk] /\ Current = func[blk][at]
      /\ Current \in Instr /\ Current.id \in Nat
      /\ TheVar \in Operand /\ TheConst \in Operand /\ IsConst(TheConst)
  BY <1>1, OneConstIs, Facts
<1>3. replace \in Seq(Replacement) /\ DOMAIN replace = 1 .. Len(replace) /\ Len(replace) \in Nat
  BY DEF IInv, TypeOK
<1>4. \A r \in DOMAIN replace' :
        (r \in DOMAIN replace /\ replace'[r] = replace[r]) \/ replace'[r] = item
  BY <1>1, <1>3
<1>5. ASSUME NEW x \in 0 .. M - 1, NEW e, Runs(func, x, e) PROVE Yields(new, x, e) = e[Current.id]
  <2>. DEFINE a == ValueOf(TheVar, x, e)
              c == ValueOf(TheConst, x, e)
              k == Log2(n)
  <2>1. e \in [Nat -> 0 .. M - 1]
    BY <1>5 DEF Runs
  <2>2. a \in 0 .. M - 1 /\ a # Undef /\ c \in 0 .. M - 1 /\ c # Undef /\ c = n
    BY <1>2, <2>1, ValueOfIs DEF ValueOf, IsConst
  <2>3. e[Current.id] = Value("mul", ValueOf(Current.l, x, e), ValueOf(Current.r, x, e))
    BY <1>1, <1>2, <1>5 DEF Runs, Yields
  <2>4. (Current.l = TheVar /\ Current.r = TheConst) \/ (Current.l = TheConst /\ Current.r = TheVar)
    BY DEF TheVar, TheConst
  <2>5. k \in Nat /\ k < W /\ Pow2(k) = n /\ Const(k).n = k
    BY <1>1, PowerIs
  <2>6. ValueOf(Const(k), x, e) = k
    BY <2>5 DEF ValueOf, Const
  <2>7. Yields(new, x, e) = Value("shl", a, k)
    BY <2>6 DEF Yields, ShiftFor
  <2>8. Value("mul", a, c) = (a * c) % M /\ Value("mul", c, a) = (c * a) % M
    BY <2>2 DEF Value
  <2>9. k # Undef
    <3>. HIDE DEF k
    <3>. QED
      BY <2>5 DEF Undef
  <2>. HIDE DEF a, c, k, n, new
  <2>10. Value("shl", a, k) = (a * Pow2(k)) % M
    BY <2>2, <2>5, <2>9 DEF Value
  <2>11. a * c = c * a
    BY <2>2, WidthIs
  <2>. QED
    BY <2>2, <2>3, <2>4, <2>5, <2>7, <2>8, <2>10, <2>11 DEF a, c
<1>6. item.old = Current.id /\ item.new = new /\ new.op = "shl"
  OBVIOUS
<1>. HIDE DEF item, new
<1>7. RetStays'
  <2>1. ASSUME NEW b \in DOMAIN func, NEW k \in DOMAIN func[b], func[b][k].op = "ret", NEW r \in DOMAIN replace'
        PROVE  replace'[r].old # func[b][k].id
    <3>1. func[b][k].id # Current.id
      BY <1>1, <1>2, <2>1, Facts DEF Unique
    <3>. QED
      BY <1>4, <1>6, <2>1, <3>1 DEF MInv, RetStays
  <2>. QED
    BY <1>1, <2>1 DEF MInv, RetStays
<1>8. IsSimple(func') /\ ReplacementsAreSimple'
  BY <1>1, <1>4, <1>6 DEF MInv, ReplacementsAreSimple
<1>9. RunsKept'
  <2>1. ASSUME NEW x \in 0 .. M - 1, NEW e, SameRun(func, replace, x, e) PROVE SameRun(func, replace', x, e)
    <3>1. Runs(func, x, e)
      BY <2>1 DEF SameRun
    <3>2. Yields(item.new, x, e) = e[item.old]
      BY <1>5, <1>6, <3>1
    <3>. QED
      BY <1>4, <2>1, <3>2 DEF SameRun
  <2>. QED
    BY <1>1, <2>1 DEF MInv, RunsKept
<1>. QED
  BY <1>7, <1>8, <1>9 DEF MInv

\* A remainder by n, which one product and one difference give back.
LEMMA RemMeans ==
  ASSUME NEW a \in 0 .. M - 1, NEW b \in 0 .. M - 1, Value("srem", a, b) # Undef,
         NEW k \in Nat, k < W, Pow2(k) = b
  PROVE  LET q == Value("sdiv", a, b)
             p == Value("shl", q, k)
         IN q \in 0 .. M - 1 /\ p \in 0 .. M - 1 /\ Value("srem", a, b) = Value("sub", a, p)
<1>. DEFINE c == Quotient(Signed(a), Signed(b))
            q == c % M
            p == (q * b) % M
<1>1. a # Undef /\ b # Undef
  BY WidthIs DEF Undef
<1>2. b # 0 /\ Value("srem", a, b) = (Signed(a) - c * Signed(b)) % M /\ Value("sdiv", a, b) = q
  BY <1>1 DEF Value
<1>3. c \in Int
  BY <1>2, SignedIs, QuotientIs
<1>. HIDE DEF c
<1>4. q \in 0 .. M - 1
  BY <1>3, WidthIs, DivMod
<1>5. (Signed(a) - c * Signed(b)) % M = (a - p) % M
  BY <1>3, RemBySub
<1>. HIDE DEF q
<1>6. q # Undef /\ k # Undef /\ q * b \in Int
  BY <1>4, WidthIs DEF Undef
<1>7. p \in 0 .. M - 1
  BY <1>6, WidthIs, DivMod
<1>8. Value("shl", q, k) = p
  BY <1>6 DEF Value
<1>. HIDE DEF p
<1>9. p # Undef
  BY <1>7, WidthIs DEF Undef
<1>10. Value("sub", a, p) = (a - p) % M
  BY <1>1, <1>9 DEF Value
<1>. QED
  BY <1>2, <1>4, <1>5, <1>7, <1>8, <1>10

\* What is worth something before the new numbers is worth the same with them.
LEMMA OldOperands ==
  ASSUME IInv, Visiting("reduce"), NEW i \in Instr, NEW b \in DOMAIN func, NEW k \in DOMAIN func[b],
         OpsDefined(func, i, b, k), NEW x, NEW e, NEW h, \A id \in Nat : id < Fresh => e[id] = h[id]
  PROVE  Yields(i, x, e) = Yields(i, x, h)
<1>1. ASSUME NEW o \in {i.l, i.r}, o.k = "inst" PROVE e[o.n] = h[o.n]
  <2>1. PICK c \in DOMAIN func : \E j \in DOMAIN func[c] : func[c][j].id = o.n
    BY <1>1 DEF OpsDefined, Defined
  <2>2. o.n \in Nat /\ o.n < Fresh
    BY <2>1, FreshIs, Facts
  <2>. QED
    BY <2>2
<1>. QED
  BY <1>1, AgreeYields

LEMMA ReduceRemMeans ==
  ASSUME IInv, MInv, ReduceRem, UNCHANGED erase
  PROVE  MInv'
<1>. DEFINE n == TheConst.n
            s == Log2(n)
            div == [id |-> Fresh, op |-> "sdiv", l |-> TheVar, r |-> TheConst]
            shl == [id |-> Fresh + 1, op |-> "shl", l |-> Inst(Fresh), r |-> Const(Log2(TheConst.n))]
            sub == [id |-> Fresh + 2, op |-> "sub", l |-> TheVar, r |-> Inst(Fresh + 1)]
            item == [old |-> Current.id, new |-> sub]
            last == Len(func)
<1>1. /\ Visiting("reduce") /\ OneConst /\ IsPowerOf2(TheConst.n) /\ Current.op = "srem"
      /\ func' = Inserted(func, blk, at, div, shl)
      /\ replace' = Append(replace, item)
      /\ UNCHANGED <<orig, erase>>
  BY DEF ReduceRem, Inserted
<1>2. /\ pass = "reduce" /\ blk \in DOMAIN func /\ at \in DOMAIN func[blk] /\ Current = func[blk][at]
      /\ Current \in Instr /\ Current.id \in Nat /\ at \in Nat
      /\ TheVar \in Operand /\ TheConst \in Operand /\ IsConst(TheConst)
  BY <1>1, OneConstIs, Facts
<1>3. Current.l = TheVar /\ Current.r = TheConst
  <2>1. IsConst(Current.r) \/ Current.l.k = "arg"
    BY <1>1, <1>2 DEF MInv, IsSimple, Simple
  <2>2. IsConst(Current.l) # IsConst(Current.r)
    BY <1>1 DEF OneConst
  <2>3. ~IsConst(Current.l)
    BY <2>1, <2>2 DEF IsConst
  <2>. QED
    BY <2>3 DEF TheVar, TheConst
<1>4. Fresh \in Nat /\ Fresh + 1 \in Nat /\ Fresh + 2 \in Nat
  BY <1>1, FreshIs
<1>5. /\ s \in Nat /\ s < W /\ Pow2(s) = n /\ Const(s).n = s /\ n \in 1 .. M - 1
      /\ Const(s) \in Operand /\ Const(s).k = "const"
  BY <1>1, PowerIs, OperandsMade
<1>6. /\ Inst(Fresh) \in Operand /\ Inst(Fresh).k = "inst" /\ Inst(Fresh).n = Fresh
      /\ Inst(Fresh + 1) \in Operand /\ Inst(Fresh + 1).k = "inst" /\ Inst(Fresh + 1).n = Fresh + 1
  BY <1>4, OperandsMade
<1>7. /\ div \in Instr /\ shl \in Instr /\ sub \in Instr
  BY <1>2, <1>4, <1>5, <1>6 DEF Instr, BinaryOps, FoldOps
<1>8. /\ div.id = Fresh /\ div.op = "sdiv" /\ div.l = TheVar /\ div.r = TheConst
      /\ shl.id = Fresh + 1 /\ shl.op = "shl" /\ shl.l = Inst(Fresh) /\ shl.r = Const(s)
      /\ sub.id = Fresh + 2 /\ sub.op = "sub" /\ sub.l = TheVar /\ sub.r = Inst(Fresh + 1)
      /\ item.old = Current.id /\ item.new = sub
  OBVIOUS
<1>. HIDE DEF s, div, shl, sub, item
<1>9. /\ IsFunc(func) /\ IsFunc(func') /\ DOMAIN func' = DOMAIN func
      /\ \A c \in DOMAIN func \ {blk} : func'[c] = func[c]
      /\ Len(func'[blk]) = Len(func[blk]) + 2 /\ DOMAIN func'[blk] = 1 .. Len(func[blk]) + 2
      /\ \A j \in DOMAIN func'[blk] :
           func'[blk][j] = IF j < at THEN func[blk][j] ELSE IF j = at THEN div ELSE IF j = at + 1 THEN shl
                           ELSE func[blk][j - 2]
  <2>1. /\ IsFunc(func) /\ blk \in DOMAIN func /\ at \in DOMAIN func[blk]
        /\ div \in Instr /\ shl \in Instr /\ func' = Inserted(func, blk, at, div, shl)
    BY <1>1, <1>2, <1>7, Facts
  <2>. DEFINE g == Inserted(func, blk, at, div, shl)
  <2>2. /\ IsFunc(g) /\ DOMAIN g = DOMAIN func
        /\ \A c \in DOMAIN func \ {blk} : g[c] = func[c]
        /\ Len(g[blk]) = Len(func[blk]) + 2 /\ DOMAIN g[blk] = 1 .. Len(func[blk]) + 2
        /\ \A j \in DOMAIN g[blk] :
             g[blk][j] = IF j < at THEN func[blk][j] ELSE IF j = at THEN div ELSE IF j = at + 1 THEN shl
                         ELSE func[blk][j - 2]
    BY <2>1, InsertedIs
  <2>3. func' = g
    BY <2>1
  <2>. HIDE DEF g
  <2>. QED
    BY <2>1, <2>2, <2>3
<1>10. ASSUME NEW c \in DOMAIN func, NEW j \in DOMAIN func'[c]
       PROVE  func'[c][j] \in {div, shl} \/ \E i \in DOMAIN func[c] : func'[c][j] = func[c][i]
  <2>1. /\ IsFunc(func) /\ blk \in DOMAIN func /\ at \in DOMAIN func[blk] /\ c \in DOMAIN func
        /\ div \in Instr /\ shl \in Instr /\ func' = Inserted(func, blk, at, div, shl)
    BY <1>1, <1>2, <1>7, Facts
  <2>2. /\ \A i \in DOMAIN func[c] : func'[c][Shifted(blk, at, c, i)] = func[c][i]
        /\ c = blk => func'[c][at] = div /\ func'[c][at + 1] = shl
        /\ (c = blk /\ j \in {at, at + 1}) \/ \E i \in DOMAIN func[c] : j = Shifted(blk, at, c, i)
    BY <2>1, InsertedPlaces
  <2>. QED
    BY <2>2
<1>11. Ends(func) /\ last \in DOMAIN func /\ Len(func[last]) \in DOMAIN func[last]
  BY DEF MInv, RetStays, Ends
<1>12. Len(func'[last]) \in DOMAIN func'[last] /\ func'[last][Len(func'[last])] = func[last][Len(func[last])]
  <2>1. CASE blk = last
    <3>. DEFINE m == Len(func[last])
    <3>1. m \in Nat /\ at \in 1 .. m
      BY <1>2, <1>9, <2>1, FuncIs
    <3>2. DOMAIN func'[last] = 1 .. m + 2 /\ Len(func'[last]) = m + 2
      BY <1>9, <2>1
    <3>3. m + 2 \in 1 .. m + 2 /\ ~(m + 2 < at) /\ m + 2 # at /\ m + 2 # at + 1 /\ (m + 2) - 2 = m
      <4>. HIDE DEF m
      <4>. QED
        BY <3>1
    <3>4. func'[last][m + 2] = func[last][(m + 2) - 2]
      <4>. HIDE DEF m
      <4>. QED
        BY <1>9, <2>1, <3>2, <3>3
    <3>. HIDE DEF m
    <3>. QED
      BY <3>2, <3>3, <3>4 DEF m
  <2>2. CASE blk # last
    BY <1>9, <1>11, <2>2
  <2>. QED
    BY <2>1, <2>2
<1>. HIDE DEF last
<1>13. Ends(func') /\ Returned(func') = Returned(func)
  BY <1>9, <1>11, <1>12, SameEnd DEF last
<1>14. replace \in Seq(Replacement) /\ \A r \in DOMAIN replace' :
         (r \in DOMAIN replace /\ replace'[r] = replace[r]) \/ replace'[r] = item
  <2>1. replace \in Seq(Replacement)
    BY DEF IInv, TypeOK
  <2>. QED
    BY <1>1, <2>1
<1>15. RetStays'
  <2>1. ASSUME NEW b \in DOMAIN func, NEW j \in DOMAIN func'[b], func'[b][j].op = "ret"
        PROVE  /\ \A e \in DOMAIN erase : erase[e] # func'[b][j].id
               /\ \A r \in DOMAIN replace' : replace'[r].old # func'[b][j].id
    <3>1. PICK i \in DOMAIN func[b] : func'[b][j] = func[b][i]
      BY <1>8, <1>10, <2>1
    <3>2. func[b][i].id # Current.id
      BY <1>1, <1>2, <2>1, <3>1, Facts DEF Unique
    <3>. QED
      BY <1>8, <1>14, <2>1, <3>1, <3>2 DEF MInv, RetStays
  <2>. QED
    BY <1>1, <1>9, <1>13, <2>1 DEF RetStays
<1>16. IsSimple(func')
  <2>1. Simple(div) /\ Simple(shl)
    BY <1>8 DEF Simple
  <2>. QED
    BY <1>9, <1>10, <2>1 DEF MInv, IsSimple
<1>17. ReplacementsAreSimple'
  BY <1>8, <1>14 DEF MInv, ReplacementsAreSimple
<1>18. ASSUME NEW x \in 0 .. M - 1, NEW e, SameRun(func, replace, x, e)
       PROVE  \E h : SameRun(func', replace', x, h) /\ h[Returned(func)] = e[Returned(func)]
  <2>. DEFINE a == ValueOf(TheVar, x, e)
              q == Value("sdiv", a, n)
              p == Value("shl", q, s)
              h == [id \in Nat |-> IF id = Fresh THEN q ELSE IF id = Fresh + 1 THEN p ELSE e[id]]
  <2>1. Runs(func, x, e) /\ e \in [Nat -> 0 .. M - 1]
    BY <1>18 DEF SameRun, Runs
  <2>2. a \in 0 .. M - 1 /\ ValueOf(TheConst, x, e) = n
    BY <1>2, <2>1, ValueOfIs DEF ValueOf, IsConst
  <2>3. e[Current.id] = Value("srem", a, n) /\ e[Current.id] \in 0 .. M - 1
    BY <1>1, <1>2, <1>3, <2>1, <2>2 DEF Runs, Yields
  <2>4. Value("srem", a, n) # Undef
    <3>. DEFINE y == e[Current.id]
    <3>. HIDE DEF y
    <3>1. y \in 0 .. M - 1 => y # Undef
      BY WidthIs DEF Undef
    <3>. QED
      BY <2>3, <3>1 DEF y
  <2>5. q \in 0 .. M - 1 /\ p \in 0 .. M - 1 /\ Value("srem", a, n) = Value("sub", a, p)
    <3>1. n \in 0 .. M - 1
      BY <1>5, WidthIs
    <3>. HIDE DEF a, n
    <3>. QED
      BY <1>5, <2>2, <2>4, <3>1, RemMeans
  <2>. HIDE DEF p, q, a, n
  <2>6. h \in [Nat -> 0 .. M - 1] /\ h[Fresh] = q /\ h[Fresh + 1] = p /\ \A id \in Nat : id < Fresh => e[id] = h[id]
    BY <1>4, <2>1, <2>5
  <2>. HIDE DEF h
  <2>7. ASSUME NEW c \in DOMAIN func, NEW i \in DOMAIN func[c]
        PROVE  h[func[c][i].id] = e[func[c][i].id] /\ h[func[c][i].id] = Yields(func[c][i], x, h)
    <3>1. func[c][i] \in Instr /\ OpsDefined(func, func[c][i], c, i) /\ func[c][i].id \in Nat /\ func[c][i].id < Fresh
      BY <1>1, FreshIs, Facts DEF Dominated
    <3>2. Yields(func[c][i], x, e) = Yields(func[c][i], x, h)
      BY <1>1, <2>6, <3>1, OldOperands
    <3>3. e[func[c][i].id] = Yields(func[c][i], x, e)
      BY <2>1 DEF Runs
    <3>. QED
      BY <2>6, <3>1, <3>2, <3>3
  <2>8. ValueOf(TheVar, x, h) = a
    <3>1. Yields(func[blk][at], x, e) = Yields(func[blk][at], x, h)
      BY <1>2, <2>1, <2>7 DEF Runs
    <3>2. TheVar.k = "inst" => e[TheVar.n] = h[TheVar.n]
      <4>. SUFFICES ASSUME TheVar.k = "inst" PROVE e[TheVar.n] = h[TheVar.n]
        OBVIOUS
      <4>1. PICK c \in DOMAIN func : \E i \in DOMAIN func[c] : func[c][i].id = TheVar.n
        BY <1>1, OneConstIs DEF Defined
      <4>. QED
        BY <2>7, <4>1
    <3>. QED
      BY <1>2, <3>2, OperandIs DEF ValueOf, a
  <2>9. /\ Yields(div, x, h) = q /\ Yields(shl, x, h) = p /\ Yields(sub, x, h) = e[Current.id]
    <3>1. ValueOf(TheConst, x, h) = n /\ ValueOf(Const(s), x, h) = s
      BY <1>2, <1>5 DEF ValueOf, IsConst, n
    <3>2. ValueOf(Inst(Fresh), x, h) = q /\ ValueOf(Inst(Fresh + 1), x, h) = p
      BY <1>6, <2>6 DEF ValueOf
    <3>. QED
      BY <1>8, <2>3, <2>5, <2>8, <3>1, <3>2 DEF Yields, q, p
  <2>10. Runs(func', x, h)
    <3>1. ASSUME NEW c \in DOMAIN func', NEW j \in DOMAIN func'[c] PROVE h[func'[c][j].id] = Yields(func'[c][j], x, h)
      <4>1. CASE func'[c][j] \in {div, shl}
        BY <1>8, <2>6, <2>9, <4>1
      <4>2. CASE \E i \in DOMAIN func[c] : func'[c][j] = func[c][i]
        BY <1>9, <2>7, <4>2
      <4>. QED
        BY <1>9, <1>10, <4>1, <4>2
    <3>. QED
      BY <2>6, <3>1 DEF Runs
  <2>11. ASSUME NEW r \in DOMAIN replace' PROVE Yields(replace'[r].new, x, h) = h[replace'[r].old]
    <3>1. CASE replace'[r] = item
      BY <1>2, <1>8, <2>7, <2>9, <3>1
    <3>2. CASE r \in DOMAIN replace /\ replace'[r] = replace[r]
      <4>1. PICK k \in DOMAIN func[blk] : func[blk][k].id = replace[r].old /\ OpsDefined(func, replace[r].new, blk, k)
        BY <3>2, WaitingIs
      <4>2. replace[r].new \in Instr
        BY <3>2, WaitingIs
      <4>3. Yields(replace[r].new, x, e) = Yields(replace[r].new, x, h)
        <5>1. Visiting("reduce") /\ blk \in DOMAIN func /\ \A id \in Nat : id < Fresh => e[id] = h[id]
          BY <1>1, <1>2, <2>6
        <5>. QED
          BY <4>1, <4>2, <5>1, OldOperands
      <4>4. Yields(replace[r].new, x, e) = e[replace[r].old]
        BY <1>18, <3>2 DEF SameRun
      <4>5. h[replace[r].old] = e[replace[r].old]
        BY <1>2, <2>7, <4>1
      <4>. QED
        BY <3>2, <4>3, <4>4, <4>5
    <3>. QED
      BY <1>14, <3>1, <3>2
  <2>12. h[Returned(func)] = e[Returned(func)]
    BY <1>11, <2>7 DEF Returned, last
  <2>. QED
    BY <2>10, <2>11, <2>12 DEF SameRun
<1>19. RunsKept'
  <2>. SUFFICES ASSUME NEW x \in 0 .. M - 1, Meaning(orig, x) # Undef
                PROVE  \E e : SameRun(func', replace', x, e) /\ e[Returned(func')] = Meaning(orig, x)
    BY <1>1 DEF RunsKept
  <2>1. PICK e : SameRun(func, replace, x, e) /\ e[Returned(func)] = Meaning(orig, x)
    BY DEF MInv, RunsKept
  <2>. QED
    BY <1>13, <1>18, <2>1
<1>. QED
  BY <1>15, <1>16, <1>17, <1>19 DEF MInv

LEMMA ReplaceInstMeans ==
  ASSUME IInv, MInv, ReplaceInst, UNCHANGED erase
  PROVE  MInv'
<1>. DEFINE old == replace[1].old
            new == replace[1].new
            last == Len(func)
            To(i) == Subst(i, old, Inst(new.id))
<1>1. /\ pass = "reduce" /\ blk \in DOMAIN func /\ replace # <<>>
      /\ func' = Replaced(func, blk, Head(replace).old, Head(replace).new) /\ replace' = Waiting
      /\ UNCHANGED <<orig, erase>>
  BY DEF ReplaceInst, LeftLoop, Replaced, Placed
<1>2. /\ replace \in Seq(Replacement) /\ 1 \in DOMAIN replace /\ Head(replace) = replace[1]
      /\ \A r \in DOMAIN Tail(replace) : r + 1 \in DOMAIN replace /\ Tail(replace)[r] = replace[r + 1]
  <2>1. replace \in Seq(Replacement)
    BY DEF IInv, TypeOK
  <2>. QED
    BY <1>1, <2>1
<1>3. PICK k \in DOMAIN func[blk] : func[blk][k].id = old /\ OpsDefined(func, new, blk, k)
  BY <1>2, WaitingIs
<1>4. /\ new \in Instr /\ old \in Nat /\ new.id \in Nat /\ old # new.id
      /\ Inst(new.id) \in Operand /\ ~IsConst(Inst(new.id))
      /\ \A b \in DOMAIN func : \A j \in DOMAIN func[b] : func[b][j].id # new.id
  BY <1>1, <1>2, <1>3, WaitingIs, OperandsMade
<1>5. new.op \in {"shl", "sub"}
  BY <1>2 DEF MInv, ReplacementsAreSimple
<1>6. IsFunc(func) /\ Unique(func) /\ func' = Replaced(func, blk, func[blk][k].id, new)
  BY <1>1, <1>2, <1>3, Facts
<1>7. ASSUME NEW r \in DOMAIN replace'
      PROVE  /\ r + 1 \in DOMAIN replace
             /\ replace'[r].old = replace[r + 1].old /\ replace'[r].new = To(replace[r + 1].new)
  <2>1. r \in DOMAIN Tail(replace)
    BY <1>1 DEF Waiting
  <2>2. replace'[r] = [Tail(replace)[r] EXCEPT !.new = Subst(@, Head(replace).old, Inst(Head(replace).new.id))]
    BY <1>1, <2>1 DEF Waiting
  <2>3. r + 1 \in DOMAIN replace /\ Tail(replace)[r] = replace[r + 1] /\ replace[r + 1] \in Replacement
    BY <1>2, <2>1
  <2>4. replace'[r] = [replace[r + 1] EXCEPT !.new = To(replace[r + 1].new)]
    BY <1>2, <2>2, <2>3
  <2>. HIDE DEF To
  <2>. QED
    BY <2>3, <2>4 DEF Replacement
<1>. HIDE DEF old, new
<1>8. /\ IsFunc(func') /\ DOMAIN func' = DOMAIN func
      /\ \A c \in DOMAIN func : DOMAIN func'[c] = DOMAIN func[c] /\ Len(func'[c]) = Len(func[c])
      /\ \A c \in DOMAIN func : \A j \in DOMAIN func[c] :
           func'[c][j] = To(IF c = blk /\ j = k THEN new ELSE func[c][j])
  BY <1>1, <1>3, <1>4, <1>6, ReplacedIs
<1>9. ASSUME NEW i \in Instr
      PROVE  To(i).id = i.id /\ To(i).op = i.op /\ (Simple(i) => Simple(To(i)))
  <2>1. ASSUME NEW o \in Operand PROVE o.k # "inst" => o # Inst(old)
    BY DEF Inst
  <2>. QED
    BY <1>4, <2>1, SubstIs, InstrIs, OperandIs DEF Simple, IsConst
<1>10. Ends(func) /\ last \in DOMAIN func /\ Len(func[last]) \in DOMAIN func[last]
       /\ func[last][Len(func[last])].op = "ret"
  BY DEF MInv, RetStays, Ends
<1>11. ~(blk = last /\ k = Len(func[last]))
  BY <1>2, <1>3, <1>10 DEF MInv, RetStays, old
<1>. HIDE DEF last, To
<1>12. Ends(func') /\ Returned(func') = Returned(func)
  <2>. DEFINE n == Len(func[last])
  <2>1. func[last][n] \in Instr /\ func'[last][n] = To(func[last][n]) /\ Len(func'[last]) = n /\ n \in DOMAIN func'[last]
    BY <1>8, <1>10, <1>11, Facts
  <2>. QED
    BY <1>6, <1>8, <1>9, <1>10, <2>1, SameEnd DEF last
<1>13. ASSUME NEW c \in DOMAIN func, NEW j \in DOMAIN func[c]
       PROVE  /\ func[c][j] \in Instr /\ func[c][j].id # new.id /\ func[c][j].id \in Nat
              /\ c = blk /\ j = k => func'[c][j] = To(new)
              /\ ~(c = blk /\ j = k) => func'[c][j] = To(func[c][j])
  BY <1>4, <1>8, Facts
<1>14. RetStays'
  <2>1. ASSUME NEW b \in DOMAIN func, NEW j \in DOMAIN func[b], func'[b][j].op = "ret"
        PROVE  /\ \A e \in DOMAIN erase : erase[e] # func'[b][j].id
               /\ \A r \in DOMAIN replace' : replace'[r].old # func'[b][j].id
    <3>1. ~(b = blk /\ j = k)
      BY <1>4, <1>5, <1>9, <1>13, <2>1
    <3>2. func'[b][j].id = func[b][j].id /\ func[b][j].op = "ret"
      BY <1>9, <1>13, <2>1, <3>1
    <3>. QED
      BY <1>7, <3>2 DEF MInv, RetStays
  <2>. QED
    BY <1>1, <1>8, <1>12, <2>1 DEF RetStays
<1>15. IsSimple(func')
  <2>1. ASSUME NEW b \in DOMAIN func, NEW j \in DOMAIN func[b] PROVE Simple(func'[b][j])
    <3>1. Simple(new)
      BY <1>5 DEF Simple
    <3>2. Simple(func[b][j])
      BY DEF MInv, IsSimple
    <3>. QED
      BY <1>4, <1>9, <1>13, <3>1, <3>2
  <2>. QED
    BY <1>8, <2>1 DEF IsSimple
<1>16. ReplacementsAreSimple'
  <2>1. \A r \in DOMAIN replace' : replace'[r].new.op = replace[r + 1].new.op
    BY <1>7, <1>9, WaitingIs
  <2>. QED
    BY <1>7, <2>1 DEF MInv, ReplacementsAreSimple
<1>17. ASSUME NEW x \in 0 .. M - 1, NEW e, SameRun(func, replace, x, e)
       PROVE  \E h : SameRun(func', replace', x, h) /\ h[Returned(func)] = e[Returned(func)]
  <2>. DEFINE h == [e EXCEPT ![new.id] = e[old]]
  <2>1. Runs(func, x, e) /\ e \in [Nat -> 0 .. M - 1]
    BY <1>17 DEF SameRun, Runs
  <2>2. h \in [Nat -> 0 .. M - 1] /\ h[new.id] = e[old] /\ \A id \in Nat \ {new.id} : h[id] = e[id]
    BY <1>4, <2>1
  <2>. HIDE DEF h
  <2>3. ValueOf(Inst(new.id), x, h) = h[old]
    BY <1>4, <2>2, OperandsMade DEF ValueOf
  <2>4. ASSUME NEW i \in Instr, NEW b, NEW j, OpsDefined(func, i, b, j)
        PROVE  Yields(To(i), x, h) = Yields(i, x, e)
    <3>1. ASSUME NEW o \in {i.l, i.r}, o.k = "inst" PROVE e[o.n] = h[o.n]
      <4>1. PICK c \in DOMAIN func : \E n \in DOMAIN func[c] : func[c][n].id = o.n
        BY <2>4, <3>1 DEF OpsDefined, Defined
      <4>. QED
        BY <1>13, <2>2, <4>1
    <3>2. Yields(i, x, e) = Yields(i, x, h)
      BY <3>1, AgreeYields
    <3>3. Yields(Subst(i, old, Inst(new.id)), x, h) = Yields(i, x, h)
      BY <1>4, <2>3, SubstYields
    <3>. QED
      BY <3>2, <3>3 DEF To
  <2>5. Yields(new, x, e) = e[old]
    BY <1>2, <1>17 DEF SameRun, new, old
  <2>6. ASSUME NEW c \in DOMAIN func, NEW j \in DOMAIN func[c] PROVE h[func'[c][j].id] = Yields(func'[c][j], x, h)
    <3>1. CASE c = blk /\ j = k
      BY <1>3, <1>4, <1>9, <1>13, <2>2, <2>4, <2>5, <3>1
    <3>2. CASE ~(c = blk /\ j = k)
      <4>1. OpsDefined(func, func[c][j], c, j)
        BY Facts DEF Dominated
      <4>2. Yields(To(func[c][j]), x, h) = Yields(func[c][j], x, e)
        BY <1>13, <2>4, <4>1
      <4>3. e[func[c][j].id] = Yields(func[c][j], x, e)
        BY <2>1 DEF Runs
      <4>. QED
        BY <1>9, <1>13, <2>2, <3>2, <4>2, <4>3
    <3>. QED
      BY <3>1, <3>2
  <2>7. Runs(func', x, h)
    BY <1>8, <2>2, <2>6 DEF Runs
  <2>8. ASSUME NEW r \in DOMAIN replace' PROVE Yields(replace'[r].new, x, h) = h[replace'[r].old]
    <3>. DEFINE item == replace[r + 1]
    <3>1. r + 1 \in DOMAIN replace /\ replace'[r].old = item.old /\ replace'[r].new = To(item.new)
      BY <1>7
    <3>2. item.new \in Instr /\ \E j \in DOMAIN func[blk] : func[blk][j].id = item.old /\ OpsDefined(func, item.new, blk, j)
      BY <3>1, WaitingIs
    <3>3. Yields(item.new, x, e) = e[item.old]
      BY <1>17, <3>1 DEF SameRun
    <3>. HIDE DEF item
    <3>4. PICK j \in DOMAIN func[blk] : func[blk][j].id = item.old /\ OpsDefined(func, item.new, blk, j)
      BY <3>2
    <3>5. h[item.old] = e[item.old]
      BY <1>1, <1>13, <2>2, <3>4
    <3>6. Yields(To(item.new), x, h) = Yields(item.new, x, e)
      BY <2>4, <3>2, <3>4
    <3>. QED
      BY <3>1, <3>3, <3>5, <3>6
  <2>9. h[Returned(func)] = e[Returned(func)]
    BY <1>10, <1>13, <2>2 DEF Returned, last
  <2>. QED
    BY <2>7, <2>8, <2>9 DEF SameRun
<1>18. RunsKept'
  <2>. SUFFICES ASSUME NEW x \in 0 .. M - 1, Meaning(orig, x) # Undef
                PROVE  \E e : SameRun(func', replace', x, e) /\ e[Returned(func')] = Meaning(orig, x)
    BY <1>1 DEF RunsKept
  <2>1. PICK e : SameRun(func, replace, x, e) /\ e[Returned(func)] = Meaning(orig, x)
    BY DEF MInv, RunsKept
  <2>. QED
    BY <1>12, <1>17, <2>1
<1>. QED
  BY <1>14, <1>15, <1>16, <1>18 DEF MInv

-----------------------------------------------------------------------------
(* The theorem.                                                             *)

ProgramsAreSimple == \A f \in Programs : IsSimple(f)

LEMMA InitMeans ==
  ASSUME Init, ProgramsAreSimple
  PROVE  IInv /\ MInv
<1>1. /\ IInv /\ func \in Programs /\ orig = func /\ erase = <<>> /\ replace = <<>>
  BY InitHolds DEF Init, IRInit
<1>2. IsFunc(func) /\ Unique(func) /\ Dominated(func) /\ Returns(func) /\ IsSimple(func)
  BY <1>1, Facts, ProgramsAreSSA DEF ProgramsAreSimple
<1>3. Ends(func)
  <2>1. End(func) \in Sites(func) /\ func[Len(func)][Len(func[Len(func)])].op = "ret"
    BY <1>2 DEF Returns, Last
  <2>2. Len(func) \in DOMAIN func /\ Len(func[Len(func)]) \in DOMAIN func[Len(func)]
    BY <2>1, SitesAre DEF End
  <2>. QED
    BY <2>1, <2>2 DEF Ends
<1>4. RetStays /\ ReplacementsAreSimple
  BY <1>1, <1>3 DEF RetStays, ReplacementsAreSimple
<1>5. NoUdiv(func)
  BY <1>2 DEF NoUdiv, IsSimple, Simple
<1>6. RunsKept
  <2>. SUFFICES ASSUME NEW x \in 0 .. M - 1, Meaning(func, x) # Undef
                PROVE  \E e : SameRun(func, replace, x, e) /\ e[Returned(func)] = Meaning(func, x)
    BY <1>1 DEF RunsKept
  <2>1. PICK e : Runs(func, x, e) /\ e[Returned(func)] = Meaning(func, x)
    BY <1>2, <1>3, <1>5, MeaningHasRun
  <2>2. SameRun(func, replace, x, e)
    BY <1>1, <2>1 DEF SameRun
  <2>. QED
    BY <2>1, <2>2
<1>. QED
  BY <1>1, <1>2, <1>4, <1>6 DEF MInv

LEMMA StepMeans == IInv /\ MInv /\ [Next]_vars => IInv' /\ MInv'
<1>. SUFFICES ASSUME IInv, MInv, [Next]_vars PROVE MInv'
  BY StepKeeps
<1>1. CASE FoldStep /\ UNCHANGED replace
  BY <1>1, FoldInstMeans, FoldEraseMeans, OnwardStepMeans DEF FoldStep
<1>2. CASE ReduceStep /\ UNCHANGED erase
  BY <1>2, ReduceMulMeans, ReduceRemMeans, ReplaceInstMeans, OnwardStepMeans DEF ReduceStep
<1>3. CASE UNCHANGED vars
  BY <1>3, OnwardMeans DEF vars, irVars
<1>. QED
  BY <1>1, <1>2, <1>3 DEF Next

\* Both passes, at any width: given functions of the operators that EmitIR emits,
\* whose remainders are by a constant, after each step the function returns what
\* the one that was given returns, wherever LLVM says what that is.  (Of the
\* functions left out, udiv is folded with signed operands, and a remainder of a
\* constant power of two, by a variable, is computed as the remainder by it.)
THEOREM AlwaysMeaningKept == ProgramsAreSimple => (Spec => []MeaningKept)
<1>. SUFFICES ASSUME ProgramsAreSimple PROVE Spec => []MeaningKept
  OBVIOUS
<1>1. Init => IInv /\ MInv
  BY InitMeans
<1>2. IInv /\ MInv => MeaningKept
  <2>. SUFFICES ASSUME IInv, MInv, NEW x \in 0 .. M - 1, Meaning(orig, x) # Undef
                PROVE  Meaning(func, x) = Meaning(orig, x)
    BY DEF MeaningKept
  <2>1. PICK e : Runs(func, x, e) /\ e[Returned(func)] = Meaning(orig, x)
    BY DEF MInv, RunsKept, SameRun
  <2>2. Meaning(func, x) = e[Returned(func)]
    BY <2>1, Facts, RunIsMeaning DEF MInv, RetStays
  <2>. QED
    BY <2>1, <2>2
<1>. QED
  BY <1>1, <1>2, StepMeans, PTL DEF Spec
=============================================================================
