--------------------------- MODULE Mem2Reg_proofs ---------------------------
(***************************************************************************)
(* What holds of PromoteMemToReg for every graph and every function whose  *)
(* instructions have names of their own, proved with TLAPS: the lookup     *)
(* agrees with Allocas while the list shrinks and is reordered, every      *)
(* alloca that can be promoted is, and the pass ends.  First the operators *)
(* of the model, then what a step leaves in the function, the inductive    *)
(* invariant, and the theorems.                                            *)
(***************************************************************************)
EXTENDS Mem2Reg, SequenceTheorems, FiniteSetTheorems, FunctionTheorems, WellFoundedInduction, TLAPS

(* What is at some places of a sequence, and how often.                     *)

LEMMA SeqIs ==
  ASSUME NEW S, NEW s \in Seq(S)
  PROVE  /\ Len(s) \in Nat /\ DOMAIN s = 1 .. Len(s)
         /\ \A p \in DOMAIN s : s[p] \in S
OBVIOUS

LEMMA PlacesAreFinite ==
  ASSUME NEW S, NEW s \in Seq(S), NEW P, P \subseteq DOMAIN s
  PROVE  IsFiniteSet(P) /\ Cardinality(P) \in Nat /\ P \subseteq Nat
<1>1. Len(s) \in Nat /\ DOMAIN s = 1 .. Len(s)
  OBVIOUS
<1>2. IsFiniteSet(1 .. Len(s))
  BY <1>1, FS_Interval
<1>3. IsFiniteSet(P)
  BY <1>1, <1>2, FS_Subset, Zenon
<1>. QED
  BY <1>1, <1>3, FS_CardinalityType

\* The place p is the RankIn(P, p)-th of P.
RankIn(P, p) == Cardinality({q \in P : q <= p})

LEMMA RanksAre ==
  ASSUME NEW P, P \subseteq Nat, IsFiniteSet(P)
  PROVE  /\ \A p \in P : RankIn(P, p) \in 1 .. Cardinality(P)
         /\ \A p, q \in P : p < q => RankIn(P, p) < RankIn(P, q)
<1>. DEFINE upTo(p) == {q \in P : q <= p}
<1>1. ASSUME NEW p \in P
      PROVE  IsFiniteSet(upTo(p)) /\ Cardinality(upTo(p)) \in 1 .. Cardinality(P)
  <2>1. upTo(p) \in SUBSET P /\ p \in upTo(p)
    BY p \in Nat
  <2>2. IsFiniteSet(upTo(p)) /\ Cardinality(upTo(p)) <= Cardinality(P)
    BY <2>1, FS_Subset, Zenon
  <2>3. Cardinality(upTo(p)) \in Nat /\ Cardinality(upTo(p)) # 0 /\ Cardinality(P) \in Nat
    BY <2>1, <2>2, FS_CardinalityType, FS_EmptySet, Zenon
  <2>. QED
    BY <2>2, <2>3
<1>2. ASSUME NEW p \in P, NEW q \in P, p < q PROVE Cardinality(upTo(p)) < Cardinality(upTo(q))
  <2>1. upTo(p) \in SUBSET upTo(q) /\ q \in upTo(q) /\ q \notin upTo(p)
    <3>1. p \in Nat /\ q \in Nat /\ \A x \in P : x \in Nat
      OBVIOUS
    <3>2. \A x \in P : x <= p => x <= q
      BY <3>1, <1>2
    <3>3. q <= q /\ ~(q <= p)
      BY <3>1, <1>2
    <3>. QED
      BY <3>2, <3>3
  <2>2. Cardinality(upTo(p)) <= Cardinality(upTo(q)) /\ Cardinality(upTo(p)) # Cardinality(upTo(q))
    BY <2>1, <1>1, FS_Subset, Zenon
  <2>3. Cardinality(upTo(p)) \in Nat /\ Cardinality(upTo(q)) \in Nat
    BY <1>1, FS_CardinalityType, Zenon
  <2>. QED
    BY <2>2, <2>3
<1>. QED
  BY <1>1, <1>2 DEF RankIn

LEMMA RankedIs ==
  ASSUME NEW P, P \subseteq Nat, IsFiniteSet(P)
  PROVE  \A k \in 1 .. Cardinality(P) :
           LET p == CHOOSE q \in P : RankIn(P, q) = k IN p \in P /\ RankIn(P, p) = k
<1>. DEFINE rank == [p \in P |-> RankIn(P, p)]
            n == Cardinality(P)
<1>1. rank \in [P -> 1 .. n]
  BY RanksAre
<1>2. \A p, q \in P : rank[p] = rank[q] => p = q
  <2>1. \A p \in P : RankIn(P, p) \in 1 .. n /\ p \in Nat
    BY RanksAre
  <2>2. \A p, q \in P : p < q \/ q < p \/ p = q
    BY <2>1
  <2>3. \A p, q \in P : RankIn(P, p) = RankIn(P, q) => ~(p < q) /\ ~(q < p)
    <3>1. \A p, q \in P : p < q => RankIn(P, p) < RankIn(P, q)
      BY RanksAre, Zenon
    <3>. QED
      BY <2>1, <3>1
  <2>. QED
    BY <2>2, <2>3
<1>3. rank \in Injection(P, 1 .. n)
  BY <1>1, <1>2 DEF Injection, IsInjective
<1>4. IsFiniteSet(1 .. n) /\ Cardinality(1 .. n) = n
  BY FS_CardinalityType, FS_Interval
<1>5. rank \in Surjection(P, 1 .. n)
  BY <1>3, <1>4, FS_Injection, Zenon
<1>6. \A k \in 1 .. n : \E p \in P : rank[p] = k
  BY <1>5 DEF Surjection
<1>. QED
  BY <1>6

\* c has what is at the places P of s, and nothing else, in order.
HasOnly(c, s, P) ==
  \E from \in [DOMAIN c -> P] :
    /\ \A k \in DOMAIN c : c[k] = s[from[k]]
    /\ \A k, l \in DOMAIN c : k < l => from[k] < from[l]
    /\ \A p \in P : \E k \in DOMAIN c : from[k] = p

LEMMA PickedIs ==
  ASSUME NEW S, NEW s \in Seq(S), NEW P, P \subseteq DOMAIN s
  PROVE  /\ Picked(s, P) \in Seq(S)
         /\ Len(Picked(s, P)) = Cardinality(P) /\ DOMAIN Picked(s, P) = 1 .. Cardinality(P)
         /\ HasOnly(Picked(s, P), s, P)
<1>. DEFINE n == Cardinality(P)
            at(k) == CHOOSE p \in P : RankIn(P, p) = k
            picked == [k \in 1 .. n |-> s[at(k)]]
<1>1. Picked(s, P) = picked
  BY DEF Picked, RankIn
<1>2. IsFiniteSet(P) /\ n \in Nat /\ P \subseteq Nat
  BY PlacesAreFinite, Zenon
<1>3. \A k \in 1 .. n : at(k) \in P /\ RankIn(P, at(k)) = k
  BY <1>2, RankedIs, Zenon
<1>4. ASSUME NEW p \in P PROVE RankIn(P, p) \in 1 .. n /\ at(RankIn(P, p)) = p
  <2>. DEFINE q == at(RankIn(P, p))
  <2>1. RankIn(P, p) \in 1 .. n
    BY <1>2, RanksAre, Zenon
  <2>2. q \in P /\ RankIn(P, q) = RankIn(P, p)
    BY <2>1, <1>3
  <2>. HIDE DEF q
  <2>3. (p < q => RankIn(P, p) < RankIn(P, q)) /\ (q < p => RankIn(P, q) < RankIn(P, p))
    BY <1>2, <2>2, RanksAre, Zenon
  <2>4. q = p
    BY <1>2, <2>1, <2>2, <2>3
  <2>. QED
    BY <2>1, <2>4 DEF q
<1>11. \A k, l \in 1 .. n : k < l => at(k) < at(l)
  <2>. SUFFICES ASSUME NEW k \in 1 .. n, NEW l \in 1 .. n, k < l PROVE at(k) < at(l)
    OBVIOUS
  <2>. DEFINE x == at(k)
              y == at(l)
  <2>1. x \in P /\ y \in P /\ RankIn(P, x) = k /\ RankIn(P, y) = l
    BY <1>3
  <2>. HIDE DEF x, y
  <2>2. y < x => RankIn(P, y) < RankIn(P, x)
    BY <1>2, <2>1, RanksAre, Zenon
  <2>3. x \in Nat /\ y \in Nat /\ x # y /\ ~(y < x)
    BY <1>2, <2>1, <2>2
  <2>4. x < y
    BY <2>3
  <2>. QED
    BY <2>4 DEF x, y
<1>. HIDE DEF at, n
<1>5. \A k \in 1 .. n : s[at(k)] \in S
  BY <1>3
<1>6. picked \in Seq(S) /\ Len(picked) = n /\ DOMAIN picked = 1 .. n
  BY <1>2, <1>5
<1>7. HasOnly(picked, s, P)
  <2>. DEFINE from == [k \in 1 .. n |-> at(k)]
  <2>1. from \in [DOMAIN picked -> P]
    BY <1>3, <1>6
  <2>2. \A k \in DOMAIN picked : picked[k] = s[from[k]]
    BY <1>6
  <2>3. \A k, l \in DOMAIN picked : k < l => from[k] < from[l]
    BY <1>6, <1>11
  <2>4. \A p \in P : \E k \in DOMAIN picked : from[k] = p
    BY <1>4, <1>6 DEF n
  <2>. HIDE DEF from, picked
  <2>. QED
    BY <2>1, <2>2, <2>3, <2>4 DEF HasOnly
<1>. QED
  BY <1>1, <1>6, <1>7 DEF n

-----------------------------------------------------------------------------
(* Instructions, by their blocks b and the places p in them.                *)

LEMMA InstrIs ==
  ASSUME NEW i \in Instr
  PROVE  /\ i.id \in Nat /\ i.ptr \in Operand /\ i.val \in Operand
         /\ i.op \in {"alloca", "load", "store", "call", "phi"}
         /\ i.inc \in Seq(PhiEntry)
         /\ \A k \in DOMAIN i.inc : i.inc[k].val \in Operand /\ i.inc[k].pred \in Nat
<1>1. /\ i.id \in Nat /\ i.ptr \in Operand /\ i.val \in Operand
      /\ i.op \in {"alloca", "load", "store", "call", "phi"}
      /\ i.inc \in Seq(PhiEntry)
  BY DEF Instr
<1>2. \A e \in PhiEntry : e.val \in Operand /\ e.pred \in Nat
  BY DEF PhiEntry
<1>3. \A k \in DOMAIN i.inc : i.inc[k] \in PhiEntry
  BY <1>1
<1>. QED
  BY <1>1, <1>2, <1>3

LEMMA OperandsMade ==
  /\ Undef \in Operand /\ Poison \in Operand
  /\ \A id \in Nat : Inst(id) \in Operand
BY DEF Undef, Poison, Inst, Operand

LEMMA IdsAre ==
  ASSUME NEW f, NEW id
  PROVE  id \in Ids(f) <=> \E b \in DOMAIN f : \E p \in DOMAIN f[b] : f[b][p].id = id
<1>1. id \in Ids(f) <=> \E b \in DOMAIN f : id \in {f[b][p].id : p \in DOMAIN f[b]}
  BY DEF Ids
<1>2. \A b \in DOMAIN f : id \in {f[b][p].id : p \in DOMAIN f[b]} <=> \E p \in DOMAIN f[b] : f[b][p].id = id
  BY Zenon
<1>. QED
  BY <1>1, <1>2, Zenon

LEMMA InstrOfIs ==
  ASSUME NEW D, NEW f \in [D -> Seq(Instr)], NEW id \in Ids(f)
  PROVE  /\ BlockOf(f, id) \in D
         /\ IndexOf(f, id) \in DOMAIN f[BlockOf(f, id)] /\ IndexOf(f, id) \in Nat
         /\ InstrOf(f, id) \in Instr /\ InstrOf(f, id).id = id
<1>1. BlockOf(f, id) \in DOMAIN f /\ \E p \in DOMAIN f[BlockOf(f, id)] : f[BlockOf(f, id)][p].id = id
  <2>1. \E b \in DOMAIN f : \E p \in DOMAIN f[b] : f[b][p].id = id
    BY IdsAre
  <2>. QED
    BY <2>1, Zenon DEF BlockOf
<1>. DEFINE b == BlockOf(f, id)
            p == IndexOf(f, id)
<1>2. p \in DOMAIN f[b] /\ f[b][p].id = id
  BY <1>1, Zenon DEF IndexOf
<1>3. InstrOf(f, id) = f[b][p]
  BY DEF InstrOf
<1>. HIDE DEF b, p
<1>4. b \in D /\ f[b] \in Seq(Instr)
  BY <1>1 DEF b
<1>5. p \in Nat /\ f[b][p] \in Instr
  BY <1>2, <1>4
<1>. QED
  BY <1>2, <1>3, <1>4, <1>5 DEF b, p

LEMMA UsersAre ==
  ASSUME NEW f, NEW a
  PROVE  /\ Users(f, a) \subseteq Ids(f) /\ Loads(f, a) \subseteq Ids(f) /\ Stores(f, a) \subseteq Ids(f)
BY DEF Users, Loads, Stores

LEMMA ReplacedIs ==
  ASSUME NEW D, NEW by \in [D -> Operand], NEW v \in Operand
  PROVE  Replaced(v, by) \in Operand
BY DEF Replaced

LEMMA ReplacedInIs ==
  ASSUME NEW D, NEW by \in [D -> Operand], NEW i \in Instr
  PROVE  /\ ReplacedIn(i, by) \in Instr
         /\ ReplacedIn(i, by).id = i.id /\ ReplacedIn(i, by).op = i.op
<1>. DEFINE inc == [k \in DOMAIN i.inc |-> [val |-> Replaced(i.inc[k].val, by), pred |-> i.inc[k].pred]]
            ptr == Replaced(i.ptr, by)
            val == Replaced(i.val, by)
<1>1. ReplacedIn(i, by) = [id |-> i.id, op |-> i.op, ptr |-> ptr, val |-> val, inc |-> inc]
  <2>1. ReplacedIn(i, by) = [i EXCEPT !.ptr = ptr, !.val = val, !.inc = inc]
    BY DEF ReplacedIn
  <2>. HIDE DEF ptr, val, inc
  <2>. QED
    BY <2>1 DEF Instr
<1>2. ptr \in Operand /\ val \in Operand
  BY InstrIs, ReplacedIs, Zenon
<1>3. i.inc \in Seq(PhiEntry)
  BY InstrIs, Zenon
<1>4. ASSUME NEW k \in DOMAIN i.inc PROVE inc[k] \in PhiEntry
  <2>1. i.inc[k] \in PhiEntry /\ i.inc[k].val \in Operand
    BY <1>3, InstrIs
  <2>2. Replaced(i.inc[k].val, by) \in Operand
    BY <2>1, ReplacedIs, Zenon
  <2>. QED
    BY <2>1, <2>2 DEF PhiEntry
<1>5. DOMAIN inc = 1 .. Len(i.inc) /\ Len(i.inc) \in Nat
  BY <1>3
<1>. HIDE DEF inc, ptr, val
<1>6. inc \in Seq(PhiEntry)
  <2>1. inc \in [1 .. Len(i.inc) -> PhiEntry]
    BY <1>3, <1>4, <1>5 DEF inc
  <2>. QED
    BY <1>5, <2>1, SeqDef
<1>. QED
  BY <1>1, <1>2, <1>6, InstrIs DEF Instr

LEMMA ReplaceIs ==
  ASSUME NEW D, NEW f \in [D -> Seq(Instr)], NEW E, NEW by \in [E -> Operand]
  PROVE  /\ Replace(f, by) \in [D -> Seq(Instr)]
         /\ \A b \in D : /\ DOMAIN Replace(f, by)[b] = DOMAIN f[b]
                         /\ \A p \in DOMAIN f[b] : /\ Replace(f, by)[b][p].id = f[b][p].id
                                                   /\ Replace(f, by)[b][p].op = f[b][p].op
<1>. DEFINE code(b) == [p \in DOMAIN f[b] |-> ReplacedIn(f[b][p], by)]
<1>1. Replace(f, by) = [b \in D |-> code(b)]
  BY DEF Replace
<1>2. ASSUME NEW b \in D
      PROVE  /\ code(b) \in Seq(Instr) /\ DOMAIN code(b) = DOMAIN f[b]
             /\ \A p \in DOMAIN f[b] : code(b)[p].id = f[b][p].id /\ code(b)[p].op = f[b][p].op
  <2>1. f[b] \in Seq(Instr) /\ Len(f[b]) \in Nat /\ DOMAIN f[b] = 1 .. Len(f[b])
    OBVIOUS
  <2>2. \A p \in DOMAIN f[b] : f[b][p] \in Instr
    BY <2>1
  <2>3. \A p \in DOMAIN f[b] : /\ ReplacedIn(f[b][p], by) \in Instr
                               /\ ReplacedIn(f[b][p], by).id = f[b][p].id
                               /\ ReplacedIn(f[b][p], by).op = f[b][p].op
    BY <2>2, ReplacedInIs, Zenon
  <2>. DEFINE c == code(b)
              n == Len(f[b])
  <2>4. c \in [1 .. n -> Instr] /\ n \in Nat /\ DOMAIN c = 1 .. n
    BY <2>1, <2>3
  <2>. HIDE DEF c, n
  <2>5. c \in Seq(Instr)
    BY <2>4, SeqDef
  <2>. QED
    BY <2>3, <2>5 DEF c
<1>. HIDE DEF code
<1>. QED
  BY <1>1, <1>2

\* The places of the instructions that stay when ids are erased.
Stay(code, ids) == {p \in DOMAIN code : code[p].id \notin ids}

LEMMA EraseIs ==
  ASSUME NEW D, NEW f \in [D -> Seq(Instr)], NEW ids
  PROVE  /\ Erase(f, ids) \in [D -> Seq(Instr)]
         /\ \A b \in D : HasOnly(Erase(f, ids)[b], f[b], Stay(f[b], ids))
<1>. DEFINE kept(b) == Stay(f[b], ids)
            code(b) == Picked(f[b], kept(b))
<1>1. Erase(f, ids) = [b \in D |-> code(b)]
  BY DEF Erase, Stay
<1>2. ASSUME NEW b \in D PROVE code(b) \in Seq(Instr) /\ HasOnly(code(b), f[b], kept(b))
  <2>1. f[b] \in Seq(Instr) /\ kept(b) \subseteq DOMAIN f[b]
    BY DEF Stay
  <2>. DEFINE s == f[b]
              P == kept(b)
              c == Picked(s, P)
  <2>2. s \in Seq(Instr) /\ P \subseteq DOMAIN s
    BY <2>1
  <2>. HIDE DEF s, P
  <2>3. c \in Seq(Instr) /\ HasOnly(c, s, P)
    BY <2>2, PickedIs, Zenon
  <2>. QED
    BY <2>3 DEF s, P
<1>. HIDE DEF code
<1>3. Erase(f, ids) \in [D -> Seq(Instr)] /\ \A b \in D : Erase(f, ids)[b] = code(b)
  BY <1>1, <1>2
<1>. QED
  BY <1>2, <1>3

\* What is left of f has each instruction once, and those that were not erased all.
\* Block t is block s without the instructions of ids.
Thinned(t, s, ids) ==
  /\ \A k \in DOMAIN t : \E p \in DOMAIN s : t[k] = s[p] /\ s[p].id \notin ids
  /\ \A p \in DOMAIN s : s[p].id \notin ids => \E k \in DOMAIN t : t[k] = s[p]
  /\ \A k, l \in DOMAIN t :
       (\A p, q \in DOMAIN s : s[p].id = s[q].id => p = q) /\ t[k].id = t[l].id => k = l

LEMMA ErasedPlaces ==
  ASSUME NEW D, NEW f \in [D -> Seq(Instr)], NEW ids, NEW b \in D
  PROVE  Thinned(Erase(f, ids)[b], f[b], ids)
<1>. DEFINE h == Erase(f, ids)
            c == h[b]
            s == f[b]
            P == Stay(s, ids)
<1>1. HasOnly(c, s, P) /\ c \in Seq(Instr) /\ s \in Seq(Instr)
  <2>1. h \in [D -> Seq(Instr)]
    BY EraseIs, Zenon
  <2>2. HasOnly(h[b], f[b], Stay(f[b], ids))
    BY EraseIs, Zenon
  <2>. QED
    BY <2>1, <2>2
<1>. HIDE DEF c, s
<1>2. DOMAIN c \subseteq Nat /\ DOMAIN s \subseteq Nat /\ P \subseteq DOMAIN s /\ \A p \in P : s[p].id \notin ids
  BY <1>1 DEF Stay
<1>3. \A p \in DOMAIN s : s[p].id \notin ids => p \in P
  BY DEF Stay
<1>. HIDE DEF P
<1>4. PICK from \in [DOMAIN c -> P] :
        /\ \A k \in DOMAIN c : c[k] = s[from[k]]
        /\ \A k, l \in DOMAIN c : k < l => from[k] < from[l]
        /\ \A p \in P : \E k \in DOMAIN c : from[k] = p
  BY <1>1, Zenon DEF HasOnly
<1>5. \A k \in DOMAIN c : from[k] \in P /\ from[k] \in Nat /\ k \in Nat
  BY <1>2
<1>6. \A k \in DOMAIN c : \E p \in DOMAIN s : c[k] = s[p] /\ s[p].id \notin ids
  BY <1>2, <1>4, <1>5
<1>7. \A p \in DOMAIN s : s[p].id \notin ids => \E k \in DOMAIN c : c[k] = s[p]
  BY <1>3, <1>4
<1>8. ASSUME NEW k \in DOMAIN c, NEW l \in DOMAIN c,
             \A p, q \in DOMAIN s : s[p].id = s[q].id => p = q, c[k].id = c[l].id
      PROVE  k = l
  <2>1. from[k] = from[l]
    BY <1>2, <1>4, <1>5, <1>8
  <2>2. ~(k < l) /\ ~(l < k)
    BY <1>4, <1>5, <2>1
  <2>. QED
    BY <1>5, <2>2
<1>9. Thinned(c, s, ids)
  BY <1>6, <1>7, <1>8 DEF Thinned
<1>. QED
  BY <1>9 DEF c, s

-----------------------------------------------------------------------------
(* What a function has of another one, some of whose instructions are gone.  *)

Has(f, id, op) == \E b \in DOMAIN f : \E p \in DOMAIN f[b] : f[b][p].id = id /\ f[b][p].op = op

\* The allocas of the entry block, by their numbers.
AllocaIds(f) == {f[Entry][p].id : p \in {q \in DOMAIN f[Entry] : f[Entry][q].op = "alloca"}}

LEMMA AllocaIdsAre ==
  ASSUME NEW f, NEW id
  PROVE  id \in AllocaIds(f) <=> \E p \in DOMAIN f[Entry] : f[Entry][p].op = "alloca" /\ f[Entry][p].id = id
BY Zenon DEF AllocaIds

LEMMA GraphIs ==
  ASSUME NEW g \in Graphs
  PROVE  /\ g \in Seq(Seq(Nat)) /\ Len(g) \in Nat /\ DOMAIN g = 1 .. Len(g)
         /\ Entry \in DOMAIN g
<1>1. g \in Seq(Seq(Nat)) /\ Len(g) > 0
  BY MemIRAssumption
<1>. QED
  BY <1>1 DEF Entry

LEMMA HasOneOp ==
  ASSUME NEW f, Unique(f), NEW id, NEW op, NEW other, Has(f, id, op), Has(f, id, other)
  PROVE  op = other
<1>1. PICK b \in DOMAIN f : \E p \in DOMAIN f[b] : f[b][p].id = id /\ f[b][p].op = op
  BY Zenon DEF Has
<1>2. PICK p \in DOMAIN f[b] : f[b][p].id = id /\ f[b][p].op = op
  BY <1>1
<1>3. PICK c \in DOMAIN f : \E q \in DOMAIN f[c] : f[c][q].id = id /\ f[c][q].op = other
  BY Zenon DEF Has
<1>4. PICK q \in DOMAIN f[c] : f[c][q].id = id /\ f[c][q].op = other
  BY <1>3
<1>5. b = c /\ p = q
  BY <1>2, <1>4 DEF Unique
<1>. QED
  BY <1>2, <1>4, <1>5

LEMMA InstrOfHas ==
  ASSUME NEW D, NEW f \in [D -> Seq(Instr)]
  PROVE  /\ \A id \in Ids(f) : Has(f, id, InstrOf(f, id).op)
         /\ \A id, op : Has(f, id, op) => id \in Ids(f)
<1>1. ASSUME NEW id \in Ids(f) PROVE Has(f, id, InstrOf(f, id).op)
  <2>1. /\ BlockOf(f, id) \in DOMAIN f /\ IndexOf(f, id) \in DOMAIN f[BlockOf(f, id)]
        /\ InstrOf(f, id).id = id
    BY InstrOfIs
  <2>2. InstrOf(f, id) = f[BlockOf(f, id)][IndexOf(f, id)]
    BY DEF InstrOf
  <2>. QED
    BY <2>1, <2>2, Zenon DEF Has
<1>2. ASSUME NEW id, NEW op, Has(f, id, op) PROVE id \in Ids(f)
  BY <1>2, IdsAre, Zenon DEF Has
<1>. QED
  BY <1>1, <1>2

LEMMA InstrAt ==
  ASSUME NEW D, NEW f \in [D -> Seq(Instr)], Unique(f), NEW b \in D, NEW p \in DOMAIN f[b]
  PROVE  f[b][p].id \in Ids(f) /\ InstrOf(f, f[b][p].id) = f[b][p]
<1>. DEFINE id == f[b][p].id
<1>1. id \in Ids(f) /\ b \in DOMAIN f
  BY IdsAre
<1>2. BlockOf(f, id) \in DOMAIN f /\ \E q \in DOMAIN f[BlockOf(f, id)] : f[BlockOf(f, id)][q].id = id
  BY <1>1, IdsAre, Zenon DEF BlockOf
<1>3. BlockOf(f, id) = b
  BY <1>1, <1>2, Zenon DEF Unique
<1>4. IndexOf(f, id) \in DOMAIN f[b] /\ f[b][IndexOf(f, id)].id = id
  BY <1>2, <1>3, Zenon DEF IndexOf
<1>5. IndexOf(f, id) = p
  BY <1>1, <1>4, Zenon DEF Unique
<1>. QED
  BY <1>1, <1>3, <1>5 DEF InstrOf

\* h is what is left of f without the instructions ids.
Trimmed(g, h, f, ids) ==
  /\ h \in [DOMAIN g -> Seq(Instr)]
  /\ Unique(h)
  /\ Ids(h) = Ids(f) \ ids
  /\ \A id, op : Has(h, id, op) <=> Has(f, id, op) /\ id \notin ids
  /\ AllocaIds(h) \subseteq AllocaIds(f) \ ids

LEMMA EraseTrims ==
  ASSUME NEW g \in Graphs, NEW f \in [DOMAIN g -> Seq(Instr)], Unique(f), NEW ids
  PROVE  Trimmed(g, Erase(f, ids), f, ids)
<1>. DEFINE h == Erase(f, ids)
            D == DOMAIN g
<1>1. h \in [D -> Seq(Instr)]
  BY EraseIs, Zenon
<1>2. ASSUME NEW b \in D
      PROVE  /\ \A k \in DOMAIN h[b] : \E p \in DOMAIN f[b] : h[b][k] = f[b][p] /\ f[b][p].id \notin ids
             /\ \A p \in DOMAIN f[b] : f[b][p].id \notin ids => \E k \in DOMAIN h[b] : h[b][k] = f[b][p]
             /\ \A k, l \in DOMAIN h[b] :
                  (\A p, q \in DOMAIN f[b] : f[b][p].id = f[b][q].id => p = q) /\ h[b][k].id = h[b][l].id => k = l
  <2>1. Thinned(h[b], f[b], ids)
    BY ErasedPlaces, Zenon
  <2>. HIDE DEF h
  <2>. QED
    BY <2>1, Zenon DEF Thinned
<1>3. DOMAIN h = D /\ DOMAIN f = D /\ Entry \in D
  BY <1>1, GraphIs
<1>. HIDE DEF h, D
<1>4. \A b, c \in D : \A p \in DOMAIN f[b], q \in DOMAIN f[c] : f[b][p].id = f[c][q].id => b = c /\ p = q
  BY <1>3 DEF Unique
<1>5. ASSUME NEW b \in D, NEW c \in D, NEW k \in DOMAIN h[b], NEW l \in DOMAIN h[c], h[b][k].id = h[c][l].id
      PROVE  b = c /\ k = l
  <2>1. PICK p \in DOMAIN f[b] : h[b][k] = f[b][p]
    BY <1>2
  <2>2. PICK q \in DOMAIN f[c] : h[c][l] = f[c][q]
    BY <1>2
  <2>3. b = c
    BY <1>4, <1>5, <2>1, <2>2
  <2>. QED
    BY <1>2, <1>4, <1>5, <2>3
<1>6. Unique(h)
  BY <1>3, <1>5 DEF Unique
<1>7. ASSUME NEW id, NEW op PROVE Has(h, id, op) <=> Has(f, id, op) /\ id \notin ids
  BY <1>2, <1>3 DEF Has
<1>8. ASSUME NEW id PROVE id \in Ids(h) <=> id \in Ids(f) /\ id \notin ids
  <2>1. id \in Ids(h) <=> \E b \in D : \E p \in DOMAIN h[b] : h[b][p].id = id
    BY <1>3, IdsAre
  <2>2. id \in Ids(f) <=> \E b \in D : \E p \in DOMAIN f[b] : f[b][p].id = id
    BY <1>3, IdsAre
  <2>. QED
    BY <1>2, <2>1, <2>2
<1>9. ASSUME NEW id \in AllocaIds(h) PROVE id \in AllocaIds(f) \ ids
  <2>1. PICK k \in DOMAIN h[Entry] : h[Entry][k].op = "alloca" /\ h[Entry][k].id = id
    BY AllocaIdsAre
  <2>2. PICK p \in DOMAIN f[Entry] : h[Entry][k] = f[Entry][p] /\ f[Entry][p].id \notin ids
    BY <1>2, <1>3
  <2>. QED
    BY <2>1, <2>2, AllocaIdsAre
<1>. QED
  BY <1>1, <1>6, <1>7, <1>8, <1>9 DEF Trimmed, h, D

\* Instructions that differ in their operands only.
SameInstrs(code, old) ==
  /\ code \in Seq(Instr)
  /\ DOMAIN code = DOMAIN old
  /\ \A p \in DOMAIN old : code[p].id = old[p].id /\ code[p].op = old[p].op

LEMMA SameInstrsTrim ==
  ASSUME NEW g \in Graphs, NEW f \in [DOMAIN g -> Seq(Instr)], Unique(f),
         NEW h, DOMAIN h = DOMAIN g, h = [b \in DOMAIN g |-> h[b]],
         \A b \in DOMAIN g : SameInstrs(h[b], f[b])
  PROVE  Trimmed(g, h, f, {})
<1>. DEFINE D == DOMAIN g
<1>1. h \in [D -> Seq(Instr)]
  BY DEF SameInstrs
<1>2. DOMAIN h = D /\ DOMAIN f = D /\ Entry \in D
  BY GraphIs
<1>3. \A b \in D : /\ DOMAIN h[b] = DOMAIN f[b]
                   /\ \A p \in DOMAIN f[b] : h[b][p].id = f[b][p].id /\ h[b][p].op = f[b][p].op
  BY DEF SameInstrs
<1>. HIDE DEF D
<1>4. Unique(h)
  <2>1. ASSUME NEW b \in D, NEW c \in D, NEW p \in DOMAIN h[b], NEW q \in DOMAIN h[c],
               h[b][p].id = h[c][q].id
        PROVE  b = c /\ p = q
    <3>1. p \in DOMAIN f[b] /\ q \in DOMAIN f[c] /\ f[b][p].id = f[c][q].id
      BY <1>3, <2>1
    <3>. QED
      BY <1>2, <3>1 DEF Unique
  <2>. QED
    BY <1>2, <2>1 DEF Unique
<1>5. ASSUME NEW id, NEW op PROVE Has(h, id, op) <=> Has(f, id, op)
  BY <1>2, <1>3, SMTT(30) DEF Has
<1>6. ASSUME NEW id PROVE id \in Ids(h) <=> id \in Ids(f)
  <2>1. id \in Ids(h) <=> \E b \in D : \E p \in DOMAIN h[b] : h[b][p].id = id
    BY <1>2, IdsAre
  <2>2. id \in Ids(f) <=> \E b \in D : \E p \in DOMAIN f[b] : f[b][p].id = id
    BY <1>2, IdsAre
  <2>3. ASSUME NEW b \in D, NEW p PROVE p \in DOMAIN h[b] /\ h[b][p].id = id <=> p \in DOMAIN f[b] /\ f[b][p].id = id
    BY <1>3
  <2>. QED
    BY <2>1, <2>2, <2>3, Zenon
<1>7. ASSUME NEW id \in AllocaIds(h) PROVE id \in AllocaIds(f)
  <2>1. PICK k \in DOMAIN h[Entry] : h[Entry][k].op = "alloca" /\ h[Entry][k].id = id
    BY AllocaIdsAre
  <2>. QED
    BY <1>2, <1>3, <2>1, AllocaIdsAre
<1>8. Ids(h) = Ids(f) \ {} /\ AllocaIds(h) \subseteq AllocaIds(f) \ {}
  <2>1. Ids(h) \subseteq Ids(f) /\ Ids(f) \subseteq Ids(h)
    BY <1>6
  <2>2. AllocaIds(h) \subseteq AllocaIds(f)
    BY <1>7
  <2>. QED
    BY <2>1, <2>2
<1>9. \A id, op : Has(h, id, op) <=> Has(f, id, op) /\ id \notin {}
  BY <1>5
<1>. QED
  BY <1>1, <1>4, <1>8, <1>9 DEF Trimmed, D

LEMMA ReplaceTrims ==
  ASSUME NEW g \in Graphs, NEW f \in [DOMAIN g -> Seq(Instr)], Unique(f), NEW E, NEW by \in [E -> Operand]
  PROVE  Trimmed(g, Replace(f, by), f, {})
<1>. DEFINE h == Replace(f, by)
<1>1. /\ h \in [DOMAIN g -> Seq(Instr)]
      /\ \A b \in DOMAIN g : /\ DOMAIN h[b] = DOMAIN f[b]
                             /\ \A p \in DOMAIN f[b] : h[b][p].id = f[b][p].id /\ h[b][p].op = f[b][p].op
  BY ReplaceIs
<1>. HIDE DEF h
<1>2. DOMAIN h = DOMAIN g /\ h = [b \in DOMAIN g |-> h[b]] /\ \A b \in DOMAIN g : SameInstrs(h[b], f[b])
  BY <1>1 DEF SameInstrs
<1>3. Trimmed(g, h, f, {})
  BY <1>2, SameInstrsTrim
<1>. QED
  BY <1>3 DEF h

LEMMA TrimmedTwice ==
  ASSUME NEW g, NEW f, NEW h, NEW k, NEW A, NEW B, Trimmed(g, h, f, A), Trimmed(g, k, h, B)
  PROVE  Trimmed(g, k, f, A \cup B)
BY DEF Trimmed

\* Only loads and stores use a, and no store stores it.
Accessed(f, a) ==
  \A b \in DOMAIN f : \A p \in DOMAIN f[b] :
    Inst(a) \in Operands(f[b][p]) => f[b][p].op \in {"load", "store"} /\ f[b][p].val # Inst(a)

LEMMA EraseAccessed ==
  ASSUME NEW D, NEW f \in [D -> Seq(Instr)], NEW ids, NEW a, Accessed(f, a)
  PROVE  Accessed(Erase(f, ids), a)
<1>. DEFINE h == Erase(f, ids)
<1>1. h \in [D -> Seq(Instr)]
  BY EraseIs, Zenon
<1>2. ASSUME NEW b \in D
      PROVE  /\ \A k \in DOMAIN h[b] : \E p \in DOMAIN f[b] : h[b][k] = f[b][p] /\ f[b][p].id \notin ids
             /\ \A p \in DOMAIN f[b] : f[b][p].id \notin ids => \E k \in DOMAIN h[b] : h[b][k] = f[b][p]
             /\ \A k, l \in DOMAIN h[b] :
                  (\A p, q \in DOMAIN f[b] : f[b][p].id = f[b][q].id => p = q) /\ h[b][k].id = h[b][l].id => k = l
  <2>1. Thinned(h[b], f[b], ids)
    BY ErasedPlaces, Zenon
  <2>. HIDE DEF h
  <2>. QED
    BY <2>1, Zenon DEF Thinned
<1>3. DOMAIN h = D /\ DOMAIN f = D
  BY <1>1
<1>. HIDE DEF h
<1>4. Accessed(h, a)
  BY <1>2, <1>3 DEF Accessed
<1>. QED
  BY <1>4 DEF h

LEMMA ReplaceAccessed ==
  ASSUME NEW D, NEW f \in [D -> Seq(Instr)], NEW E, NEW by \in [E -> Operand],
         NEW a, Accessed(f, a), \A x \in E : by[x] # Inst(a)
  PROVE  Accessed(Replace(f, by), a)
<1>. DEFINE h == Replace(f, by)
<1>1. \A v \in Operand : Replaced(v, by) = Inst(a) => v = Inst(a)
  BY DEF Replaced
<1>2. ASSUME NEW b \in D, NEW p \in DOMAIN f[b], Inst(a) \in Operands(ReplacedIn(f[b][p], by))
      PROVE  ReplacedIn(f[b][p], by).op \in {"load", "store"} /\ ReplacedIn(f[b][p], by).val # Inst(a)
  <2>. DEFINE i == f[b][p]
              j == ReplacedIn(i, by)
  <2>1. i \in Instr
    BY f[b] \in Seq(Instr)
  <2>2. Inst(a) \in Operands(i) => i.op \in {"load", "store"} /\ i.val # Inst(a)
    BY DEF Accessed
  <2>. HIDE DEF i
  <2>3. /\ i.ptr \in Operand /\ i.val \in Operand /\ \A k \in DOMAIN i.inc : i.inc[k].val \in Operand
    BY <2>1, InstrIs
  <2>4. /\ j.ptr = Replaced(i.ptr, by) /\ j.val = Replaced(i.val, by) /\ j.op = i.op
        /\ DOMAIN j.inc = DOMAIN i.inc
        /\ \A k \in DOMAIN i.inc : j.inc[k].val = Replaced(i.inc[k].val, by)
    BY <2>1 DEF ReplacedIn, Instr
  <2>. HIDE DEF j
  <2>5. Inst(a) \in Operands(j)
    BY <1>2 DEF j, i
  <2>6. Inst(a) \in Operands(i)
    BY <1>1, <2>3, <2>4, <2>5 DEF Operands
  <2>7. j.op \in {"load", "store"} /\ j.val # Inst(a)
    BY <1>1, <2>2, <2>3, <2>4, <2>6
  <2>. QED
    BY <2>7 DEF j, i
<1>3. h = [b \in D |-> [p \in DOMAIN f[b] |-> ReplacedIn(f[b][p], by)]]
  BY DEF Replace
<1>. HIDE DEF h
<1>4. Accessed(h, a)
  BY <1>2, <1>3 DEF Accessed
<1>. QED
  BY <1>4 DEF h

-----------------------------------------------------------------------------
(* Numbers: the last of some places, and how many instructions there are.   *)

BoundedTo(q, m) == \E bound \in Nat : \A i \in 1 .. m : q[i] <= bound

LEMMA SeqBounded ==
  ASSUME NEW n \in Nat, NEW q \in [1 .. n -> Nat]
  PROVE  BoundedTo(q, n)
<1>. DEFINE T == {m \in 0 .. n : ~BoundedTo(q, m)}
<1>. SUFFICES ASSUME ~BoundedTo(q, n) PROVE FALSE
  OBVIOUS
<1>1. T # {} /\ T \subseteq Nat
  <2>1. n \in T
    OBVIOUS
  <2>. QED
    BY <2>1
<1>. HIDE DEF T
<1>2. PICK m \in T : \A j \in T : ~(<<j, m>> \in OpToRel(<, Nat))
  BY <1>1, WFMin, NatLessThanWellFounded, Zenon
<1>3. \A j \in T : ~(j < m)
  BY <1>1, <1>2 DEF OpToRel
<1>4. m \in 0 .. n /\ ~BoundedTo(q, m)
  BY DEF T
<1>5. m # 0
  <2>1. \A i \in 1 .. 0 : q[i] <= 0
    OBVIOUS
  <2>. QED
    BY <1>4, <2>1 DEF BoundedTo
<1>6. m - 1 \in 0 .. n /\ m - 1 < m /\ q[m] \in Nat
  BY <1>4, <1>5
<1>7. BoundedTo(q, m - 1)
  BY <1>3, <1>6 DEF T
<1>8. PICK bound \in Nat : \A i \in 1 .. m - 1 : q[i] <= bound
  BY <1>7 DEF BoundedTo
<1>9. bound + q[m] \in Nat /\ \A i \in 1 .. m : q[i] <= bound + q[m]
  <2>. DEFINE y == q[m]
  <2>1. y \in Nat
    BY <1>6
  <2>2. ASSUME NEW i \in 1 .. m PROVE q[i] <= bound + y
    <3>1. CASE i = m
      BY <2>1, <3>1
    <3>2. CASE i # m
      <4>1. i \in 1 .. m - 1 /\ i \in 1 .. n
        BY <1>4, <3>2
      <4>2. q[i] \in Nat /\ q[i] <= bound
        BY <1>8, <4>1
      <4>. HIDE DEF y
      <4>. QED
        BY <2>1, <4>2
    <3>. QED
      BY <3>1, <3>2
  <2>. HIDE DEF y
  <2>3. bound + y \in Nat
    BY <2>1
  <2>. QED
    BY <2>2, <2>3 DEF y
<1>. QED
  BY <1>4, <1>9 DEF BoundedTo

LEMMA MaxIs ==
  ASSUME NEW S, S \subseteq Nat, S # {}, NEW bound \in Nat, \A n \in S : n <= bound
  PROVE  Max(S) \in S /\ \A n \in S : n <= Max(S)
<1>. DEFINE T == {m \in Nat : \A n \in S : n <= m}
<1>1. T # {} /\ T \subseteq Nat
  OBVIOUS
<1>. HIDE DEF T
<1>2. PICK m \in T : \A j \in T : ~(<<j, m>> \in OpToRel(<, Nat))
  BY <1>1, WFMin, NatLessThanWellFounded, Zenon
<1>3. m \in Nat /\ (\A n \in S : n <= m) /\ \A j \in T : ~(j < m)
  BY <1>1, <1>2 DEF OpToRel, T
<1>4. m \in S
  <2>. SUFFICES ASSUME m \notin S PROVE FALSE
    OBVIOUS
  <2>1. \A n \in S : n \in Nat /\ n <= m - 1
    BY <1>3
  <2>2. m - 1 \in Nat
    <3>1. PICK n \in S : TRUE
      OBVIOUS
    <3>2. n \in Nat /\ n <= m - 1 /\ m \in Nat
      BY <1>3, <2>1
    <3>. QED
      BY <3>2
  <2>3. m - 1 \in T /\ m - 1 < m
    BY <1>3, <2>1, <2>2 DEF T
  <2>. QED
    BY <1>3, <2>3
<1>5. \E x \in S : \A y \in S : x >= y
  BY <1>3, <1>4
<1>6. Max(S) \in S /\ \A y \in S : Max(S) >= y
  BY <1>5, Zenon DEF Max
<1>. DEFINE x == Max(S)
<1>. HIDE DEF x
<1>7. x \in S /\ \A y \in S : x >= y
  BY <1>6 DEF x
<1>8. \A y \in S : y <= x
  BY <1>7
<1>. QED
  BY <1>7, <1>8 DEF x

LEMMA IdsAreBounded ==
  ASSUME NEW g, g \in Seq(Seq(Nat)), NEW f \in [DOMAIN g -> Seq(Instr)]
  PROVE  \E m \in Nat : \A id \in Ids(f) : id <= m
<1>. DEFINE n == Len(g)
            Bounds(b, m) == m \in Nat /\ \A p \in DOMAIN f[b] : f[b][p].id <= m
            most == [b \in 1 .. n |-> CHOOSE m : Bounds(b, m)]
<1>1. n \in Nat /\ DOMAIN f = 1 .. n /\ \A b \in 1 .. n : f[b] \in Seq(Instr)
  OBVIOUS
<1>2. ASSUME NEW b \in 1 .. n PROVE \E m : Bounds(b, m)
  <2>. DEFINE code == f[b]
              ids == [p \in 1 .. Len(code) |-> code[p].id]
  <2>1. code \in Seq(Instr)
    BY <1>1
  <2>. HIDE DEF code
  <2>2. Len(code) \in Nat /\ DOMAIN code = 1 .. Len(code) /\ \A p \in DOMAIN code : code[p] \in Instr
    BY <2>1, SeqIs, Zenon
  <2>3. ids \in [1 .. Len(code) -> Nat]
    BY <2>2, InstrIs
  <2>4. BoundedTo(ids, Len(code))
    <3>. HIDE DEF ids
    <3>. QED
      BY <2>2, <2>3, SeqBounded
  <2>5. PICK m \in Nat : \A p \in 1 .. Len(code) : ids[p] <= m
    BY <2>4 DEF BoundedTo
  <2>. QED
    BY <2>2, <2>5 DEF code
<1>3. \A b \in 1 .. n : Bounds(b, most[b])
  <2>. HIDE DEF Bounds
  <2>. QED
    BY <1>2
<1>4. most \in [1 .. n -> Nat]
  BY <1>3
<1>. HIDE DEF most
<1>5. BoundedTo(most, n)
  BY <1>1, <1>4, SeqBounded
<1>6. PICK m \in Nat : \A b \in 1 .. n : most[b] <= m
  BY <1>5 DEF BoundedTo
<1>7. ASSUME NEW id \in Ids(f) PROVE id <= m
  <2>1. PICK b \in DOMAIN f : \E p \in DOMAIN f[b] : f[b][p].id = id
    BY IdsAre
  <2>2. PICK p \in DOMAIN f[b] : f[b][p].id = id
    BY <2>1
  <2>3. id \in Nat
    BY <1>1, <2>1, <2>2, SeqIs, InstrIs
  <2>4. id <= most[b] /\ most[b] <= m /\ most[b] \in Nat
    BY <1>1, <1>3, <1>4, <1>6, <2>1, <2>2
  <2>. QED
    BY <2>3, <2>4
<1>. QED
  BY <1>7

LEMMA IdsAreFinite ==
  ASSUME NEW g, g \in Seq(Seq(Nat)), NEW f \in [DOMAIN g -> Seq(Instr)]
  PROVE  IsFiniteSet(Ids(f)) /\ Ids(f) \subseteq Nat
<1>. DEFINE n == Len(g)
            lens == [b \in 1 .. n |-> Len(f[b])]
            D == {d \in (1 .. n) \X Nat : d[2] \in DOMAIN f[d[1]]}
            idAt == [d \in D |-> f[d[1]][d[2]].id]
<1>1. n \in Nat /\ DOMAIN f = 1 .. n
      /\ \A b \in 1 .. n : /\ Len(f[b]) \in Nat /\ DOMAIN f[b] = 1 .. Len(f[b])
                           /\ \A p \in DOMAIN f[b] : f[b][p].id \in Nat
  <2>1. n \in Nat /\ DOMAIN f = 1 .. n /\ \A b \in 1 .. n : f[b] \in Seq(Instr)
    OBVIOUS
  <2>2. \A b \in 1 .. n : \A p \in DOMAIN f[b] : f[b][p] \in Instr
    BY <2>1
  <2>. QED
    BY <2>1, <2>2, InstrIs
<1>2. PICK m \in Nat : \A b \in 1 .. n : Len(f[b]) <= m
  <2>1. lens \in [1 .. n -> Nat]
    BY <1>1
  <2>2. BoundedTo(lens, n)
    <3>. HIDE DEF lens, n
    <3>. QED
      BY <2>1, <1>1, SeqBounded
  <2>. QED
    BY <2>2 DEF BoundedTo
<1>3. IsFiniteSet((1 .. n) \X (1 .. m))
  <2>1. n \in Int /\ m \in Int /\ 1 \in Int
    BY <1>1
  <2>2. IsFiniteSet(1 .. n) /\ IsFiniteSet(1 .. m)
    BY <2>1, FS_Interval, Zenon
  <2>. QED
    BY <2>2, FS_Product, Zenon
<1>4. D \subseteq (1 .. n) \X (1 .. m)
  BY <1>1, <1>2
<1>5. IsFiniteSet(D)
  <2>. HIDE DEF D
  <2>. QED
    BY <1>3, <1>4, FS_Subset, Zenon
<1>6. idAt \in [D -> Ids(f)]
  BY <1>1, IdsAre
<1>7. \A id \in Ids(f) : \E d \in D : idAt[d] = id
  <2>. SUFFICES ASSUME NEW id \in Ids(f) PROVE \E d \in D : idAt[d] = id
    OBVIOUS
  <2>1. PICK b \in DOMAIN f : \E p \in DOMAIN f[b] : f[b][p].id = id
    BY IdsAre
  <2>2. PICK p \in DOMAIN f[b] : f[b][p].id = id
    BY <2>1
  <2>3. <<b, p>> \in D
    BY <1>1
  <2>. QED
    BY <2>2, <2>3
<1>8. idAt \in Surjection(D, Ids(f))
  <2>. HIDE DEF idAt
  <2>. QED
    BY <1>6, <1>7 DEF Surjection
<1>9. ASSUME NEW id \in Ids(f) PROVE id \in Nat
  <2>1. PICK b \in DOMAIN f : \E p \in DOMAIN f[b] : f[b][p].id = id
    BY IdsAre
  <2>. QED
    BY <1>1, <2>1
<1>. HIDE DEF D, idAt
<1>. QED
  BY <1>5, <1>8, <1>9, FS_Surjection

LEMMA AllocaIdsAreFinite ==
  ASSUME NEW g \in Graphs, NEW f \in [DOMAIN g -> Seq(Instr)]
  PROVE  AllocaIds(f) \subseteq Ids(f) /\ IsFiniteSet(AllocaIds(f))
<1>1. g \in Seq(Seq(Nat)) /\ Len(g) > 0
  BY MemIRAssumption
<1>2. Entry \in DOMAIN f
  BY <1>1 DEF Entry
<1>3. ASSUME NEW id \in AllocaIds(f) PROVE id \in Ids(f)
  BY <1>2, AllocaIdsAre, IdsAre
<1>4. IsFiniteSet(Ids(f))
  BY <1>1, IdsAreFinite
<1>. QED
  BY <1>3, <1>4, FS_Subset

-----------------------------------------------------------------------------
(* The walk through the instructions of one block.                          *)

Accs(V, G) == [vals : [V -> Operand], by : UNION {[D -> Operand] : D \in SUBSET Nat}, gone : SUBSET G]

LEMMA AccIs ==
  ASSUME NEW V, NEW G, NEW acc
  PROVE  acc \in Accs(V, G) <=>
           \E vals \in [V -> Operand], gone \in SUBSET G, D \in SUBSET Nat : \E by \in [D -> Operand] :
             acc = [vals |-> vals, by |-> by, gone |-> gone]
BY DEF Accs

LEMMA MoreIs ==
  ASSUME NEW D \in SUBSET Nat, NEW by \in [D -> Operand], NEW id \in Nat, NEW v \in Operand
  PROVE  With(by, id, v) \in [D \cup {id} -> Operand]
BY DEF With

LEMMA RenamingIs ==
  ASSUME NEW V, \A a \in DOMAIN lookup : lookup[a] \in V, NEW G, NEW acc \in Accs(V, G),
         NEW i \in Instr, i.op \in {"load", "store"} => i.id \in G
  PROVE  Renaming(acc, i) \in Accs(V, G)
<1>1. PICK vals \in [V -> Operand], gone \in SUBSET G, D \in SUBSET Nat : \E by \in [D -> Operand] :
             acc = [vals |-> vals, by |-> by, gone |-> gone]
  BY AccIs
<1>2. PICK by \in [D -> Operand] : acc = [vals |-> vals, by |-> by, gone |-> gone]
  BY <1>1
<1>. DEFINE ptr == Replaced(i.ptr, acc.by)
            var == lookup[ptr.n]
<1>3. i.id \in Nat /\ Replaced(i.val, by) \in Operand
  BY InstrIs, ReplacedIs
<1>4. CASE i.op \notin {"load", "store"} \/ ptr.k # "inst" \/ ptr.n \notin DOMAIN lookup
  BY <1>4 DEF Renaming
<1>5. CASE i.op = "load" /\ ptr.k = "inst" /\ ptr.n \in DOMAIN lookup
  <2>. DEFINE b == With(by, i.id, vals[var])
  <2>1. var \in V /\ vals[var] \in Operand
    BY <1>5
  <2>2. b \in [D \cup {i.id} -> Operand] /\ D \cup {i.id} \in SUBSET Nat
    <3>. HIDE DEF var
    <3>. QED
      BY <2>1, <1>3, MoreIs
  <2>3. Renaming(acc, i) = [acc EXCEPT !.by = b, !.gone = gone \cup {i.id}]
    BY <1>2, <1>5 DEF Renaming
  <2>. HIDE DEF b
  <2>4. Renaming(acc, i) = [vals |-> vals, by |-> b, gone |-> gone \cup {i.id}]
    BY <1>2, <2>3
  <2>5. gone \cup {i.id} \in SUBSET G
    BY <1>5
  <2>. QED
    BY <2>2, <2>4, <2>5, AccIs
<1>6. CASE i.op = "store" /\ ptr.k = "inst" /\ ptr.n \in DOMAIN lookup
  <2>. DEFINE w == [vals EXCEPT ![var] = Replaced(i.val, by)]
  <2>1. w \in [V -> Operand]
    <3>. HIDE DEF var
    <3>. QED
      BY <1>3
  <2>2. Renaming(acc, i) = [acc EXCEPT !.vals[var] = Replaced(i.val, by), !.gone = gone \cup {i.id}]
    BY <1>2, <1>6 DEF Renaming
  <2>3. Renaming(acc, i) = [vals |-> w, by |-> by, gone |-> gone \cup {i.id}]
    <3>. HIDE DEF var
    <3>. QED
      BY <1>2, <2>2
  <2>. HIDE DEF w
  <2>4. gone \cup {i.id} \in SUBSET G
    BY <1>6
  <2>. QED
    BY <2>1, <2>3, <2>4, AccIs
<1>. QED
  BY <1>4, <1>5, <1>6

\* after is what the walk through the first n instructions of code comes to.
Walks(after, n, code, vals) ==
  after = [p \in 0 .. n |-> IF p = 0 THEN [vals |-> vals, by |-> Empty, gone |-> {}]
                           ELSE Renaming(after[p - 1], code[p])]

LEMMA WalksExist ==
  ASSUME NEW n \in Nat, NEW code, NEW vals
  PROVE  \E after : Walks(after, n, code, vals)
<1>. DEFINE T == {m \in Nat : ~\E after : Walks(after, m, code, vals)}
<1>. SUFFICES ASSUME T # {} PROVE FALSE
  OBVIOUS
<1>1. T \subseteq Nat
  OBVIOUS
<1>. HIDE DEF T
<1>2. PICK m \in T : \A j \in T : ~(<<j, m>> \in OpToRel(<, Nat))
  BY <1>1, WFMin, NatLessThanWellFounded, Zenon
<1>3. m \in Nat /\ ~(\E after : Walks(after, m, code, vals)) /\ \A j \in T : ~(j < m)
  BY <1>1, <1>2 DEF OpToRel, T
<1>4. CASE m = 0
  <2>. DEFINE after == [p \in 0 .. 0 |-> [vals |-> vals, by |-> Empty, gone |-> {}]]
  <2>1. \A p \in 0 .. 0 : p = 0
    OBVIOUS
  <2>2. Walks(after, 0, code, vals)
    BY <2>1 DEF Walks
  <2>. HIDE DEF after
  <2>. QED
    BY <1>3, <1>4, <2>2
<1>5. CASE m # 0
  <2>1. m - 1 \in Nat /\ m - 1 < m
    BY <1>3, <1>5
  <2>2. PICK before : Walks(before, m - 1, code, vals)
    BY <1>3, <2>1 DEF T
  <2>. DEFINE start == [vals |-> vals, by |-> Empty, gone |-> {}]
              after == [p \in 0 .. m |-> IF p = m THEN Renaming(before[m - 1], code[m]) ELSE before[p]]
  <2>3. \A p \in 0 .. m - 1 : before[p] = IF p = 0 THEN start ELSE Renaming(before[p - 1], code[p])
    BY <2>2, Zenon DEF Walks
  <2>4. \A p \in 0 .. m : p # m => p \in 0 .. m - 1
    BY <1>3
  <2>5. \A p \in 0 .. m : p # 0 => p - 1 \in 0 .. m /\ p - 1 # m
    BY <1>3
  <2>. HIDE DEF start
  <2>6. ASSUME NEW p \in 0 .. m PROVE after[p] = IF p = 0 THEN start ELSE Renaming(after[p - 1], code[p])
    <3>1. CASE p = m
      <4>1. after[p] = Renaming(before[m - 1], code[m])
        BY <3>1
      <4>2. m - 1 \in 0 .. m /\ m - 1 # m
        BY <1>5, <2>5, <3>1
      <4>3. after[m - 1] = before[m - 1]
        BY <4>2
      <4>. HIDE DEF after
      <4>. QED
        BY <1>5, <3>1, <4>1, <4>3
    <3>2. CASE p # m
      <4>1. p \in 0 .. m - 1 /\ (p # 0 => p - 1 \in 0 .. m /\ p - 1 # m)
        BY <2>4, <2>5, <3>2
      <4>2. after[p] = before[p]
        BY <3>2
      <4>3. p # 0 => after[p - 1] = before[p - 1]
        BY <4>1
      <4>4. before[p] = IF p = 0 THEN start ELSE Renaming(before[p - 1], code[p])
        BY <2>3, <4>1
      <4>. HIDE DEF after
      <4>. QED
        BY <4>2, <4>3, <4>4
    <3>. QED
      BY <3>1, <3>2
  <2>7. after = [p \in 0 .. m |-> IF p = 0 THEN start ELSE Renaming(after[p - 1], code[p])]
    <3>. DEFINE next == [p \in 0 .. m |-> IF p = 0 THEN start ELSE Renaming(after[p - 1], code[p])]
    <3>1. \A p \in 0 .. m : after[p] = next[p]
      <4>. HIDE DEF after
      <4>. QED
        BY <2>6
    <3>2. after = [p \in 0 .. m |-> after[p]] /\ next = [p \in 0 .. m |-> next[p]]
      OBVIOUS
    <3>. HIDE DEF after, next
    <3>3. after = next
      BY <3>1, <3>2
    <3>. QED
      BY <3>3 DEF next
  <2>8. Walks(after, m, code, vals)
    <3>. HIDE DEF after
    <3>. QED
      BY <2>7 DEF Walks, start
  <2>. HIDE DEF after
  <2>. QED
    BY <1>3, <2>8
<1>. QED
  BY <1>4, <1>5

\* The numbers of the loads and stores of a block.
Accesses(code) == {code[p].id : p \in {q \in DOMAIN code : code[q].op \in {"load", "store"}}}

LEMMA WalksAre ==
  ASSUME NEW V, \A a \in DOMAIN lookup : lookup[a] \in V,
         NEW code \in Seq(Instr), NEW vals \in [V -> Operand],
         NEW after, Walks(after, Len(code), code, vals),
         NEW G, G = Accesses(code)
  PROVE  after[Len(code)] \in Accs(V, G)
<1>. DEFINE n == Len(code)
            T == {p \in 0 .. n : after[p] \notin Accs(V, G)}
<1>1. n \in Nat
  OBVIOUS
<1>. HIDE DEF n
<1>2. after[0] \in Accs(V, G)
  <2>1. 0 \in 0 .. n
    BY <1>1
  <2>2. after[0] = [vals |-> vals, by |-> Empty, gone |-> {}]
    BY <2>1 DEF Walks, n
  <2>3. Empty \in [{} -> Operand]
    BY DEF Empty
  <2>. DEFINE S == UNION {[D -> Operand] : D \in SUBSET Nat}
              by == Empty
  <2>4. by \in S /\ {} \in SUBSET G
    BY <2>3
  <2>. HIDE DEF S, by
  <2>5. after[0] \in [vals : [V -> Operand], by : S, gone : SUBSET G]
    BY <2>2, <2>4 DEF by
  <2>. QED
    BY <2>5 DEF Accs, S
<1>3. ASSUME NEW p \in 1 .. n, after[p - 1] \in Accs(V, G) PROVE after[p] \in Accs(V, G)
  <2>1. p \in 0 .. n /\ p # 0
    BY <1>1
  <2>2. after[p] = Renaming(after[p - 1], code[p])
    BY <2>1, Zenon DEF Walks, n
  <2>3. code[p] \in Instr /\ p \in DOMAIN code
    BY DEF n
  <2>. DEFINE i == code[p]
              acc == after[p - 1]
  <2>4. i.op \in {"load", "store"} => i.id \in G
    BY <2>3 DEF Accesses
  <2>5. i \in Instr /\ acc \in Accs(V, G) /\ after[p] = Renaming(acc, i)
    BY <1>3, <2>2, <2>3
  <2>. HIDE DEF i, acc
  <2>6. Renaming(acc, i) \in Accs(V, G)
    BY <2>4, <2>5, RenamingIs
  <2>. QED
    BY <2>5, <2>6
<1>4. T = {}
  <2>. SUFFICES ASSUME T # {} PROVE FALSE
    OBVIOUS
  <2>1. T \subseteq Nat
    BY <1>1
  <2>. HIDE DEF T
  <2>2. PICK p \in T : \A j \in T : ~(<<j, p>> \in OpToRel(<, Nat))
    BY <2>1, WFMin, NatLessThanWellFounded, Zenon
  <2>3. p \in 0 .. n /\ after[p] \notin Accs(V, G) /\ \A j \in T : ~(j < p)
    BY <2>1, <2>2 DEF OpToRel, T
  <2>4. p # 0
    BY <1>2, <2>3
  <2>5. p \in 1 .. n /\ p - 1 \in 0 .. n /\ p - 1 < p
    BY <1>1, <2>3, <2>4
  <2>6. p - 1 \notin T
    BY <2>3, <2>5
  <2>7. after[p - 1] \in Accs(V, G)
    BY <2>5, <2>6 DEF T
  <2>. QED
    BY <1>3, <2>3, <2>5, <2>7
<1>5. n \in 0 .. n
  BY <1>1
<1>. QED
  BY <1>4, <1>5 DEF n

LEMMA RenamedIs ==
  ASSUME NEW V, \A a \in DOMAIN lookup : lookup[a] \in V,
         NEW code \in Seq(Instr), NEW vals \in [V -> Operand]
  PROVE  /\ Renamed(code, vals).vals \in [V -> Operand]
         /\ \E D \in SUBSET Nat : Renamed(code, vals).by \in [D -> Operand]
         /\ Renamed(code, vals).gone \subseteq Accesses(code)
<1>. DEFINE after == CHOOSE after : Walks(after, Len(code), code, vals)
<1>1. Renamed(code, vals) = after[Len(code)]
  BY Zenon DEF Renamed, Walks
<1>2. Walks(after, Len(code), code, vals)
  <2>1. Len(code) \in Nat
    OBVIOUS
  <2>. QED
    BY <2>1, WalksExist, Zenon
<1>. HIDE DEF after
<1>3. after[Len(code)] \in Accs(V, Accesses(code))
  BY <1>2, WalksAre
<1>. QED
  BY <1>1, <1>3 DEF Accs

-----------------------------------------------------------------------------
(* The phis of a block.                                                     *)

LEMMA EdgesAre ==
  ASSUME NEW g \in Graphs, NEW p, NEW b
  PROVE  Edges(g, p, b) \in Nat
<1>1. CASE p \in DOMAIN g
  <2>1. g \in Seq(Seq(Nat))
    BY MemIRAssumption
  <2>2. g[p] \in Seq(Nat)
    BY <1>1, <2>1
  <2>. DEFINE P == {k \in DOMAIN g[p] : g[p][k] = b}
              s == g[p]
  <2>3. s \in Seq(Nat) /\ P \subseteq DOMAIN s
    BY <2>2
  <2>4. Edges(g, p, b) = Cardinality(P)
    BY <1>1 DEF Edges
  <2>. HIDE DEF P, s
  <2>5. Cardinality(P) \in Nat
    BY <2>3, PlacesAreFinite, Zenon
  <2>. QED
    BY <2>4, <2>5
<1>2. CASE p \notin DOMAIN g
  BY <1>2 DEF Edges
<1>. QED
  BY <1>1, <1>2

LEMMA LongerPhiIs ==
  ASSUME NEW i \in Instr, NEW more \in Seq(PhiEntry)
  PROVE  LET j == [i EXCEPT !.inc = @ \o more]
         IN j \in Instr /\ j.id = i.id /\ j.op = i.op
<1>. DEFINE inc == i.inc \o more
<1>1. inc \in Seq(PhiEntry)
  BY InstrIs
<1>. HIDE DEF inc
<1>2. [i EXCEPT !.inc = inc] = [id |-> i.id, op |-> i.op, ptr |-> i.ptr, val |-> i.val, inc |-> inc]
  BY DEF Instr
<1>3. LET j == [i EXCEPT !.inc = inc] IN j \in Instr /\ j.id = i.id /\ j.op = i.op
  BY <1>1, <1>2, InstrIs DEF Instr
<1>. QED
  BY <1>3 DEF inc

\* What PHIBlocks and the lists of the renaming have to do with Allocas.
PhisHaveAllocas(V) == 1 \in V /\ \A k \in DOMAIN newPhis : k[2] \in V

LEMMA AllocaOfIs ==
  ASSUME NEW V, PhisHaveAllocas(V), NEW phi
  PROVE  AllocaOf(phi) \in V
<1>. DEFINE keys == {k \in DOMAIN newPhis : newPhis[k] = phi}
            one == CHOOSE k \in keys : TRUE
<1>1. CASE keys = {}
  BY <1>1 DEF AllocaOf, PhisHaveAllocas
<1>2. CASE keys # {}
  <2>1. one \in keys
    BY <1>2
  <2>2. AllocaOf(phi) = one[2]
    BY <1>2 DEF AllocaOf
  <2>. QED
    BY <2>1, <2>2 DEF PhisHaveAllocas
<1>. QED
  BY <1>1, <1>2

LEMMA EnterBlockIs ==
  ASSUME NEW V, PhisHaveAllocas(V), graph \in Graphs, func \in [DOMAIN graph -> Seq(Instr)],
         NEW rpd, rpd.bb \in DOMAIN graph, rpd.pred \in Nat, rpd.vals \in [V -> Operand]
  PROVE  /\ SameInstrs(EnterBlock(rpd).code, func[rpd.bb])
         /\ EnterBlock(rpd).vals \in [V -> Operand]
<1>. DEFINE code == func[rpd.bb]
            phis == IF code # <<>> /\ code[1].id \in Range(newPhis) THEN LeadingPhis(code) ELSE {}
            before(p, var) == {q \in phis : q < p /\ AllocaOf(code[q].id) = var}
            value(p, var) == IF before(p, var) = {} THEN rpd.vals[var] ELSE Inst(code[Max(before(p, var))].id)
            entries(p) == [k \in 1 .. EntriesPerEdge(rpd.pred, rpd.bb) |->
                             [val |-> value(p, AllocaOf(code[p].id)), pred |-> rpd.pred]]
            c == [p \in DOMAIN code |->
                    IF p \in phis THEN [code[p] EXCEPT !.inc = @ \o entries(p)] ELSE code[p]]
            v == [var \in DOMAIN rpd.vals |-> value(Len(code) + 1, var)]
<1>1. EnterBlock(rpd).code = c /\ EnterBlock(rpd).vals = v
  BY DEF EnterBlock
<1>2. code \in Seq(Instr)
  OBVIOUS
<1>3. phis \subseteq DOMAIN code
  BY DEF LeadingPhis
<1>. HIDE DEF code, phis
<1>4. Len(code) \in Nat /\ DOMAIN code = 1 .. Len(code) /\ \A q \in DOMAIN code : code[q] \in Instr
  BY <1>2
<1>5. ASSUME NEW p, NEW var \in V PROVE value(p, var) \in Operand
  <2>. DEFINE S == before(p, var)
  <2>1. CASE S = {}
    BY <2>1
  <2>2. CASE S # {}
    <3>1. S \subseteq DOMAIN code /\ S \subseteq Nat /\ \A n \in S : n <= Len(code)
      BY <1>3, <1>4
    <3>. HIDE DEF S
    <3>2. Max(S) \in S
      BY <1>4, <2>2, <3>1, MaxIs
    <3>3. code[Max(S)].id \in Nat
      BY <1>4, <3>1, <3>2, InstrIs
    <3>4. Inst(code[Max(S)].id) \in Operand
      BY <3>3, OperandsMade, Zenon
    <3>5. value(p, var) = Inst(code[Max(S)].id)
      BY <2>2 DEF S
    <3>. QED
      BY <3>4, <3>5
  <2>. QED
    BY <2>1, <2>2
<1>. HIDE DEF value
<1>6. ASSUME NEW p \in DOMAIN code PROVE entries(p) \in Seq(PhiEntry)
  <2>. DEFINE n == EntriesPerEdge(rpd.pred, rpd.bb)
              x == value(p, AllocaOf(code[p].id))
  <2>1. n \in Nat
    BY EdgesAre DEF EntriesPerEdge
  <2>2. x \in Operand
    BY <1>5, AllocaOfIs
  <2>. HIDE DEF n, x
  <2>3. [val |-> x, pred |-> rpd.pred] \in PhiEntry
    BY <2>2 DEF PhiEntry
  <2>. DEFINE e == [val |-> x, pred |-> rpd.pred]
  <2>. HIDE DEF e
  <2>4. [k \in 1 .. n |-> e] \in [1 .. n -> PhiEntry]
    BY <2>3 DEF e
  <2>5. [k \in 1 .. n |-> e] \in Seq(PhiEntry)
    BY <2>1, <2>4, SeqDef
  <2>. QED
    BY <2>5 DEF e, n, x
<1>. HIDE DEF entries
<1>7. ASSUME NEW p \in DOMAIN code
      PROVE  c[p] \in Instr /\ c[p].id = code[p].id /\ c[p].op = code[p].op
  BY <1>4, <1>6, <1>7, LongerPhiIs
<1>8. DOMAIN c = 1 .. Len(code)
  BY <1>4
<1>. HIDE DEF c
<1>9. c \in Seq(Instr)
  <2>1. c \in [1 .. Len(code) -> Instr]
    <3>1. c = [p \in 1 .. Len(code) |-> c[p]]
      BY <1>8 DEF c
    <3>. QED
      BY <1>4, <1>7, <3>1
  <2>. QED
    BY <1>4, <2>1, SeqDef
<1>10. v \in [V -> Operand]
  BY <1>5
<1>. QED
  BY <1>1, <1>4, <1>7, <1>8, <1>9, <1>10 DEF SameInstrs, code

\* What finitely many finite sets have is finite, and can be listed.
LEMMA RangeIsFinite ==
  ASSUME NEW F, IsFiniteSet(DOMAIN F)
  PROVE  IsFiniteSet(Range(F))
<1>. DEFINE G == [x \in DOMAIN F |-> F[x]]
<1>1. G \in Surjection(DOMAIN F, Range(F))
  BY DEF Surjection, Range
<1>. QED
  BY <1>1, FS_Surjection

LEMMA GatheredIsFinite ==
  ASSUME NEW S, IsFiniteSet(S), NEW F, DOMAIN F = S, \A x \in S : IsFiniteSet(F[x])
  PROVE  IsFiniteSet(UNION Range(F))
<1>1. IsFiniteSet(Range(F)) /\ \A T \in Range(F) : IsFiniteSet(T)
  BY RangeIsFinite DEF Range
<1>. QED
  BY <1>1, FS_UNION

LEMMA ListedIs ==
  ASSUME NEW T, IsFiniteSet(T)
  PROVE  /\ Cardinality(T) \in Nat
         /\ SetToSeq(T) \in Bijection(1 .. Cardinality(T), T)
<1>1. Cardinality(T) \in Nat /\ ExistsBijection(1 .. Cardinality(T), T)
  BY FS_CardinalityType
<1>2. PICK f : f \in Bijection(1 .. Cardinality(T), T)
  BY <1>1 DEF ExistsBijection
<1>3. f \in [1 .. Cardinality(T) -> T] /\ IsInjective(f)
  BY <1>2, Fun_BijectionProperties DEF Bijection, Injection
<1>4. SetToSeq(T) \in [1 .. Cardinality(T) -> T] /\ IsInjective(SetToSeq(T))
  BY <1>3 DEF SetToSeq
<1>5. SetToSeq(T) \in Injection(1 .. Cardinality(T), T)
  BY <1>4 DEF Injection
<1>6. Cardinality(1 .. Cardinality(T)) = Cardinality(T)
  BY <1>1, FS_Interval
<1>7. SetToSeq(T) \in Surjection(1 .. Cardinality(T), T)
  BY <1>5, <1>6, FS_Injection
<1>. QED
  BY <1>1, <1>5, <1>7 DEF Bijection

\* The entries that the phi of block b lacks, those from one predecessor numbered.
Lacking(b, inc, p) == Edges(graph, p, b) - Cardinality({k \in DOMAIN inc : inc[k].pred = p})
Missing(b, inc) == UNION {{p} \X (1 .. Lacking(b, inc, p)) : p \in DOMAIN graph}

LEMMA LackingIs ==
  ASSUME graph \in Graphs, NEW b, NEW inc \in Seq(PhiEntry), NEW p
  PROVE  Lacking(b, inc, p) \in Int
<1>. DEFINE P == {k \in DOMAIN inc : inc[k].pred = p}
<1>1. P \subseteq DOMAIN inc
  OBVIOUS
<1>. HIDE DEF P
<1>2. Cardinality(P) \in Nat
  BY <1>1, PlacesAreFinite
<1>3. Edges(graph, p, b) \in Nat
  BY EdgesAre
<1>. QED
  BY <1>2, <1>3 DEF P, Lacking

LEMMA MissingIsFinite ==
  ASSUME graph \in Graphs, NEW b, NEW inc \in Seq(PhiEntry)
  PROVE  /\ IsFiniteSet(Missing(b, inc))
         /\ \A m : m \in Missing(b, inc) <=>
              \E p \in DOMAIN graph : \E n \in 1 .. Lacking(b, inc, p) : m = <<p, n>>
<1>. DEFINE F == [p \in DOMAIN graph |-> {p} \X (1 .. Lacking(b, inc, p))]
<1>1. IsFiniteSet(DOMAIN graph)
  BY GraphIs, FS_Interval
<1>2. ASSUME NEW p \in DOMAIN graph PROVE IsFiniteSet(F[p])
  <2>1. Lacking(b, inc, p) \in Int
    BY LackingIs
  <2>2. IsFiniteSet(1 .. Lacking(b, inc, p))
    BY <2>1, FS_Interval
  <2>3. IsFiniteSet({p})
    BY FS_Singleton
  <2>. QED
    BY <2>2, <2>3, FS_Product
<1>3. Missing(b, inc) = UNION Range(F)
  BY DEF Missing, Range
<1>4. IsFiniteSet(UNION Range(F))
  BY <1>1, <1>2, GatheredIsFinite
<1>5. ASSUME NEW m
      PROVE  m \in Missing(b, inc) <=> \E p \in DOMAIN graph : \E n \in 1 .. Lacking(b, inc, p) : m = <<p, n>>
  BY DEF Missing
<1>. QED
  BY <1>3, <1>4, <1>5

\* One entry for each that is missing.
Lists(more, T) ==
  \E list \in Bijection(DOMAIN more, T) : \A k \in DOMAIN more : more[k] = list[k][1]

LEMMA MissingPredsAre ==
  ASSUME graph \in Graphs, NEW b, NEW inc \in Seq(PhiEntry)
  PROVE  MissingPreds(b, inc) \in Seq(Nat) /\ Lists(MissingPreds(b, inc), Missing(b, inc))
<1>. DEFINE T == Missing(b, inc)
            list == SetToSeq(T)
            more == [k \in 1 .. Cardinality(T) |-> list[k][1]]
<1>1. MissingPreds(b, inc) = more
  BY DEF MissingPreds, Missing, Lacking
<1>2. IsFiniteSet(T)
  BY MissingIsFinite
<1>3. Cardinality(T) \in Nat /\ list \in Bijection(1 .. Cardinality(T), T)
  BY <1>2, ListedIs
<1>4. \A m \in T : m[1] \in Nat
  BY MissingIsFinite, GraphIs
<1>5. list \in [1 .. Cardinality(T) -> T]
  BY <1>3 DEF Bijection, Injection
<1>. HIDE DEF T, list
<1>6. more \in [1 .. Cardinality(T) -> Nat]
  BY <1>4, <1>5
<1>7. more \in Seq(Nat)
  BY <1>3, <1>6, SeqDef
<1>8. Lists(more, T)
  BY <1>3 DEF Lists
<1>. QED
  BY <1>1, <1>7, <1>8 DEF T

LEMMA CompletedIs ==
  ASSUME graph \in Graphs, func \in [DOMAIN graph -> Seq(Instr)], NEW b \in DOMAIN graph, func[b] # <<>>
  PROVE  SameInstrs(Completed(b), func[b])
<1>. DEFINE code == func[b]
            more == MissingPreds(b, code[1].inc)
            dummies == [k \in DOMAIN more |-> [val |-> Poison, pred |-> more[k]]]
            c == [p \in DOMAIN code |->
                    IF p \in LeadingPhis(code) THEN [code[p] EXCEPT !.inc = @ \o dummies] ELSE code[p]]
<1>1. Completed(b) = c
  BY DEF Completed
<1>2. code \in Seq(Instr) /\ code # <<>>
  OBVIOUS
<1>. HIDE DEF code
<1>3. Len(code) \in Nat /\ DOMAIN code = 1 .. Len(code) /\ \A q \in DOMAIN code : code[q] \in Instr
  BY <1>2
<1>4. code[1] \in Instr
  BY <1>2
<1>5. more \in Seq(Nat)
  BY <1>4, InstrIs, MissingPredsAre
<1>. HIDE DEF more
<1>6. dummies \in Seq(PhiEntry)
  <2>1. Len(more) \in Nat /\ DOMAIN more = 1 .. Len(more) /\ \A k \in DOMAIN more : more[k] \in Nat
    BY <1>5
  <2>2. \A k \in DOMAIN more : [val |-> Poison, pred |-> more[k]] \in PhiEntry
    BY <2>1, OperandsMade DEF PhiEntry
  <2>3. dummies \in [1 .. Len(more) -> PhiEntry]
    BY <2>1, <2>2
  <2>. HIDE DEF dummies
  <2>. QED
    BY <2>1, <2>3, SeqDef
<1>. HIDE DEF dummies
<1>7. ASSUME NEW p \in DOMAIN code
      PROVE  c[p] \in Instr /\ c[p].id = code[p].id /\ c[p].op = code[p].op
  BY <1>3, <1>6, <1>7, LongerPhiIs
<1>8. DOMAIN c = 1 .. Len(code) /\ c = [p \in 1 .. Len(code) |-> c[p]]
  BY <1>3
<1>. HIDE DEF c
<1>9. c \in [1 .. Len(code) -> Instr]
  BY <1>3, <1>7, <1>8
<1>10. c \in Seq(Instr)
  BY <1>3, <1>9, SeqDef
<1>. QED
  BY <1>1, <1>3, <1>7, <1>8, <1>10 DEF SameInstrs, code

-----------------------------------------------------------------------------
(* The inductive invariant.  An index in Allocas that lookup or newPhis holds *)
(* is below the one the loop is at.  The allocas of the loop are in the       *)
(* function, each once, and nothing but loads and stores uses them, which     *)
(* rewriting a load to what a store put there leaves so; what is erased with  *)
(* an alloca is no other and no phi.  A phi of newPhis is in the function and *)
(* has one key; no alloca stays in the function that was promoted.            *)

Looping == {"analyze", "singleStore", "singleBlock"}
PhisKept ==
  /\ IsFiniteSet(DOMAIN newPhis)
  /\ \A k \in DOMAIN newPhis : k[2] # 0 /\ Has(func, newPhis[k], "phi")
  /\ \A k, l \in DOMAIN newPhis : newPhis[k] = newPhis[l] => k = l
AllocasKept ==
  /\ stage \in Looping \cup {"rename"} =>
       /\ \A i, j \in DOMAIN allocas : allocas[i] = allocas[j] => i = j
       /\ \A i \in DOMAIN allocas : Has(func, allocas[i], "alloca")
  /\ stage \in Looping => \A i \in DOMAIN allocas : Accessed(func, allocas[i])
UsersKept ==
  /\ \A u \in todo : Has(func, u, "load")
  /\ stage = "singleStore" => info.stores # {} /\ \A u \in info.stores : Has(func, u, "store")
AllNumbered == stage = "rename" => allocas # <<>> /\ num = Len(allocas) + 1
NoneLeft == stage \in {"simplify", "collect", "done"} => AllocaIds(func) \cap Range(allocas) = {}
IInv ==
  /\ TypeOK /\ LookupAgrees /\ Unique(func)
  /\ PhisKept /\ AllocasKept /\ UsersKept /\ AllNumbered /\ NoneLeft

LEMMA InitHolds == Init => IInv
<1>. SUFFICES ASSUME Init PROVE IInv
  OBVIOUS
<1>1. /\ graph \in Graphs /\ func \in [DOMAIN graph -> Seq(Instr)] /\ stage = "collect"
      /\ allocas = <<>> /\ num = 1 /\ todo = {} /\ worklist = <<>> /\ visited = {}
      /\ lookup = Empty /\ newPhis = Empty /\ info = NoInfo /\ Unique(func)
  BY CodeAssumption DEF Init
<1>2. info \in AllocaInfos
  BY <1>1 DEF NoInfo, AllocaInfos
<1>3. DOMAIN lookup = {} /\ DOMAIN newPhis = {} /\ Range(newPhis) = {}
  BY <1>1 DEF Empty, Range
<1>4. Range(allocas) = {}
  BY <1>1 DEF Range
<1>5. TypeOK
  BY <1>1, <1>2, <1>3 DEF TypeOK
<1>6. LookupAgrees
  BY <1>1 DEF LookupAgrees
<1>. QED
  BY <1>1, <1>3, <1>4, <1>5, <1>6, FS_EmptySet
  DEF IInv, PhisKept, AllocasKept, UsersKept, AllNumbered, NoneLeft, Looping

LEMMA AllocasAre ==
  ASSUME TypeOK
  PROVE  /\ allocas \in Seq(Nat) /\ Len(allocas) \in Nat /\ DOMAIN allocas = 1 .. Len(allocas)
         /\ num \in Nat \ {0} /\ num <= Len(allocas) + 1
         /\ num \in DOMAIN allocas => AI \in Nat
<1>1. allocas \in Seq(Nat) /\ num \in 1 .. Len(allocas) + 1
  BY DEF TypeOK
<1>2. Len(allocas) \in Nat /\ DOMAIN allocas = 1 .. Len(allocas)
  BY <1>1
<1>. QED
  BY <1>1, <1>2 DEF AI

\* Either way of selecting an alloca selects one that only loads and stores use.
LEMMA PromotableIs ==
  ASSUME NEW D, NEW f \in [D -> Seq(Instr)], Unique(f), NEW a, Promotable(f, a)
  PROVE  Accessed(f, a)
<1>1. ASSUME NEW b \in D, NEW p \in DOMAIN f[b], Inst(a) \in Operands(f[b][p])
      PROVE  f[b][p].op \in {"load", "store"} /\ f[b][p].val # Inst(a)
  <2>. DEFINE u == f[b][p].id
  <2>1. u \in Ids(f) /\ InstrOf(f, u) = f[b][p]
    BY InstrAt
  <2>2. u \in Users(f, a)
    BY <1>1, <2>1 DEF Users
  <2>3. OnlyAccessed(f, a)
    BY <2>2 DEF Promotable, IsAllocaPromotable
  <2>. QED
    BY <2>1, <2>2, <2>3 DEF OnlyAccessed
<1>2. DOMAIN f = D
  OBVIOUS
<1>. QED
  BY <1>1, <1>2 DEF Accessed

LEMMA CollectedIs ==
  ASSUME TypeOK, Unique(func)
  PROVE  /\ Collected \in Seq(Nat)
         /\ Collected = <<>> => PromotablePlaces = {}
         /\ \A i, j \in DOMAIN Collected : Collected[i] = Collected[j] => i = j
         /\ \A i \in DOMAIN Collected : /\ Has(func, Collected[i], "alloca") /\ Accessed(func, Collected[i])
                                        /\ Collected[i] \in AllocaIds(func) /\ Promotable(func, Collected[i])
<1>. DEFINE s == func[Entry]
            P == PromotablePlaces
            c == Picked(s, P)
            n == Cardinality(P)
<1>1. Entry \in DOMAIN graph /\ func \in [DOMAIN graph -> Seq(Instr)]
  BY GraphIs DEF TypeOK
<1>2. s \in Seq(Instr) /\ P \subseteq DOMAIN s /\ \A p \in P : s[p].op = "alloca" /\ Promotable(func, s[p].id)
  BY <1>1 DEF PromotablePlaces
<1>3. Collected = [k \in 1 .. n |-> c[k].id]
  BY DEF Collected, IdsAt
<1>4. ASSUME NEW p \in P
      PROVE  /\ s[p].id \in AllocaIds(func) /\ Has(func, s[p].id, "alloca") /\ Accessed(func, s[p].id)
             /\ Promotable(func, s[p].id)
  <2>1. Accessed(func, s[p].id)
    BY <1>1, <1>2, PromotableIs
  <2>. QED
    BY <1>1, <1>2, <2>1, AllocaIdsAre DEF Has
<1>5. \A p, q \in P : s[p].id = s[q].id => p = q
  BY <1>1, <1>2 DEF Unique
<1>. HIDE DEF s, P
<1>6. IsFiniteSet(P) /\ n \in Nat /\ P \subseteq Nat
  BY <1>2, PlacesAreFinite
<1>7. DOMAIN c = 1 .. n /\ c \in Seq(Instr) /\ HasOnly(c, s, P)
  BY <1>2, PickedIs, Zenon
<1>8. n = 0 => P = {}
  BY <1>6, FS_EmptySet
<1>. HIDE DEF c, n
<1>9. \A k \in 1 .. n : c[k] \in Instr /\ c[k].id \in Nat
  BY <1>7, SeqIs, InstrIs, Zenon
<1>10. PICK from \in [1 .. n -> P] : /\ \A k \in 1 .. n : c[k] = s[from[k]]
                                     /\ \A k, l \in 1 .. n : k < l => from[k] < from[l]
  BY <1>7 DEF HasOnly
<1>11. Collected \in [1 .. n -> Nat] /\ DOMAIN Collected = 1 .. n
  BY <1>3, <1>9
<1>12. Collected \in Seq(Nat) /\ Len(Collected) = n
  BY <1>6, <1>11, SeqDef
<1>13. Collected = <<>> => P = {}
  BY <1>8, <1>12
<1>14. \A i \in 1 .. n : from[i] \in P /\ from[i] \in Nat /\ Collected[i] = s[from[i]].id
  BY <1>3, <1>6, <1>10
<1>15. ASSUME NEW i \in 1 .. n, NEW j \in 1 .. n, Collected[i] = Collected[j] PROVE i = j
  <2>1. from[i] = from[j]
    BY <1>5, <1>14, <1>15
  <2>2. ~(i < j) /\ ~(j < i) /\ i \in Nat /\ j \in Nat
    BY <1>10, <1>14, <2>1
  <2>. QED
    BY <2>2
<1>16. \A i \in 1 .. n : /\ Has(func, Collected[i], "alloca") /\ Accessed(func, Collected[i])
                         /\ Collected[i] \in AllocaIds(func) /\ Promotable(func, Collected[i])
  BY <1>4, <1>14
<1>. QED
  BY <1>11, <1>12, <1>13, <1>15, <1>16 DEF P

\* No step brings allocas into the entry block.
NoMoreAllocas == AllocaIds(func') \subseteq AllocaIds(func)

LEMMA CollectKeeps ==
  ASSUME IInv, Collect
  PROVE  IInv' /\ NoMoreAllocas
<1>1. TypeOK /\ Unique(func) /\ UsersKept
  BY DEF IInv
<1>2. allocas' = Collected /\ allocas' \in Seq(Nat) /\ num' = 1 /\ stage' = "analyze" /\ func' = func
  BY <1>1, CollectedIs DEF Collect
<1>3. DOMAIN lookup' = {} /\ DOMAIN newPhis' = {} /\ Range(newPhis') = {}
  BY DEF Collect, Empty, Range
<1>4. TypeOK'
  BY <1>1, <1>2, <1>3 DEF TypeOK, Collect, AllocaInfos
<1>5. LookupAgrees'
  BY <1>2, <1>3 DEF LookupAgrees
<1>6. AllocasKept'
  <2>. DEFINE w == Collected
  <2>1. /\ \A i, j \in DOMAIN w : w[i] = w[j] => i = j
        /\ \A i \in DOMAIN w : Has(func, w[i], "alloca") /\ Accessed(func, w[i])
    BY <1>1, CollectedIs
  <2>. HIDE DEF w
  <2>2. allocas' = w /\ func' = func
    BY <1>2 DEF w
  <2>. QED
    BY <2>1, <2>2 DEF AllocasKept
<1>7. PhisKept' /\ UsersKept' /\ AllNumbered' /\ NoneLeft'
  BY <1>1, <1>2, <1>3, FS_EmptySet DEF PhisKept, UsersKept, AllNumbered, NoneLeft, Collect
<1>. QED
  BY <1>1, <1>2, <1>4, <1>5, <1>6, <1>7 DEF IInv, NoMoreAllocas

LEMMA NothingToPromoteKeeps ==
  ASSUME IInv, NothingToPromote
  PROVE  IInv' /\ NoMoreAllocas
<1>1. stage = "collect" /\ stage' = "done"
      /\ UNCHANGED <<graph, given, func, allocas, num, info, todo, lookup, newPhis, worklist, visited>>
  BY DEF NothingToPromote
<1>2. TypeOK'
  BY <1>1 DEF IInv, TypeOK, AllocaInfos
<1>3. LookupAgrees'
  BY <1>1 DEF LookupAgrees
<1>4. PhisKept' /\ NoneLeft' /\ UsersKept'
  BY <1>1 DEF IInv, PhisKept, NoneLeft, UsersKept
<1>. QED
  BY <1>1, <1>2, <1>3, <1>4 DEF IInv, AllocasKept, AllNumbered, NoMoreAllocas, Looping

-----------------------------------------------------------------------------
(* The loop over the allocas.                                               *)

LEMMA WithoutCurrentIs ==
  ASSUME allocas \in Seq(Nat), num \in DOMAIN allocas
  PROVE  /\ WithoutCurrent \in Seq(Nat) /\ Len(WithoutCurrent) = Len(allocas) - 1
         /\ num \in 1 .. Len(WithoutCurrent) + 1
         /\ \A i \in 1 .. num - 1 : i \in DOMAIN WithoutCurrent /\ WithoutCurrent[i] = allocas[i]
         /\ Range(allocas) \subseteq Range(WithoutCurrent) \cup {AI}
         /\ (\A i, j \in DOMAIN allocas : allocas[i] = allocas[j] => i = j) =>
              /\ \A i \in DOMAIN WithoutCurrent : WithoutCurrent[i] \in Range(allocas) /\ WithoutCurrent[i] # AI
              /\ \A i, j \in DOMAIN WithoutCurrent : WithoutCurrent[i] = WithoutCurrent[j] => i = j
<1>. DEFINE n == Len(allocas)
            moved == [allocas EXCEPT ![num] = Last(allocas)]
            w == WithoutCurrent
<1>1. n \in Nat /\ DOMAIN allocas = 1 .. n /\ num \in 1 .. n /\ Last(allocas) = allocas[n] /\ AI = allocas[num]
  BY DEF Last, AI
<1>2. moved \in Seq(Nat) /\ Len(moved) = n
      /\ \A i \in 1 .. n : moved[i] = IF i = num THEN allocas[n] ELSE allocas[i]
  BY <1>1
<1>3. w = [i \in 1 .. n - 1 |-> moved[i]]
  BY <1>2 DEF WithoutCurrent, Front
<1>. HIDE DEF moved, w
<1>4. \A i \in 1 .. n - 1 : i \in 1 .. n /\ moved[i] \in Nat
  BY <1>1, <1>2
<1>5. w \in [1 .. n - 1 -> Nat] /\ n - 1 \in Nat
  BY <1>1, <1>3, <1>4
<1>6. w \in Seq(Nat) /\ Len(w) = n - 1 /\ DOMAIN w = 1 .. n - 1
  BY <1>5, SeqDef
<1>7. \A i \in 1 .. n - 1 : w[i] = IF i = num THEN allocas[n] ELSE allocas[i]
  BY <1>2, <1>3, <1>4
<1>8. \A i \in 1 .. num - 1 : i \in 1 .. n - 1 /\ i # num
  BY <1>1
<1>. HIDE DEF n
<1>9. ASSUME NEW i \in 1 .. n PROVE allocas[i] \in Range(w) \cup {AI}
  <2>1. CASE i = num
    BY <1>1, <2>1
  <2>2. CASE i # num /\ i # n
    <3>1. i \in 1 .. n - 1
      BY <1>1, <2>2
    <3>. QED
      BY <2>2, <3>1, <1>6, <1>7 DEF Range
  <2>3. CASE i # num /\ i = n
    <3>1. num \in 1 .. n - 1
      BY <1>1, <2>3
    <3>. QED
      BY <2>3, <3>1, <1>6, <1>7 DEF Range
  <2>. QED
    BY <2>1, <2>2, <2>3
<1>10. Range(allocas) \subseteq Range(w) \cup {AI}
  BY <1>1, <1>9 DEF Range
<1>11. num \in 1 .. (n - 1) + 1
  BY <1>1
<1>12. ASSUME \A i, j \in DOMAIN allocas : allocas[i] = allocas[j] => i = j
       PROVE  /\ \A i \in DOMAIN w : w[i] \in Range(allocas) /\ w[i] # AI
              /\ \A i, j \in DOMAIN w : w[i] = w[j] => i = j
  <2>. DEFINE of(i) == IF i = num THEN n ELSE i
  <2>1. \A i \in 1 .. n - 1 : w[i] = allocas[of(i)] /\ of(i) \in 1 .. n /\ of(i) # num
    BY <1>1, <1>7
  <2>2. \A i, j \in 1 .. n - 1 : of(i) = of(j) => i = j
    BY <1>1
  <2>. HIDE DEF of
  <2>3. \A i \in 1 .. n - 1 : w[i] \in Range(allocas) /\ w[i] # AI
    BY <1>1, <1>12, <2>1 DEF Range
  <2>4. \A i, j \in 1 .. n - 1 : w[i] = w[j] => i = j
    BY <1>1, <1>12, <2>1, <2>2
  <2>. QED
    BY <1>6, <2>3, <2>4
<1>. QED
  BY <1>6, <1>7, <1>8, <1>10, <1>11, <1>12 DEF w, n

\* Loads and stores, the instructions that use the allocas of the loop.
IsAccess(f, id) == Has(f, id, "load") \/ Has(f, id, "store")

LEMMA UsersAccess ==
  ASSUME NEW D, NEW f \in [D -> Seq(Instr)], NEW a, Accessed(f, a)
  PROVE  /\ \A u \in Users(f, a) : IsAccess(f, u) /\ InstrOf(f, u).val # Inst(a)
         /\ \A u \in Loads(f, a) : Has(f, u, "load")
         /\ \A u \in Stores(f, a) : Has(f, u, "store")
<1>1. ASSUME NEW u \in Users(f, a)
      PROVE  /\ Has(f, u, InstrOf(f, u).op) /\ InstrOf(f, u).op \in {"load", "store"}
             /\ InstrOf(f, u).val # Inst(a)
  <2>1. u \in Ids(f) /\ Inst(a) \in Operands(InstrOf(f, u))
    BY DEF Users
  <2>2. BlockOf(f, u) \in D /\ IndexOf(f, u) \in DOMAIN f[BlockOf(f, u)]
    BY <2>1, InstrOfIs
  <2>3. InstrOf(f, u) = f[BlockOf(f, u)][IndexOf(f, u)]
    BY DEF InstrOf
  <2>4. Has(f, u, InstrOf(f, u).op)
    BY <2>1, InstrOfHas
  <2>. DEFINE b == BlockOf(f, u)
              p == IndexOf(f, u)
              i == InstrOf(f, u)
  <2>. HIDE DEF b, p, i
  <2>5. b \in DOMAIN f /\ p \in DOMAIN f[b] /\ i = f[b][p] /\ Inst(a) \in Operands(i)
    BY <2>1, <2>2, <2>3 DEF b, p, i
  <2>6. i.op \in {"load", "store"} /\ i.val # Inst(a)
    BY <2>5 DEF Accessed
  <2>. QED
    BY <2>4, <2>6 DEF i
<1>2. \A u \in Users(f, a) : IsAccess(f, u)
  BY <1>1 DEF IsAccess
<1>. QED
  BY <1>1, <1>2 DEF Loads, Stores

\* A phi of NewPhiNodes is none of the loads, stores and allocas that are erased.
LEMMA PhisStay ==
  ASSUME TypeOK, Unique(func), PhisKept, newPhis' = newPhis,
         NEW ids, Trimmed(graph, func', func, ids),
         \A id \in ids : IsAccess(func, id) \/ Has(func, id, "alloca")
  PROVE  PhisKept'
<1>1. ASSUME NEW k \in DOMAIN newPhis PROVE Has(func', newPhis[k], "phi")
  <2>. DEFINE id == newPhis[k]
  <2>1. Has(func, id, "phi")
    BY DEF PhisKept
  <2>. HIDE DEF id
  <2>2. id \notin ids
    <3>1. "phi" # "load" /\ "phi" # "store" /\ "phi" # "alloca"
      OBVIOUS
    <3>. QED
      BY <2>1, <3>1, HasOneOp, Zenon DEF IsAccess
  <2>3. Has(func', id, "phi")
    BY <2>1, <2>2 DEF Trimmed
  <2>. QED
    BY <2>3 DEF id
<1>. QED
  BY <1>1 DEF PhisKept

\* The steps that finish an alloca without phis.
Removal(ids) ==
  /\ stage \in Looping /\ num \in DOMAIN allocas
  /\ func' = Erase(func, ids) /\ todo = {}
  /\ AI \in ids /\ \A id \in ids : id = AI \/ IsAccess(func, id)
  /\ RemoveFromAllocasList
  /\ UNCHANGED <<graph, info, todo, lookup, newPhis, worklist, visited>>

LEMMA RemovalKeeps ==
  ASSUME IInv, NEW ids, Removal(ids)
  PROVE  IInv' /\ NoMoreAllocas
<1>1. TypeOK /\ LookupAgrees /\ PhisKept /\ AllocasKept /\ Unique(func)
  BY DEF IInv
<1>. DEFINE same == /\ graph' = graph /\ info' = info /\ lookup' = lookup /\ newPhis' = newPhis
                    /\ worklist' = worklist /\ visited' = visited
<1>10. same /\ todo = {} /\ todo' = {} /\ func' = Erase(func, ids) /\ num \in DOMAIN allocas
      /\ stage \in {"analyze", "singleStore", "singleBlock"}
  BY DEF Removal, Looping
<1>2. allocas' = WithoutCurrent /\ num' = num /\ stage' = "analyze"
  BY DEF Removal, RemoveFromAllocasList, NextIndexAfterRemoval
<1>3. /\ allocas' \in Seq(Nat) /\ num' \in 1 .. Len(allocas') + 1
      /\ \A i \in 1 .. num - 1 : i \in DOMAIN allocas' /\ allocas'[i] = allocas[i]
  BY <1>1, <1>2, <1>10, WithoutCurrentIs DEF TypeOK
<1>4. Trimmed(graph, func', func, ids)
  BY <1>1, <1>10, EraseTrims DEF TypeOK
<1>5. worklist' = <<>> /\ worklist' \in Seq(RenamePassData') /\ todo' = {}
  <2>1. worklist = <<>>
    BY <1>1, <1>10 DEF TypeOK
  <2>2. \A S : <<>> \in Seq(S)
    OBVIOUS
  <2>3. <<>> \in Seq(RenamePassData')
    BY <2>2, Zenon
  <2>. QED
    BY <1>10, <2>1, <2>3
<1>6. info' \in AllocaInfos' /\ DOMAIN newPhis' \subseteq (DOMAIN graph') \X Nat /\ Range(newPhis') \subseteq Nat
      /\ graph' \in Graphs /\ DOMAIN lookup' \subseteq Nat /\ visited' \subseteq DOMAIN graph'
  BY <1>1, <1>10 DEF TypeOK, AllocaInfos
<1>7. TypeOK'
  <2>1. func' \in [DOMAIN graph' -> Seq(Instr)] /\ todo' \subseteq Ids(func')
    BY <1>4, <1>5, <1>10 DEF Trimmed
  <2>. QED
    BY <1>2, <1>3, <1>5, <1>6, <2>1 DEF TypeOK
<1>8. LookupAgrees'
  <2>1. /\ \A a \in DOMAIN lookup : lookup[a] < num /\ lookup[a] \in DOMAIN allocas /\ allocas[lookup[a]] = a
        /\ \A i \in 1 .. num - 1 : i \in DOMAIN allocas /\ allocas[i] \in DOMAIN lookup
        /\ \A k \in DOMAIN newPhis : k[2] < num
    BY <1>1, <1>10 DEF LookupAgrees
  <2>2. \A a \in DOMAIN lookup : lookup[a] \in 1 .. num - 1
    <3>1. DOMAIN allocas = 1 .. Len(allocas) /\ Len(allocas) \in Nat /\ num \in Nat
      BY <1>1, AllocasAre
    <3>. QED
      BY <2>1, <3>1
  <2>. QED
    BY <1>2, <1>3, <1>10, <2>1, <2>2 DEF LookupAgrees
<1>9. NoMoreAllocas
  BY <1>4 DEF Trimmed, NoMoreAllocas
<1>11. /\ \A i, j \in DOMAIN allocas : allocas[i] = allocas[j] => i = j
       /\ \A a \in Range(allocas) : Has(func, a, "alloca") /\ Accessed(func, a)
  BY <1>1, <1>10 DEF AllocasKept, Looping, Range
<1>12. AI \in Range(allocas)
  BY <1>10 DEF AI, Range
<1>13. PhisKept'
  <2>1. \A id \in ids : IsAccess(func, id) \/ Has(func, id, "alloca")
    BY <1>11, <1>12 DEF Removal
  <2>. QED
    BY <1>1, <1>4, <1>10, <2>1, PhisStay
<1>14. ASSUME NEW i \in DOMAIN allocas' PROVE Has(func', allocas'[i], "alloca") /\ Accessed(func', allocas'[i])
  <2>. DEFINE a == allocas'[i]
  <2>1. a \in Range(allocas) /\ a # AI
    BY <1>1, <1>2, <1>10, <1>11, WithoutCurrentIs DEF TypeOK
  <2>. HIDE DEF a
  <2>2. Has(func, a, "alloca") /\ Accessed(func, a)
    BY <1>11, <2>1
  <2>3. ~IsAccess(func, a)
    <3>1. "alloca" # "load" /\ "alloca" # "store"
      OBVIOUS
    <3>. QED
      BY <1>1, <2>2, <3>1, HasOneOp, Zenon DEF IsAccess
  <2>4. a \notin ids
    BY <2>1, <2>3 DEF Removal
  <2>5. Has(func', a, "alloca")
    BY <1>4, <2>2, <2>4 DEF Trimmed
  <2>6. Accessed(func', a)
    BY <1>1, <1>10, <2>2, EraseAccessed DEF TypeOK
  <2>. QED
    BY <2>5, <2>6 DEF a
<1>15. \A i, j \in DOMAIN allocas' : allocas'[i] = allocas'[j] => i = j
  BY <1>1, <1>2, <1>10, <1>11, WithoutCurrentIs DEF TypeOK
<1>16. AllocasKept'
  BY <1>14, <1>15 DEF AllocasKept
<1>17. Unique(func')
  BY <1>4 DEF Trimmed
<1>. QED
  BY <1>2, <1>5, <1>7, <1>8, <1>9, <1>13, <1>16, <1>17 DEF IInv, UsersKept, AllNumbered, NoneLeft

\* What is known of the alloca that the loop looks at.
LEMMA CurrentIs ==
  ASSUME IInv, stage \in Looping, num \in DOMAIN allocas
  PROVE  /\ AI \in Nat /\ AI \in Range(allocas) /\ Has(func, AI, "alloca") /\ Accessed(func, AI)
         /\ \A u \in Users(func, AI) : IsAccess(func, u) /\ InstrOf(func, u).val # Inst(AI)
         /\ \A u \in Loads(func, AI) : Has(func, u, "load")
<1>1. TypeOK /\ AllocasKept
  BY DEF IInv
<1>2. AI \in Nat /\ AI \in Range(allocas)
  BY <1>1, AllocasAre DEF AI, Range
<1>3. Has(func, AI, "alloca") /\ Accessed(func, AI)
  BY <1>1 DEF AllocasKept, AI
<1>. QED
  BY <1>1, <1>2, <1>3, UsersAccess DEF TypeOK

LEMMA RemoveUnusedIs ==
  ASSUME IInv, RemoveUnused
  PROVE  Removal({AI})
<1>1. todo = {} /\ stage \in Looping
  BY DEF IInv, TypeOK, RemoveUnused, Looping
<1>. QED
  BY <1>1 DEF Removal, RemoveUnused

LEMMA RemoveUnusedKeeps ==
  ASSUME IInv, RemoveUnused
  PROVE  IInv' /\ NoMoreAllocas
BY RemoveUnusedIs, RemovalKeeps

LEMMA OnlyStoreIs ==
  ASSUME IInv, stage = "singleStore"
  PROVE  /\ OnlyStore.id \in info.stores /\ Has(func, OnlyStore.id, "store")
         /\ \E b \in DOMAIN func : \E p \in DOMAIN func[b] : OnlyStore = func[b][p]
         /\ OnlyStore \in Instr
<1>. DEFINE s == CHOOSE s \in info.stores : TRUE
<1>1. s \in info.stores /\ Has(func, s, "store")
  BY DEF IInv, UsersKept
<1>2. func \in [DOMAIN graph -> Seq(Instr)]
  BY DEF IInv, TypeOK
<1>3. OnlyStore = InstrOf(func, s)
  BY DEF OnlyStore
<1>. HIDE DEF s
<1>4. s \in Ids(func)
  BY <1>1, <1>2, InstrOfHas
<1>5. InstrOf(func, s).id = s /\ InstrOf(func, s) \in Instr
      /\ BlockOf(func, s) \in DOMAIN graph /\ IndexOf(func, s) \in DOMAIN func[BlockOf(func, s)]
  BY <1>2, <1>4, InstrOfIs
<1>6. InstrOf(func, s) = func[BlockOf(func, s)][IndexOf(func, s)]
  BY DEF InstrOf
<1>. QED
  BY <1>1, <1>2, <1>3, <1>5, <1>6

LEMMA SingleStoreRewrittenIs ==
  ASSUME IInv, SingleStoreRewritten
  PROVE  Removal({OnlyStore.id, AI})
<1>1. num \in DOMAIN allocas /\ stage = "singleStore"
  BY DEF IInv, TypeOK, SingleStoreRewritten
<1>2. IsAccess(func, OnlyStore.id)
  BY <1>1, OnlyStoreIs DEF IsAccess
<1>. QED
  BY <1>1, <1>2 DEF Removal, SingleStoreRewritten, Looping

LEMMA SingleStoreRewrittenKeeps ==
  ASSUME IInv, SingleStoreRewritten
  PROVE  IInv' /\ NoMoreAllocas
BY SingleStoreRewrittenIs, RemovalKeeps

LEMMA SingleBlockPromotedIs ==
  ASSUME IInv, SingleBlockPromoted
  PROVE  Removal(Users(func, AI) \cup {AI})
<1>1. num \in DOMAIN allocas /\ stage \in Looping
  BY DEF IInv, TypeOK, SingleBlockPromoted, Looping
<1>2. \A u \in Users(func, AI) : IsAccess(func, u)
  BY <1>1, CurrentIs
<1>. QED
  BY <1>1, <1>2 DEF Removal, SingleBlockPromoted

LEMMA SingleBlockPromotedKeeps ==
  ASSUME IInv, SingleBlockPromoted
  PROVE  IInv' /\ NoMoreAllocas
BY SingleBlockPromotedIs, RemovalKeeps

\* Steps within the loop: what the allocas are numbered by stays, and of the function
\* loads go at the most.
Within ==
  /\ graph' = graph /\ allocas' = allocas /\ num' = num /\ lookup' = lookup /\ newPhis' = newPhis
  /\ worklist' = worklist /\ visited' = visited
  /\ stage \in {"analyze", "singleStore", "singleBlock"} /\ stage' \in {"singleStore", "singleBlock"}
  /\ num \in DOMAIN allocas

LEMMA WithinKeeps ==
  ASSUME IInv, Within, NEW loads, Trimmed(graph, func', func, loads),
         \A id \in loads : Has(func, id, "load"),
         \A i \in DOMAIN allocas : Accessed(func', allocas[i]),
         info' \in AllocaInfos, UsersKept'
  PROVE  IInv' /\ NoMoreAllocas
<1>1. TypeOK /\ LookupAgrees /\ PhisKept /\ AllocasKept /\ Unique(func)
  BY DEF IInv
<1>2. worklist' = <<>> /\ worklist' \in Seq(RenamePassData')
  <2>1. worklist' = <<>>
    BY <1>1 DEF TypeOK, Within
  <2>. QED
    BY <2>1
<1>3. /\ info' \in AllocaInfos' /\ func' \in [DOMAIN graph' -> Seq(Instr)] /\ Unique(func')
      /\ NoMoreAllocas
  BY DEF AllocaInfos, Within, Trimmed, NoMoreAllocas
<1>4. todo' \subseteq Ids(func')
  <2>1. \A u \in todo' : Has(func', u, "load")
    BY DEF UsersKept
  <2>. QED
    BY <1>3, <2>1, InstrOfHas
<1>5. TypeOK'
  BY <1>1, <1>2, <1>3, <1>4 DEF TypeOK, Within
<1>6. LookupAgrees'
  BY <1>1 DEF LookupAgrees, Within
<1>7. PhisKept'
  <2>1. newPhis' = newPhis /\ \A id \in loads : IsAccess(func, id) \/ Has(func, id, "alloca")
    BY DEF Within, IsAccess
  <2>. QED
    BY <1>1, <2>1, PhisStay
<1>8. ASSUME NEW i \in DOMAIN allocas PROVE Has(func', allocas[i], "alloca")
  <2>. DEFINE a == allocas[i]
  <2>1. Has(func, a, "alloca")
    BY <1>1 DEF AllocasKept, Within, Looping
  <2>. HIDE DEF a
  <2>2. a \notin loads
    <3>1. "alloca" # "load"
      OBVIOUS
    <3>. QED
      BY <1>1, <2>1, <3>1, HasOneOp, Zenon
  <2>3. Has(func', a, "alloca")
    BY <2>1, <2>2 DEF Trimmed
  <2>. QED
    BY <2>3 DEF a
<1>9. AllocasKept'
  BY <1>1, <1>8 DEF AllocasKept, Within, Looping
<1>. QED
  BY <1>3, <1>5, <1>6, <1>7, <1>9 DEF IInv, AllNumbered, NoneLeft, Within

LEMMA AllocaInfoIs ==
  ASSUME TypeOK, num \in DOMAIN allocas
  PROVE  AllocaInfo \in AllocaInfos /\ AllocaInfo.stores = Stores(func, AI)
<1>. DEFINE users == Users(func, AI)
            of(op) == {u \in users : InstrOf(func, u).op = op}
            stores == of("store")
            defining == {BlockOf(func, u) : u \in of("store")}
            using == {BlockOf(func, u) : u \in of("load")}
            one == Cardinality({BlockOf(func, u) : u \in users}) = 1
<1>1. func \in [DOMAIN graph -> Seq(Instr)] /\ graph \in Graphs
  BY DEF TypeOK
<1>2. users \subseteq Ids(func)
  BY UsersAre
<1>3. Ids(func) \subseteq Nat
  BY <1>1, GraphIs, IdsAreFinite
<1>4. \A u \in users : BlockOf(func, u) \in DOMAIN graph
  BY <1>1, <1>2, InstrOfIs
<1>5. AllocaInfo = [stores |-> stores, defining |-> defining, using |-> using, oneBlock |-> one]
  BY DEF AllocaInfo
<1>6. stores \in SUBSET Nat /\ stores = Stores(func, AI)
  BY <1>2, <1>3 DEF Stores
<1>7. defining \in SUBSET DOMAIN graph /\ using \in SUBSET DOMAIN graph
  BY <1>4
<1>8. one \in BOOLEAN
  OBVIOUS
<1>. HIDE DEF stores, defining, using, one
<1>. QED
  BY <1>5, <1>6, <1>7, <1>8 DEF AllocaInfos

LEMMA TrimmedSelf ==
  ASSUME NEW g, NEW f \in [DOMAIN g -> Seq(Instr)], Unique(f)
  PROVE  Trimmed(g, f, f, {})
BY DEF Trimmed

LEMMA AnalyzeAllocaKeeps ==
  ASSUME IInv, AnalyzeAlloca
  PROVE  IInv' /\ NoMoreAllocas
<1>1. TypeOK /\ AllocasKept /\ Unique(func) /\ num \in DOMAIN allocas /\ func' = func /\ stage = "analyze"
  BY DEF IInv, AnalyzeAlloca
<1>. DEFINE old == AllocaInfo
            new == [old EXCEPT !.using = {}]
            one == Cardinality(old.stores) = 1
<1>2. /\ info' = IF one THEN new ELSE old
      /\ stage' = IF one THEN "singleStore" ELSE "singleBlock"
      /\ todo' = Loads(func, AI)
  BY DEF AnalyzeAlloca
<1>3. old \in AllocaInfos /\ old.stores = Stores(func, AI)
  BY <1>1, AllocaInfoIs
<1>4. (\A u \in Loads(func, AI) : Has(func, u, "load")) /\ \A u \in Stores(func, AI) : Has(func, u, "store")
  BY <1>1, CurrentIs, UsersAccess DEF TypeOK, Looping
<1>. HIDE DEF old
<1>5. new \in AllocaInfos /\ new.stores = old.stores
  BY <1>3 DEF AllocaInfos
<1>. HIDE DEF new
<1>6. info' \in AllocaInfos /\ info'.stores = old.stores
  BY <1>2, <1>3, <1>5
<1>7. one => old.stores # {}
  BY FS_EmptySet
<1>. HIDE DEF one
<1>8. UsersKept'
  BY <1>1, <1>2, <1>3, <1>4, <1>6, <1>7 DEF UsersKept
<1>9. Within
  BY <1>1, <1>2 DEF AnalyzeAlloca, Within
<1>10. Trimmed(graph, func', func, {})
  BY <1>1, TrimmedSelf DEF TypeOK
<1>11. \A i \in DOMAIN allocas : Accessed(func', allocas[i])
  BY <1>1 DEF AllocasKept, Looping
<1>. QED
  BY <1>6, <1>8, <1>9, <1>10, <1>11, WithinKeeps

LEMMA LoadBecomesIs ==
  ASSUME TypeOK, Unique(func), NEW load, NEW v \in Operand
  PROVE  /\ Trimmed(graph, LoadBecomes(load, v), func, {load})
         /\ \A a : Accessed(func, a) /\ v # Inst(a) => Accessed(LoadBecomes(load, v), a)
<1>. DEFINE w == IF v = Inst(load) THEN Poison ELSE v
            by == With(Empty, load, w)
            f == Replace(func, by)
            h == Erase(f, {load})
<1>1. func \in [DOMAIN graph -> Seq(Instr)] /\ graph \in Graphs
  BY DEF TypeOK
<1>2. w \in Operand /\ \A a : v # Inst(a) => w # Inst(a)
  BY OperandsMade DEF Poison, Inst
<1>. HIDE DEF w
<1>3. by \in [{load} -> Operand] /\ by[load] = w
  BY <1>2 DEF With, Empty
<1>4. LoadBecomes(load, v) = h
  BY DEF LoadBecomes, w
<1>. HIDE DEF by
<1>5. Trimmed(graph, f, func, {})
  BY <1>1, <1>3, ReplaceTrims
<1>6. \A a : Accessed(func, a) /\ v # Inst(a) => Accessed(f, a)
  BY <1>1, <1>2, <1>3, ReplaceAccessed
<1>. HIDE DEF f
<1>7. f \in [DOMAIN graph -> Seq(Instr)] /\ Unique(f)
  BY <1>5 DEF Trimmed
<1>8. Trimmed(graph, h, f, {load})
  BY <1>1, <1>7, EraseTrims
<1>9. \A a : Accessed(f, a) => Accessed(h, a)
  BY <1>7, EraseAccessed
<1>. HIDE DEF h
<1>10. Trimmed(graph, h, func, {} \cup {load})
  BY <1>5, <1>8, TrimmedTwice
<1>11. {} \cup {load} = {load}
  OBVIOUS
<1>. QED
  BY <1>4, <1>6, <1>9, <1>10, <1>11

\* No store stores an alloca of the loop, so no load becomes one.
LEMMA StoredIsNoAlloca ==
  ASSUME NEW f, NEW a, Accessed(f, a), NEW b \in DOMAIN f, NEW p \in DOMAIN f[b]
  PROVE  f[b][p].val # Inst(a)
<1>1. f[b][p].val \in Operands(f[b][p])
  BY DEF Operands
<1>. QED
  BY <1>1 DEF Accessed

LEMMA LoadGone ==
  ASSUME IInv, NEW load, Trimmed(graph, func', func, {load}), Has(func, load, "load"),
         todo' = todo \ {load}, info'.stores = info.stores, stage' = stage
  PROVE  UsersKept'
<1>1. Unique(func) /\ UsersKept
  BY DEF IInv
<1>2. ASSUME NEW u, Has(func, u, "store") PROVE u # load
  <2>1. "load" # "store"
    OBVIOUS
  <2>. QED
    BY <1>1, <1>2, <2>1, HasOneOp, Zenon
<1>3. \A u, op : Has(func, u, op) /\ u # load => Has(func', u, op)
  BY DEF Trimmed
<1>. QED
  BY <1>1, <1>2, <1>3 DEF UsersKept

LEMMA RewriteSingleStoreLoadKeeps ==
  ASSUME IInv, RewriteSingleStoreLoad
  PROVE  IInv' /\ NoMoreAllocas
<1>1. /\ TypeOK /\ AllocasKept /\ UsersKept /\ Unique(func)
      /\ stage = "singleStore" /\ stage' = stage /\ num \in DOMAIN allocas
  BY DEF IInv, TypeOK, RewriteSingleStoreLoad
<1>2. Within
  BY <1>1 DEF RewriteSingleStoreLoad, Within
<1>3. PICK load \in todo :
        /\ todo' = todo \ {load}
        /\ IF StoreReaches(load)
           THEN func' = LoadBecomes(load, OnlyStore.val) /\ UNCHANGED info
           ELSE info' = [info EXCEPT !.using = @ \cup {BlockOf(func, load)}] /\ UNCHANGED func
  BY DEF RewriteSingleStoreLoad
<1>4. /\ func \in [DOMAIN graph -> Seq(Instr)] /\ info \in AllocaInfos /\ load \in Ids(func)
      /\ Has(func, load, "load")
  BY <1>1 DEF TypeOK, UsersKept
<1>5. \A i \in DOMAIN allocas : Accessed(func, allocas[i])
  BY <1>1 DEF AllocasKept, Looping
<1>6. CASE StoreReaches(load)
  <2>1. func' = LoadBecomes(load, OnlyStore.val) /\ info' = info
    BY <1>3, <1>6
  <2>2. OnlyStore.val \in Operand
    BY <1>1, OnlyStoreIs, InstrIs
  <2>3. \A i \in DOMAIN allocas : OnlyStore.val # Inst(allocas[i])
    <3>1. \E b \in DOMAIN func : \E p \in DOMAIN func[b] : OnlyStore = func[b][p]
      BY <1>1, OnlyStoreIs
    <3>. QED
      BY <1>5, <3>1, StoredIsNoAlloca
  <2>4. Trimmed(graph, func', func, {load})
        /\ \A a : Accessed(func, a) /\ OnlyStore.val # Inst(a) => Accessed(func', a)
    BY <1>1, <2>1, <2>2, LoadBecomesIs
  <2>5. UsersKept'
    BY <1>1, <1>3, <1>4, <2>1, <2>4, LoadGone
  <2>6. /\ \A i \in DOMAIN allocas : Accessed(func', allocas[i])
        /\ \A id \in {load} : Has(func, id, "load")
    BY <1>4, <1>5, <2>3, <2>4
  <2>. QED
    BY <1>2, <1>4, <2>1, <2>4, <2>5, <2>6, WithinKeeps
<1>7. CASE ~StoreReaches(load)
  <2>1. info' = [info EXCEPT !.using = @ \cup {BlockOf(func, load)}] /\ func' = func
    BY <1>3, <1>7
  <2>2. BlockOf(func, load) \in DOMAIN graph
    BY <1>4, InstrOfIs
  <2>3. info' \in AllocaInfos /\ info'.stores = info.stores
    BY <1>4, <2>1, <2>2 DEF AllocaInfos
  <2>4. UsersKept'
    BY <1>1, <1>3, <2>1, <2>3 DEF UsersKept
  <2>5. Trimmed(graph, func', func, {}) /\ \A i \in DOMAIN allocas : Accessed(func', allocas[i])
    BY <1>1, <1>4, <1>5, <2>1, TrimmedSelf
  <2>. QED
    BY <1>2, <2>3, <2>4, <2>5, WithinKeeps
<1>. QED
  BY <1>6, <1>7

LEMMA SingleStoreFailedKeeps ==
  ASSUME IInv, SingleStoreFailed
  PROVE  IInv' /\ NoMoreAllocas
<1>1. /\ TypeOK /\ AllocasKept /\ Unique(func) /\ stage = "singleStore"
      /\ stage' = "singleBlock" /\ num \in DOMAIN allocas /\ func' = func /\ info' = info
      /\ todo' = Loads(func, AI)
  BY DEF IInv, TypeOK, SingleStoreFailed
<1>2. Within
  BY <1>1 DEF SingleStoreFailed, Within
<1>3. UsersKept'
  BY <1>1, CurrentIs DEF UsersKept, Looping
<1>4. Trimmed(graph, func', func, {}) /\ info' \in AllocaInfos
  BY <1>1, TrimmedSelf DEF TypeOK
<1>5. \A i \in DOMAIN allocas : Accessed(func', allocas[i])
  BY <1>1 DEF AllocasKept, Looping
<1>. QED
  BY <1>2, <1>3, <1>4, <1>5, WithinKeeps

LEMMA NearestStoreIs ==
  ASSUME TypeOK, NEW load \in Ids(func), StoresBefore(load) # {}
  PROVE  NearestStore(load) \in StoresBefore(load)
<1>. DEFINE S == {IndexOf(func, s) : s \in StoresBefore(load)}
<1>1. func \in [DOMAIN graph -> Seq(Instr)]
  BY DEF TypeOK
<1>2. StoresBefore(load) \subseteq Ids(func) /\ \A s \in StoresBefore(load) : IndexOf(func, s) < IndexOf(func, load)
  BY UsersAre DEF StoresBefore
<1>3. IndexOf(func, load) \in Nat /\ \A s \in StoresBefore(load) : IndexOf(func, s) \in Nat
  BY <1>1, <1>2, InstrOfIs
<1>4. S # {} /\ S \subseteq Nat /\ \A n \in S : n <= IndexOf(func, load)
  BY <1>2, <1>3
<1>5. PICK n \in S : \A m \in S : m <= n
  <2>. HIDE DEF S
  <2>. QED
    BY <1>3, <1>4, MaxIs
<1>6. \E s \in StoresBefore(load) : \A t \in StoresBefore(load) : IndexOf(func, t) <= IndexOf(func, s)
  BY <1>5
<1>. QED
  BY <1>6, Zenon DEF NearestStore

LEMMA PromoteSingleBlockLoadKeeps ==
  ASSUME IInv, PromoteSingleBlockLoad
  PROVE  IInv' /\ NoMoreAllocas
<1>1. /\ TypeOK /\ AllocasKept /\ UsersKept /\ Unique(func)
      /\ stage = "singleBlock" /\ stage' = stage /\ num \in DOMAIN allocas /\ info' = info
  BY DEF IInv, TypeOK, PromoteSingleBlockLoad
<1>2. Within
  BY <1>1 DEF PromoteSingleBlockLoad, Within
<1>. DEFINE v(load) == IF Stores(func, AI) = {} THEN Undef ELSE InstrOf(func, NearestStore(load)).val
<1>3. PICK load \in todo : /\ StoresBefore(load) # {} \/ Stores(func, AI) = {}
                          /\ func' = LoadBecomes(load, v(load))
                          /\ todo' = todo \ {load}
  BY DEF PromoteSingleBlockLoad
<1>4. /\ func \in [DOMAIN graph -> Seq(Instr)] /\ info \in AllocaInfos /\ load \in Ids(func)
      /\ Has(func, load, "load")
  BY <1>1 DEF TypeOK, UsersKept
<1>5. \A i \in DOMAIN allocas : Accessed(func, allocas[i])
  BY <1>1 DEF AllocasKept, Looping
<1>6. v(load) \in Operand /\ \A i \in DOMAIN allocas : v(load) # Inst(allocas[i])
  <2>1. CASE Stores(func, AI) = {}
    BY <2>1, OperandsMade DEF Undef, Inst
  <2>2. CASE Stores(func, AI) # {}
    <3>. DEFINE s == NearestStore(load)
                b == BlockOf(func, s)
                p == IndexOf(func, s)
    <3>1. s \in StoresBefore(load)
      BY <1>1, <1>3, <1>4, <2>2, NearestStoreIs
    <3>2. s \in Ids(func)
      BY <3>1, UsersAre DEF StoresBefore
    <3>3. InstrOf(func, s) \in Instr /\ b \in DOMAIN func /\ p \in DOMAIN func[b]
      BY <1>4, <3>2, InstrOfIs
    <3>4. InstrOf(func, s) = func[b][p]
      BY DEF InstrOf
    <3>5. v(load) = InstrOf(func, s).val
      BY <2>2
    <3>. HIDE DEF s, b, p, v
    <3>6. v(load) \in Operand
      BY <3>3, <3>5, InstrIs
    <3>7. \A i \in DOMAIN allocas : v(load) # Inst(allocas[i])
      BY <1>5, <3>3, <3>4, <3>5, StoredIsNoAlloca
    <3>. QED
      BY <3>6, <3>7
  <2>. QED
    BY <2>1, <2>2
<1>. HIDE DEF v
<1>7. Trimmed(graph, func', func, {load})
      /\ \A a : Accessed(func, a) /\ v(load) # Inst(a) => Accessed(func', a)
  BY <1>1, <1>3, <1>6, LoadBecomesIs
<1>8. UsersKept'
  BY <1>1, <1>3, <1>4, <1>7, LoadGone
<1>9. /\ \A i \in DOMAIN allocas : Accessed(func', allocas[i])
      /\ \A id \in {load} : Has(func, id, "load")
  BY <1>4, <1>5, <1>6, <1>7
<1>10. info' \in AllocaInfos
  BY <1>1, <1>4
<1>. QED
  BY <1>2, <1>7, <1>8, <1>9, <1>10, WithinKeeps

LEMMA EmptyPhiIs ==
  ASSUME NEW id \in Nat
  PROVE  /\ Phi(id, <<>>) \in Instr /\ Phi(id, <<>>).op = "phi" /\ Phi(id, <<>>).id = id
         /\ \A a : Inst(a) \notin Operands(Phi(id, <<>>))
<1>. DEFINE inc == <<>>
<1>1. inc \in Seq(PhiEntry) /\ DOMAIN inc = {}
  OBVIOUS
<1>. HIDE DEF inc
<1>2. [MkInstr(id, "phi", Undef, Undef) EXCEPT !.inc = inc]
      = [id |-> id, op |-> "phi", ptr |-> Undef, val |-> Undef, inc |-> inc]
  BY DEF MkInstr
<1>. DEFINE i == [MkInstr(id, "phi", Undef, Undef) EXCEPT !.inc = inc]
<1>3. i \in Instr /\ i.op = "phi" /\ i.id = id /\ i.ptr = Undef /\ i.val = Undef /\ i.inc = inc
  BY <1>1, <1>2, OperandsMade DEF Instr
<1>. HIDE DEF i
<1>4. \A a : Inst(a) # Undef
  BY DEF Inst, Undef
<1>5. \A a : Inst(a) \notin Operands(i)
  BY <1>1, <1>3, <1>4 DEF Operands
<1>. QED
  BY <1>3, <1>5 DEF Phi, inc, i

\* The numbers of the phis are new, and each block's is its own.
LEMMA PhiIdsAreNew ==
  ASSUME TypeOK, Ids(func) # {}
  PROVE  /\ \A b \in DOMAIN graph : PhiId(b) \in Nat /\ PhiId(b) \notin Ids(func)
         /\ \A b, c \in DOMAIN graph : PhiId(b) = PhiId(c) => b = c
<1>1. graph \in Graphs /\ func \in [DOMAIN graph -> Seq(Instr)]
  BY DEF TypeOK
<1>2. graph \in Seq(Seq(Nat)) /\ Len(graph) \in Nat /\ DOMAIN graph = 1 .. Len(graph)
  BY <1>1, GraphIs
<1>3. Ids(func) \subseteq Nat
  BY <1>1, <1>2, IdsAreFinite
<1>4. PICK m \in Nat : \A id \in Ids(func) : id <= m
  BY <1>1, <1>2, IdsAreBounded
<1>. DEFINE top == Max(Ids(func))
<1>5. top \in Ids(func) /\ \A id \in Ids(func) : id <= top
  BY <1>3, <1>4, MaxIs
<1>6. \A b : PhiId(b) = top + b
  BY DEF PhiId
<1>. HIDE DEF top
<1>7. top \in Nat
  BY <1>3, <1>5
<1>8. \A b \in DOMAIN graph : b \in Nat /\ b > 0
  BY <1>2
<1>9. ASSUME NEW b \in DOMAIN graph PROVE top + b \in Nat /\ top + b \notin Ids(func)
  <2>1. top + b \in Nat /\ ~(top + b <= top)
    BY <1>7, <1>8
  <2>. QED
    BY <1>5, <2>1
<1>10. \A b, c \in DOMAIN graph : top + b = top + c => b = c
  BY <1>7, <1>8
<1>. QED
  BY <1>6, <1>9, <1>10

\* f with phis in front of some blocks.
WithPhis(f, placed, idOf) ==
  [b \in DOMAIN f |-> IF b \in placed THEN <<Phi(idOf[b], <<>>)>> \o f[b] ELSE f[b]]

LEMMA PhisPlacedAre ==
  ASSUME NEW g \in Graphs, NEW f \in [DOMAIN g -> Seq(Instr)], Unique(f),
         NEW placed, placed \subseteq DOMAIN g, NEW idOf \in [DOMAIN g -> Nat],
         \A b \in DOMAIN g : idOf[b] \notin Ids(f),
         \A b, c \in DOMAIN g : idOf[b] = idOf[c] => b = c,
         NEW h, h = WithPhis(f, placed, idOf)
  PROVE  /\ h \in [DOMAIN g -> Seq(Instr)] /\ Unique(h)
         /\ \A id, op : Has(f, id, op) => Has(h, id, op)
         /\ \A b \in placed : Has(h, idOf[b], "phi")
         /\ AllocaIds(h) \subseteq AllocaIds(f)
         /\ \A a : Accessed(f, a) => Accessed(h, a)
<1>. DEFINE D == DOMAIN g
            off(b, p) == IF b \in placed THEN p - 1 ELSE p
            IsNew(b, p) == b \in placed /\ p = 1 /\ h[b][p] = Phi(idOf[b], <<>>)
            IsOld(b, p) == off(b, p) \in DOMAIN f[b] /\ h[b][p] = f[b][off(b, p)]
<1>1. ASSUME NEW b \in D
      PROVE  /\ h[b] \in Seq(Instr) /\ DOMAIN h[b] \subseteq Nat
             /\ \A p \in DOMAIN h[b] : IsNew(b, p) \/ IsOld(b, p)
             /\ \A q \in DOMAIN f[b] : \E p \in DOMAIN h[b] : h[b][p] = f[b][q]
             /\ b \in placed => 1 \in DOMAIN h[b] /\ h[b][1] = Phi(idOf[b], <<>>)
  <2>1. f[b] \in Seq(Instr)
    OBVIOUS
  <2>2. CASE b \in placed
    <3>. DEFINE i == Phi(idOf[b], <<>>)
                s == f[b]
    <3>1. i \in Instr
      BY EmptyPhiIs
    <3>2. h[b] = <<i>> \o s
      BY <2>2 DEF WithPhis
    <3>3. s \in Seq(Instr)
      BY <2>1
    <3>. HIDE DEF i, s
    <3>4. <<i>> \o s \in Seq(Instr) /\ DOMAIN (<<i>> \o s) \subseteq Nat
      BY <3>1, <3>3
    <3>5. \A p \in DOMAIN (<<i>> \o s) :
            (p = 1 /\ (<<i>> \o s)[p] = i) \/ (p - 1 \in DOMAIN s /\ (<<i>> \o s)[p] = s[p - 1])
      BY <3>1, <3>3
    <3>6. \A q \in DOMAIN s : q + 1 \in DOMAIN (<<i>> \o s) /\ (<<i>> \o s)[q + 1] = s[q]
      BY <3>1, <3>3
    <3>7. 1 \in DOMAIN (<<i>> \o s) /\ (<<i>> \o s)[1] = i
      BY <3>1, <3>3
    <3>8. /\ h[b] \in Seq(Instr) /\ DOMAIN h[b] \subseteq Nat
          /\ \A p \in DOMAIN h[b] : (p = 1 /\ h[b][p] = i) \/ (p - 1 \in DOMAIN s /\ h[b][p] = s[p - 1])
          /\ \A q \in DOMAIN s : \E p \in DOMAIN h[b] : h[b][p] = s[q]
          /\ 1 \in DOMAIN h[b] /\ h[b][1] = i
      BY <3>2, <3>4, <3>5, <3>6, <3>7
    <3>. QED
      BY <2>2, <3>8 DEF s, i
  <2>3. CASE b \notin placed
    <3>1. h[b] = f[b] /\ DOMAIN f[b] \subseteq Nat
      BY <2>1, <2>3 DEF WithPhis
    <3>. QED
      BY <2>1, <2>3, <3>1
  <2>. QED
    BY <2>2, <2>3
<1>2. DOMAIN h = D /\ DOMAIN f = D /\ h = [b \in D |-> h[b]] /\ Entry \in D
  BY GraphIs DEF WithPhis
<1>3. h \in [D -> Seq(Instr)]
  BY <1>1, <1>2
<1>4. ASSUME NEW b \in D, NEW p, IsNew(b, p)
      PROVE  /\ h[b][p].id = idOf[b] /\ h[b][p].op = "phi" /\ p = 1
             /\ \A a : Inst(a) \notin Operands(h[b][p])
  <2>1. idOf[b] \in Nat
    OBVIOUS
  <2>. QED
    BY <1>4, <2>1, EmptyPhiIs
<1>5. \A b \in D : \A q \in DOMAIN f[b] : f[b][q].id \in Ids(f)
  BY <1>2, IdsAre
<1>6. ASSUME NEW b \in D, NEW p \in DOMAIN h[b], NEW q \in DOMAIN h[b], off(b, p) = off(b, q)
      PROVE  p = q
  <2>1. p \in Nat /\ q \in Nat
    BY <1>1
  <2>. QED
    BY <1>6, <2>1
<1>7. \A b, c \in D : \A p \in DOMAIN f[b], q \in DOMAIN f[c] : f[b][p].id = f[c][q].id => b = c /\ p = q
  BY <1>2 DEF Unique
<1>8. ASSUME NEW b \in D, NEW c \in D, NEW p \in DOMAIN h[b], NEW q \in DOMAIN h[c], h[b][p].id = h[c][q].id
      PROVE  b = c /\ p = q
  <2>1. CASE IsNew(b, p) /\ IsNew(c, q)
    <3>. HIDE DEF IsNew
    <3>1. idOf[b] = idOf[c] /\ p = 1 /\ q = 1
      BY <1>4, <1>8, <2>1
    <3>. QED
      BY <3>1
  <2>2. CASE IsNew(b, p) /\ IsOld(c, q)
    <3>1. h[b][p].id \notin Ids(f)
      BY <1>4, <2>2
    <3>. QED
      BY <1>5, <1>8, <2>2, <3>1
  <2>3. CASE IsOld(b, p) /\ IsNew(c, q)
    <3>1. h[c][q].id \notin Ids(f)
      BY <1>4, <2>3
    <3>. QED
      BY <1>5, <1>8, <2>3, <3>1
  <2>4. CASE IsOld(b, p) /\ IsOld(c, q)
    <3>. HIDE DEF off
    <3>1. b = c /\ off(b, p) = off(c, q)
      BY <1>7, <1>8, <2>4
    <3>. QED
      BY <1>6, <3>1
  <2>. HIDE DEF IsNew, IsOld
  <2>. QED
    BY <1>1, <2>1, <2>2, <2>3, <2>4
<1>. HIDE DEF off
<1>9. ASSUME NEW b \in D, NEW p \in DOMAIN h[b]
      PROVE  \/ /\ h[b][p].op = "phi" /\ \A a : Inst(a) \notin Operands(h[b][p])
             \/ \E q \in DOMAIN f[b] : h[b][p] = f[b][q]
  <2>1. IsNew(b, p) \/ IsOld(b, p)
    BY <1>1
  <2>2. CASE IsNew(b, p)
    <3>. HIDE DEF IsNew
    <3>. QED
      BY <1>4, <2>2
  <2>3. CASE IsOld(b, p)
    BY <2>3
  <2>. QED
    BY <2>1, <2>2, <2>3
<1>. HIDE DEF IsOld
<1>10. ASSUME NEW b \in placed PROVE Has(h, idOf[b], "phi")
  <2>1. b \in D /\ 1 \in DOMAIN h[b] /\ IsNew(b, 1)
    BY <1>1
  <2>2. h[b][1].id = idOf[b] /\ h[b][1].op = "phi"
    <3>. HIDE DEF IsNew
    <3>. QED
      BY <1>4, <2>1
  <2>. QED
    BY <1>2, <2>1, <2>2 DEF Has
<1>. HIDE DEF IsNew
<1>11. Unique(h)
  BY <1>2, <1>8 DEF Unique
<1>12. \A id, op : Has(f, id, op) => Has(h, id, op)
  BY <1>1, <1>2 DEF Has
<1>13. ASSUME NEW id \in AllocaIds(h) PROVE id \in AllocaIds(f)
  <2>1. PICK p \in DOMAIN h[Entry] : h[Entry][p].op = "alloca" /\ h[Entry][p].id = id
    BY AllocaIdsAre
  <2>2. PICK q \in DOMAIN f[Entry] : h[Entry][p] = f[Entry][q]
    BY <1>2, <1>9, <2>1
  <2>. QED
    BY <2>1, <2>2, AllocaIdsAre
<1>14. \A a : Accessed(f, a) => Accessed(h, a)
  BY <1>2, <1>9 DEF Accessed
<1>. QED
  BY <1>3, <1>10, <1>11, <1>12, <1>13, <1>14

LEMMA PlacePhisKeeps ==
  ASSUME IInv, PlacePhis
  PROVE  IInv' /\ NoMoreAllocas
<1>. DEFINE placed == PHIBlocks
            keys == placed \X {num}
<1>1. /\ TypeOK /\ LookupAgrees /\ PhisKept /\ AllocasKept /\ Unique(func)
      /\ num \in DOMAIN allocas /\ stage = "singleBlock"
  BY DEF IInv, TypeOK, PlacePhis
<1>2. /\ lookup' = With(lookup, AI, num)
      /\ newPhis' = [k \in keys \cup DOMAIN newPhis |-> IF k \in keys THEN PhiId(k[1]) ELSE newPhis[k]]
      /\ func' = [b \in DOMAIN func |-> IF b \in placed THEN <<Phi(PhiId(b), <<>>)>> \o func[b] ELSE func[b]]
      /\ num' = num + 1 /\ stage' = "analyze" /\ todo' = {}
      /\ graph' = graph /\ allocas' = allocas /\ info' = info /\ worklist' = worklist /\ visited' = visited
  BY DEF PlacePhis
<1>3. placed \subseteq DOMAIN graph
  BY DEF PHIBlocks
<1>. HIDE DEF placed
<1>4. /\ graph \in Graphs /\ func \in [DOMAIN graph -> Seq(Instr)] /\ info \in AllocaInfos
      /\ DOMAIN lookup \subseteq Nat /\ DOMAIN newPhis \subseteq (DOMAIN graph) \X Nat
      /\ Range(newPhis) \subseteq Nat /\ worklist = <<>> /\ visited \subseteq DOMAIN graph
  BY <1>1 DEF TypeOK
<1>5. /\ allocas \in Seq(Nat) /\ Len(allocas) \in Nat /\ DOMAIN allocas = 1 .. Len(allocas)
      /\ num \in Nat \ {0} /\ num <= Len(allocas) /\ AI \in Nat
  <2>1. /\ allocas \in Seq(Nat) /\ Len(allocas) \in Nat /\ DOMAIN allocas = 1 .. Len(allocas)
        /\ num \in Nat \ {0} /\ AI \in Nat
    BY <1>1, AllocasAre
  <2>2. num \in DOMAIN allocas
    BY <1>1
  <2>3. num <= Len(allocas)
    BY <2>1, <2>2
  <2>. QED
    BY <2>1, <2>3
<1>6. DOMAIN graph \subseteq Nat /\ IsFiniteSet(DOMAIN graph) /\ Entry \in DOMAIN graph
  <2>1. DOMAIN graph = 1 .. Len(graph) /\ Len(graph) \in Nat /\ Entry \in DOMAIN graph
    BY <1>4, GraphIs
  <2>. QED
    BY <2>1, FS_Interval
<1>7. /\ \A b \in DOMAIN graph : PhiId(b) \in Nat /\ PhiId(b) \notin Ids(func)
      /\ \A b, c \in DOMAIN graph : PhiId(b) = PhiId(c) => b = c
  <2>1. Has(func, AI, "alloca")
    BY <1>1, CurrentIs DEF Looping
  <2>2. Ids(func) # {}
    BY <1>4, <2>1, InstrOfHas
  <2>. QED
    BY <1>1, <2>2, PhiIdsAreNew
<1>8. DOMAIN lookup' = DOMAIN lookup \cup {AI}
      /\ \A a \in DOMAIN lookup' : lookup'[a] = IF a = AI THEN num ELSE lookup[a]
  BY <1>2 DEF With
<1>9. \A k \in keys : k[1] \in placed /\ k[2] = num /\ k \in (DOMAIN graph) \X Nat
  BY <1>3, <1>5
<1>10. DOMAIN newPhis' = keys \cup DOMAIN newPhis
  BY <1>2
<1>11. Range(newPhis') \subseteq Nat
  <2>1. \A k \in keys : PhiId(k[1]) \in Nat
    BY <1>3, <1>7, <1>9
  <2>2. \A k \in DOMAIN newPhis : newPhis[k] \in Nat
    BY <1>4 DEF Range
  <2>. HIDE DEF keys
  <2>3. \A k \in DOMAIN newPhis' : newPhis'[k] \in Nat
    BY <1>2, <2>1, <2>2
  <2>. QED
    BY <2>3 DEF Range
<1>12. IsFiniteSet(DOMAIN newPhis')
  <2>1. IsFiniteSet(placed) /\ IsFiniteSet({num})
    BY <1>3, <1>6, FS_Subset, FS_Singleton
  <2>2. IsFiniteSet(keys)
    BY <2>1, FS_Product, Zenon
  <2>. QED
    <3>1. IsFiniteSet(DOMAIN newPhis)
      BY <1>1 DEF PhisKept
    <3>2. IsFiniteSet(keys \cup DOMAIN newPhis)
      BY <2>2, <3>1, FS_Union, Zenon
    <3>. QED
      BY <1>10, <3>2
<1>13. /\ func' \in [DOMAIN graph -> Seq(Instr)] /\ Unique(func')
       /\ \A id, op : Has(func, id, op) => Has(func', id, op)
       /\ \A b \in placed : Has(func', PhiId(b), "phi")
       /\ AllocaIds(func') \subseteq AllocaIds(func)
       /\ \A a : Accessed(func, a) => Accessed(func', a)
  <2>. DEFINE idOf == [b \in DOMAIN graph |-> PhiId(b)]
  <2>1. idOf \in [DOMAIN graph -> Nat] /\ \A b \in DOMAIN graph : idOf[b] = PhiId(b)
    BY <1>7
  <2>2. func' = WithPhis(func, placed, idOf)
    <3>1. \A b \in placed : PhiId(b) = idOf[b]
      BY <1>3, <2>1
    <3>. HIDE DEF idOf
    <3>. QED
      BY <1>2, <3>1 DEF WithPhis
  <2>. HIDE DEF idOf
  <2>3. /\ \A b \in DOMAIN graph : idOf[b] \notin Ids(func)
        /\ \A b, c \in DOMAIN graph : idOf[b] = idOf[c] => b = c
    BY <1>7, <2>1
  <2>4. /\ func' \in [DOMAIN graph -> Seq(Instr)] /\ Unique(func')
        /\ \A id, op : Has(func, id, op) => Has(func', id, op)
        /\ \A b \in placed : Has(func', idOf[b], "phi")
        /\ AllocaIds(func') \subseteq AllocaIds(func)
        /\ \A a : Accessed(func, a) => Accessed(func', a)
    <3>1. graph \in Graphs /\ func \in [DOMAIN graph -> Seq(Instr)] /\ Unique(func)
      BY <1>1, <1>4
    <3>2. idOf \in [DOMAIN graph -> Nat]
      BY <2>1
    <3>. QED
      BY <1>3, <2>2, <2>3, <3>1, <3>2, PhisPlacedAre, Zenon
  <2>. QED
    BY <1>3, <2>1, <2>4
<1>16. NoMoreAllocas
  BY <1>13 DEF NoMoreAllocas
<1>17. TypeOK'
  <2>1. allocas' \in Seq(Nat) /\ num' \in 1 .. Len(allocas') + 1
    BY <1>2, <1>5
  <2>2. info' \in AllocaInfos' /\ func' \in [DOMAIN graph' -> Seq(Instr)] /\ graph' \in Graphs
    BY <1>2, <1>4, <1>13 DEF AllocaInfos
  <2>3. DOMAIN lookup' \subseteq Nat
    BY <1>4, <1>5, <1>8
  <2>4. DOMAIN newPhis' \subseteq (DOMAIN graph') \X Nat
    BY <1>2, <1>4, <1>9, <1>10
  <2>5. worklist' = <<>> /\ worklist' \in Seq(RenamePassData') /\ visited' \subseteq DOMAIN graph'
    BY <1>2, <1>4
  <2>. QED
    BY <1>2, <1>11, <2>1, <2>2, <2>3, <2>4, <2>5 DEF TypeOK
<1>18. LookupAgrees'
  <2>1. /\ \A a \in DOMAIN lookup : lookup[a] < num /\ lookup[a] \in DOMAIN allocas /\ allocas[lookup[a]] = a
        /\ \A i \in 1 .. num - 1 : i \in DOMAIN allocas /\ allocas[i] \in DOMAIN lookup
        /\ \A k \in DOMAIN newPhis : k[2] < num
    BY <1>1 DEF LookupAgrees
  <2>2. \A a \in DOMAIN lookup' : lookup'[a] < num' /\ lookup'[a] \in DOMAIN allocas /\ allocas[lookup'[a]] = a
    <3>. SUFFICES ASSUME NEW a \in DOMAIN lookup'
                  PROVE  lookup'[a] < num' /\ lookup'[a] \in DOMAIN allocas /\ allocas[lookup'[a]] = a
      OBVIOUS
    <3>1. CASE a = AI
      BY <1>2, <1>5, <1>8, <3>1 DEF AI
    <3>2. CASE a # AI
      <4>1. lookup'[a] = lookup[a] /\ a \in DOMAIN lookup
        BY <1>8, <3>2
      <4>2. lookup[a] < num /\ lookup[a] \in DOMAIN allocas /\ allocas[lookup[a]] = a
        BY <2>1, <4>1
      <4>. QED
        BY <1>2, <1>5, <4>1, <4>2
    <3>. QED
      BY <3>1, <3>2
  <2>3. \A i \in 1 .. num' - 1 : i \in DOMAIN allocas /\ allocas[i] \in DOMAIN lookup'
    <3>1. \A i \in 1 .. num' - 1 : i = num \/ i \in 1 .. num - 1
      BY <1>2, <1>5
    <3>. QED
      BY <1>1, <1>8, <2>1, <3>1 DEF AI
  <2>4. \A k \in DOMAIN newPhis' : k[2] < num'
    <3>. SUFFICES ASSUME NEW k \in DOMAIN newPhis' PROVE k[2] < num'
      OBVIOUS
    <3>1. k \in keys \/ k \in DOMAIN newPhis
      BY <1>10
    <3>2. (k[2] = num \/ k[2] < num) /\ k[2] \in Nat
      BY <1>4, <1>9, <2>1, <3>1
    <3>. QED
      BY <1>2, <1>5, <3>2
  <2>. QED
    BY <1>2, <2>2, <2>3, <2>4 DEF LookupAgrees
<1>19. ASSUME NEW k \in DOMAIN newPhis'
       PROVE  \/ /\ k \in keys /\ k[1] \in placed /\ k[2] = num /\ newPhis'[k] = PhiId(k[1])
                 /\ k = <<k[1], num>> /\ Has(func', newPhis'[k], "phi")
              \/ /\ k \in DOMAIN newPhis /\ newPhis'[k] = newPhis[k]
                 /\ k[2] # 0 /\ Has(func', newPhis'[k], "phi") /\ newPhis'[k] \in Ids(func)
  <2>1. CASE k \in keys
    <3>1. k[1] \in placed /\ k[2] = num /\ k = <<k[1], num>>
      BY <2>1
    <3>. HIDE DEF keys
    <3>2. newPhis'[k] = PhiId(k[1])
      BY <1>2, <2>1
    <3>. QED
      BY <1>13, <2>1, <3>1, <3>2
  <2>2. CASE k \notin keys
    <3>. HIDE DEF keys
    <3>1. k \in DOMAIN newPhis /\ newPhis'[k] = newPhis[k]
      BY <1>2, <1>10, <2>2
    <3>2. k[2] # 0 /\ Has(func, newPhis[k], "phi")
      BY <1>1, <3>1 DEF PhisKept
    <3>3. newPhis[k] \in Ids(func)
      BY <1>4, <3>2, InstrOfHas
    <3>. QED
      BY <1>13, <3>1, <3>2, <3>3
  <2>. QED
    BY <2>1, <2>2
<1>20. \A k, l \in DOMAIN newPhis' : newPhis'[k] = newPhis'[l] => k = l
  <2>. HIDE DEF keys
  <2>1. \A k, l \in DOMAIN newPhis : newPhis[k] = newPhis[l] => k = l
    BY <1>1 DEF PhisKept
  <2>2. \A b \in placed : PhiId(b) \notin Ids(func)
    BY <1>3, <1>7
  <2>3. \A b, c \in placed : PhiId(b) = PhiId(c) => b = c
    BY <1>3, <1>7
  <2>. SUFFICES ASSUME NEW k \in DOMAIN newPhis', NEW l \in DOMAIN newPhis', newPhis'[k] = newPhis'[l] PROVE k = l
    OBVIOUS
  <2>. DEFINE New(x) == x[1] \in placed /\ newPhis'[x] = PhiId(x[1]) /\ x = <<x[1], num>>
              Old(x) == x \in DOMAIN newPhis /\ newPhis'[x] = newPhis[x] /\ newPhis'[x] \in Ids(func)
  <2>4. (New(k) \/ Old(k)) /\ (New(l) \/ Old(l))
    BY <1>19
  <2>5. New(k) /\ New(l) => k = l
    BY <2>3
  <2>6. ~(New(k) /\ Old(l)) /\ ~(Old(k) /\ New(l))
    BY <2>2
  <2>7. Old(k) /\ Old(l) => k = l
    BY <2>1
  <2>. HIDE DEF New, Old
  <2>. QED
    BY <2>4, <2>5, <2>6, <2>7
<1>21. PhisKept'
  BY <1>5, <1>12, <1>19, <1>20 DEF PhisKept
<1>22. AllocasKept'
  <2>1. /\ \A i, j \in DOMAIN allocas : allocas[i] = allocas[j] => i = j
        /\ \A i \in DOMAIN allocas : Has(func, allocas[i], "alloca") /\ Accessed(func, allocas[i])
    BY <1>1 DEF AllocasKept, Looping
  <2>. QED
    BY <1>2, <1>13, <2>1 DEF AllocasKept
<1>. QED
  BY <1>2, <1>13, <1>16, <1>17, <1>18, <1>21, <1>22 DEF IInv, UsersKept, AllNumbered, NoneLeft

LEMMA AllSimpleKeeps ==
  ASSUME IInv, AllSimple
  PROVE  IInv' /\ NoMoreAllocas
<1>1. /\ stage = "analyze" /\ stage' = "collect" /\ allocas = <<>>
      /\ UNCHANGED <<graph, given, func, allocas, num, info, todo, lookup, newPhis, worklist, visited>>
  BY DEF AllSimple
<1>2. TypeOK'
  BY <1>1 DEF IInv, TypeOK, AllocaInfos
<1>3. LookupAgrees' /\ NoneLeft'
  BY <1>1 DEF LookupAgrees, NoneLeft, Range
<1>. QED
  BY <1>1, <1>2, <1>3 DEF IInv, PhisKept, AllocasKept, UsersKept, AllNumbered, NoMoreAllocas, Looping

LEMMA StartRenamingKeeps ==
  ASSUME IInv, StartRenaming
  PROVE  IInv' /\ NoMoreAllocas
<1>. DEFINE start == [bb |-> Entry, pred |-> 0, vals |-> [k \in DOMAIN allocas |-> Undef]]
<1>1. /\ stage = "analyze" /\ stage' = "rename" /\ allocas # <<>> /\ num \notin DOMAIN allocas
      /\ worklist' = <<start>>
      /\ UNCHANGED <<graph, given, func, allocas, num, info, todo, lookup, newPhis, visited>>
  BY DEF StartRenaming
<1>2. TypeOK /\ LookupAgrees
  BY DEF IInv
<1>3. start \in RenamePassData'
  <2>1. Entry \in DOMAIN graph
    BY <1>2, GraphIs DEF TypeOK
  <2>2. [k \in DOMAIN allocas |-> Undef] \in [DOMAIN allocas -> Operand]
    BY OperandsMade
  <2>3. start \in RenamePassData
    BY <2>1, <2>2 DEF RenamePassData
  <2>. QED
    BY <1>1, <2>3 DEF RenamePassData
<1>. HIDE DEF start
<1>4. worklist' \in Seq(RenamePassData')
  BY <1>1, <1>3
<1>5. graph' \in Graphs /\ func' \in [DOMAIN graph' -> Seq(Instr)] /\ info' \in AllocaInfos' /\ todo' = {}
  BY <1>1, <1>2 DEF TypeOK, AllocaInfos
<1>6. TypeOK'
  BY <1>1, <1>2, <1>4, <1>5 DEF TypeOK
<1>7. LookupAgrees'
  BY <1>1, <1>2 DEF LookupAgrees
<1>8. AllNumbered'
  BY <1>1, <1>2, AllocasAre DEF AllNumbered
<1>. QED
  BY <1>1, <1>2, <1>6, <1>7, <1>8 DEF IInv, PhisKept, AllocasKept, UsersKept, NoneLeft, NoMoreAllocas, Looping

-----------------------------------------------------------------------------
(* The walk over the edges, and what follows it.                            *)

LEMMA WalkingIs ==
  ASSUME IInv, stage = "rename"
  PROVE  /\ PhisHaveAllocas(DOMAIN allocas)
         /\ \A a \in DOMAIN lookup : lookup[a] \in DOMAIN allocas
<1>1. TypeOK /\ LookupAgrees /\ PhisKept /\ AllNumbered
  BY DEF IInv
<1>2. /\ allocas \in Seq(Nat) /\ Len(allocas) \in Nat /\ DOMAIN allocas = 1 .. Len(allocas)
      /\ num = Len(allocas) + 1 /\ allocas # <<>>
  BY <1>1, AllocasAre DEF AllNumbered
<1>3. 1 \in DOMAIN allocas
  BY <1>2
<1>4. \A k \in DOMAIN newPhis : k[2] < num /\ k[2] \in Nat /\ k[2] # 0
  BY <1>1 DEF LookupAgrees, PhisKept, TypeOK
<1>5. \A k \in DOMAIN newPhis : k[2] \in DOMAIN allocas
  BY <1>2, <1>4
<1>6. \A a \in DOMAIN lookup : lookup[a] \in DOMAIN allocas
  BY <1>1 DEF LookupAgrees
<1>. QED
  BY <1>3, <1>5, <1>6 DEF PhisHaveAllocas

\* Steps of the walk change the function, of which loads and stores go, and what is
\* still to come.
Walking ==
  /\ stage = "rename" /\ stage' = stage
  /\ graph' = graph /\ allocas' = allocas /\ num' = num /\ info' = info /\ todo' = todo
  /\ lookup' = lookup /\ newPhis' = newPhis

LEMMA WalkingKeeps ==
  ASSUME IInv, Walking, NEW gone, Trimmed(graph, func', func, gone), \A id \in gone : IsAccess(func, id),
         worklist' \in Seq(RenamePassData), visited' \subseteq DOMAIN graph
  PROVE  IInv' /\ NoMoreAllocas
<1>1. TypeOK /\ LookupAgrees /\ PhisKept /\ AllocasKept /\ AllNumbered /\ Unique(func)
  BY DEF IInv
<1>2. worklist' \in Seq(RenamePassData') /\ func' \in [DOMAIN graph' -> Seq(Instr)] /\ visited' \subseteq DOMAIN graph'
  <2>1. RenamePassData' = RenamePassData
    BY DEF RenamePassData, Walking
  <2>. QED
    BY <2>1 DEF Walking, Trimmed
<1>3. info' \in AllocaInfos' /\ todo' = {}
  BY <1>1 DEF AllocaInfos, Walking, TypeOK
<1>4. TypeOK'
  BY <1>1, <1>2, <1>3 DEF TypeOK, Walking
<1>5. LookupAgrees'
  BY <1>1 DEF LookupAgrees, Walking
<1>6. PhisKept'
  <2>1. newPhis' = newPhis /\ \A id \in gone : IsAccess(func, id) \/ Has(func, id, "alloca")
    BY DEF Walking
  <2>. QED
    BY <1>1, <2>1, PhisStay
<1>7. ASSUME NEW i \in DOMAIN allocas PROVE Has(func', allocas[i], "alloca")
  <2>. DEFINE a == allocas[i]
  <2>1. Has(func, a, "alloca")
    BY <1>1 DEF AllocasKept, Walking, Looping
  <2>. HIDE DEF a
  <2>2. a \notin gone
    <3>1. "alloca" # "load" /\ "alloca" # "store"
      OBVIOUS
    <3>. QED
      BY <1>1, <2>1, <3>1, HasOneOp, Zenon DEF IsAccess
  <2>3. Has(func', a, "alloca")
    BY <2>1, <2>2 DEF Trimmed
  <2>. QED
    BY <2>3 DEF a
<1>8. AllocasKept'
  BY <1>1, <1>7 DEF AllocasKept, Walking, Looping
<1>9. Unique(func') /\ NoMoreAllocas
  BY DEF Trimmed, NoMoreAllocas
<1>. QED
  BY <1>1, <1>3, <1>4, <1>5, <1>6, <1>8, <1>9 DEF IInv, AllNumbered, NoneLeft, UsersKept, Walking

LEMMA RpdIs ==
  ASSUME TypeOK, worklist # <<>>
  PROVE  /\ Last(worklist).bb \in DOMAIN graph /\ Last(worklist).pred \in Nat
         /\ Last(worklist).vals \in [DOMAIN allocas -> Operand]
         /\ Front(worklist) \in Seq(RenamePassData) /\ Len(worklist) \in Nat
         /\ Len(Front(worklist)) = Len(worklist) - 1
<1>1. worklist \in Seq(RenamePassData)
  BY DEF TypeOK
<1>2. Last(worklist) \in RenamePassData
  BY <1>1 DEF Last
<1>. DEFINE n == Len(worklist)
            w == Front(worklist)
<1>3. n \in Nat \ {0}
  BY <1>1
<1>4. w = [i \in 1 .. n - 1 |-> worklist[i]]
  BY DEF Front
<1>5. w \in [1 .. n - 1 -> RenamePassData] /\ n - 1 \in Nat
  <2>1. \A i \in 1 .. n - 1 : worklist[i] \in RenamePassData
    BY <1>1, <1>3
  <2>. HIDE DEF w, n
  <2>. QED
    BY <1>3, <1>4, <2>1
<1>. HIDE DEF w, n
<1>6. w \in Seq(RenamePassData) /\ Len(w) = n - 1
  BY <1>5, SeqDef
<1>. QED
  BY <1>2, <1>3, <1>6 DEF RenamePassData, w, n

LEMMA PushedIs ==
  ASSUME TypeOK, NEW bb \in DOMAIN graph, NEW vals \in [DOMAIN allocas -> Operand]
  PROVE  Pushed(bb, vals) \in Seq(RenamePassData)
<1>. DEFINE s == graph[bb]
            P == {k \in DOMAIN s : \A j \in 1 .. k - 1 : s[j] # s[k]}
            firsts == Picked(s, P)
            turned == IF firsts = <<>> THEN <<>> ELSE Append(Tail(firsts), Head(firsts))
            D == DOMAIN graph
<1>1. graph \in Graphs /\ bb \in Nat
  <2>1. graph \in Graphs
    BY DEF TypeOK
  <2>2. DOMAIN graph = 1 .. Len(graph) /\ Len(graph) \in Nat
    BY <2>1, GraphIs
  <2>. QED
    BY <2>1, <2>2
<1>2. s \in Seq(D)
  <2>1. s \in Seq(Nat) /\ \A k \in DOMAIN s : s[k] \in D
    BY <1>1, GraphIs, MemIRAssumption
  <2>. HIDE DEF s, D
  <2>2. s \in [1 .. Len(s) -> D] /\ Len(s) \in Nat
    BY <2>1
  <2>. QED
    BY <2>2, SeqDef
<1>3. Pushed(bb, vals) = [k \in DOMAIN turned |-> [bb |-> turned[k], pred |-> bb, vals |-> vals]]
  BY DEF Pushed
<1>4. P \subseteq DOMAIN s
  OBVIOUS
<1>. HIDE DEF s, P
<1>5. firsts \in Seq(D)
  BY <1>2, <1>4, PickedIs, Zenon
<1>. HIDE DEF firsts, D
<1>6. turned \in Seq(D)
  BY <1>5
<1>. HIDE DEF turned
<1>. DEFINE q == [k \in DOMAIN turned |-> [bb |-> turned[k], pred |-> bb, vals |-> vals]]
<1>7. Len(turned) \in Nat /\ DOMAIN turned = 1 .. Len(turned) /\ \A k \in DOMAIN turned : turned[k] \in D
  BY <1>6
<1>8. \A k \in DOMAIN turned : [bb |-> turned[k], pred |-> bb, vals |-> vals] \in RenamePassData
  BY <1>1, <1>7 DEF RenamePassData, D
<1>9. q \in [1 .. Len(turned) -> RenamePassData]
  BY <1>7, <1>8
<1>. HIDE DEF q
<1>10. q \in Seq(RenamePassData)
  BY <1>7, <1>9, SeqDef
<1>. QED
  BY <1>3, <1>10 DEF q

LEMMA EnteredTrims ==
  ASSUME IInv, stage = "rename", worklist # <<>>
  PROVE  LET rpd == Last(worklist)
             entered == EnterBlock(rpd)
         IN /\ Trimmed(graph, [func EXCEPT ![rpd.bb] = entered.code], func, {})
            /\ SameInstrs(entered.code, func[rpd.bb]) /\ entered.vals \in [DOMAIN allocas -> Operand]
            /\ rpd.bb \in DOMAIN graph
<1>. DEFINE rpd == Last(worklist)
            entered == EnterBlock(rpd)
            code == entered.code
            bb == rpd.bb
            h == [func EXCEPT ![bb] = code]
<1>1. TypeOK /\ Unique(func)
  BY DEF IInv
<1>2. graph \in Graphs /\ func \in [DOMAIN graph -> Seq(Instr)]
  BY <1>1 DEF TypeOK
<1>3. rpd.bb \in DOMAIN graph /\ rpd.pred \in Nat /\ rpd.vals \in [DOMAIN allocas -> Operand]
  BY <1>1, RpdIs
<1>. HIDE DEF rpd
<1>4. SameInstrs(entered.code, func[rpd.bb]) /\ entered.vals \in [DOMAIN allocas -> Operand]
  BY <1>2, <1>3, WalkingIs, EnterBlockIs
<1>. HIDE DEF entered
<1>5. SameInstrs(code, func[bb]) /\ bb \in DOMAIN graph
  BY <1>3, <1>4
<1>. HIDE DEF code, bb
<1>6. \A b \in DOMAIN graph : SameInstrs(func[b], func[b])
  BY <1>2 DEF SameInstrs
<1>7. DOMAIN h = DOMAIN graph /\ h = [b \in DOMAIN graph |-> h[b]]
  BY <1>2
<1>8. \A b \in DOMAIN graph : SameInstrs(h[b], func[b])
  BY <1>2, <1>5, <1>6
<1>. HIDE DEF h
<1>9. Trimmed(graph, h, func, {})
  BY <1>1, <1>2, <1>7, <1>8, SameInstrsTrim
<1>. QED
  BY <1>3, <1>4, <1>9 DEF h, bb, code, entered, rpd

LEMMA RenameBlockKeeps ==
  ASSUME IInv, RenameBlock
  PROVE  IInv' /\ NoMoreAllocas
<1>. DEFINE rpd == Last(worklist)
            entered == EnterBlock(rpd)
            code == entered.code
            renamed == Renamed(code, entered.vals)
            one == [func EXCEPT ![rpd.bb] = code]
            two == Replace(one, renamed.by)
<1>1. stage = "rename" /\ worklist # <<>>
      /\ func' = Erase(two, renamed.gone)
      /\ worklist' = Front(worklist) \o Pushed(rpd.bb, renamed.vals)
      /\ visited' = visited \cup {rpd.bb}
      /\ Walking
  BY DEF RenameBlock, VisitedWith, Walking
<1>2. TypeOK /\ graph \in Graphs /\ func \in [DOMAIN graph -> Seq(Instr)]
      /\ visited \subseteq DOMAIN graph
  BY DEF IInv, TypeOK
<1>3. /\ Trimmed(graph, one, func, {}) /\ SameInstrs(code, func[rpd.bb])
      /\ entered.vals \in [DOMAIN allocas -> Operand] /\ rpd.bb \in DOMAIN graph
  BY <1>1, EnteredTrims
<1>4. Front(worklist) \in Seq(RenamePassData)
  BY <1>1, <1>2, RpdIs
<1>. HIDE DEF rpd, entered, code
<1>5. code \in Seq(Instr) /\ \A a \in DOMAIN lookup : lookup[a] \in DOMAIN allocas
  BY <1>1, <1>3, WalkingIs DEF SameInstrs
<1>6. /\ renamed.vals \in [DOMAIN allocas -> Operand]
      /\ \E D \in SUBSET Nat : renamed.by \in [D -> Operand]
      /\ renamed.gone \subseteq Accesses(code)
  BY <1>3, <1>5, RenamedIs
<1>. HIDE DEF renamed, one
<1>7. one \in [DOMAIN graph -> Seq(Instr)] /\ Unique(one)
  BY <1>3 DEF Trimmed
<1>8. Trimmed(graph, two, one, {})
  BY <1>2, <1>6, <1>7, ReplaceTrims
<1>. HIDE DEF two
<1>9. Trimmed(graph, func', two, renamed.gone)
  BY <1>1, <1>2, <1>8, EraseTrims DEF Trimmed
<1>10. Trimmed(graph, two, func, {} \cup {})
  BY <1>3, <1>8, TrimmedTwice
<1>11. Trimmed(graph, func', func, ({} \cup {}) \cup renamed.gone)
  BY <1>9, <1>10, TrimmedTwice
<1>12. ({} \cup {}) \cup renamed.gone = renamed.gone
  OBVIOUS
<1>13. Trimmed(graph, func', func, renamed.gone)
  BY <1>11, <1>12
<1>14. ASSUME NEW id \in renamed.gone PROVE IsAccess(func, id)
  <2>1. PICK p \in DOMAIN code : code[p].op \in {"load", "store"} /\ code[p].id = id
    BY <1>6 DEF Accesses
  <2>2. p \in DOMAIN func[rpd.bb] /\ func[rpd.bb][p].op = code[p].op /\ func[rpd.bb][p].id = id
    BY <1>3, <2>1 DEF SameInstrs
  <2>3. rpd.bb \in DOMAIN func
    BY <1>2, <1>3
  <2>. QED
    BY <2>1, <2>2, <2>3 DEF IsAccess, Has
<1>15. Pushed(rpd.bb, renamed.vals) \in Seq(RenamePassData)
  BY <1>2, <1>3, <1>6, PushedIs
<1>16. worklist' \in Seq(RenamePassData)
  BY <1>1, <1>4, <1>15
<1>17. visited' \subseteq DOMAIN graph
  BY <1>1, <1>2, <1>3
<1>. QED
  BY <1>1, <1>13, <1>14, <1>16, <1>17, WalkingKeeps

LEMMA ReenterBlockKeeps ==
  ASSUME IInv, ReenterBlock
  PROVE  IInv' /\ NoMoreAllocas
<1>1. /\ stage = "rename" /\ worklist # <<>> /\ Walking
      /\ func' = [func EXCEPT ![Last(worklist).bb] = EnterBlock(Last(worklist)).code]
      /\ worklist' = Front(worklist) /\ visited' = visited
  BY DEF ReenterBlock, Walking
<1>2. TypeOK /\ visited \subseteq DOMAIN graph
  BY DEF IInv, TypeOK
<1>3. Trimmed(graph, func', func, {})
  BY <1>1, EnteredTrims
<1>4. worklist' \in Seq(RenamePassData)
  BY <1>1, <1>2, RpdIs
<1>. DEFINE gone == {}
<1>5. Trimmed(graph, func', func, gone) /\ (\A id \in gone : IsAccess(func, id)) /\ visited' \subseteq DOMAIN graph
  BY <1>1, <1>2, <1>3
<1>6. Walking
  BY <1>1
<1>. HIDE DEF gone
<1>. QED
  BY <1>4, <1>5, <1>6, WalkingKeeps

\* What follows the walk changes the function and the phis that are kept.
Settling ==
  /\ worklist = <<>> /\ stage \in {"rename", "simplify"} /\ stage' \in {"simplify", "collect"}
  /\ graph' = graph /\ allocas' = allocas /\ num' = num /\ info' = info /\ todo' = todo
  /\ lookup' = lookup /\ worklist' = worklist /\ visited' = visited

LEMMA SettlingKeeps ==
  ASSUME IInv, Settling, NEW gone, Trimmed(graph, func', func, gone),
         AllocaIds(func') \cap Range(allocas) = {},
         DOMAIN newPhis' \subseteq DOMAIN newPhis, Range(newPhis') \subseteq Range(newPhis), PhisKept'
  PROVE  IInv' /\ NoMoreAllocas
<1>1. TypeOK /\ LookupAgrees
  BY DEF IInv
<1>2. /\ func' \in [DOMAIN graph' -> Seq(Instr)] /\ Unique(func') /\ NoMoreAllocas
      /\ info' \in AllocaInfos' /\ todo' = {} /\ worklist' = <<>> /\ worklist' \in Seq(RenamePassData')
  <2>1. func' \in [DOMAIN graph' -> Seq(Instr)] /\ Unique(func') /\ NoMoreAllocas
    BY DEF Trimmed, NoMoreAllocas, Settling
  <2>2. info' \in AllocaInfos' /\ todo' = {}
    BY <1>1 DEF TypeOK, AllocaInfos, Settling
  <2>3. worklist' = <<>> /\ worklist' \in Seq(RenamePassData')
    BY DEF Settling
  <2>. QED
    BY <2>1, <2>2, <2>3
<1>3. /\ allocas' \in Seq(Nat) /\ num' \in 1 .. Len(allocas') + 1 /\ DOMAIN lookup' \subseteq Nat
      /\ visited' \subseteq DOMAIN graph' /\ graph' \in Graphs
      /\ DOMAIN newPhis' \subseteq (DOMAIN graph') \X Nat /\ Range(newPhis') \subseteq Nat
  BY <1>1 DEF TypeOK, Settling
<1>4. TypeOK'
  BY <1>2, <1>3 DEF TypeOK, Settling
<1>5. LookupAgrees' /\ AllocasKept' /\ AllNumbered'
  BY DEF LookupAgrees, AllocasKept, AllNumbered, Looping, Settling
<1>6. UsersKept' /\ NoneLeft'
  BY <1>2 DEF UsersKept, NoneLeft, Settling
<1>. QED
  BY <1>2, <1>4, <1>5, <1>6 DEF IInv

LEMMA RemoveAllocasKeeps ==
  ASSUME IInv, RemoveAllocas
  PROVE  IInv' /\ NoMoreAllocas
<1>. DEFINE as == Range(allocas)
            one == Replace(func, [a \in as |-> Poison])
<1>1. stage = "rename" /\ stage' = "simplify" /\ func' = Erase(one, as) /\ Settling /\ newPhis' = newPhis
  BY DEF RemoveAllocas, Settling
<1>2. /\ TypeOK /\ AllocasKept /\ PhisKept /\ Unique(func)
      /\ graph \in Graphs /\ func \in [DOMAIN graph -> Seq(Instr)]
  BY DEF IInv, TypeOK
<1>3. \A a \in as : Has(func, a, "alloca")
  BY <1>1, <1>2 DEF AllocasKept, Range, Looping
<1>4. [a \in as |-> Poison] \in [as -> Operand]
  BY OperandsMade
<1>. HIDE DEF as
<1>5. Trimmed(graph, one, func, {})
  BY <1>2, <1>4, ReplaceTrims
<1>. HIDE DEF one
<1>6. Trimmed(graph, func', one, as)
  BY <1>1, <1>2, <1>5, EraseTrims DEF Trimmed
<1>7. Trimmed(graph, func', func, {} \cup as) /\ {} \cup as = as
  BY <1>5, <1>6, TrimmedTwice
<1>8. Trimmed(graph, func', func, as)
  BY <1>7
<1>9. AllocaIds(func') \cap Range(allocas) = {}
  BY <1>8 DEF Trimmed, as
<1>10. PhisKept'
  BY <1>1, <1>2, <1>3, <1>8, PhisStay
<1>. QED
  BY <1>1, <1>8, <1>9, <1>10, SettlingKeeps

LEMMA SimplifyPHINodeIs ==
  ASSUME TypeOK, NEW phi \in Ids(func), NEW v \in SimplifyPHINode(phi)
  PROVE  v \in Operand
<1>. DEFINE inc == InstrOf(func, phi).inc
            incoming == {inc[k].val : k \in DOMAIN inc} \ {Inst(phi)}
            common == {w \in incoming : ~IsUndefValue(w)}
<1>1. InstrOf(func, phi) \in Instr
  BY InstrOfIs DEF TypeOK
<1>2. \A k \in DOMAIN inc : inc[k].val \in Operand
  BY <1>1, InstrIs
<1>. HIDE DEF inc
<1>3. \A w \in common : w \in Operand
  BY <1>2
<1>4. v = Undef \/ v \in common
  <2>1. v \in IF common = {} THEN {Undef}
              ELSE IF Cardinality(common) > 1 THEN {}
              ELSE {w \in common : common = incoming \/ ValueDominatesPHI(w, phi)}
    BY DEF SimplifyPHINode, inc
  <2>. HIDE DEF common, incoming
  <2>. QED
    BY <2>1
<1>. QED
  BY <1>3, <1>4, OperandsMade

LEMMA SimplifyPhiKeeps ==
  ASSUME IInv, SimplifyPhi
  PROVE  IInv' /\ NoMoreAllocas
<1>1. PICK k \in DOMAIN newPhis : \E v \in SimplifyPHINode(newPhis[k]) :
        /\ func' = Erase(Replace(func, With(Empty, newPhis[k], v)), {newPhis[k]})
        /\ newPhis' = [j \in DOMAIN newPhis \ {k} |-> newPhis[j]]
  BY DEF SimplifyPhi
<1>. DEFINE phi == newPhis[k]
<1>2. PICK v \in SimplifyPHINode(phi) : func' = Erase(Replace(func, With(Empty, phi, v)), {phi})
  BY <1>1
<1>3. newPhis' = [j \in DOMAIN newPhis \ {k} |-> newPhis[j]]
  BY <1>1
<1>4. stage = "simplify" /\ stage' = stage /\ Settling
  BY DEF SimplifyPhi, Settling, IInv, TypeOK
<1>5. /\ TypeOK /\ PhisKept /\ NoneLeft /\ Unique(func)
      /\ graph \in Graphs /\ func \in [DOMAIN graph -> Seq(Instr)]
  BY DEF IInv, TypeOK
<1>6. Has(func, phi, "phi") /\ \A j \in DOMAIN newPhis \ {k} : newPhis[j] # phi
  BY <1>5 DEF PhisKept
<1>. HIDE DEF phi
<1>7. phi \in Ids(func)
  BY <1>5, <1>6, InstrOfHas
<1>8. v \in Operand
  BY <1>2, <1>5, <1>7, SimplifyPHINodeIs
<1>. DEFINE by == With(Empty, phi, v)
            one == Replace(func, by)
<1>9. by \in [{phi} -> Operand]
  BY <1>8 DEF With, Empty
<1>. HIDE DEF by
<1>10. Trimmed(graph, one, func, {})
  BY <1>5, <1>9, ReplaceTrims
<1>11. func' = Erase(one, {phi})
  BY <1>2 DEF by
<1>. HIDE DEF one
<1>12. Trimmed(graph, func', one, {phi})
  BY <1>5, <1>10, <1>11, EraseTrims DEF Trimmed
<1>13. Trimmed(graph, func', func, {} \cup {phi}) /\ {} \cup {phi} = {phi}
  BY <1>10, <1>12, TrimmedTwice
<1>14. Trimmed(graph, func', func, {phi})
  BY <1>13
<1>15. AllocaIds(func') \cap Range(allocas) = {}
  BY <1>4, <1>5, <1>14 DEF Trimmed, NoneLeft
<1>16. DOMAIN newPhis' = DOMAIN newPhis \ {k} /\ \A j \in DOMAIN newPhis' : newPhis'[j] = newPhis[j]
  BY <1>3
<1>17. DOMAIN newPhis' \subseteq DOMAIN newPhis /\ Range(newPhis') \subseteq Range(newPhis)
  BY <1>16 DEF Range
<1>18. PhisKept'
  <2>1. IsFiniteSet(DOMAIN newPhis')
    BY <1>5, <1>17, FS_Subset DEF PhisKept
  <2>2. \A j \in DOMAIN newPhis' : j[2] # 0 /\ Has(func', newPhis'[j], "phi")
    BY <1>5, <1>6, <1>14, <1>16 DEF PhisKept, Trimmed
  <2>3. \A i, j \in DOMAIN newPhis' : newPhis'[i] = newPhis'[j] => i = j
    BY <1>5, <1>16 DEF PhisKept
  <2>. QED
    BY <2>1, <2>2, <2>3 DEF PhisKept
<1>. QED
  BY <1>4, <1>14, <1>15, <1>17, <1>18, SettlingKeeps

LEMMA CompletePhisKeeps ==
  ASSUME IInv, CompletePhis
  PROVE  IInv' /\ NoMoreAllocas
<1>1. /\ stage = "simplify" /\ stage' = "collect" /\ newPhis' = Empty
      /\ func' = [b \in DOMAIN func |->
                    IF /\ func[b] # <<>> /\ func[b][1].id \in Range(newPhis)
                       /\ Len(func[b][1].inc) # PredSize(graph, b)
                    THEN Completed(b) ELSE func[b]]
      /\ Settling
  BY DEF CompletePhis, Settling, IInv, TypeOK
<1>2. /\ TypeOK /\ NoneLeft /\ Unique(func)
      /\ graph \in Graphs /\ func \in [DOMAIN graph -> Seq(Instr)]
  BY DEF IInv, TypeOK
<1>3. ASSUME NEW b \in DOMAIN graph PROVE SameInstrs(func'[b], func[b])
  <2>1. SameInstrs(func[b], func[b])
    BY <1>2 DEF SameInstrs
  <2>2. func[b] # <<>> => SameInstrs(Completed(b), func[b])
    BY <1>2, CompletedIs
  <2>3. func'[b] = func[b] \/ (func[b] # <<>> /\ func'[b] = Completed(b))
    BY <1>1, <1>2
  <2>. QED
    BY <2>1, <2>2, <2>3
<1>4. DOMAIN func' = DOMAIN graph /\ func' = [b \in DOMAIN graph |-> func'[b]]
  BY <1>1, <1>2
<1>5. Trimmed(graph, func', func, {})
  BY <1>2, <1>3, <1>4, SameInstrsTrim
<1>6. AllocaIds(func') \cap Range(allocas) = {}
  BY <1>1, <1>2, <1>5 DEF Trimmed, NoneLeft
<1>7. DOMAIN newPhis' = {} /\ Range(newPhis') = {}
  BY <1>1 DEF Empty, Range
<1>8. PhisKept'
  BY <1>7, FS_EmptySet DEF PhisKept
<1>. QED
  BY <1>1, <1>5, <1>6, <1>7, <1>8, SettlingKeeps

LEMMA UnchangedKeeps ==
  ASSUME IInv, UNCHANGED vars
  PROVE  IInv'
<1>. DEFINE same == /\ graph' = graph /\ func' = func /\ stage' = stage /\ allocas' = allocas /\ num' = num
                    /\ info' = info /\ todo' = todo /\ lookup' = lookup /\ newPhis' = newPhis
                    /\ worklist' = worklist /\ visited' = visited
<1>1. same
  BY DEF vars
<1>2. TypeOK'
  BY <1>1 DEF IInv, TypeOK, AllocaInfos, RenamePassData
<1>3. LookupAgrees' /\ Unique(func)'
  BY <1>1 DEF IInv, LookupAgrees
<1>4. PhisKept' /\ AllocasKept' /\ UsersKept' /\ AllNumbered' /\ NoneLeft'
  BY <1>1 DEF IInv, PhisKept, AllocasKept, UsersKept, AllNumbered, NoneLeft
<1>. QED
  BY <1>2, <1>3, <1>4 DEF IInv

LEMMA NextKeeps ==
  ASSUME IInv, Next
  PROVE  IInv' /\ NoMoreAllocas
BY CollectKeeps, NothingToPromoteKeeps, RemoveUnusedKeeps, AnalyzeAllocaKeeps, RewriteSingleStoreLoadKeeps,
   SingleStoreRewrittenKeeps, SingleStoreFailedKeeps, PromoteSingleBlockLoadKeeps, SingleBlockPromotedKeeps,
   PlacePhisKeeps, AllSimpleKeeps, StartRenamingKeeps, RenameBlockKeeps, ReenterBlockKeeps,
   RemoveAllocasKeeps, SimplifyPhiKeeps, CompletePhisKeeps, Zenon DEF Next

LEMMA StepKeeps == IInv /\ [Next]_vars => IInv'
BY NextKeeps, UnchangedKeeps, Zenon

\* The inductive invariant holds.
THEOREM AlwaysIInv == Spec => []IInv
BY InitHolds, StepKeeps, PTL DEF Spec

\* The pass is in one of its loops at a time: the users still to come are loads of the
\* function as it is now, the blocks still to come are blocks of it with a value for
\* each alloca, and every alloca that is looked at is in the list (run,
\* PromoteMemoryToRegister.cpp).
THEOREM AlwaysTypeOK == Spec => []TypeOK
<1>1. IInv => TypeOK
  BY DEF IInv
<1>. QED
  BY <1>1, AlwaysIInv, PTL

\* AllocaLookup and the keys of NewPhiNodes name the allocas by their place in Allocas
\* after any number of removals, each of which moves the last alloca to the place of
\* the one that goes (RemoveFromAllocasList).
THEOREM AlwaysLookupAgrees == Spec => []LookupAgrees
<1>1. IInv => LookupAgrees
  BY DEF IInv
<1>. QED
  BY <1>1, AlwaysIInv, PTL

-----------------------------------------------------------------------------
(* What is left when the pass is over.                                      *)

LEMMA DoneByNothing ==
  ASSUME Next, stage' = "done"
  PROVE  NothingToPromote
<1>1. CASE Collect \/ RemoveUnused \/ AnalyzeAlloca \/ SingleStoreRewritten \/ SingleBlockPromoted
  BY <1>1 DEF Collect, RemoveUnused, AnalyzeAlloca, SingleStoreRewritten, SingleBlockPromoted, RemoveFromAllocasList
<1>2. CASE RewriteSingleStoreLoad \/ SingleStoreFailed \/ PromoteSingleBlockLoad \/ PlacePhis
  BY <1>2 DEF RewriteSingleStoreLoad, SingleStoreFailed, PromoteSingleBlockLoad, PlacePhis
<1>3. CASE AllSimple \/ StartRenaming \/ RenameBlock \/ ReenterBlock
  BY <1>3 DEF AllSimple, StartRenaming, RenameBlock, ReenterBlock
<1>4. CASE RemoveAllocas \/ SimplifyPhi \/ CompletePhis
  BY <1>4 DEF RemoveAllocas, SimplifyPhi, CompletePhis
<1>. QED
  BY <1>1, <1>2, <1>3, <1>4, Zenon DEF Next

LEMMA NoneStaysPromotable ==
  ASSUME IInv, NothingToPromote
  PROVE  NonePromotableLeft'
<1>1. PromotablePlaces = {} /\ func' = func
  BY CollectedIs DEF IInv, NothingToPromote
<1>2. ASSUME NEW k \in DOMAIN func[Entry], func[Entry][k].op = "alloca"
      PROVE  ~Promotable(func, func[Entry][k].id)
  BY <1>1, <1>2 DEF PromotablePlaces
<1>. QED
  BY <1>1, <1>2 DEF NonePromotableLeft

\* Whichever test selects the allocas, that of the program or the one that
\* PromoteMemToReg.hpp describes, the function that the pass lets go of has none left
\* that it would select, however many rounds it takes until other promotions have freed
\* them (promoteMemoryToRegister).
THEOREM AlwaysNonePromotableLeft == Spec => []NonePromotableLeft
<1>1. Init => NonePromotableLeft
  BY DEF Init, NonePromotableLeft
<1>2. IInv /\ NonePromotableLeft /\ [Next]_vars => NonePromotableLeft'
  <2>. SUFFICES ASSUME IInv, NonePromotableLeft, [Next]_vars, stage' = "done"
                PROVE NonePromotableLeft'
    BY DEF NonePromotableLeft
  <2>1. CASE Next
    BY <2>1, DoneByNothing, NoneStaysPromotable
  <2>2. CASE UNCHANGED vars
    BY <2>2 DEF NonePromotableLeft, vars, Promotable, OnlyAccessed, IsAllocaPromotable
  <2>. QED
    BY <2>1, <2>2
<1>. QED
  BY <1>1, <1>2, AlwaysIInv, PTL DEF Spec

-----------------------------------------------------------------------------
(* The pass ends.  Every step but Collect collects no alloca that it leaves in *)
(* the function to be collected again, so the first number does not grow.   *)

LEMMA Lexicographic ==
  ASSUME NEW m1, NEW m2, NEW m3, NEW m4, NEW m5, NEW n1, NEW n2, NEW n3, NEW n4, NEW n5,
         m1 \in Nat, n1 \in Nat, m1 <= n1,
         \/ m1 < n1
         \/ m2 \in Nat /\ m2 < n2
         \/ m2 = n2 /\ m3 \in Nat /\ m3 < n3
         \/ m2 = n2 /\ m3 = n3 /\ m4 \in Nat /\ m4 < n4
         \/ m2 = n2 /\ m3 = n3 /\ m4 = n4 /\ m5 \in Nat /\ m5 < n5
  PROVE  Smaller(<<m1, m2, m3, m4, m5>>, <<n1, n2, n3, n4, n5>>)
<1>. DEFINE m == <<m1, m2, m3, m4, m5>>
            n == <<n1, n2, n3, n4, n5>>
            By(i) == m[i] \in Nat /\ m[i] < n[i] /\ \A j \in 1 .. i - 1 : m[j] = n[j]
<1>1. /\ m[1] = m1 /\ m[2] = m2 /\ m[3] = m3 /\ m[4] = m4 /\ m[5] = m5
      /\ n[1] = n1 /\ n[2] = n2 /\ n[3] = n3 /\ n[4] = n4 /\ n[5] = n5
  OBVIOUS
<1>. HIDE DEF m, n
<1>2. m1 < n1 => By(1)
  BY <1>1
<1>3. m1 = n1 /\ m2 \in Nat /\ m2 < n2 => By(2)
  BY <1>1
<1>4. m1 = n1 /\ m2 = n2 /\ m3 \in Nat /\ m3 < n3 => By(3)
  BY <1>1
<1>5. m1 = n1 /\ m2 = n2 /\ m3 = n3 /\ m4 \in Nat /\ m4 < n4 => By(4)
  BY <1>1
<1>6. m1 = n1 /\ m2 = n2 /\ m3 = n3 /\ m4 = n4 /\ m5 \in Nat /\ m5 < n5 => By(5)
  BY <1>1
<1>7. m1 < n1 \/ m1 = n1
  OBVIOUS
<1>. HIDE DEF By
<1>8. By(1) \/ By(2) \/ By(3) \/ By(4) \/ By(5)
  BY <1>2, <1>3, <1>4, <1>5, <1>6, <1>7
<1>9. \E i \in 1 .. 5 : By(i)
  BY <1>8
<1>. QED
  BY <1>9 DEF Smaller, By, m, n

\* The numbers of Remaining, of the state that is given.
RankOf(s) ==
  CASE s \in {"analyze", "singleStore", "singleBlock"} -> 4 [] s = "rename" -> 3
    [] s = "simplify" -> 2 [] s = "collect" -> 1 [] s = "done" -> 0
PlacesLeft(s, as, n, D, v) == IF RankOf(s) = 4 THEN Len(as) + 1 - n ELSE Cardinality(D \ v)
PhasesLeft(s, w) ==
  CASE s = "analyze" -> 3 [] s = "singleStore" -> 2 [] s = "singleBlock" -> 1 [] OTHER -> Len(w)
UsersLeft(s, t, D) == IF RankOf(s) = 4 THEN Cardinality(t) ELSE Cardinality(D)

LEMMA RankOfIs ==
  /\ \A s \in Looping : RankOf(s) = 4
  /\ RankOf("rename") = 3 /\ RankOf("simplify") = 2 /\ RankOf("collect") = 1 /\ RankOf("done") = 0
BY DEF RankOf, Looping

LEMMA RemainingIs ==
  /\ Remaining = <<Cardinality(NotCollected), RankOf(stage), PlacesLeft(stage, allocas, num, DOMAIN graph, visited),
                   PhasesLeft(stage, worklist), UsersLeft(stage, todo, DOMAIN newPhis)>>
  /\ Remaining' = <<Cardinality(NotCollected'), RankOf(stage'),
                    PlacesLeft(stage', allocas', num', DOMAIN graph', visited'),
                    PhasesLeft(stage', worklist'), UsersLeft(stage', todo', DOMAIN newPhis')>>
BY DEF Remaining, Rank, RankOf, PlacesLeft, PhasesLeft, UsersLeft

\* What a step makes smaller, whatever is left to be collected.
Progress ==
  LET r == RankOf(stage)
      s == RankOf(stage')
      p == PlacesLeft(stage, allocas, num, DOMAIN graph, visited)
      q == PlacesLeft(stage', allocas', num', DOMAIN graph', visited')
      f == PhasesLeft(stage, worklist)
      g == PhasesLeft(stage', worklist')
      u == UsersLeft(stage, todo, DOMAIN newPhis)
      v == UsersLeft(stage', todo', DOMAIN newPhis')
  IN \/ s \in Nat /\ s < r
     \/ s = r /\ q \in Nat /\ q < p
     \/ s = r /\ q = p /\ g \in Nat /\ g < f
     \/ s = r /\ q = p /\ g = f /\ v \in Nat /\ v < u

LEMMA NotCollectedIs ==
  ASSUME TypeOK
  PROVE  /\ NotCollected = AllocaIds(func) \ Range(allocas)
         /\ IsFiniteSet(NotCollected) /\ Cardinality(NotCollected) \in Nat
<1>1. NotCollected = AllocaIds(func) \ Range(allocas)
  BY DEF NotCollected, AllocaIds
<1>2. IsFiniteSet(AllocaIds(func))
  BY AllocaIdsAreFinite DEF TypeOK
<1>3. IsFiniteSet(NotCollected)
  BY <1>1, <1>2, FS_Subset
<1>. QED
  BY <1>1, <1>3, FS_CardinalityType

\* An alloca that is in the function and no more in the list would be collected again.
NoneReturns == AllocaIds(func') \cap Range(allocas) \subseteq Range(allocas')

LEMMA ProgressIsSmaller ==
  ASSUME TypeOK, NoMoreAllocas, NoneReturns, Progress
  PROVE  Smaller(Remaining', Remaining)
<1>1. NotCollected' = AllocaIds(func') \ Range(allocas')
  BY DEF NotCollected, AllocaIds
<1>2. NotCollected' \subseteq NotCollected
  BY <1>1, NotCollectedIs DEF NoMoreAllocas, NoneReturns
<1>. DEFINE m == Cardinality(NotCollected')
            n == Cardinality(NotCollected)
            C == NotCollected
            D == NotCollected'
<1>3. IsFiniteSet(C) /\ n \in Nat /\ D \subseteq C
  BY <1>2, NotCollectedIs
<1>4. IsFiniteSet(D) /\ Cardinality(D) <= Cardinality(C)
  <2>. HIDE DEF C, D
  <2>. QED
    BY <1>3, FS_Subset
<1>5. m \in Nat /\ m <= n
  BY <1>4, FS_CardinalityType
<1>. HIDE DEF m, n
<1>. DEFINE r == RankOf(stage)
            s == RankOf(stage')
            p == PlacesLeft(stage, allocas, num, DOMAIN graph, visited)
            q == PlacesLeft(stage', allocas', num', DOMAIN graph', visited')
            f == PhasesLeft(stage, worklist)
            g == PhasesLeft(stage', worklist')
            u == UsersLeft(stage, todo, DOMAIN newPhis)
            v == UsersLeft(stage', todo', DOMAIN newPhis')
<1>6. \/ s \in Nat /\ s < r
      \/ s = r /\ q \in Nat /\ q < p
      \/ s = r /\ q = p /\ g \in Nat /\ g < f
      \/ s = r /\ q = p /\ g = f /\ v \in Nat /\ v < u
  BY DEF Progress
<1>7. Remaining = <<n, r, p, f, u>> /\ Remaining' = <<m, s, q, g, v>>
  BY RemainingIs DEF m, n
<1>. HIDE DEF r, s, p, q, f, g, u, v
<1>8. Smaller(<<m, s, q, g, v>>, <<n, r, p, f, u>>)
  BY <1>3, <1>5, <1>6, Lexicographic DEF n
<1>. QED
  BY <1>7, <1>8

\* A round takes an alloca at least.
LEMMA CollectSmaller ==
  ASSUME IInv, Collect
  PROVE  Smaller(Remaining', Remaining)
<1>1. TypeOK /\ Unique(func) /\ NoneLeft /\ stage = "collect" /\ Collected # <<>>
      /\ func' = func /\ allocas' = Collected
  BY DEF IInv, Collect
<1>2. NotCollected = AllocaIds(func)
  BY <1>1, NotCollectedIs DEF NoneLeft
<1>3. NotCollected' = AllocaIds(func) \ Range(Collected)
  BY <1>1 DEF NotCollected, AllocaIds
<1>. DEFINE w == Collected
            C == NotCollected
            D == NotCollected'
<1>4. w \in Seq(Nat) /\ w # <<>> /\ \A i \in DOMAIN w : w[i] \in AllocaIds(func)
  BY <1>1, CollectedIs
<1>5. D = C \ Range(w) /\ \A i \in DOMAIN w : w[i] \in C
  BY <1>2, <1>3, <1>4
<1>6. IsFiniteSet(C) /\ Cardinality(C) \in Nat
  BY <1>1, NotCollectedIs
<1>. HIDE DEF w, C, D
<1>7. 1 \in DOMAIN w
  BY <1>4
<1>8. w[1] \in C /\ w[1] \notin D /\ D \subseteq C
  BY <1>5, <1>7 DEF Range
<1>9. IsFiniteSet(D) /\ Cardinality(D) <= Cardinality(C) /\ Cardinality(D) # Cardinality(C)
  BY <1>6, <1>8, FS_Subset
<1>10. Cardinality(D) \in Nat /\ Cardinality(D) < Cardinality(C)
  BY <1>6, <1>9, FS_CardinalityType
<1>. QED
  BY <1>6, <1>10, RemainingIs, Lexicographic DEF C, D

LEMMA RemovalSmaller ==
  ASSUME IInv, NEW ids, Removal(ids)
  PROVE  Smaller(Remaining', Remaining)
<1>1. TypeOK /\ Unique(func) /\ num \in DOMAIN allocas /\ stage \in Looping
      /\ func' = Erase(func, ids) /\ AI \in ids
  BY DEF IInv, Removal
<1>2. allocas' = WithoutCurrent /\ num' = num /\ stage' = "analyze"
  BY DEF Removal, RemoveFromAllocasList, NextIndexAfterRemoval
<1>3. allocas \in Seq(Nat) /\ Len(allocas) \in Nat /\ DOMAIN allocas = 1 .. Len(allocas) /\ num \in Nat
  <2>1. allocas \in Seq(Nat) /\ Len(allocas) \in Nat /\ DOMAIN allocas = 1 .. Len(allocas)
    BY <1>1, AllocasAre, Zenon
  <2>. QED
    BY <1>1, <2>1
<1>4. Len(allocas') = Len(allocas) - 1 /\ Range(allocas) \subseteq Range(allocas') \cup {AI}
  BY <1>1, <1>2, <1>3, WithoutCurrentIs, Zenon
<1>5. AllocaIds(func') \subseteq AllocaIds(func) \ ids
  BY <1>1, EraseTrims DEF Trimmed, TypeOK
<1>6. NoMoreAllocas /\ NoneReturns
  BY <1>1, <1>4, <1>5 DEF NoMoreAllocas, NoneReturns
<1>7. RankOf(stage) = 4 /\ RankOf(stage') = 4
  BY <1>1, <1>2, RankOfIs DEF Looping
<1>8. num <= Len(allocas)
  BY <1>1, <1>3
<1>9. /\ PlacesLeft(stage', allocas', num', DOMAIN graph', visited') = Len(allocas) - num
      /\ PlacesLeft(stage, allocas, num, DOMAIN graph, visited) = Len(allocas) + 1 - num
      /\ Len(allocas) - num \in Nat /\ Len(allocas) - num < Len(allocas) + 1 - num
  BY <1>2, <1>3, <1>4, <1>7, <1>8 DEF PlacesLeft
<1>10. Progress
  BY <1>7, <1>9 DEF Progress
<1>. QED
  BY <1>1, <1>6, <1>10, ProgressIsSmaller

\* Steps that leave Allocas alone.
LEMMA SameListSmaller ==
  ASSUME IInv, Next, allocas' = allocas, Progress
  PROVE  Smaller(Remaining', Remaining)
<1>1. TypeOK /\ NoMoreAllocas
  BY NextKeeps DEF IInv
<1>2. NoneReturns
  BY DEF NoneReturns
<1>. QED
  BY <1>1, <1>2, ProgressIsSmaller

LEMMA FewerLeft ==
  ASSUME NEW S, IsFiniteSet(S), NEW x \in S, NEW T, T \subseteq S, x \notin T
  PROVE  Cardinality(T) \in Nat /\ Cardinality(T) < Cardinality(S)
<1>1. IsFiniteSet(T) /\ Cardinality(T) <= Cardinality(S) /\ Cardinality(T) # Cardinality(S)
  BY FS_Subset
<1>. QED
  BY <1>1, FS_CardinalityType

LEMMA UsersAreFinite ==
  ASSUME IInv
  PROVE  IsFiniteSet(todo)
<1>1. todo \subseteq Ids(func) /\ func \in [DOMAIN graph -> Seq(Instr)] /\ graph \in Graphs
  BY DEF IInv, TypeOK
<1>2. IsFiniteSet(Ids(func))
  BY <1>1, GraphIs, IdsAreFinite
<1>. QED
  BY <1>1, <1>2, FS_Subset

\* The steps that end one of the loops or stages.
LEMMA StageSmaller ==
  ASSUME IInv, Next, NothingToPromote \/ AllSimple \/ StartRenaming \/ RemoveAllocas \/ CompletePhis
  PROVE  Smaller(Remaining', Remaining)
<1>1. allocas' = allocas
  BY DEF NothingToPromote, AllSimple, StartRenaming, RemoveAllocas, CompletePhis
<1>2. \/ stage = "collect" /\ stage' = "done"
      \/ stage = "analyze" /\ stage' = "collect"
      \/ stage = "analyze" /\ stage' = "rename"
      \/ stage = "rename" /\ stage' = "simplify"
      \/ stage = "simplify" /\ stage' = "collect"
  BY DEF NothingToPromote, AllSimple, StartRenaming, RemoveAllocas, CompletePhis
<1>3. RankOf(stage') \in Nat /\ RankOf(stage') < RankOf(stage)
  BY <1>2, RankOfIs DEF Looping
<1>4. Progress
  BY <1>3, Zenon DEF Progress
<1>. QED
  BY <1>1, <1>4, SameListSmaller

\* The steps of the loop over the allocas that remove none.
LEMMA LoopSmaller ==
  ASSUME IInv, Next,
         \/ AnalyzeAlloca \/ RewriteSingleStoreLoad \/ SingleStoreFailed
         \/ PromoteSingleBlockLoad \/ PlacePhis
  PROVE  Smaller(Remaining', Remaining)
<1>1. allocas' = allocas /\ stage \in Looping /\ stage' \in Looping
  BY DEF AnalyzeAlloca, RewriteSingleStoreLoad, SingleStoreFailed, PromoteSingleBlockLoad, PlacePhis, Looping
<1>2. RankOf(stage) = 4 /\ RankOf(stage') = 4
  BY <1>1, RankOfIs
<1>3. CASE AnalyzeAlloca \/ SingleStoreFailed
  <2>1. /\ num' = num
        /\ \/ stage = "analyze" /\ stage' = "singleStore"
           \/ stage = "analyze" /\ stage' = "singleBlock"
           \/ stage = "singleStore" /\ stage' = "singleBlock"
    BY <1>3 DEF AnalyzeAlloca, SingleStoreFailed
  <2>2. /\ PhasesLeft(stage', worklist') \in Nat
        /\ PhasesLeft(stage', worklist') < PhasesLeft(stage, worklist)
    BY <2>1 DEF PhasesLeft
  <2>3. PlacesLeft(stage', allocas', num', DOMAIN graph', visited')
        = PlacesLeft(stage, allocas, num, DOMAIN graph, visited)
    BY <1>1, <1>2, <2>1 DEF PlacesLeft
  <2>4. Progress
    BY <1>2, <2>2, <2>3, Zenon DEF Progress
  <2>. QED
    BY <1>1, <2>4, SameListSmaller
<1>4. CASE RewriteSingleStoreLoad \/ PromoteSingleBlockLoad
  <2>1. num' = num /\ stage' = stage /\ \E load \in todo : todo' = todo \ {load}
    BY <1>4 DEF RewriteSingleStoreLoad, PromoteSingleBlockLoad
  <2>2. Cardinality(todo') \in Nat /\ Cardinality(todo') < Cardinality(todo)
    <3>1. PICK load \in todo : todo' = todo \ {load}
      BY <2>1
    <3>2. todo' \subseteq todo /\ load \notin todo'
      BY <3>1
    <3>. QED
      BY <3>2, UsersAreFinite, FewerLeft
  <2>3. /\ PlacesLeft(stage', allocas', num', DOMAIN graph', visited')
           = PlacesLeft(stage, allocas, num, DOMAIN graph, visited)
        /\ PhasesLeft(stage', worklist') = PhasesLeft(stage, worklist)
    BY <1>1, <1>2, <2>1 DEF PlacesLeft, PhasesLeft, Looping
  <2>4. UsersLeft(stage', todo', DOMAIN newPhis') = Cardinality(todo')
        /\ UsersLeft(stage, todo, DOMAIN newPhis) = Cardinality(todo)
    BY <1>2 DEF UsersLeft
  <2>5. Progress
    BY <1>2, <2>2, <2>3, <2>4 DEF Progress
  <2>. QED
    BY <1>1, <2>5, SameListSmaller
<1>5. CASE PlacePhis
  <2>1. num' = num + 1 /\ num \in DOMAIN allocas
    BY <1>5 DEF PlacePhis, IInv, TypeOK
  <2>2. Len(allocas) \in Nat /\ DOMAIN allocas = 1 .. Len(allocas)
    BY AllocasAre DEF IInv
  <2>3. /\ PlacesLeft(stage', allocas', num', DOMAIN graph', visited') = Len(allocas) - num
        /\ PlacesLeft(stage, allocas, num, DOMAIN graph, visited) = Len(allocas) + 1 - num
        /\ Len(allocas) - num \in Nat /\ Len(allocas) - num < Len(allocas) + 1 - num
    BY <1>1, <1>2, <2>1, <2>2 DEF PlacesLeft
  <2>4. Progress
    BY <1>2, <2>3 DEF Progress
  <2>. QED
    BY <1>1, <2>4, SameListSmaller
<1>. QED
  BY <1>3, <1>4, <1>5

\* The steps of the walk, and the loop over its phis.
LEMMA WalkSmaller ==
  ASSUME IInv, Next, RenameBlock \/ ReenterBlock \/ SimplifyPhi
  PROVE  Smaller(Remaining', Remaining)
<1>1. allocas' = allocas /\ stage' = stage /\ stage \in {"rename", "simplify"} /\ graph' = graph
  BY DEF RenameBlock, ReenterBlock, SimplifyPhi
<1>2. RankOf(stage') = RankOf(stage) /\ RankOf(stage) # 4
  BY <1>1, RankOfIs
<1>3. /\ PlacesLeft(stage', allocas', num', DOMAIN graph', visited') = Cardinality(DOMAIN graph \ visited')
      /\ PlacesLeft(stage, allocas, num, DOMAIN graph, visited) = Cardinality(DOMAIN graph \ visited)
      /\ PhasesLeft(stage', worklist') = Len(worklist') /\ PhasesLeft(stage, worklist) = Len(worklist)
      /\ UsersLeft(stage', todo', DOMAIN newPhis') = Cardinality(DOMAIN newPhis')
      /\ UsersLeft(stage, todo, DOMAIN newPhis) = Cardinality(DOMAIN newPhis)
  BY <1>1, <1>2 DEF PlacesLeft, PhasesLeft, UsersLeft
<1>4. TypeOK /\ PhisKept
  BY DEF IInv
<1>5. CASE RenameBlock
  <2>1. worklist # <<>> /\ Last(worklist).bb \notin visited /\ visited' = visited \cup {Last(worklist).bb}
    BY <1>5 DEF RenameBlock, VisitedWith
  <2>2. Last(worklist).bb \in DOMAIN graph
    BY <1>4, <2>1, RpdIs
  <2>3. IsFiniteSet(DOMAIN graph \ visited)
    <3>1. DOMAIN graph = 1 .. Len(graph) /\ Len(graph) \in Nat
      BY <1>4, GraphIs DEF TypeOK
    <3>2. IsFiniteSet(DOMAIN graph)
      BY <3>1, FS_Interval
    <3>. QED
      BY <3>2, FS_Subset
  <2>. DEFINE S == DOMAIN graph \ visited
              T == DOMAIN graph \ visited'
              x == Last(worklist).bb
  <2>4. x \in S /\ x \notin T /\ T \subseteq S
    BY <2>1, <2>2
  <2>. HIDE DEF S, T, x
  <2>5. Cardinality(T) \in Nat /\ Cardinality(T) < Cardinality(S)
    BY <2>3, <2>4, FewerLeft DEF S
  <2>6. Progress
    BY <1>2, <1>3, <2>5 DEF Progress, S, T
  <2>. QED
    BY <1>1, <2>6, SameListSmaller
<1>6. CASE ReenterBlock
  <2>1. worklist # <<>> /\ worklist' = Front(worklist) /\ visited' = visited
    BY <1>6 DEF ReenterBlock
  <2>2. Len(worklist') \in Nat /\ Len(worklist') < Len(worklist)
    <3>1. Len(worklist) \in Nat /\ Len(worklist') = Len(worklist) - 1 /\ Front(worklist) \in Seq(RenamePassData)
      BY <1>4, <2>1, RpdIs
    <3>2. Len(worklist') \in Nat
      BY <2>1, <3>1
    <3>. QED
      BY <3>1, <3>2
  <2>3. Progress
    BY <1>2, <1>3, <2>1, <2>2 DEF Progress
  <2>. QED
    BY <1>1, <2>3, SameListSmaller
<1>7. CASE SimplifyPhi
  <2>1. worklist' = worklist /\ visited' = visited /\ \E k \in DOMAIN newPhis : DOMAIN newPhis' = DOMAIN newPhis \ {k}
    BY <1>7 DEF SimplifyPhi
  <2>2. Cardinality(DOMAIN newPhis') \in Nat /\ Cardinality(DOMAIN newPhis') < Cardinality(DOMAIN newPhis)
    <3>1. PICK k \in DOMAIN newPhis : DOMAIN newPhis' = DOMAIN newPhis \ {k}
      BY <2>1
    <3>2. DOMAIN newPhis' \subseteq DOMAIN newPhis /\ k \notin DOMAIN newPhis' /\ IsFiniteSet(DOMAIN newPhis)
      BY <1>4, <3>1 DEF PhisKept
    <3>. QED
      BY <3>2, FewerLeft
  <2>3. Progress
    BY <1>2, <1>3, <2>1, <2>2 DEF Progress
  <2>. QED
    BY <1>1, <2>3, SameListSmaller
<1>. QED
  BY <1>5, <1>6, <1>7

LEMMA NextSmaller ==
  ASSUME IInv, Next
  PROVE  Smaller(Remaining', Remaining)
<1>1. CASE Collect
  BY <1>1, CollectSmaller
<1>2. CASE RemoveUnused \/ SingleStoreRewritten \/ SingleBlockPromoted
  <2>1. \E ids : Removal(ids)
    BY <1>2, RemoveUnusedIs, SingleStoreRewrittenIs, SingleBlockPromotedIs
  <2>. QED
    BY <2>1, RemovalSmaller
<1>3. CASE NothingToPromote \/ AllSimple \/ StartRenaming \/ RemoveAllocas \/ CompletePhis
  BY <1>3, StageSmaller
<1>4. CASE AnalyzeAlloca \/ RewriteSingleStoreLoad \/ SingleStoreFailed \/ PromoteSingleBlockLoad \/ PlacePhis
  BY <1>4, LoopSmaller
<1>5. CASE RenameBlock \/ ReenterBlock \/ SimplifyPhi
  BY <1>5, WalkSmaller
<1>. QED
  BY <1>1, <1>2, <1>3, <1>4, <1>5, Zenon DEF Next

\* The while (true) of promoteMemoryToRegister ends, and each loop in its body: every
\* step makes the first number smaller that it changes, of the allocas never yet
\* promoted, the stage, the allocas or the blocks that are left, the attempts or the
\* entries of RenamePassWorkList that are left, and the loads or the phis that are left.
THEOREM AlwaysPassEnds == Spec => PassEnds
<1>1. IInv /\ [Next]_vars => [Smaller(Remaining', Remaining)]_vars
  BY NextSmaller
<1>. QED
  BY <1>1, AlwaysIInv, PTL DEF Spec, PassEnds

=============================================================================
