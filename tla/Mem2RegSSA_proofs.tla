------------------------- MODULE Mem2RegSSA_proofs -------------------------
(***************************************************************************)
(* That PromoteMemToReg leaves a function that verifyModule accepts, for   *)
(* every graph and every function that it accepts, proved with TLAPS.      *)
(* First what closures, dominators, live blocks and the iterated dominance *)
(* frontier are; then what rewriting, erasing and new phis leave of the    *)
(* uses that are defined, the entries that phis have and the accesses to   *)
(* an alloca; the inductive invariant JInv; one lemma XStays for each      *)
(* action X of Mem2Reg.tla; and the theorem, at the end.                   *)
(***************************************************************************)
EXTENDS Mem2Reg_proofs

-----------------------------------------------------------------------------
(* The dominators of a graph: what a closure is.                           *)

\* Sets of blocks that grow by what M gives until nothing new comes.
Monotone(U, M) ==
  /\ M \in [SUBSET U -> SUBSET U]
  /\ \A C, D \in SUBSET U : C \subseteq D => M[C] \subseteq M[D]
Grows(f, U, M) == f = [C \in SUBSET U |-> IF M[C] \ C = {} THEN C ELSE f[C \cup (M[C] \ C)]]
Closed(U, M, C) == {S \in SUBSET U : C \subseteq S /\ M[S] \subseteq S}
LeastClosed(U, M, C) == {u \in U : \A S \in Closed(U, M, C) : u \in S}

LEMMA LeastClosedIs ==
  ASSUME NEW U, NEW M, Monotone(U, M), NEW C \in SUBSET U
  PROVE  /\ LeastClosed(U, M, C) \in Closed(U, M, C)
         /\ \A S \in Closed(U, M, C) : LeastClosed(U, M, C) \subseteq S
         /\ M[C] \subseteq C => LeastClosed(U, M, C) = C
         /\ LeastClosed(U, M, C) = LeastClosed(U, M, C \cup (M[C] \ C))
<1>. DEFINE L == LeastClosed(U, M, C)
<1>1. L \in SUBSET U /\ C \subseteq L
  BY DEF LeastClosed, Closed
<1>2. ASSUME NEW S \in Closed(U, M, C) PROVE L \subseteq S /\ M[L] \subseteq S
  <2>1. L \subseteq S /\ S \in SUBSET U /\ M[S] \subseteq S
    BY DEF LeastClosed, Closed
  <2>2. M[L] \subseteq M[S]
    BY <1>1, <2>1 DEF Monotone
  <2>. QED
    BY <2>1, <2>2
<1>3. M[L] \in SUBSET U
  BY <1>1 DEF Monotone
<1>4. M[L] \subseteq L
  BY <1>2, <1>3 DEF LeastClosed
<1>5. L \in Closed(U, M, C)
  BY <1>1, <1>4 DEF Closed
<1>6. M[C] \subseteq C => L = C
  <2>1. M[C] \subseteq C => C \in Closed(U, M, C)
    BY DEF Closed
  <2>. QED
    BY <1>1, <1>2, <2>1
<1>7. Closed(U, M, C) = Closed(U, M, C \cup (M[C] \ C))
  <2>1. ASSUME NEW S \in Closed(U, M, C) PROVE M[C] \subseteq S
    BY DEF Closed, Monotone
  <2>. QED
    BY <2>1 DEF Closed
<1>8. L = LeastClosed(U, M, C \cup (M[C] \ C))
  BY <1>7 DEF LeastClosed
<1>. QED
  BY <1>2, <1>5, <1>6, <1>8

LEMMA GrowsExists ==
  ASSUME NEW U, NEW M, Monotone(U, M)
  PROVE  \E f : Grows(f, U, M)
<1>. DEFINE f == [C \in SUBSET U |-> LeastClosed(U, M, C)]
<1>1. ASSUME NEW C \in SUBSET U
      PROVE  f[C] = IF M[C] \ C = {} THEN C ELSE f[C \cup (M[C] \ C)]
  <2>1. M[C] \in SUBSET U /\ C \cup (M[C] \ C) \in SUBSET U
    BY DEF Monotone
  <2>2. CASE M[C] \ C = {}
    BY <2>2, LeastClosedIs
  <2>3. CASE M[C] \ C # {}
    BY <2>1, <2>3, LeastClosedIs
  <2>. QED
    BY <2>2, <2>3
<1>2. f = [C \in SUBSET U |-> IF M[C] \ C = {} THEN C ELSE f[C \cup (M[C] \ C)]]
  BY <1>1
<1>. HIDE DEF f
<1>. QED
  BY <1>2 DEF Grows

\* Whatever grows so ends with the least set that has nothing to add.
LEMMA GrownIs ==
  ASSUME NEW U, IsFiniteSet(U), NEW M, Monotone(U, M), NEW f, Grows(f, U, M), NEW B \in SUBSET U
  PROVE  f[B] = LeastClosed(U, M, B)
<1>. DEFINE T == {n \in Nat : \E C \in SUBSET U : f[C] # LeastClosed(U, M, C) /\ n = Cardinality(U \ C)}
<1>. SUFFICES ASSUME f[B] # LeastClosed(U, M, B) PROVE FALSE
  OBVIOUS
<1>1. \A C \in SUBSET U : IsFiniteSet(U \ C) /\ Cardinality(U \ C) \in Nat
  BY FS_Subset, FS_CardinalityType
<1>2. T # {} /\ T \subseteq Nat
  BY <1>1
<1>. HIDE DEF T
<1>3. PICK m \in T : \A j \in T : ~(<<j, m>> \in OpToRel(<, Nat))
  BY <1>2, WFMin, NatLessThanWellFounded, Zenon
<1>4. \A j \in T : ~(j < m)
  BY <1>2, <1>3 DEF OpToRel
<1>5. PICK C \in SUBSET U : f[C] # LeastClosed(U, M, C) /\ m = Cardinality(U \ C)
  BY DEF T
<1>. DEFINE E == C \cup (M[C] \ C)
<1>6. f[C] = IF M[C] \ C = {} THEN C ELSE f[E]
  BY DEF Grows
<1>7. M[C] \ C # {}
  BY <1>5, <1>6, LeastClosedIs
<1>8. E \in SUBSET U
  BY DEF Monotone
<1>9. Cardinality(U \ E) < Cardinality(U \ C)
  <2>1. U \ E \in SUBSET (U \ C) /\ U \ E # U \ C
    BY <1>7, <1>8
  <2>. HIDE DEF E
  <2>2. Cardinality(U \ E) <= Cardinality(U \ C) /\ (Cardinality(U \ C) = Cardinality(U \ E) => U \ C = U \ E)
    BY <1>1, <2>1, FS_Subset
  <2>. QED
    BY <1>1, <1>8, <2>1, <2>2
<1>10. f[E] = LeastClosed(U, M, E)
  <2>. HIDE DEF E
  <2>. QED
    BY <1>1, <1>4, <1>5, <1>8, <1>9 DEF T
<1>11. LeastClosed(U, M, E) = LeastClosed(U, M, C)
  BY LeastClosedIs
<1>. QED
  BY <1>5, <1>6, <1>7, <1>10, <1>11

LEMMA SuccsAre ==
  ASSUME NEW g \in Graphs, NEW b \in DOMAIN g
  PROVE  /\ Succs(g, b) \subseteq DOMAIN g /\ Entry \notin Succs(g, b)
         /\ \A p : p \in Preds(g, b) <=> p \in DOMAIN g /\ b \in Succs(g, p)
<1>1. g \in Seq(Seq(Nat)) /\ \A k \in DOMAIN g[b] : g[b][k] \in DOMAIN g \ {Entry}
  BY MemIRAssumption
<1>2. g[b] \in Seq(Nat)
  BY <1>1, GraphIs
<1>3. Succs(g, b) = {g[b][k] : k \in DOMAIN g[b]}
  BY <1>2 DEF Succs, ToSet
<1>. QED
  BY <1>1, <1>3 DEF Preds

LEMMA BlocksAreFinite ==
  ASSUME NEW g \in Graphs
  PROVE  IsFiniteSet(DOMAIN g) /\ Entry \in DOMAIN g /\ DOMAIN g \subseteq Nat \ {0}
<1>1. Len(g) \in Nat /\ DOMAIN g = 1 .. Len(g) /\ Entry \in DOMAIN g
  BY GraphIs
<1>2. IsFiniteSet(1 .. Len(g))
  BY <1>1, FS_Interval
<1>. QED
  BY <1>1, <1>2

\* What the blocks of C branch to, without the blocks of cut.
Onward(g, cut) == [C \in SUBSET DOMAIN g |-> (UNION {Succs(g, b) : b \in C}) \ cut]
\* A set with the blocks of B that no edge leaves, but to cut.
Keeps(g, B, cut, S) == S \in SUBSET DOMAIN g /\ B \subseteq S /\ \A b \in S : Succs(g, b) \subseteq S \cup cut

LEMMA OnwardIs ==
  ASSUME NEW g \in Graphs, NEW cut
  PROVE  /\ Monotone(DOMAIN g, Onward(g, cut))
         /\ \A B \in SUBSET DOMAIN g : \A S : S \in Closed(DOMAIN g, Onward(g, cut), B) <=> Keeps(g, B, cut, S)
<1>. DEFINE M == Onward(g, cut)
<1>1. ASSUME NEW C \in SUBSET DOMAIN g
      PROVE  /\ M[C] \in SUBSET DOMAIN g
             /\ \A s : s \in M[C] <=> s \notin cut /\ \E b \in C : s \in Succs(g, b)
  BY SuccsAre DEF Onward
<1>2. M = [C \in SUBSET DOMAIN g |-> M[C]]
  BY DEF Onward
<1>. HIDE DEF M
<1>3. M \in [SUBSET DOMAIN g -> SUBSET DOMAIN g]
  BY <1>1, <1>2
<1>4. \A C, D \in SUBSET DOMAIN g : C \subseteq D => M[C] \subseteq M[D]
  BY <1>1
<1>5. ASSUME NEW B \in SUBSET DOMAIN g, NEW S
      PROVE  S \in Closed(DOMAIN g, M, B) <=> Keeps(g, B, cut, S)
  <2>1. ASSUME S \in SUBSET DOMAIN g
        PROVE  M[S] \subseteq S <=> \A b \in S : Succs(g, b) \subseteq S \cup cut
    BY <1>1, <2>1
  <2>. QED
    BY <2>1 DEF Closed, Keeps
<1>. QED
  BY <1>3, <1>4, <1>5 DEF M, Monotone

Closes(f, g, cut) ==
  f = [C \in SUBSET DOMAIN g |->
         LET more == (UNION {Succs(g, b) : b \in C}) \ (C \cup cut)
         IN IF more = {} THEN C ELSE f[C \cup more]]

LEMMA ClosesGrows ==
  ASSUME NEW g, NEW cut, NEW f
  PROVE  Closes(f, g, cut) <=> Grows(f, DOMAIN g, Onward(g, cut))
<1>. DEFINE M == Onward(g, cut)
            more(C) == (UNION {Succs(g, b) : b \in C}) \ (C \cup cut)
<1>1. \A C \in SUBSET DOMAIN g : M[C] \ C = more(C)
  BY DEF Onward
<1>. HIDE DEF M, more
<1>2. [C \in SUBSET DOMAIN g |-> IF more(C) = {} THEN C ELSE f[C \cup more(C)]]
      = [C \in SUBSET DOMAIN g |-> IF M[C] \ C = {} THEN C ELSE f[C \cup (M[C] \ C)]]
  BY <1>1
<1>3. Closes(f, g, cut) <=> f = [C \in SUBSET DOMAIN g |-> IF more(C) = {} THEN C ELSE f[C \cup more(C)]]
  BY DEF Closes, more
<1>. QED
  BY <1>2, <1>3 DEF Grows, M

LEMMA ClosureIs ==
  ASSUME NEW g \in Graphs, NEW B \in SUBSET DOMAIN g, NEW cut
  PROVE  /\ Keeps(g, B, cut, Closure(g, B, cut))
         /\ \A S : Keeps(g, B, cut, S) => Closure(g, B, cut) \subseteq S
<1>. DEFINE f == CHOOSE f : Closes(f, g, cut)
            M == Onward(g, cut)
<1>1. Closure(g, B, cut) = f[B]
  BY Zenon DEF Closure, Closes
<1>2. Monotone(DOMAIN g, M) /\ IsFiniteSet(DOMAIN g)
  BY OnwardIs, BlocksAreFinite
<1>3. Closes(f, g, cut)
  <2>1. PICK h : Grows(h, DOMAIN g, M)
    BY <1>2, GrowsExists
  <2>2. Closes(h, g, cut)
    BY <2>1, ClosesGrows
  <2>. QED
    BY <2>2, Zenon
<1>. HIDE DEF f
<1>4. f[B] = LeastClosed(DOMAIN g, M, B)
  BY <1>2, <1>3, ClosesGrows, GrownIs
<1>5. /\ f[B] \in Closed(DOMAIN g, M, B)
      /\ \A S \in Closed(DOMAIN g, M, B) : f[B] \subseteq S
  <2>1. LeastClosed(DOMAIN g, M, B) \in Closed(DOMAIN g, M, B)
    BY <1>2, LeastClosedIs
  <2>2. \A S \in Closed(DOMAIN g, M, B) : LeastClosed(DOMAIN g, M, B) \subseteq S
    BY <1>2, LeastClosedIs
  <2>. QED
    BY <1>4, <2>1, <2>2
<1>. QED
  BY <1>1, <1>5, OnwardIs

\* The blocks that can be reached without d.
Without(g, d) == Closure(g, {Entry}, {d})

LEMMA WithoutIs ==
  ASSUME NEW g \in Graphs, NEW d
  PROVE  /\ Without(g, d) \in SUBSET DOMAIN g /\ Entry \in Without(g, d)
         /\ \A b \in Without(g, d) : \A s \in Succs(g, b) : s \in Without(g, d) \/ s = d
         /\ \A S \in SUBSET DOMAIN g :
              Entry \in S /\ (\A b \in S : \A s \in Succs(g, b) : s \in S \/ s = d) => Without(g, d) \subseteq S
<1>1. {Entry} \in SUBSET DOMAIN g
  BY BlocksAreFinite
<1>. QED
  BY <1>1, ClosureIs DEF Without, Keeps

LEMMA ReachableIs ==
  ASSUME NEW g \in Graphs
  PROVE  /\ Reachable(g) \in SUBSET DOMAIN g /\ Entry \in Reachable(g)
         /\ \A b \in Reachable(g) : \A s \in Succs(g, b) : s \in Reachable(g)
         /\ \A S \in SUBSET DOMAIN g :
              Entry \in S /\ (\A b \in S : \A s \in Succs(g, b) : s \in S) => Reachable(g) \subseteq S
<1>1. {Entry} \in SUBSET DOMAIN g
  BY BlocksAreFinite
<1>. QED
  BY <1>1, ClosureIs DEF Reachable, Keeps

LEMMA DominatesIs ==
  ASSUME NEW g \in Graphs, NEW d, NEW b
  PROVE  Dominates(g, d, b) <=> b = d \/ d = Entry \/ b \notin Without(g, d)
BY DEF Dominates, Without

\* What avoids d is reachable, and is not d.
LEMMA WithoutReaches ==
  ASSUME NEW g \in Graphs, NEW d
  PROVE  /\ Without(g, d) \subseteq Reachable(g)
         /\ d # Entry => d \notin Without(g, d)
<1>1. Without(g, d) \subseteq Reachable(g)
  BY ReachableIs, WithoutIs
<1>2. ASSUME d # Entry PROVE Without(g, d) \subseteq Without(g, d) \ {d}
  <2>. DEFINE W == Without(g, d)
              S == W \ {d}
  <2>1. S \in SUBSET DOMAIN g /\ Entry \in S
    BY <1>2, WithoutIs
  <2>2. \A b \in S : \A s \in Succs(g, b) : s \in S \/ s = d
    BY WithoutIs
  <2>. HIDE DEF S
  <2>. QED
    BY <2>1, <2>2, WithoutIs DEF S
<1>. QED
  BY <1>1, <1>2

LEMMA DominatesTransitive ==
  ASSUME NEW g \in Graphs, NEW a, NEW b, NEW c, Dominates(g, a, b), Dominates(g, b, c)
  PROVE  Dominates(g, a, c)
<1>. SUFFICES ASSUME a # c, a # Entry, c \in Without(g, a) PROVE FALSE
  BY DominatesIs
<1>. DEFINE W == Without(g, a)
            V == Without(g, b)
            S == W \cap V
<1>1. CASE b = Entry \/ a = b \/ b = c
  <2>1. Entry \in W /\ (a = b \/ b \notin W)
    BY DominatesIs, WithoutIs
  <2>2. CASE a = b
    BY <2>2, DominatesIs
  <2>3. CASE a # b
    BY <1>1, <2>1, <2>3
  <2>. QED
    BY <2>2, <2>3
<1>2. CASE b # Entry /\ a # b /\ b # c
  <2>1. b \notin W /\ c \notin V
    BY <1>2, DominatesIs
  <2>2. S \in SUBSET DOMAIN g /\ Entry \in S
    BY WithoutIs
  <2>3. \A x \in S : \A s \in Succs(g, x) : s \in S \/ s = a
    BY <2>1, WithoutIs
  <2>. HIDE DEF S
  <2>4. W \subseteq S
    BY <2>2, <2>3, WithoutIs
  <2>. QED
    BY <2>1, <2>4 DEF S
<1>. QED
  BY <1>1, <1>2

LEMMA DominatesAntisymmetric ==
  ASSUME NEW g \in Graphs, NEW a, NEW b, Dominates(g, a, b), Dominates(g, b, a), b \in Reachable(g)
  PROVE  a = b
<1>. SUFFICES ASSUME a # b PROVE FALSE
  OBVIOUS
<1>. DEFINE W == Without(g, a)
            V == Without(g, b)
            S == W \cap V
<1>1. Entry \in W /\ Entry \in V
  BY WithoutIs
<1>2. b \notin W /\ a \notin V
  BY <1>1, DominatesIs
<1>3. S \in SUBSET DOMAIN g /\ Entry \in S
  BY WithoutIs
<1>4. \A x \in S : \A s \in Succs(g, x) : s \in S
  BY <1>2, WithoutIs
<1>. HIDE DEF S
<1>5. Reachable(g) \subseteq S
  BY <1>3, <1>4, ReachableIs
<1>. QED
  BY <1>2, <1>5 DEF S

LEMMA DominatesPred ==
  ASSUME NEW g \in Graphs, NEW d, NEW p \in Reachable(g), NEW c \in Succs(g, p), Dominates(g, d, c), d # c
  PROVE  Dominates(g, d, p)
BY DominatesIs, WithoutIs

LEMMA DominatorReachable ==
  ASSUME NEW g \in Graphs, NEW d, NEW c \in Reachable(g), Dominates(g, d, c)
  PROVE  d \in Reachable(g)
<1>. SUFFICES ASSUME d \notin Reachable(g) PROVE FALSE
  OBVIOUS
<1>1. d # c /\ d # Entry
  BY ReachableIs
<1>. DEFINE W == Without(g, d)
<1>2. W \in SUBSET DOMAIN g /\ Entry \in W /\ W \subseteq Reachable(g)
  BY WithoutIs, WithoutReaches
<1>3. \A b \in W : \A s \in Succs(g, b) : s \in W
  BY <1>2, WithoutIs, ReachableIs
<1>. HIDE DEF W
<1>4. c \in W
  BY <1>2, <1>3, ReachableIs
<1>. QED
  BY <1>1, <1>4, DominatesIs DEF W

\* A block that is reached by an edge from what d dominates is dominated by d as well,
\* or in its frontier.
LEMMA FrontierIs ==
  ASSUME NEW g \in Graphs, NEW d, NEW p \in Reachable(g), NEW c \in Succs(g, p), Dominates(g, d, p)
  PROVE  c \in Frontier(g, d) \/ (d # c /\ Dominates(g, d, c))
<1>1. p \in DOMAIN g /\ c \in DOMAIN g
  BY ReachableIs, SuccsAre
<1>2. p \in Preds(g, c) \cap Reachable(g)
  BY <1>1, SuccsAre
<1>. QED
  BY <1>1, <1>2 DEF Frontier

\* What is in the frontier of a block is no entry.
LEMMA FrontierHasPreds ==
  ASSUME NEW g \in Graphs, NEW d, NEW c \in Frontier(g, d)
  PROVE  c \in DOMAIN g /\ c # Entry
<1>1. c \in DOMAIN g /\ \E p : p \in Preds(g, c)
  BY DEF Frontier
<1>2. PICK p : p \in DOMAIN g /\ c \in Succs(g, p)
  BY <1>1, SuccsAre
<1>. QED
  BY <1>1, <1>2, SuccsAre

-----------------------------------------------------------------------------
(* The iterated dominance frontier, and where a variable is live.          *)

\* The frontiers of the blocks of B and of P, as far as they are in live.
Fronts(g, B, live) == [P \in SUBSET DOMAIN g |-> UNION {Frontier(g, b) \cap live : b \in (B \cup P) \cap Reachable(g)}]

LEMMA FrontsAre ==
  ASSUME NEW g \in Graphs, NEW B, NEW live
  PROVE  /\ Monotone(DOMAIN g, Fronts(g, B, live))
         /\ \A P \in SUBSET DOMAIN g : \A c :
              c \in Fronts(g, B, live)[P] <=> \E b \in (B \cup P) \cap Reachable(g) : c \in Frontier(g, b) /\ c \in live
<1>. DEFINE M == Fronts(g, B, live)
<1>1. ASSUME NEW P \in SUBSET DOMAIN g
      PROVE  /\ M[P] \in SUBSET DOMAIN g
             /\ \A c : c \in M[P] <=> \E b \in (B \cup P) \cap Reachable(g) : c \in Frontier(g, b) /\ c \in live
  BY FrontierHasPreds DEF Fronts
<1>2. M = [P \in SUBSET DOMAIN g |-> M[P]]
  BY DEF Fronts
<1>. HIDE DEF M
<1>3. M \in [SUBSET DOMAIN g -> SUBSET DOMAIN g]
  BY <1>1, <1>2
<1>4. \A C, D \in SUBSET DOMAIN g : C \subseteq D => M[C] \subseteq M[D]
  BY <1>1
<1>. QED
  BY <1>1, <1>3, <1>4 DEF M, Monotone

Iterates(f, g, B, live) ==
  f = [P \in SUBSET DOMAIN g |->
         LET more == UNION {Frontier(g, b) \cap live : b \in (B \cup P) \cap Reachable(g)}
         IN IF more \subseteq P THEN P ELSE f[P \cup more]]

LEMMA IteratesGrows ==
  ASSUME NEW g, NEW B, NEW live, NEW f
  PROVE  Iterates(f, g, B, live) <=> Grows(f, DOMAIN g, Fronts(g, B, live))
<1>. DEFINE M == Fronts(g, B, live)
            more(P) == UNION {Frontier(g, b) \cap live : b \in (B \cup P) \cap Reachable(g)}
<1>1. \A P \in SUBSET DOMAIN g : M[P] = more(P)
  BY DEF Fronts
<1>. HIDE DEF M, more
<1>2. ASSUME NEW P \in SUBSET DOMAIN g
      PROVE  (more(P) \subseteq P <=> M[P] \ P = {}) /\ P \cup more(P) = P \cup (M[P] \ P)
  BY <1>1
<1>3. [P \in SUBSET DOMAIN g |-> IF more(P) \subseteq P THEN P ELSE f[P \cup more(P)]]
      = [P \in SUBSET DOMAIN g |-> IF M[P] \ P = {} THEN P ELSE f[P \cup (M[P] \ P)]]
  BY <1>2
<1>4. Iterates(f, g, B, live) <=> f = [P \in SUBSET DOMAIN g |-> IF more(P) \subseteq P THEN P ELSE f[P \cup more(P)]]
  BY DEF Iterates, more
<1>. QED
  BY <1>3, <1>4 DEF Grows, M

\* The frontier of what defines a variable, or has a phi for it, has a phi for it
\* where it is live, and a phi is only there.
LEMMA IDFIs ==
  ASSUME NEW g \in Graphs, NEW B, NEW live
  PROVE  /\ IDF(g, B, live) \in SUBSET DOMAIN g /\ IDF(g, B, live) \subseteq live
         /\ Entry \notin IDF(g, B, live)
         /\ \A b \in (B \cup IDF(g, B, live)) \cap Reachable(g) : Frontier(g, b) \cap live \subseteq IDF(g, B, live)
<1>. DEFINE f == CHOOSE f : Iterates(f, g, B, live)
            M == Fronts(g, B, live)
            L == LeastClosed(DOMAIN g, M, {})
            S == (DOMAIN g \cap live) \ {Entry}
<1>1. IDF(g, B, live) = f[{}]
  BY Zenon DEF IDF, Iterates
<1>2. Monotone(DOMAIN g, M) /\ IsFiniteSet(DOMAIN g)
  BY FrontsAre, BlocksAreFinite
<1>3. Iterates(f, g, B, live)
  <2>1. PICK h : Grows(h, DOMAIN g, M)
    BY <1>2, GrowsExists
  <2>2. Iterates(h, g, B, live)
    BY <2>1, IteratesGrows
  <2>. QED
    BY <2>2, Zenon
<1>. HIDE DEF f
<1>4. f[{}] = L
  <2>1. Grows(f, DOMAIN g, M)
    BY <1>3, IteratesGrows
  <2>. QED
    BY <1>2, <2>1, GrownIs
<1>5. L \in Closed(DOMAIN g, M, {})
  BY <1>2, LeastClosedIs
<1>6. \A T \in Closed(DOMAIN g, M, {}) : L \subseteq T
  BY <1>2, LeastClosedIs
<1>. HIDE DEF L
<1>7. L \in SUBSET DOMAIN g /\ M[L] \subseteq L
  BY <1>5 DEF Closed
<1>8. S \in Closed(DOMAIN g, M, {})
  <2>1. M[S] \subseteq S
    BY FrontsAre, FrontierHasPreds
  <2>. QED
    BY <2>1 DEF Closed
<1>9. \A b \in (B \cup L) \cap Reachable(g) : Frontier(g, b) \cap live \subseteq L
  BY <1>7, FrontsAre
<1>. QED
  BY <1>1, <1>4, <1>6, <1>7, <1>8, <1>9

\* The predecessors of the blocks of C, without those of defs.
Backward(g, defs) == [C \in SUBSET DOMAIN g |-> (UNION {Preds(g, b) : b \in C}) \ defs]

LEMMA BackwardIs ==
  ASSUME NEW g \in Graphs, NEW defs
  PROVE  /\ Monotone(DOMAIN g, Backward(g, defs))
         /\ \A C \in SUBSET DOMAIN g : \A p : p \in Backward(g, defs)[C] <=> p \notin defs /\ \E b \in C : p \in Preds(g, b)
<1>. DEFINE M == Backward(g, defs)
<1>1. ASSUME NEW C \in SUBSET DOMAIN g
      PROVE  /\ M[C] \in SUBSET DOMAIN g
             /\ \A p : p \in M[C] <=> p \notin defs /\ \E b \in C : p \in Preds(g, b)
  BY DEF Backward, Preds
<1>2. M = [C \in SUBSET DOMAIN g |-> M[C]]
  BY DEF Backward
<1>. HIDE DEF M
<1>3. M \in [SUBSET DOMAIN g -> SUBSET DOMAIN g]
  BY <1>1, <1>2
<1>4. \A C, D \in SUBSET DOMAIN g : C \subseteq D => M[C] \subseteq M[D]
  BY <1>1
<1>. QED
  BY <1>1, <1>3, <1>4 DEF M, Monotone

Lives(f, g, defs) ==
  f = [C \in SUBSET DOMAIN g |->
         LET more == (UNION {Preds(g, b) : b \in C}) \ (defs \cup C)
         IN IF more = {} THEN C ELSE f[C \cup more]]

LEMMA LivesGrows ==
  ASSUME NEW g, NEW defs, NEW f
  PROVE  Lives(f, g, defs) <=> Grows(f, DOMAIN g, Backward(g, defs))
<1>. DEFINE M == Backward(g, defs)
            more(C) == (UNION {Preds(g, b) : b \in C}) \ (defs \cup C)
<1>1. \A C \in SUBSET DOMAIN g : M[C] \ C = more(C)
  BY DEF Backward
<1>. HIDE DEF M, more
<1>2. [C \in SUBSET DOMAIN g |-> IF more(C) = {} THEN C ELSE f[C \cup more(C)]]
      = [C \in SUBSET DOMAIN g |-> IF M[C] \ C = {} THEN C ELSE f[C \cup (M[C] \ C)]]
  BY <1>1
<1>3. Lives(f, g, defs) <=> f = [C \in SUBSET DOMAIN g |-> IF more(C) = {} THEN C ELSE f[C \cup more(C)]]
  BY DEF Lives, more
<1>. QED
  BY <1>2, <1>3 DEF Grows, M

\* A variable is live where it is read first and, up to what defines it, before.
ReadFirstIn == {b \in info.using : b \in info.defining => ReadsFirst(b)}
LEMMA LiveIs ==
  ASSUME graph \in Graphs, info \in AllocaInfos
  PROVE  /\ LiveInBlocks \in SUBSET DOMAIN graph /\ ReadFirstIn \subseteq LiveInBlocks
         /\ \A b \in LiveInBlocks : Preds(graph, b) \subseteq LiveInBlocks \cup info.defining
<1>. DEFINE f == CHOOSE f : Lives(f, graph, info.defining)
            M == Backward(graph, info.defining)
            L == LeastClosed(DOMAIN graph, M, ReadFirstIn)
<1>1. LiveInBlocks = f[ReadFirstIn]
  BY Zenon DEF LiveInBlocks, Lives, ReadFirstIn
<1>2. Monotone(DOMAIN graph, M) /\ IsFiniteSet(DOMAIN graph)
  BY BackwardIs, BlocksAreFinite
<1>3. Lives(f, graph, info.defining)
  <2>1. PICK h : Grows(h, DOMAIN graph, M)
    BY <1>2, GrowsExists
  <2>2. Lives(h, graph, info.defining)
    BY <2>1, LivesGrows
  <2>. QED
    BY <2>2, Zenon
<1>. HIDE DEF f
<1>4. ReadFirstIn \in SUBSET DOMAIN graph
  BY DEF ReadFirstIn, AllocaInfos
<1>5. f[ReadFirstIn] = L
  <2>1. Grows(f, DOMAIN graph, M)
    BY <1>3, LivesGrows
  <2>. QED
    BY <1>2, <1>4, <2>1, GrownIs
<1>6. L \in Closed(DOMAIN graph, M, ReadFirstIn)
  BY <1>2, <1>4, LeastClosedIs
<1>. HIDE DEF L
<1>7. L \in SUBSET DOMAIN graph /\ ReadFirstIn \subseteq L /\ M[L] \subseteq L
  BY <1>6 DEF Closed
<1>8. \A b \in L : Preds(graph, b) \subseteq L \cup info.defining
  BY <1>7, BackwardIs
<1>. QED
  BY <1>1, <1>5, <1>7, <1>8

-----------------------------------------------------------------------------
(* What erasing and replacing leave of a function, place by place.           *)

\* The operands of j are those of i with by[x] for x.
SameBut(j, i, by) ==
  /\ j.id = i.id /\ j.op = i.op /\ j.ptr = Replaced(i.ptr, by) /\ j.val = Replaced(i.val, by)
  /\ DOMAIN j.inc = DOMAIN i.inc
  /\ \A k \in DOMAIN i.inc : /\ j.inc[k].val = Replaced(i.inc[k].val, by)
                             /\ j.inc[k].pred = i.inc[k].pred
\* Block t is block s without gone: what is at k was at from[k].
Thins(from, t, s, by, gone) ==
  /\ from \in [DOMAIN t -> DOMAIN s]
  /\ \A k \in DOMAIN t : s[from[k]].id \notin gone /\ SameBut(t[k], s[from[k]], by)
  /\ \A k, l \in DOMAIN t : k < l => from[k] < from[l]
  /\ \A p \in DOMAIN s : s[p].id \notin gone => \E k \in DOMAIN t : from[k] = p
Rewritten(at, h, f, by, gone) ==
  DOMAIN h = DOMAIN f /\ \A b \in DOMAIN f : Thins(at[b], h[b], f[b], by, gone)

LEMMA ReplacedInSame ==
  ASSUME NEW i \in Instr, NEW by
  PROVE  SameBut(ReplacedIn(i, by), i, by)
<1>. DEFINE inc == [k \in DOMAIN i.inc |-> [val |-> Replaced(i.inc[k].val, by), pred |-> i.inc[k].pred]]
            ptr == Replaced(i.ptr, by)
            val == Replaced(i.val, by)
<1>1. ReplacedIn(i, by) = [i EXCEPT !.ptr = ptr, !.val = val, !.inc = inc]
  BY DEF ReplacedIn
<1>2. DOMAIN inc = DOMAIN i.inc /\ \A k \in DOMAIN i.inc : inc[k].val = Replaced(i.inc[k].val, by) /\ inc[k].pred = i.inc[k].pred
  OBVIOUS
<1>. HIDE DEF inc
<1>3. LET j == [i EXCEPT !.ptr = ptr, !.val = val, !.inc = inc]
      IN j.id = i.id /\ j.op = i.op /\ j.ptr = ptr /\ j.val = val /\ j.inc = inc
  <2>. HIDE DEF ptr, val
  <2>. QED
    BY DEF Instr
<1>. QED
  BY <1>1, <1>2, <1>3 DEF SameBut

LEMMA ErasedThins ==
  ASSUME NEW S, NEW t, NEW r, NEW s, NEW by, NEW gone,
         DOMAIN r = DOMAIN s, \A p \in DOMAIN s : r[p].id = s[p].id /\ SameBut(r[p], s[p], by),
         HasOnly(t, r, Stay(r, gone))
  PROVE  \E from : Thins(from, t, s, by, gone)
<1>1. PICK from \in [DOMAIN t -> Stay(r, gone)] :
        /\ \A k \in DOMAIN t : t[k] = r[from[k]]
        /\ \A k, l \in DOMAIN t : k < l => from[k] < from[l]
        /\ \A p \in Stay(r, gone) : \E k \in DOMAIN t : from[k] = p
  BY DEF HasOnly
<1>2. Stay(r, gone) = {p \in DOMAIN s : s[p].id \notin gone}
  BY DEF Stay
<1>3. from \in [DOMAIN t -> DOMAIN s] /\ \A k \in DOMAIN t : s[from[k]].id \notin gone
  BY <1>1, <1>2
<1>. QED
  BY <1>1, <1>2, <1>3 DEF Thins

LEMMA BlocksRewritten ==
  ASSUME NEW D, NEW h, NEW f, DOMAIN h = D, DOMAIN f = D, NEW by, NEW gone,
         \A b \in D : \E from : Thins(from, h[b], f[b], by, gone)
  PROVE  \E at : Rewritten(at, h, f, by, gone)
<1>. DEFINE at == [b \in D |-> CHOOSE from : Thins(from, h[b], f[b], by, gone)]
<1>1. \A b \in D : Thins(at[b], h[b], f[b], by, gone)
  OBVIOUS
<1>. HIDE DEF at
<1>. QED
  BY <1>1 DEF Rewritten

LEMMA RewrittenIs ==
  ASSUME NEW D, NEW f \in [D -> Seq(Instr)], NEW E, NEW by \in [E -> Operand], NEW gone
  PROVE  \E at : Rewritten(at, Erase(Replace(f, by), gone), f, by, gone)
<1>. DEFINE r == Replace(f, by)
            h == Erase(r, gone)
<1>1. r \in [D -> Seq(Instr)]
  BY ReplaceIs
<1>2. ASSUME NEW b \in D
      PROVE  DOMAIN r[b] = DOMAIN f[b] /\ \A p \in DOMAIN f[b] : r[b][p].id = f[b][p].id /\ SameBut(r[b][p], f[b][p], by)
  <2>1. r[b] = [p \in DOMAIN f[b] |-> ReplacedIn(f[b][p], by)]
    BY DEF Replace
  <2>2. ASSUME NEW p \in DOMAIN f[b] PROVE SameBut(ReplacedIn(f[b][p], by), f[b][p], by)
    <3>1. f[b] \in Seq(Instr)
      OBVIOUS
    <3>2. f[b][p] \in Instr
      BY <3>1
    <3>. QED
      BY <3>2, ReplacedInSame
  <2>. HIDE DEF r
  <2>. QED
    BY <2>1, <2>2 DEF SameBut
<1>. HIDE DEF r
<1>3. h \in [D -> Seq(Instr)] /\ \A b \in D : HasOnly(h[b], r[b], Stay(r[b], gone))
  BY <1>1, EraseIs
<1>. HIDE DEF h
<1>4. \A b \in D : \E from : Thins(from, h[b], f[b], by, gone)
  BY <1>2, <1>3, ErasedThins
<1>5. DOMAIN h = D /\ DOMAIN f = D
  BY <1>3
<1>6. \E at : Rewritten(at, h, f, by, gone)
  BY <1>4, <1>5, BlocksRewritten
<1>. QED
  BY <1>6 DEF h, r

LEMMA ErasedIs ==
  ASSUME NEW D, NEW f \in [D -> Seq(Instr)], NEW gone
  PROVE  \E at : Rewritten(at, Erase(f, gone), f, Empty, gone)
<1>. DEFINE h == Erase(f, gone)
<1>1. h \in [D -> Seq(Instr)] /\ \A b \in D : HasOnly(h[b], f[b], Stay(f[b], gone))
  BY EraseIs
<1>. HIDE DEF h
<1>2. \A i : SameBut(i, i, Empty)
  BY DEF SameBut, Replaced, Empty
<1>3. \A b \in D : \E from : Thins(from, h[b], f[b], Empty, gone)
  BY <1>1, <1>2, ErasedThins
<1>4. DOMAIN h = D /\ DOMAIN f = D
  BY <1>1
<1>5. \E at : Rewritten(at, h, f, Empty, gone)
  BY <1>3, <1>4, BlocksRewritten
<1>. QED
  BY <1>5 DEF h

-----------------------------------------------------------------------------
(* Where a value is available.                                               *)

\* What is at place q of block c has been executed when place p of block b is, or the
\* end of block b.
Earlier(g, c, q, b, p) == b \in Reachable(g) => IF c = b THEN q < p ELSE Dominates(g, c, b)
ByTheEnd(g, c, b) == b \in Reachable(g) => Dominates(g, c, b)

\* v, in function f, at place p of block b and at the end of block b.
Defines(f, c, q, v) == f[c][q].id = v.n /\ f[c][q].op # "store"
AvailAt(g, f, v, b, p) ==
  v.k = "inst" => \E c \in DOMAIN f : \E q \in DOMAIN f[c] : Defines(f, c, q, v) /\ Earlier(g, c, q, b, p)
AvailEnd(g, f, v, b) ==
  v.k = "inst" => \E c \in DOMAIN f : \E q \in DOMAIN f[c] : Defines(f, c, q, v) /\ ByTheEnd(g, c, b)
EntriesDefined(g, f, i) == i.op = "phi" => \A k \in DOMAIN i.inc : AvailEnd(g, f, i.inc[k].val, i.inc[k].pred)
UseDefined(g, f, b, p) ==
  /\ AvailAt(g, f, f[b][p].ptr, b, p) /\ AvailAt(g, f, f[b][p].val, b, p)
  /\ EntriesDefined(g, f, f[b][p])
UsesDefined(g, f) == \A b \in DOMAIN f : \A p \in DOMAIN f[b] : UseDefined(g, f, b, p)

LEMMA EarlierTransitive ==
  ASSUME NEW g \in Graphs, NEW d, NEW c, NEW b, NEW r \in Nat, NEW q \in Nat, NEW p \in Nat,
         Earlier(g, d, r, c, q), Earlier(g, c, q, b, p)
  PROVE  Earlier(g, d, r, b, p)
<1>. SUFFICES ASSUME b \in Reachable(g) PROVE IF d = b THEN r < p ELSE Dominates(g, d, b)
  BY DEF Earlier
<1>1. IF c = b THEN q < p ELSE Dominates(g, c, b)
  BY DEF Earlier
<1>2. c \in Reachable(g)
  BY <1>1, DominatorReachable
<1>3. IF d = c THEN r < q ELSE Dominates(g, d, c)
  BY <1>2 DEF Earlier
<1>4. CASE d = c
  BY <1>1, <1>3, <1>4
<1>5. CASE d # c /\ c = b
  BY <1>3, <1>5
<1>6. CASE d # c /\ c # b
  <2>1. Dominates(g, d, b)
    BY <1>1, <1>3, <1>6, DominatesTransitive
  <2>2. d # b
    BY <1>1, <1>2, <1>3, <1>6, DominatesAntisymmetric
  <2>. QED
    BY <2>1, <2>2
<1>. QED
  BY <1>4, <1>5, <1>6

LEMMA EarlierByTheEnd ==
  ASSUME NEW g \in Graphs, NEW d, NEW c, NEW b, NEW r, NEW q, Earlier(g, d, r, c, q), ByTheEnd(g, c, b)
  PROVE  ByTheEnd(g, d, b)
<1>. SUFFICES ASSUME b \in Reachable(g) PROVE Dominates(g, d, b)
  BY DEF ByTheEnd
<1>1. Dominates(g, c, b)
  BY DEF ByTheEnd
<1>2. c \in Reachable(g)
  BY <1>1, DominatorReachable
<1>3. d = c \/ Dominates(g, d, c)
  BY <1>2 DEF Earlier
<1>. QED
  BY <1>1, <1>3, DominatesTransitive

\* A value has one place.
LEMMA PlaceIsOne ==
  ASSUME NEW f, Unique(f), NEW b \in DOMAIN f, NEW c \in DOMAIN f,
         NEW p \in DOMAIN f[b], NEW q \in DOMAIN f[c], f[b][p].id = f[c][q].id
  PROVE  b = c /\ p = q
BY DEF Unique

\* Where by[x] is available where x is made, it is wherever x is.
LEMMA AvailThrough ==
  ASSUME NEW g \in Graphs, NEW D, NEW f \in [D -> Seq(Instr)], Unique(f),
         NEW c \in D, NEW q \in DOMAIN f[c], NEW w, AvailAt(g, f, w, c, q),
         NEW v, v.k = "inst", v.n = f[c][q].id,
         NEW b
  PROVE  /\ \A p \in Nat : AvailAt(g, f, v, b, p) => AvailAt(g, f, w, b, p)
         /\ AvailEnd(g, f, v, b) => AvailEnd(g, f, w, b)
<1>1. \A x \in D : \A y \in DOMAIN f[x] : y \in Nat
  BY SeqIs
<1>2. ASSUME NEW p \in Nat, AvailAt(g, f, v, b, p), w.k = "inst"
      PROVE  \E d \in D : \E r \in DOMAIN f[d] : Defines(f, d, r, w) /\ Earlier(g, d, r, b, p)
  <2>1. PICK d \in D : \E r \in DOMAIN f[d] : Defines(f, d, r, w) /\ Earlier(g, d, r, c, q)
    BY <1>2 DEF AvailAt
  <2>2. PICK r \in DOMAIN f[d] : Defines(f, d, r, w) /\ Earlier(g, d, r, c, q)
    BY <2>1
  <2>3. PICK e \in D : \E s \in DOMAIN f[e] : Defines(f, e, s, v) /\ Earlier(g, e, s, b, p)
    BY <1>2 DEF AvailAt
  <2>4. PICK s \in DOMAIN f[e] : Defines(f, e, s, v) /\ Earlier(g, e, s, b, p)
    BY <2>3
  <2>5. e = c /\ s = q
    BY <2>4, PlaceIsOne DEF Defines
  <2>6. Earlier(g, d, r, b, p)
    BY <1>1, <2>2, <2>4, <2>5, EarlierTransitive
  <2>. QED
    BY <2>2, <2>6
<1>3. ASSUME AvailEnd(g, f, v, b), w.k = "inst"
      PROVE  \E d \in D : \E r \in DOMAIN f[d] : Defines(f, d, r, w) /\ ByTheEnd(g, d, b)
  <2>1. PICK d \in D : \E r \in DOMAIN f[d] : Defines(f, d, r, w) /\ Earlier(g, d, r, c, q)
    BY <1>3 DEF AvailAt
  <2>2. PICK r \in DOMAIN f[d] : Defines(f, d, r, w) /\ Earlier(g, d, r, c, q)
    BY <2>1
  <2>3. PICK e \in D : \E s \in DOMAIN f[e] : Defines(f, e, s, v) /\ ByTheEnd(g, e, b)
    BY <1>3 DEF AvailEnd
  <2>4. PICK s \in DOMAIN f[e] : Defines(f, e, s, v) /\ ByTheEnd(g, e, b)
    BY <2>3
  <2>5. e = c /\ s = q
    BY <2>4, PlaceIsOne DEF Defines
  <2>6. ByTheEnd(g, d, b)
    BY <2>2, <2>4, <2>5, EarlierByTheEnd
  <2>. QED
    BY <2>2, <2>6
<1>. QED
  BY <1>2, <1>3 DEF AvailAt, AvailEnd

\* What is not erased stays available.
LEMMA AvailKept ==
  ASSUME NEW D, NEW f \in [D -> Seq(Instr)], NEW h \in [D -> Seq(Instr)],
         NEW by, NEW gone, NEW at, Rewritten(at, h, f, by, gone),
         NEW g, NEW v, v.k = "inst" => v.n \notin gone, NEW b \in D
  PROVE  /\ \A k \in DOMAIN h[b] : AvailAt(g, f, v, b, at[b][k]) => AvailAt(g, h, v, b, k)
         /\ \A e : AvailEnd(g, f, v, e) => AvailEnd(g, h, v, e)
<1>1. ASSUME NEW c \in D, NEW q \in DOMAIN f[c], Defines(f, c, q, v), v.k = "inst"
      PROVE  \E j \in DOMAIN h[c] : at[c][j] = q /\ Defines(h, c, j, v)
  <2>1. Thins(at[c], h[c], f[c], by, gone)
    BY DEF Rewritten
  <2>2. PICK j \in DOMAIN h[c] : at[c][j] = q
    BY <1>1, <2>1 DEF Thins, Defines
  <2>3. h[c][j].id = f[c][q].id /\ h[c][j].op = f[c][q].op
    BY <2>1, <2>2 DEF Thins, SameBut
  <2>. QED
    BY <1>1, <2>2, <2>3 DEF Defines
<1>2. ASSUME NEW k \in DOMAIN h[b], AvailAt(g, f, v, b, at[b][k]), v.k = "inst"
      PROVE  \E c \in D : \E j \in DOMAIN h[c] : Defines(h, c, j, v) /\ Earlier(g, c, j, b, k)
  <2>1. PICK c \in D : \E q \in DOMAIN f[c] : Defines(f, c, q, v) /\ Earlier(g, c, q, b, at[b][k])
    BY <1>2 DEF AvailAt
  <2>2. PICK q \in DOMAIN f[c] : Defines(f, c, q, v) /\ Earlier(g, c, q, b, at[b][k])
    BY <2>1
  <2>3. PICK j \in DOMAIN h[c] : at[c][j] = q /\ Defines(h, c, j, v)
    BY <1>1, <1>2, <2>2
  <2>4. c = b /\ q < at[b][k] => j < k
    <3>1. Thins(at[b], h[b], f[b], by, gone)
      BY DEF Rewritten
    <3>. SUFFICES ASSUME c = b, q < at[b][k], ~(j < k) PROVE FALSE
      OBVIOUS
    <3>2. j \in Nat /\ k \in Nat /\ q \in Nat /\ at[b][k] \in Nat
      BY <3>1, SeqIs DEF Thins
    <3>3. j = k \/ k < j
      BY <3>2
    <3>4. k < j => at[b][k] < at[b][j]
      BY <3>1 DEF Thins
    <3>. QED
      BY <2>3, <3>2, <3>3, <3>4
  <2>5. Earlier(g, c, j, b, k)
    BY <2>2, <2>4 DEF Earlier
  <2>. QED
    BY <2>3, <2>5
<1>3. ASSUME NEW e, AvailEnd(g, f, v, e), v.k = "inst"
      PROVE  \E c \in D : \E j \in DOMAIN h[c] : Defines(h, c, j, v) /\ ByTheEnd(g, c, e)
  <2>1. PICK c \in D : \E q \in DOMAIN f[c] : Defines(f, c, q, v) /\ ByTheEnd(g, c, e)
    BY <1>3 DEF AvailEnd
  <2>2. PICK q \in DOMAIN f[c] : Defines(f, c, q, v) /\ ByTheEnd(g, c, e)
    BY <2>1
  <2>3. PICK j \in DOMAIN h[c] : at[c][j] = q /\ Defines(h, c, j, v)
    BY <1>1, <1>3, <2>2
  <2>. QED
    BY <2>2, <2>3
<1>. QED
  BY <1>2, <1>3 DEF AvailAt, AvailEnd

\* The operands that an execution reads.
Reads(i) == {i.ptr, i.val} \cup {i.inc[k].val : k \in {l \in DOMAIN i.inc : i.op = "phi"}}
\* by gives values for what is erased and read, each available where what it replaces was.
Substitutes(g, f, by, gone) ==
  /\ \A c \in DOMAIN f : \A q \in DOMAIN f[c] : f[c][q].id \in DOMAIN by => AvailAt(g, f, by[f[c][q].id], c, q)
  /\ \A x \in DOMAIN by : by[x].k = "inst" => by[x].n \notin gone
  /\ \A b \in DOMAIN f : \A p \in DOMAIN f[b] : f[b][p].id \notin gone =>
       \A v \in Reads(f[b][p]) : v.k = "inst" /\ v.n \in gone => v.n \in DOMAIN by

LEMMA SubstituteAvail ==
  ASSUME NEW g \in Graphs, NEW D, NEW f \in [D -> Seq(Instr)], Unique(f),
         NEW by, NEW gone, Substitutes(g, f, by, gone), NEW v, NEW b
  PROVE  /\ \A p \in Nat : AvailAt(g, f, v, b, p) => AvailAt(g, f, Replaced(v, by), b, p)
         /\ AvailEnd(g, f, v, b) => AvailEnd(g, f, Replaced(v, by), b)
<1>1. CASE v.k = "inst" /\ v.n \in DOMAIN by
  <2>1. Replaced(v, by) = by[v.n]
    BY <1>1 DEF Replaced
  <2>2. ASSUME NEW c \in D, NEW q \in DOMAIN f[c], Defines(f, c, q, v)
        PROVE  /\ \A p \in Nat : AvailAt(g, f, v, b, p) => AvailAt(g, f, by[v.n], b, p)
               /\ AvailEnd(g, f, v, b) => AvailEnd(g, f, by[v.n], b)
    <3>1. f[c][q].id = v.n
      BY <2>2 DEF Defines
    <3>2. AvailAt(g, f, by[v.n], c, q)
      BY <1>1, <3>1 DEF Substitutes
    <3>. QED
      BY <1>1, <3>1, <3>2, AvailThrough, ZenonT(60)
  <2>3. CASE \E c \in D : \E q \in DOMAIN f[c] : Defines(f, c, q, v)
    BY <2>1, <2>2, <2>3
  <2>4. CASE ~\E c \in D : \E q \in DOMAIN f[c] : Defines(f, c, q, v)
    BY <1>1, <2>4 DEF AvailAt, AvailEnd
  <2>. QED
    BY <2>3, <2>4
<1>2. CASE ~(v.k = "inst" /\ v.n \in DOMAIN by)
  BY <1>2 DEF Replaced
<1>. QED
  BY <1>1, <1>2

\* Then every use is defined after the rewriting as it was before.
LEMMA UsesStayDefined ==
  ASSUME NEW g \in Graphs, NEW D, NEW f \in [D -> Seq(Instr)], Unique(f), NEW h \in [D -> Seq(Instr)],
         NEW by, NEW gone, NEW at, Rewritten(at, h, f, by, gone),
         Substitutes(g, f, by, gone), UsesDefined(g, f)
  PROVE  UsesDefined(g, h)
<1>. SUFFICES ASSUME NEW b \in D, NEW k \in DOMAIN h[b] PROVE UseDefined(g, h, b, k)
  BY DEF UsesDefined
<1>. DEFINE p == at[b][k]
            i == f[b][p]
            j == h[b][k]
<1>1. Thins(at[b], h[b], f[b], by, gone)
  BY DEF Rewritten
<1>2. p \in DOMAIN f[b] /\ p \in Nat /\ i.id \notin gone /\ SameBut(j, i, by)
  BY <1>1, SeqIs DEF Thins
<1>3. UseDefined(g, f, b, p)
  BY <1>2 DEF UsesDefined
<1>. HIDE DEF p
<1>4. ASSUME NEW v \in Reads(i) PROVE Replaced(v, by).k = "inst" => Replaced(v, by).n \notin gone
  BY <1>2, <1>4 DEF Substitutes, Replaced
<1>5. ASSUME NEW v \in Reads(i), AvailAt(g, f, v, b, p) PROVE AvailAt(g, h, Replaced(v, by), b, k)
  <2>1. AvailAt(g, f, Replaced(v, by), b, p)
    BY <1>2, <1>5, SubstituteAvail
  <2>. QED
    BY <1>4, <2>1, AvailKept DEF p
<1>6. ASSUME NEW v \in Reads(i), NEW e, AvailEnd(g, f, v, e) PROVE AvailEnd(g, h, Replaced(v, by), e)
  <2>1. AvailEnd(g, f, Replaced(v, by), e)
    BY <1>6, SubstituteAvail
  <2>. QED
    BY <1>4, <2>1, AvailKept
<1>7. AvailAt(g, h, j.ptr, b, k) /\ AvailAt(g, h, j.val, b, k)
  <2>1. i.ptr \in Reads(i) /\ i.val \in Reads(i)
    BY DEF Reads
  <2>2. AvailAt(g, f, i.ptr, b, p) /\ AvailAt(g, f, i.val, b, p)
    BY <1>3 DEF UseDefined
  <2>3. j.ptr = Replaced(i.ptr, by) /\ j.val = Replaced(i.val, by)
    BY <1>2 DEF SameBut
  <2>. QED
    BY <1>5, <2>1, <2>2, <2>3
<1>8. ASSUME j.op = "phi", NEW n \in DOMAIN j.inc PROVE AvailEnd(g, h, j.inc[n].val, j.inc[n].pred)
  <2>1. i.op = "phi" /\ n \in DOMAIN i.inc /\ j.inc[n].val = Replaced(i.inc[n].val, by) /\ j.inc[n].pred = i.inc[n].pred
    BY <1>2, <1>8 DEF SameBut
  <2>2. i.inc[n].val \in Reads(i)
    BY <2>1 DEF Reads
  <2>3. AvailEnd(g, f, i.inc[n].val, i.inc[n].pred)
    BY <1>3, <2>1 DEF UseDefined, EntriesDefined
  <2>. QED
    BY <1>6, <2>1, <2>2, <2>3
<1>. QED
  BY <1>7, <1>8 DEF UseDefined, EntriesDefined

-----------------------------------------------------------------------------
(* How many entries a phi has.                                               *)

LEMMA InjectionExists ==
  ASSUME NEW S, NEW T, IsFiniteSet(S), IsFiniteSet(T), Cardinality(S) <= Cardinality(T)
  PROVE  \E j : j \in Injection(S, T)
<1>. DEFINE m == Cardinality(S)
            n == Cardinality(T)
<1>1. m \in Nat /\ n \in Nat /\ ExistsBijection(1 .. m, S) /\ ExistsBijection(1 .. n, T)
  BY FS_CardinalityType
<1>2. ExistsBijection(S, 1 .. m)
  BY <1>1, Fun_ExistsBijSymmetric
<1>3. PICK a : a \in Bijection(S, 1 .. m)
  BY <1>2 DEF ExistsBijection
<1>4. PICK c : c \in Bijection(1 .. n, T)
  BY <1>1 DEF ExistsBijection
<1>5. a \in [S -> 1 .. m] /\ \A x, y \in S : a[x] = a[y] => x = y
  BY <1>3 DEF Bijection, Injection, IsInjective
<1>6. c \in [1 .. n -> T] /\ \A x, y \in 1 .. n : c[x] = c[y] => x = y
  BY <1>4 DEF Bijection, Injection, IsInjective
<1>. HIDE DEF m, n
<1>7. \A x \in S : a[x] \in 1 .. n
  BY <1>1, <1>5 DEF m, n
<1>. DEFINE j == [x \in S |-> c[a[x]]]
<1>8. j \in [S -> T] /\ \A x, y \in S : j[x] = j[y] => x = y
  BY <1>5, <1>6, <1>7
<1>. HIDE DEF j
<1>9. j \in Injection(S, T)
  BY <1>8 DEF Injection, IsInjective
<1>. QED
  BY <1>9

\* What f maps to p.
Fibre(f, p) == {x \in DOMAIN f : f[x] = p}

\* If no value has more of f than of h, h has no less places than f, and as many only
\* if every value has as many.
LEMMA FibresCount ==
  ASSUME NEW f, NEW h, IsFiniteSet(DOMAIN f), IsFiniteSet(DOMAIN h),
         \A p : Cardinality(Fibre(f, p)) <= Cardinality(Fibre(h, p))
  PROVE  /\ Cardinality(DOMAIN f) <= Cardinality(DOMAIN h)
         /\ Cardinality(DOMAIN f) = Cardinality(DOMAIN h) =>
              \A p : Cardinality(Fibre(f, p)) = Cardinality(Fibre(h, p))
<1>. DEFINE X == DOMAIN f
            Y == DOMAIN h
            j(p) == CHOOSE j : j \in Injection(Fibre(f, p), Fibre(h, p))
            J == [x \in X |-> j(f[x])[x]]
<1>1. ASSUME NEW p
      PROVE  /\ IsFiniteSet(Fibre(f, p)) /\ IsFiniteSet(Fibre(h, p))
             /\ Cardinality(Fibre(f, p)) \in Nat /\ Cardinality(Fibre(h, p)) \in Nat
  <2>1. Fibre(f, p) \in SUBSET X /\ Fibre(h, p) \in SUBSET Y
    BY DEF Fibre
  <2>2. IsFiniteSet(Fibre(f, p)) /\ IsFiniteSet(Fibre(h, p))
    BY <2>1, FS_Subset
  <2>. QED
    BY <2>2, FS_CardinalityType
<1>2. ASSUME NEW p PROVE j(p) \in Injection(Fibre(f, p), Fibre(h, p))
  <2>1. \E i : i \in Injection(Fibre(f, p), Fibre(h, p))
    BY <1>1, InjectionExists
  <2>. QED
    BY <2>1, Zenon
<1>. HIDE DEF j
<1>3. ASSUME NEW x \in X PROVE x \in Fibre(f, f[x])
  BY DEF Fibre
<1>4. ASSUME NEW p
      PROVE  /\ \A x \in Fibre(f, p) : j(p)[x] \in Fibre(h, p)
             /\ \A x, y \in Fibre(f, p) : j(p)[x] = j(p)[y] => x = y
  BY <1>2 DEF Injection, IsInjective
<1>5. ASSUME NEW x \in X PROVE J[x] \in Y /\ h[J[x]] = f[x]
  <2>1. J[x] \in Fibre(h, f[x])
    BY <1>3, <1>4
  <2>. QED
    BY <2>1 DEF Fibre
<1>6. ASSUME NEW x \in X, NEW y \in X, J[x] = J[y] PROVE x = y
  <2>1. f[x] = f[y]
    BY <1>5, <1>6
  <2>2. j(f[x])[x] = j(f[x])[y]
    BY <1>6, <2>1
  <2>. QED
    BY <1>3, <1>4, <2>1, <2>2
<1>7. J \in Injection(X, Y)
  <2>1. J \in [X -> Y]
    BY <1>5
  <2>. HIDE DEF J
  <2>. QED
    BY <1>6, <2>1 DEF Injection, IsInjective
<1>8. Cardinality(X) <= Cardinality(Y) /\ (Cardinality(X) = Cardinality(Y) <=> J \in Surjection(X, Y))
  BY <1>7, FS_Injection
<1>9. ASSUME J \in Surjection(X, Y), NEW p PROVE Cardinality(Fibre(f, p)) = Cardinality(Fibre(h, p))
  <2>1. ASSUME NEW y \in Fibre(h, p) PROVE \E x \in Fibre(f, p) : j(p)[x] = y
    <3>1. y \in Y /\ h[y] = p
      BY DEF Fibre
    <3>2. PICK x \in X : J[x] = y
      BY <1>9, <3>1 DEF Surjection
    <3>3. f[x] = p
      BY <1>5, <3>1, <3>2
    <3>. QED
      BY <3>2, <3>3 DEF Fibre
  <2>2. j(p) \in Surjection(Fibre(f, p), Fibre(h, p))
    BY <1>2, <2>1 DEF Injection, Surjection
  <2>3. Cardinality(Fibre(h, p)) <= Cardinality(Fibre(f, p))
    BY <1>1, <2>2, FS_Surjection
  <2>. QED
    BY <1>1, <2>3
<1>. QED
  BY <1>8, <1>9

Count(inc, p) == Cardinality({k \in DOMAIN inc : inc[k].pred = p})
PredsOf(inc) == [k \in DOMAIN inc |-> inc[k].pred]

LEMMA CountIs ==
  ASSUME NEW inc \in Seq(PhiEntry)
  PROVE  /\ IsFiniteSet(DOMAIN inc) /\ Cardinality(DOMAIN inc) = Len(inc) /\ Len(inc) \in Nat
         /\ DOMAIN PredsOf(inc) = DOMAIN inc
         /\ \A p : Count(inc, p) = Cardinality(Fibre(PredsOf(inc), p)) /\ Count(inc, p) \in Nat
<1>1. Len(inc) \in Nat /\ DOMAIN inc = 1 .. Len(inc)
  OBVIOUS
<1>2. IsFiniteSet(DOMAIN inc) /\ Cardinality(DOMAIN inc) = Len(inc)
  BY <1>1, FS_Interval
<1>3. DOMAIN PredsOf(inc) = DOMAIN inc
  BY DEF PredsOf
<1>4. ASSUME NEW p PROVE Count(inc, p) = Cardinality(Fibre(PredsOf(inc), p)) /\ Count(inc, p) \in Nat
  <2>1. {k \in DOMAIN inc : inc[k].pred = p} = Fibre(PredsOf(inc), p)
    BY DEF Fibre, PredsOf
  <2>2. IsFiniteSet({k \in DOMAIN inc : inc[k].pred = p})
    BY <1>2, FS_Subset
  <2>3. Count(inc, p) \in Nat
    BY <2>2, FS_CardinalityType DEF Count
  <2>. QED
    BY <2>1, <2>3 DEF Count
<1>. QED
  BY <1>1, <1>2, <1>3, <1>4

LEMMA LensByCount ==
  ASSUME NEW inc \in Seq(PhiEntry), NEW other \in Seq(PhiEntry), \A p : Count(inc, p) = Count(other, p)
  PROVE  Len(inc) = Len(other)
<1>. DEFINE a == PredsOf(inc)
            c == PredsOf(other)
<1>1. /\ IsFiniteSet(DOMAIN a) /\ Cardinality(DOMAIN a) = Len(inc) /\ Len(inc) \in Nat
      /\ \A p : Count(inc, p) = Cardinality(Fibre(a, p)) /\ Count(inc, p) \in Nat
  BY CountIs
<1>2. /\ IsFiniteSet(DOMAIN c) /\ Cardinality(DOMAIN c) = Len(other) /\ Len(other) \in Nat
      /\ \A p : Count(other, p) = Cardinality(Fibre(c, p))
  BY CountIs
<1>. HIDE DEF a, c
<1>3. /\ \A p : Cardinality(Fibre(a, p)) <= Cardinality(Fibre(c, p))
      /\ \A p : Cardinality(Fibre(c, p)) <= Cardinality(Fibre(a, p))
  BY <1>1, <1>2
<1>4. Cardinality(DOMAIN a) <= Cardinality(DOMAIN c) /\ Cardinality(DOMAIN c) <= Cardinality(DOMAIN a)
  BY <1>1, <1>2, <1>3, FibresCount
<1>. QED
  BY <1>1, <1>2, <1>4

EdgeFrom(g, b) == [e \in PredEdges(g, b) |-> e[1]]

LEMMA PredEdgesAre ==
  ASSUME NEW g \in Graphs, NEW b
  PROVE  /\ IsFiniteSet(PredEdges(g, b))
         /\ \A e : e \in PredEdges(g, b) <=> \E p \in DOMAIN g : \E k \in DOMAIN g[p] : g[p][k] = b /\ e = <<p, k>>
<1>. DEFINE K(p) == {k \in DOMAIN g[p] : g[p][k] = b}
            F == [p \in DOMAIN g |-> {p} \X K(p)]
<1>1. IsFiniteSet(DOMAIN g)
  BY BlocksAreFinite
<1>2. ASSUME NEW p \in DOMAIN g PROVE IsFiniteSet(F[p])
  <2>1. g[p] \in Seq(Nat) /\ K(p) \subseteq DOMAIN g[p]
    BY GraphIs
  <2>2. IsFiniteSet(K(p))
    BY <2>1, PlacesAreFinite
  <2>3. IsFiniteSet({p})
    BY FS_Singleton
  <2>. HIDE DEF K
  <2>. QED
    BY <2>2, <2>3, FS_Product
<1>3. PredEdges(g, b) = UNION Range(F)
  BY DEF PredEdges, Range
<1>4. IsFiniteSet(UNION Range(F))
  BY <1>1, <1>2, GatheredIsFinite
<1>5. ASSUME NEW e
      PROVE  e \in PredEdges(g, b) <=> \E p \in DOMAIN g : \E k \in DOMAIN g[p] : g[p][k] = b /\ e = <<p, k>>
  BY DEF PredEdges
<1>. QED
  BY <1>3, <1>4, <1>5

LEMMA EdgesCount ==
  ASSUME NEW g \in Graphs, NEW b
  PROVE  /\ IsFiniteSet(DOMAIN EdgeFrom(g, b)) /\ Cardinality(DOMAIN EdgeFrom(g, b)) = PredSize(g, b)
         /\ \A p : Edges(g, p, b) = Cardinality(Fibre(EdgeFrom(g, b), p))
<1>1. IsFiniteSet(PredEdges(g, b)) /\ DOMAIN EdgeFrom(g, b) = PredEdges(g, b)
  BY PredEdgesAre DEF EdgeFrom
<1>2. ASSUME NEW p \in DOMAIN g PROVE Edges(g, p, b) = Cardinality(Fibre(EdgeFrom(g, b), p))
  <2>. DEFINE K == {k \in DOMAIN g[p] : g[p][k] = b}
              T == Fibre(EdgeFrom(g, b), p)
              pair == [k \in K |-> <<p, k>>]
  <2>1. \A e : e \in T <=> \E k \in K : e = <<p, k>>
    BY PredEdgesAre DEF Fibre, EdgeFrom
  <2>2. IsFiniteSet(K)
    <3>1. g[p] \in Seq(Nat) /\ K \subseteq DOMAIN g[p]
      BY GraphIs
    <3>. QED
      BY <3>1, PlacesAreFinite
  <2>3. Edges(g, p, b) = Cardinality(K)
    BY DEF Edges
  <2>. HIDE DEF K, T
  <2>4. pair \in [K -> T] /\ (\A x, y \in K : pair[x] = pair[y] => x = y) /\ \A e \in T : \E k \in K : pair[k] = e
    BY <2>1
  <2>. HIDE DEF pair
  <2>5. pair \in Bijection(K, T)
    BY <2>4 DEF Bijection, Injection, Surjection, IsInjective
  <2>6. Cardinality(T) = Cardinality(K)
    BY <2>2, <2>5, FS_Bijection DEF ExistsBijection
  <2>. QED
    BY <2>3, <2>6 DEF T
<1>3. ASSUME NEW p, p \notin DOMAIN g PROVE Edges(g, p, b) = Cardinality(Fibre(EdgeFrom(g, b), p))
  <2>1. Fibre(EdgeFrom(g, b), p) = {}
    BY <1>3, PredEdgesAre DEF Fibre, EdgeFrom
  <2>. QED
    BY <1>3, <2>1, FS_EmptySet DEF Edges
<1>. QED
  BY <1>1, <1>2, <1>3 DEF PredSize

\* A phi with no more entries than edges has as many as its block has edges into it
\* only if it has one for each.
LEMMA FullLen ==
  ASSUME NEW g \in Graphs, NEW b, NEW inc \in Seq(PhiEntry), \A p : Count(inc, p) <= Edges(g, p, b)
  PROVE  Len(inc) = PredSize(g, b) <=> \A p : Count(inc, p) = Edges(g, p, b)
<1>. DEFINE a == PredsOf(inc)
            c == EdgeFrom(g, b)
<1>1. /\ IsFiniteSet(DOMAIN a) /\ Cardinality(DOMAIN a) = Len(inc) /\ Len(inc) \in Nat
      /\ \A p : Count(inc, p) = Cardinality(Fibre(a, p)) /\ Count(inc, p) \in Nat
  BY CountIs
<1>2. /\ IsFiniteSet(DOMAIN c) /\ Cardinality(DOMAIN c) = PredSize(g, b)
      /\ \A p : Edges(g, p, b) = Cardinality(Fibre(c, p)) /\ Edges(g, p, b) \in Nat
  BY EdgesCount, EdgesAre
<1>3. PredSize(g, b) \in Nat
  BY <1>2, FS_CardinalityType
<1>. HIDE DEF a, c
<1>4. \A p : Cardinality(Fibre(a, p)) <= Cardinality(Fibre(c, p))
  BY <1>1, <1>2
<1>5. /\ Cardinality(DOMAIN a) <= Cardinality(DOMAIN c)
      /\ Cardinality(DOMAIN a) = Cardinality(DOMAIN c) => \A p : Cardinality(Fibre(a, p)) = Cardinality(Fibre(c, p))
  BY <1>1, <1>2, <1>4, FibresCount
<1>6. ASSUME \A p : Count(inc, p) = Edges(g, p, b) PROVE Len(inc) = PredSize(g, b)
  <2>1. \A p : Cardinality(Fibre(c, p)) <= Cardinality(Fibre(a, p))
    BY <1>1, <1>2, <1>6
  <2>2. Cardinality(DOMAIN c) <= Cardinality(DOMAIN a)
    BY <1>1, <1>2, <2>1, FibresCount
  <2>. QED
    BY <1>1, <1>2, <1>3, <1>5, <2>2
<1>. QED
  BY <1>1, <1>2, <1>5, <1>6

LEMMA EdgesThere ==
  ASSUME NEW g \in Graphs, NEW p, NEW b
  PROVE  /\ p \in DOMAIN g /\ b \in Succs(g, p) => Edges(g, p, b) # 0
         /\ Edges(g, p, b) # 0 => p \in DOMAIN g /\ b \in Succs(g, p)
<1>1. ASSUME p \in DOMAIN g PROVE Edges(g, p, b) # 0 <=> b \in Succs(g, p)
  <2>. DEFINE K == {k \in DOMAIN g[p] : g[p][k] = b}
  <2>1. g[p] \in Seq(Nat) /\ K \subseteq DOMAIN g[p]
    BY <1>1, GraphIs
  <2>2. IsFiniteSet(K)
    BY <2>1, PlacesAreFinite
  <2>3. Edges(g, p, b) = Cardinality(K)
    BY <1>1 DEF Edges
  <2>4. K # {} <=> b \in Succs(g, p)
    BY <2>1 DEF Succs, ToSet
  <2>. HIDE DEF K
  <2>5. Cardinality(K) = 0 <=> K = {}
    BY <2>2, FS_EmptySet
  <2>. QED
    BY <2>3, <2>4, <2>5
<1>2. p \notin DOMAIN g => Edges(g, p, b) = 0
  BY DEF Edges
<1>. QED
  BY <1>1, <1>2

\* More entries from one predecessor.
LEMMA CountMore ==
  ASSUME NEW inc \in Seq(PhiEntry), NEW n \in Nat, NEW e \in PhiEntry,
         NEW more, more = [k \in 1 .. n |-> e]
  PROVE  \A p : Count(inc \o more, p) = Count(inc, p) + (IF p = e.pred THEN n ELSE 0)
<1>. SUFFICES ASSUME NEW p PROVE Count(inc \o more, p) = Count(inc, p) + (IF p = e.pred THEN n ELSE 0)
  OBVIOUS
<1>. DEFINE long == inc \o more
            m == Len(inc)
            A == {k \in DOMAIN inc : inc[k].pred = p}
            L == {k \in DOMAIN long : long[k].pred = p}
            B == {k \in m + 1 .. m + n : p = e.pred}
<1>1. m \in Nat /\ DOMAIN inc = 1 .. m /\ more \in Seq(PhiEntry) /\ Len(more) = n
  <2>1. more \in [1 .. n -> PhiEntry]
    OBVIOUS
  <2>. QED
    BY <2>1, SeqDef
<1>2. DOMAIN long = 1 .. m + n
      /\ (\A k \in 1 .. m : long[k] = inc[k]) /\ \A k \in m + 1 .. m + n : long[k] = e
  BY <1>1
<1>. HIDE DEF long, m
<1>3. L = A \cup B /\ A \cap B = {}
  <2>1. \A k : k \in 1 .. m + n <=> k \in 1 .. m \/ k \in m + 1 .. m + n
    BY <1>1
  <2>2. \A k : ~(k \in 1 .. m /\ k \in m + 1 .. m + n)
    BY <1>1
  <2>3. \A k : k \in L <=> k \in A \/ k \in B
    BY <1>1, <1>2, <2>1
  <2>4. A \cap B = {}
    BY <1>1, <2>2
  <2>. QED
    BY <2>3, <2>4
<1>4. IsFiniteSet(A)
  <2>1. IsFiniteSet(1 .. m)
    BY <1>1, FS_Interval
  <2>. QED
    BY <1>1, <2>1, FS_Subset
<1>5. IsFiniteSet(B) /\ Cardinality(B) = IF p = e.pred THEN n ELSE 0
  <2>1. CASE p = e.pred
    <3>1. B = m + 1 .. m + n
      BY <2>1
    <3>2. m + 1 \in Int /\ m + n \in Int
      BY <1>1
    <3>3. IsFiniteSet(m + 1 .. m + n) /\ Cardinality(m + 1 .. m + n) = IF m + 1 > m + n THEN 0 ELSE (m + n) - (m + 1) + 1
      BY <3>2, FS_Interval
    <3>4. (IF m + 1 > m + n THEN 0 ELSE (m + n) - (m + 1) + 1) = n
      BY <1>1
    <3>. QED
      BY <2>1, <3>1, <3>3, <3>4
  <2>2. CASE p # e.pred
    <3>1. B = {}
      BY <2>2
    <3>. QED
      BY <2>2, <3>1, FS_EmptySet
  <2>. QED
    BY <2>1, <2>2
<1>. HIDE DEF A, B, L
<1>6. Cardinality(A) \in Nat /\ Cardinality(B) \in Nat
  BY <1>4, <1>5, FS_CardinalityType
<1>7. Cardinality(L) = Cardinality(A) + Cardinality(B)
  <2>1. Cardinality(A \cup B) = Cardinality(A) + Cardinality(B) - Cardinality({})
    BY <1>3, <1>4, <1>5, FS_Union
  <2>2. Cardinality({}) = 0
    BY FS_EmptySet
  <2>. QED
    BY <1>3, <1>6, <2>1, <2>2
<1>. QED
  BY <1>5, <1>7 DEF Count, A, L, long

-----------------------------------------------------------------------------
(* The phis that were placed: where they are and what entries they have.      *)

\* The edge from p to b is in the worklist wl, and the entries a placed phi of b has
\* for p when the walk has visited vis and has wl before it.
Waiting(wl, b, p) == \E j \in DOMAIN wl : wl[j].bb = b /\ wl[j].pred = p
Due(g, vis, wl, b, p) == IF p \in vis /\ ~Waiting(wl, b, p) THEN Edges(g, p, b) ELSE 0

PredsAgree(g, inc) ==
  /\ \A k \in DOMAIN inc : inc[k].pred \in DOMAIN g
  /\ \A k, l \in DOMAIN inc : inc[k].pred = inc[l].pred => inc[k] = inc[l]
EntriesDue(g, b, i, news, vis, wl) ==
  /\ PredsAgree(g, i.inc)
  /\ \A p \in DOMAIN g : Count(i.inc, p) = IF i.id \in news THEN Due(g, vis, wl, b, p) ELSE Edges(g, p, b)
EntriesKept(g, f, news, vis, wl) ==
  \A b \in DOMAIN f : \A p \in DOMAIN f[b] :
    f[b][p].op = "phi" => EntriesDue(g, b, f[b][p], news, vis, wl)

\* The placed phis are phis of the blocks of their keys, in front of everything else.
KeysPlaced(f, np) ==
  \A k \in DOMAIN np : /\ k[1] \in DOMAIN f \ {Entry}
                       /\ \E p \in DOMAIN f[k[1]] : f[k[1]][p].id = np[k] /\ f[k[1]][p].op = "phi"
InFront(f, news) ==
  \A b \in DOMAIN f : \A p \in DOMAIN f[b] : f[b][p].id \in news => \A q \in 1 .. p - 1 : f[b][q].id \in news
PhisPlaced(f, np) == KeysPlaced(f, np) /\ InFront(f, Range(np))

LEMMA DueIs ==
  ASSUME NEW g \in Graphs, NEW vis, NEW wl, NEW b, NEW p
  PROVE  /\ Due(g, vis, wl, b, p) \in Nat /\ Due(g, vis, wl, b, p) <= Edges(g, p, b)
         /\ p \notin DOMAIN g => Due(g, vis, wl, b, p) = 0 /\ Edges(g, p, b) = 0
<1>1. Edges(g, p, b) \in Nat /\ (p \notin DOMAIN g => Edges(g, p, b) = 0)
  BY EdgesAre DEF Edges
<1>. QED
  BY <1>1 DEF Due

LEMMA EntriesAre ==
  ASSUME NEW g \in Graphs, NEW b, NEW i \in Instr, NEW news, NEW vis, NEW wl, EntriesDue(g, b, i, news, vis, wl)
  PROVE  /\ i.inc \in Seq(PhiEntry)
         /\ \A p : Count(i.inc, p) = IF i.id \in news THEN Due(g, vis, wl, b, p) ELSE Edges(g, p, b)
         /\ \A p : Count(i.inc, p) <= Edges(g, p, b)
         /\ i.id \notin news => Len(i.inc) = PredSize(g, b)
<1>1. i.inc \in Seq(PhiEntry)
  BY InstrIs
<1>2. ASSUME NEW p
      PROVE  Count(i.inc, p) = IF i.id \in news THEN Due(g, vis, wl, b, p) ELSE Edges(g, p, b)
  <2>1. CASE p \in DOMAIN g
    BY <2>1 DEF EntriesDue
  <2>2. CASE p \notin DOMAIN g
    <3>1. {k \in DOMAIN i.inc : i.inc[k].pred = p} = {}
      BY <2>2 DEF EntriesDue, PredsAgree
    <3>2. Count(i.inc, p) = 0
      BY <3>1, FS_EmptySet DEF Count
    <3>. QED
      BY <2>2, <3>2, DueIs
  <2>. QED
    BY <2>1, <2>2
<1>3. ASSUME NEW p PROVE Count(i.inc, p) <= Edges(g, p, b)
  <2>1. Edges(g, p, b) \in Nat
    BY EdgesAre
  <2>. QED
    BY <1>2, <2>1, DueIs
<1>4. i.id \notin news => Len(i.inc) = PredSize(g, b)
  BY <1>1, <1>2, <1>3, FullLen
<1>. QED
  BY <1>1, <1>2, <1>3, <1>4

\* A placed phi has a key, of its block.
LEMMA NewIs ==
  ASSUME NEW D, NEW f \in [D -> Seq(Instr)], Unique(f),
         NEW np, DOMAIN np \subseteq D \X Nat, \A k, l \in DOMAIN np : np[k] = np[l] => k = l, KeysPlaced(f, np),
         NEW b \in D, NEW p \in DOMAIN f[b], f[b][p].id \in Range(np)
  PROVE  /\ f[b][p].op = "phi" /\ b # Entry
         /\ \E var \in Nat : <<b, var>> \in DOMAIN np /\ np[<<b, var>>] = f[b][p].id
<1>1. PICK k \in DOMAIN np : np[k] = f[b][p].id
  BY DEF Range
<1>2. PICK q \in DOMAIN f[k[1]] : f[k[1]][q].id = np[k] /\ f[k[1]][q].op = "phi"
  BY DEF KeysPlaced
<1>3. k[1] \in D \ {Entry}
  BY DEF KeysPlaced
<1>4. k[1] = b /\ q = p
  BY <1>1, <1>2, <1>3, PlaceIsOne
<1>5. k = <<b, k[2]>> /\ k[2] \in Nat
  BY <1>4
<1>. QED
  BY <1>1, <1>2, <1>3, <1>4, <1>5

NewPlaces(code, news) == {p \in DOMAIN code : code[p].id \in news}

\* While the placed phis of a block lack entries they are the ones at its head that
\* are as long as the first.
LEMMA LeadingAre ==
  ASSUME NEW g \in Graphs, NEW f \in [DOMAIN g -> Seq(Instr)], Unique(f),
         NEW np, DOMAIN np \subseteq (DOMAIN g) \X Nat, \A k, l \in DOMAIN np : np[k] = np[l] => k = l,
         PhisPlaced(f, np), NEW vis, NEW wl, EntriesKept(g, f, Range(np), vis, wl),
         NEW b \in DOMAIN g, f[b] # <<>>, f[b][1].id \in Range(np), Len(f[b][1].inc) # PredSize(g, b)
  PROVE  LeadingPhis(f[b]) = NewPlaces(f[b], Range(np))
<1>. DEFINE code == f[b]
            news == Range(np)
<1>1. code \in Seq(Instr) /\ Len(code) \in Nat /\ DOMAIN code = 1 .. Len(code) /\ 1 \in DOMAIN code
  <2>1. code \in Seq(Instr) /\ code # <<>>
    OBVIOUS
  <2>. HIDE DEF code
  <2>. QED
    BY <2>1
<1>2. \A p \in DOMAIN code : code[p] \in Instr
  BY <1>1
<1>3. ASSUME NEW p \in DOMAIN code, code[p].id \in news
      PROVE  code[p].op = "phi" /\ \A q \in 1 .. p - 1 : code[q].id \in news
  <2>1. code[p].op = "phi"
    BY <1>3, NewIs DEF PhisPlaced
  <2>2. \A q \in 1 .. p - 1 : code[q].id \in news
    BY <1>3 DEF PhisPlaced, InFront
  <2>. QED
    BY <2>1, <2>2
<1>4. ASSUME NEW p \in DOMAIN code, code[p].op = "phi" PROVE EntriesDue(g, b, code[p], news, vis, wl)
  BY <1>4 DEF EntriesKept
<1>5. ASSUME NEW p \in DOMAIN code, code[p].id \in news PROVE Len(code[p].inc) = Len(code[1].inc)
  <2>1. code[p].inc \in Seq(PhiEntry) /\ code[1].inc \in Seq(PhiEntry)
        /\ \A r : Count(code[p].inc, r) = Count(code[1].inc, r)
    <3>1. EntriesDue(g, b, code[p], news, vis, wl) /\ EntriesDue(g, b, code[1], news, vis, wl)
      BY <1>1, <1>3, <1>4, <1>5
    <3>2. /\ code[p].inc \in Seq(PhiEntry)
          /\ \A r : Count(code[p].inc, r) = IF code[p].id \in news THEN Due(g, vis, wl, b, r) ELSE Edges(g, r, b)
      BY <1>2, <3>1, EntriesAre
    <3>3. /\ code[1].inc \in Seq(PhiEntry)
          /\ \A r : Count(code[1].inc, r) = IF code[1].id \in news THEN Due(g, vis, wl, b, r) ELSE Edges(g, r, b)
      BY <1>1, <1>2, <3>1, EntriesAre
    <3>. QED
      BY <1>5, <3>2, <3>3
  <2>. HIDE DEF code
  <2>. QED
    BY <2>1, LensByCount
<1>6. ASSUME NEW p \in DOMAIN code, code[p].id \in news PROVE p \in LeadingPhis(code)
  <2>1. ASSUME NEW q \in 1 .. p PROVE code[q].op = "phi" /\ Len(code[q].inc) = Len(code[1].inc)
    <3>1. q \in DOMAIN code /\ (q = p \/ q \in 1 .. p - 1)
      BY <1>1
    <3>2. code[q].id \in news
      BY <1>3, <1>6, <3>1
    <3>. QED
      BY <1>3, <1>5, <3>1, <3>2
  <2>. QED
    BY <2>1 DEF LeadingPhis
<1>7. ASSUME NEW p \in LeadingPhis(code) PROVE p \in DOMAIN code /\ code[p].id \in news
  <2>1. p \in DOMAIN code /\ p \in 1 .. p /\ \A q \in 1 .. p : code[q].op = "phi" /\ Len(code[q].inc) = Len(code[1].inc)
    BY <1>1 DEF LeadingPhis
  <2>2. code[p].op = "phi" /\ Len(code[p].inc) # PredSize(g, b)
    BY <2>1
  <2>. QED
    BY <1>2, <1>4, <2>1, <2>2, EntriesAre
<1>. QED
  BY <1>6, <1>7 DEF NewPlaces

FromVisited(it) ==
  \/ it.pred = 0 /\ it.bb = Entry
  \/ it.pred \in visited /\ it.bb \in Succs(graph, it.pred)
WalkKept ==
  /\ stage \in Looping => visited = {}
  /\ stage \in {"collect", "done"} => DOMAIN newPhis = {}
  /\ \A i, j \in DOMAIN worklist :
       worklist[i].bb = worklist[j].bb /\ worklist[i].pred = worklist[j].pred => i = j
  /\ \A j \in DOMAIN worklist : FromVisited(worklist[j])
  /\ visited \subseteq Reachable(graph)
  /\ \A b \in visited : \A d \in DOMAIN graph : Dominates(graph, d, b) => d \in visited
  /\ stage \in {"rename", "simplify"} =>
       /\ \A b \in visited : \A s \in Succs(graph, b) : s \in visited \/ \E j \in DOMAIN worklist : worklist[j].bb = s
       /\ Entry \in visited \/ \E j \in DOMAIN worklist : worklist[j].bb = Entry
PhisKeep ==
  PhisPlaced(func, newPhis) /\ EntriesKept(graph, func, Range(newPhis), visited, worklist)

\* Entering a block: each phi placed for a variable gets its value on the edges that
\* were followed, and is its value from there on.
Longer(i, val, pred, bb) == [i EXCEPT !.inc = @ \o [k \in 1 .. Edges(graph, pred, bb) |-> [val |-> val, pred |-> pred]]]
Entered(rpd, entered) ==
  LET code == func[rpd.bb]
  IN /\ DOMAIN entered.code = DOMAIN code
     /\ \A p \in DOMAIN code : code[p].id \notin Range(newPhis) => entered.code[p] = code[p]
     /\ \A p \in DOMAIN code : \A var \in Nat :
          <<rpd.bb, var>> \in DOMAIN newPhis /\ newPhis[<<rpd.bb, var>>] = code[p].id =>
            var \in DOMAIN rpd.vals /\ entered.code[p] = Longer(code[p], rpd.vals[var], rpd.pred, rpd.bb)
     /\ \A var \in DOMAIN rpd.vals :
          entered.vals[var] = IF <<rpd.bb, var>> \in DOMAIN newPhis THEN Inst(newPhis[<<rpd.bb, var>>])
                              ELSE rpd.vals[var]

LEMMA PhisAre ==
  ASSUME IInv, PhisKeep
  PROVE  /\ graph \in Graphs /\ func \in [DOMAIN graph -> Seq(Instr)] /\ Unique(func)
         /\ DOMAIN newPhis \subseteq (DOMAIN graph) \X Nat /\ Range(newPhis) \subseteq Nat
         /\ \A k, l \in DOMAIN newPhis : newPhis[k] = newPhis[l] => k = l
         /\ KeysPlaced(func, newPhis) /\ InFront(func, Range(newPhis))
         /\ EntriesKept(graph, func, Range(newPhis), visited, worklist)
BY DEF IInv, TypeOK, PhisKept, PhisKeep, PhisPlaced

LEMMA PlacedPhiIs ==
  ASSUME IInv, PhisKeep, NEW b \in DOMAIN graph, NEW p \in DOMAIN func[b], func[b][p].id \in Range(newPhis)
  PROVE  /\ func[b][p].op = "phi" /\ b # Entry
         /\ \E var \in Nat : <<b, var>> \in DOMAIN newPhis /\ newPhis[<<b, var>>] = func[b][p].id
<1>. DEFINE D == DOMAIN graph
<1>1. /\ func \in [D -> Seq(Instr)] /\ Unique(func)
      /\ DOMAIN newPhis \subseteq D \X Nat
      /\ \A k, l \in DOMAIN newPhis : newPhis[k] = newPhis[l] => k = l
      /\ KeysPlaced(func, newPhis)
  BY PhisAre
<1>2. b \in D /\ p \in DOMAIN func[b] /\ func[b][p].id \in Range(newPhis)
  OBVIOUS
<1>. HIDE DEF D
<1>. QED
  BY <1>1, <1>2, NewIs, Z3

LEMMA AllocaOfKey ==
  ASSUME IInv, PhisKeep, NEW b, NEW var, <<b, var>> \in DOMAIN newPhis
  PROVE  AllocaOf(newPhis[<<b, var>>]) = var
<1>. DEFINE keys == {k \in DOMAIN newPhis : newPhis[k] = newPhis[<<b, var>>]}
<1>1. keys = {<<b, var>>}
  BY PhisAre
<1>2. AllocaOf(newPhis[<<b, var>>]) = (CHOOSE k \in keys : TRUE)[2]
  BY <1>1 DEF AllocaOf
<1>. QED
  BY <1>1, <1>2

LEMMA EntriesOfPhi ==
  ASSUME IInv, PhisKeep, NEW b \in DOMAIN graph, NEW p \in DOMAIN func[b], func[b][p].op = "phi"
  PROVE  /\ func[b][p].inc \in Seq(PhiEntry)
         /\ \A r : Count(func[b][p].inc, r) = IF func[b][p].id \in Range(newPhis) THEN Due(graph, visited, worklist, b, r)
                                             ELSE Edges(graph, r, b)
         /\ \A r : Count(func[b][p].inc, r) <= Edges(graph, r, b)
         /\ func[b][p].id \notin Range(newPhis) => Len(func[b][p].inc) = PredSize(graph, b)
<1>1. graph \in Graphs /\ func \in [DOMAIN graph -> Seq(Instr)]
      /\ EntriesKept(graph, func, Range(newPhis), visited, worklist)
  BY PhisAre
<1>. DEFINE i == func[b][p]
<1>2. i \in Instr /\ EntriesDue(graph, b, i, Range(newPhis), visited, worklist)
  BY <1>1 DEF EntriesKept
<1>. HIDE DEF i
<1>3. /\ i.inc \in Seq(PhiEntry)
      /\ \A r : Count(i.inc, r) = IF i.id \in Range(newPhis) THEN Due(graph, visited, worklist, b, r) ELSE Edges(graph, r, b)
      /\ \A r : Count(i.inc, r) <= Edges(graph, r, b)
      /\ i.id \notin Range(newPhis) => Len(i.inc) = PredSize(graph, b)
  BY <1>1, <1>2, EntriesAre
<1>. QED
  BY <1>3 DEF i

LEMMA LeadingAreNew ==
  ASSUME IInv, PhisKeep, NEW b \in DOMAIN graph, func[b] # <<>>, func[b][1].id \in Range(newPhis),
         Len(func[b][1].inc) # PredSize(graph, b)
  PROVE  LeadingPhis(func[b]) = NewPlaces(func[b], Range(newPhis))
<1>1. /\ graph \in Graphs /\ func \in [DOMAIN graph -> Seq(Instr)] /\ Unique(func)
      /\ DOMAIN newPhis \subseteq (DOMAIN graph) \X Nat
      /\ \A k, l \in DOMAIN newPhis : newPhis[k] = newPhis[l] => k = l
      /\ PhisPlaced(func, newPhis)
      /\ EntriesKept(graph, func, Range(newPhis), visited, worklist)
  BY PhisAre DEF PhisPlaced
<1>. QED
  BY <1>1, LeadingAre, SMTT(30)

\* The phis that an edge of the worklist brings entries to are those that were placed.
LEMMA EnteredPhisAre ==
  ASSUME IInv, PhisKeep, NEW rpd, rpd.bb \in DOMAIN graph,
         NEW j \in DOMAIN worklist, rpd = worklist[j], FromVisited(rpd),
         NEW code, code = func[rpd.bb],
         NEW phis, phis = IF code # <<>> /\ code[1].id \in Range(newPhis) THEN LeadingPhis(code) ELSE {}
  PROVE  phis = {p \in DOMAIN code : code[p].id \in Range(newPhis)}
<1>1. code \in Seq(Instr) /\ func \in [DOMAIN graph -> Seq(Instr)] /\ graph \in Graphs
  BY PhisAre
<1>2. Len(code) \in Nat /\ DOMAIN code = 1 .. Len(code) /\ (code = <<>> <=> Len(code) = 0)
  BY <1>1
<1>3. CASE code = <<>> \/ code[1].id \notin Range(newPhis)
  <2>1. ASSUME NEW p \in DOMAIN code, code[p].id \in Range(newPhis) PROVE FALSE
    <3>1. \A q \in 1 .. p - 1 : code[q].id \in Range(newPhis)
      BY <2>1, PhisAre DEF InFront
    <3>2. p = 1 \/ 1 \in 1 .. p - 1
      BY <1>2
    <3>. QED
      BY <1>2, <1>3, <2>1, <3>1, <3>2
  <2>. QED
    BY <1>3, <2>1
<1>4. CASE code # <<>> /\ code[1].id \in Range(newPhis)
  <2>1. 1 \in DOMAIN code
    BY <1>2, <1>4
  <2>2. code[1].op = "phi" /\ rpd.bb # Entry
    BY <1>4, <2>1, PlacedPhiIs
  <2>3. rpd.pred \in visited /\ rpd.bb \in Succs(graph, rpd.pred)
    BY <2>2 DEF FromVisited
  <2>4. rpd.pred \in DOMAIN graph
    BY <2>3 DEF IInv, TypeOK
  <2>5. Edges(graph, rpd.pred, rpd.bb) # 0
    BY <1>1, <2>3, <2>4, EdgesThere
  <2>6. Due(graph, visited, worklist, rpd.bb, rpd.pred) = 0
    BY DEF Due, Waiting
  <2>. DEFINE inc == func[rpd.bb][1].inc
  <2>7. /\ inc \in Seq(PhiEntry) /\ Count(inc, rpd.pred) = 0
        /\ \A p : Count(inc, p) <= Edges(graph, p, rpd.bb)
    <3>1. func[rpd.bb][1].op = "phi" /\ func[rpd.bb][1].id \in Range(newPhis) /\ 1 \in DOMAIN func[rpd.bb]
      BY <1>4, <2>1, <2>2
    <3>. QED
      BY <2>6, <3>1, EntriesOfPhi
  <2>. HIDE DEF inc
  <2>8. Len(inc) # PredSize(graph, rpd.bb)
    BY <1>1, <2>5, <2>7, FullLen
  <2>9. LeadingPhis(code) = {p \in DOMAIN code : code[p].id \in Range(newPhis)}
    <3>1. func[rpd.bb] # <<>> /\ func[rpd.bb][1].id \in Range(newPhis)
          /\ Len(func[rpd.bb][1].inc) # PredSize(graph, rpd.bb)
      BY <1>4, <2>8 DEF inc
    <3>2. LeadingPhis(func[rpd.bb]) = NewPlaces(func[rpd.bb], Range(newPhis))
      BY <3>1, LeadingAreNew
    <3>. QED
      BY <3>2 DEF NewPlaces
  <2>. QED
    BY <1>4, <2>9
<1>. QED
  BY <1>3, <1>4

LEMMA EnteredIs ==
  ASSUME IInv, PhisKeep, stage = "rename", NEW rpd, rpd.bb \in DOMAIN graph, rpd \in RenamePassData,
         NEW j \in DOMAIN worklist, rpd = worklist[j], FromVisited(rpd)
  PROVE  Entered(rpd, EnterBlock(rpd))
<1>. DEFINE code == func[rpd.bb]
            news == Range(newPhis)
            phis == IF code # <<>> /\ code[1].id \in Range(newPhis) THEN LeadingPhis(code) ELSE {}
            before(p, var) == {q \in phis : q < p /\ AllocaOf(code[q].id) = var}
            value(p, var) == IF before(p, var) = {} THEN rpd.vals[var] ELSE Inst(code[Max(before(p, var))].id)
            entries(p) == [k \in 1 .. EntriesPerEdge(rpd.pred, rpd.bb) |->
                             [val |-> value(p, AllocaOf(code[p].id)), pred |-> rpd.pred]]
            c == [p \in DOMAIN code |->
                    IF p \in phis THEN [code[p] EXCEPT !.inc = @ \o entries(p)] ELSE code[p]]
            v == [var \in DOMAIN rpd.vals |-> value(Len(code) + 1, var)]
<1>1. EnterBlock(rpd).code = c /\ EnterBlock(rpd).vals = v
  BY DEF EnterBlock
<1>2. phis = {p \in DOMAIN code : code[p].id \in news}
  <2>. HIDE DEF phis
  <2>1. phis = IF func[rpd.bb] # <<>> /\ func[rpd.bb][1].id \in Range(newPhis) THEN LeadingPhis(func[rpd.bb]) ELSE {}
    BY DEF phis
  <2>. QED
    BY <2>1, EnteredPhisAre
<1>3. code \in Seq(Instr) /\ Len(code) \in Nat /\ DOMAIN code = 1 .. Len(code)
  BY PhisAre
<1>. HIDE DEF phis
<1>4. ASSUME NEW p \in DOMAIN code, NEW q \in DOMAIN code, code[p].id = code[q].id PROVE p = q
  BY <1>4, PhisAre DEF Unique
<1>5. ASSUME NEW q \in phis
      PROVE  <<rpd.bb, AllocaOf(code[q].id)>> \in DOMAIN newPhis /\ newPhis[<<rpd.bb, AllocaOf(code[q].id)>>] = code[q].id
  <2>1. PICK var \in Nat : <<rpd.bb, var>> \in DOMAIN newPhis /\ newPhis[<<rpd.bb, var>>] = code[q].id
    BY <1>2, PlacedPhiIs
  <2>. QED
    BY <2>1, AllocaOfKey
<1>6. ASSUME NEW p \in DOMAIN code, NEW var, <<rpd.bb, var>> \in DOMAIN newPhis, newPhis[<<rpd.bb, var>>] = code[p].id
      PROVE  p \in phis /\ AllocaOf(code[p].id) = var /\ \A q \in phis : AllocaOf(code[q].id) = var => q = p
  <2>1. code[p].id \in news
    BY <1>6 DEF Range
  <2>2. AllocaOf(code[p].id) = var
    BY <1>6, AllocaOfKey
  <2>3. \A q \in phis : AllocaOf(code[q].id) = var => q = p
    BY <1>2, <1>4, <1>5, <1>6
  <2>. QED
    BY <1>2, <2>1, <2>2, <2>3
<1>. HIDE DEF code, before
<1>7. ASSUME NEW p \in DOMAIN code, NEW var \in Nat,
             <<rpd.bb, var>> \in DOMAIN newPhis, newPhis[<<rpd.bb, var>>] = code[p].id
      PROVE  var \in DOMAIN rpd.vals /\ c[p] = Longer(code[p], rpd.vals[var], rpd.pred, rpd.bb)
  <2>1. p \in phis /\ AllocaOf(code[p].id) = var /\ \A q \in phis : AllocaOf(code[q].id) = var => q = p
    BY <1>6, <1>7
  <2>2. before(p, var) = {}
    BY <1>2, <1>3, <2>1 DEF before
  <2>3. entries(p) = [k \in 1 .. Edges(graph, rpd.pred, rpd.bb) |-> [val |-> rpd.vals[var], pred |-> rpd.pred]]
    BY <2>1, <2>2 DEF EntriesPerEdge
  <2>4. c[p] = [code[p] EXCEPT !.inc = @ \o entries(p)]
    BY <2>1
  <2>5. PhisHaveAllocas(DOMAIN allocas)
    BY WalkingIs
  <2>6. var \in DOMAIN rpd.vals
    BY <1>7, <2>5 DEF PhisHaveAllocas, RenamePassData
  <2>. QED
    BY <2>3, <2>4, <2>6 DEF Longer
<1>8. ASSUME NEW p \in DOMAIN code, code[p].id \notin news PROVE c[p] = code[p]
  BY <1>2, <1>8
<1>9. ASSUME NEW var \in DOMAIN rpd.vals
      PROVE  value(Len(code) + 1, var) = IF <<rpd.bb, var>> \in DOMAIN newPhis THEN Inst(newPhis[<<rpd.bb, var>>])
                                         ELSE rpd.vals[var]
  <2>. DEFINE S == before(Len(code) + 1, var)
  <2>1. \A q : q \in S <=> q \in phis /\ AllocaOf(code[q].id) = var
    BY <1>2, <1>3 DEF before
  <2>2. CASE <<rpd.bb, var>> \in DOMAIN newPhis
    <3>1. PICK p \in DOMAIN code : code[p].id = newPhis[<<rpd.bb, var>>]
      BY <2>2, PhisAre DEF KeysPlaced, code
    <3>2. p \in phis /\ AllocaOf(code[p].id) = var /\ \A q \in phis : AllocaOf(code[q].id) = var => q = p
      BY <1>6, <2>2, <3>1
    <3>3. S = {p}
      BY <2>1, <3>2
    <3>4. p \in Nat /\ \A n \in {p} : n <= p
      BY <1>3
    <3>5. Max({p}) \in {p}
      BY <3>4, MaxIs
    <3>. HIDE DEF S
    <3>6. code[Max(S)].id = newPhis[<<rpd.bb, var>>] /\ S # {}
      BY <3>1, <3>3, <3>5
    <3>. QED
      BY <2>2, <3>6 DEF S
  <2>3. CASE <<rpd.bb, var>> \notin DOMAIN newPhis
    <3>1. S = {}
      BY <1>5, <2>1, <2>3
    <3>. QED
      BY <2>3, <3>1
  <2>. QED
    BY <2>2, <2>3
<1>. HIDE DEF value
<1>10. DOMAIN c = DOMAIN code /\ \A var \in DOMAIN rpd.vals : v[var] = value(Len(code) + 1, var)
  OBVIOUS
<1>. HIDE DEF c, v
<1>. QED
  BY <1>1, <1>7, <1>8, <1>9, <1>10 DEF Entered, code

-----------------------------------------------------------------------------
(* What the rewriting of a function leaves of the accesses to an alloca.     *)

StoresTo(f, b, q, a) == f[b][q].op = "store" /\ f[b][q].ptr = Inst(a)
LoadsFrom(f, b, q, a) == f[b][q].op = "load" /\ f[b][q].ptr = Inst(a)

\* Only loads and stores use a, through their pointers.
Pointed(f, a) ==
  \A b \in DOMAIN f : \A p \in DOMAIN f[b] :
    Inst(a) \in Operands(f[b][p]) =>
      f[b][p].op \in {"load", "store"} /\ f[b][p].ptr = Inst(a) /\ f[b][p].val # Inst(a)

\* Every store to a is in a block of Def, every load that none precedes in its block
\* in one of Live.
Covers(f, a, Def, Live) ==
  \A b \in DOMAIN f : \A q \in DOMAIN f[b] :
    /\ StoresTo(f, b, q, a) => b \in Def
    /\ LoadsFrom(f, b, q, a) /\ (\A r \in 1 .. q - 1 : ~StoresTo(f, b, r, a)) => b \in Live
Stored(f, a, B) == \A b \in B : \E q \in DOMAIN f[b] : StoresTo(f, b, q, a)

LEMMA ReplacedPtr ==
  ASSUME NEW a, NEW by, a \notin DOMAIN by, \A x \in DOMAIN by : by[x] # Inst(a)
  PROVE  \A v : Replaced(v, by) = Inst(a) <=> v = Inst(a)
BY DEF Replaced, Inst

\* Thins, of sequences.
Blockwise(from, t, s, by, gone) ==
  /\ \A k \in DOMAIN t : from[k] \in DOMAIN s /\ s[from[k]].id \notin gone /\ SameBut(t[k], s[from[k]], by)
  /\ \A k, l \in DOMAIN t : k < l <=> from[k] < from[l]
  /\ \A p \in DOMAIN s : s[p].id \notin gone => \E k \in DOMAIN t : from[k] = p
  /\ DOMAIN t = 1 .. Len(t) /\ DOMAIN s = 1 .. Len(s) /\ Len(t) \in Nat /\ Len(s) \in Nat

LEMMA RewrittenPlace ==
  ASSUME NEW D, NEW f \in [D -> Seq(Instr)], NEW h \in [D -> Seq(Instr)],
         NEW by, NEW gone, NEW at, Rewritten(at, h, f, by, gone), NEW b \in D
  PROVE  Blockwise(at[b], h[b], f[b], by, gone)
<1>1. Thins(at[b], h[b], f[b], by, gone)
  BY DEF Rewritten
<1>2. DOMAIN h[b] = 1 .. Len(h[b]) /\ DOMAIN f[b] = 1 .. Len(f[b]) /\ Len(h[b]) \in Nat /\ Len(f[b]) \in Nat
  <2>1. h[b] \in Seq(Instr) /\ f[b] \in Seq(Instr)
    OBVIOUS
  <2>. QED
    BY <2>1
<1>3. \A k \in DOMAIN h[b] : at[b][k] \in DOMAIN f[b]
  BY <1>1 DEF Thins
<1>4. ASSUME NEW k \in DOMAIN h[b], NEW l \in DOMAIN h[b] PROVE k < l <=> at[b][k] < at[b][l]
  <2>1. k \in Int /\ l \in Int /\ at[b][k] \in Int /\ at[b][l] \in Int
    BY <1>2, <1>3
  <2>2. (k < l => at[b][k] < at[b][l]) /\ (l < k => at[b][l] < at[b][k]) /\ (k = l => at[b][k] = at[b][l])
    BY <1>1 DEF Thins
  <2>. QED
    BY <2>1, <2>2
<1>. QED
  BY <1>1, <1>2, <1>3, <1>4 DEF Thins, Blockwise

LEMMA PointedRewritten ==
  ASSUME NEW D, NEW f \in [D -> Seq(Instr)], NEW h \in [D -> Seq(Instr)],
         NEW by, NEW gone, NEW at, Rewritten(at, h, f, by, gone),
         NEW a, a \notin DOMAIN by, \A x \in DOMAIN by : by[x] # Inst(a), Pointed(f, a)
  PROVE  Pointed(h, a)
<1>0. \A b0 \in D : Blockwise(at[b0], h[b0], f[b0], by, gone)
  BY RewrittenPlace
<1>. SUFFICES ASSUME NEW b \in D, NEW p \in DOMAIN h[b], Inst(a) \in Operands(h[b][p])
              PROVE  h[b][p].op \in {"load", "store"} /\ h[b][p].ptr = Inst(a) /\ h[b][p].val # Inst(a)
  BY DEF Pointed
<1>. DEFINE j == h[b][p]
            i == f[b][at[b][p]]
<1>1. at[b][p] \in DOMAIN f[b] /\ SameBut(j, i, by)
  BY <1>0 DEF Blockwise
<1>2. \A v : Replaced(v, by) = Inst(a) <=> v = Inst(a)
  BY ReplacedPtr
<1>. HIDE DEF j, i
<1>3. ASSUME Inst(a) \in Operands(j) PROVE Inst(a) \in Operands(i)
  <2>1. j.ptr = Inst(a) \/ j.val = Inst(a) \/ \E k \in DOMAIN j.inc : j.inc[k].val = Inst(a)
    BY <1>3 DEF Operands
  <2>2. i.ptr = Inst(a) \/ i.val = Inst(a) \/ \E k \in DOMAIN i.inc : i.inc[k].val = Inst(a)
    BY <1>1, <1>2, <2>1 DEF SameBut
  <2>. QED
    BY <2>2 DEF Operands
<1>4. i.op \in {"load", "store"} /\ i.ptr = Inst(a) /\ i.val # Inst(a)
  BY <1>1, <1>3 DEF Pointed, i, j
<1>5. j.op = i.op /\ j.ptr = Inst(a) /\ j.val # Inst(a)
  BY <1>1, <1>2, <1>4 DEF SameBut
<1>. QED
  BY <1>4, <1>5 DEF j

\* Where a store to a goes, every load from a in its block does.
LoadsGoFirst(f, a, gone) ==
  \A b \in DOMAIN f :
    \/ \A q \in DOMAIN f[b] : StoresTo(f, b, q, a) => f[b][q].id \notin gone
    \/ \A q \in DOMAIN f[b] : LoadsFrom(f, b, q, a) => f[b][q].id \in gone

LEMMA AccessRewritten ==
  ASSUME NEW D, NEW f \in [D -> Seq(Instr)], NEW h \in [D -> Seq(Instr)],
         NEW by, NEW gone, NEW at, Rewritten(at, h, f, by, gone),
         NEW a, a \notin DOMAIN by, \A x \in DOMAIN by : by[x] # Inst(a),
         NEW b \in D, NEW k \in DOMAIN h[b]
  PROVE  /\ StoresTo(h, b, k, a) <=> StoresTo(f, b, at[b][k], a)
         /\ LoadsFrom(h, b, k, a) <=> LoadsFrom(f, b, at[b][k], a)
<1>0. \A b0 \in D : Blockwise(at[b0], h[b0], f[b0], by, gone)
  BY RewrittenPlace
<1>. DEFINE j == h[b][k]
            i == f[b][at[b][k]]
<1>1. SameBut(j, i, by)
  BY <1>0 DEF Blockwise
<1>2. \A v : Replaced(v, by) = Inst(a) <=> v = Inst(a)
  BY ReplacedPtr
<1>. HIDE DEF j, i
<1>3. j.op = i.op /\ (j.ptr = Inst(a) <=> i.ptr = Inst(a))
  BY <1>1, <1>2 DEF SameBut
<1>. QED
  BY <1>3 DEF StoresTo, LoadsFrom, j, i

LEMMA CoversRewritten ==
  ASSUME NEW D, NEW f \in [D -> Seq(Instr)], NEW h \in [D -> Seq(Instr)],
         NEW by, NEW gone, NEW at, Rewritten(at, h, f, by, gone),
         NEW a, a \notin DOMAIN by, \A x \in DOMAIN by : by[x] # Inst(a), LoadsGoFirst(f, a, gone),
         NEW Def, NEW Live, Covers(f, a, Def, Live)
  PROVE  Covers(h, a, Def, Live)
<1>0. \A b0 \in D : Blockwise(at[b0], h[b0], f[b0], by, gone)
  BY RewrittenPlace
<1>1. ASSUME NEW b \in D, NEW q \in DOMAIN h[b], StoresTo(h, b, q, a) PROVE b \in Def
  <2>1. at[b][q] \in DOMAIN f[b]
    BY <1>0 DEF Blockwise
  <2>2. StoresTo(f, b, at[b][q], a)
    BY <1>1, AccessRewritten
  <2>. QED
    BY <2>1, <2>2 DEF Covers
<1>2. ASSUME NEW b \in D, NEW q \in DOMAIN h[b], LoadsFrom(h, b, q, a), \A r \in 1 .. q - 1 : ~StoresTo(h, b, r, a)
      PROVE  b \in Live
  <2>1. /\ at[b][q] \in DOMAIN f[b] /\ f[b][at[b][q]].id \notin gone
        /\ DOMAIN h[b] = 1 .. Len(h[b]) /\ DOMAIN f[b] = 1 .. Len(f[b]) /\ Len(h[b]) \in Nat /\ Len(f[b]) \in Nat
    BY <1>0 DEF Blockwise
  <2>2. LoadsFrom(f, b, at[b][q], a)
    BY <1>2, AccessRewritten
  <2>3. \A p \in DOMAIN f[b] : StoresTo(f, b, p, a) => f[b][p].id \notin gone
    BY <2>1, <2>2 DEF LoadsGoFirst
  <2>4. ASSUME NEW p \in 1 .. at[b][q] - 1, StoresTo(f, b, p, a) PROVE FALSE
    <3>1. p \in DOMAIN f[b] /\ p < at[b][q]
      BY <2>1
    <3>2. PICK r \in DOMAIN h[b] : at[b][r] = p
      BY <2>3, <2>4, <3>1, <1>0 DEF Blockwise
    <3>3. r < q
      BY <3>1, <3>2, <1>0 DEF Blockwise
    <3>4. StoresTo(h, b, r, a)
      BY <2>4, <3>2, AccessRewritten
    <3>5. r \in 1 .. q - 1
      BY <2>1, <3>2, <3>3
    <3>. QED
      BY <1>2, <3>4, <3>5
  <2>. QED
    BY <2>1, <2>2, <2>4 DEF Covers
<1>3. DOMAIN h = D
  OBVIOUS
<1>. QED
  BY <1>1, <1>2, <1>3 DEF Covers

LEMMA StoredRewritten ==
  ASSUME NEW D, NEW f \in [D -> Seq(Instr)], NEW h \in [D -> Seq(Instr)],
         NEW by, NEW gone, NEW at, Rewritten(at, h, f, by, gone),
         NEW a, a \notin DOMAIN by, \A x \in DOMAIN by : by[x] # Inst(a),
         NEW B, B \subseteq D, \A b \in B : \A q \in DOMAIN f[b] : StoresTo(f, b, q, a) => f[b][q].id \notin gone,
         Stored(f, a, B)
  PROVE  Stored(h, a, B)
<1>0. \A b0 \in D : Blockwise(at[b0], h[b0], f[b0], by, gone)
  BY RewrittenPlace
<1>. SUFFICES ASSUME NEW b \in B PROVE \E q \in DOMAIN h[b] : StoresTo(h, b, q, a)
  BY DEF Stored
<1>1. PICK q \in DOMAIN f[b] : StoresTo(f, b, q, a)
  BY DEF Stored
<1>2. PICK k \in DOMAIN h[b] : at[b][k] = q
  BY <1>1, <1>0 DEF Blockwise
<1>. QED
  BY <1>1, <1>2, AccessRewritten

\* The phis stay what they are, but for those that are erased, and so do their entries.
LEMMA EntriesRewritten ==
  ASSUME NEW g \in Graphs, NEW D, NEW f \in [D -> Seq(Instr)], NEW h \in [D -> Seq(Instr)],
         NEW by, NEW gone, NEW at, Rewritten(at, h, f, by, gone),
         NEW news, NEW new, new = news \ gone, NEW vis, NEW wl, EntriesKept(g, f, news, vis, wl)
  PROVE  EntriesKept(g, h, new, vis, wl)
<1>0. \A b0 \in D : Blockwise(at[b0], h[b0], f[b0], by, gone)
  BY RewrittenPlace
<1>. SUFFICES ASSUME NEW b \in D, NEW p \in DOMAIN h[b], h[b][p].op = "phi"
              PROVE  EntriesDue(g, b, h[b][p], new, vis, wl)
  BY DEF EntriesKept
<1>. DEFINE j == h[b][p]
            i == f[b][at[b][p]]
<1>1. at[b][p] \in DOMAIN f[b] /\ i.id \notin gone /\ SameBut(j, i, by)
  BY <1>0 DEF Blockwise
<1>. HIDE DEF j, i
<1>2. j.op = i.op /\ j.id = i.id /\ DOMAIN j.inc = DOMAIN i.inc
      /\ \A k \in DOMAIN i.inc : j.inc[k].val = Replaced(i.inc[k].val, by) /\ j.inc[k].pred = i.inc[k].pred
  BY <1>1 DEF SameBut
<1>3. EntriesDue(g, b, i, news, vis, wl)
  BY <1>1, <1>2 DEF EntriesKept, i, j
<1>4. i \in Instr /\ j \in Instr
  <2>1. h[b] \in Seq(Instr) /\ f[b] \in Seq(Instr)
    OBVIOUS
  <2>. QED
    BY <1>1, <2>1 DEF i, j
<1>5. \A k \in DOMAIN j.inc : j.inc[k] \in PhiEntry
  <2>1. j.inc \in Seq(PhiEntry)
    BY <1>4, InstrIs
  <2>. QED
    BY <2>1
<1>6. PredsAgree(g, j.inc)
  <2>1. \A k \in DOMAIN j.inc : j.inc[k].pred \in DOMAIN g
    BY <1>2, <1>3 DEF EntriesDue, PredsAgree
  <2>2. ASSUME NEW k \in DOMAIN j.inc, NEW l \in DOMAIN j.inc, j.inc[k].pred = j.inc[l].pred PROVE j.inc[k] = j.inc[l]
    <3>1. i.inc[k] = i.inc[l]
      BY <1>2, <1>3, <2>2 DEF EntriesDue, PredsAgree
    <3>2. j.inc[k].val = j.inc[l].val
      BY <1>2, <3>1
    <3>3. j.inc[k] \in PhiEntry /\ j.inc[l] \in PhiEntry
      BY <1>5
    <3>4. \A d, e \in PhiEntry : d.val = e.val /\ d.pred = e.pred => d = e
      <4>1. \A e \in PhiEntry : e = [val |-> e.val, pred |-> e.pred]
        BY DEF PhiEntry
      <4>. QED
        BY <4>1
    <3>. QED
      BY <2>2, <3>2, <3>3, <3>4
  <2>. QED
    BY <2>1, <2>2 DEF PredsAgree
<1>7. \A p0 : Count(j.inc, p0) = Count(i.inc, p0)
  <2>. TAKE p0
  <2>1. {k \in DOMAIN j.inc : j.inc[k].pred = p0} = {k \in DOMAIN i.inc : i.inc[k].pred = p0}
    BY <1>2
  <2>. QED
    BY <2>1 DEF Count
<1>8. j.id \in new <=> i.id \in news
  BY <1>1, <1>2
<1>9. EntriesDue(g, b, j, new, vis, wl)
  BY <1>2, <1>3, <1>6, <1>7, <1>8 DEF EntriesDue
<1>. QED
  BY <1>9 DEF j

LEMMA PhisRewritten ==
  ASSUME NEW D, NEW f \in [D -> Seq(Instr)], NEW h \in [D -> Seq(Instr)],
         NEW by, NEW gone, NEW at, Rewritten(at, h, f, by, gone),
         NEW np, PhisPlaced(f, np), NEW kept, DOMAIN kept \subseteq DOMAIN np,
         \A k \in DOMAIN kept : kept[k] = np[k] /\ np[k] \notin gone,
         \A k \in DOMAIN np : np[k] \notin gone => np[k] \in Range(kept)
  PROVE  PhisPlaced(h, kept) /\ Range(kept) = Range(np) \ gone
<1>0. \A b0 \in D : Blockwise(at[b0], h[b0], f[b0], by, gone)
  BY RewrittenPlace
<1>1. Range(kept) = Range(np) \ gone
  BY DEF Range
<1>2. KeysPlaced(h, kept)
  <2>. SUFFICES ASSUME NEW k \in DOMAIN kept
                PROVE  k[1] \in D \ {Entry} /\ \E p \in DOMAIN h[k[1]] : h[k[1]][p].id = kept[k] /\ h[k[1]][p].op = "phi"
    BY DEF KeysPlaced
  <2>1. PICK q \in DOMAIN f[k[1]] : f[k[1]][q].id = np[k] /\ f[k[1]][q].op = "phi"
    BY DEF PhisPlaced, KeysPlaced
  <2>2. k[1] \in D \ {Entry} /\ kept[k] = np[k] /\ np[k] \notin gone
    BY DEF PhisPlaced, KeysPlaced
  <2>3. PICK p \in DOMAIN h[k[1]] : at[k[1]][p] = q
    BY <2>1, <2>2, <1>0 DEF Blockwise
  <2>4. SameBut(h[k[1]][p], f[k[1]][q], by)
    BY <2>2, <2>3, <1>0 DEF Blockwise
  <2>5. h[k[1]][p].id = kept[k] /\ h[k[1]][p].op = "phi"
    BY <2>1, <2>2, <2>4 DEF SameBut
  <2>. QED
    BY <2>2, <2>5
<1>3. InFront(h, Range(kept))
  <2>. SUFFICES ASSUME NEW b \in D, NEW p \in DOMAIN h[b], h[b][p].id \in Range(kept), NEW q \in 1 .. p - 1
                PROVE  h[b][q].id \in Range(kept)
    BY DEF InFront
  <2>1. q \in DOMAIN h[b] /\ q < p /\ at[b][q] \in DOMAIN f[b] /\ at[b][p] \in DOMAIN f[b] /\ at[b][q] < at[b][p]
    <3>1. q \in DOMAIN h[b] /\ q < p
      BY <1>0 DEF Blockwise
    <3>. QED
      BY <3>1, <1>0 DEF Blockwise
  <2>2. h[b][p].id = f[b][at[b][p]].id /\ h[b][q].id = f[b][at[b][q]].id /\ f[b][at[b][q]].id \notin gone
    BY <2>1, <1>0 DEF Blockwise, SameBut
  <2>3. at[b][q] \in 1 .. at[b][p] - 1
    BY <2>1, <1>0 DEF Blockwise
  <2>4. f[b][at[b][q]].id \in Range(np)
    BY <1>1, <2>1, <2>2, <2>3 DEF PhisPlaced, InFront
  <2>. QED
    BY <1>1, <2>2, <2>4
<1>. QED
  BY <1>1, <1>2, <1>3 DEF PhisPlaced

-----------------------------------------------------------------------------
(* What is known of the variables whose phis are placed, and of the alloca that the *)
(* loop looks at.                                                                    *)

\* The blocks with a phi for variable k.
Phied(g, np, k) == {c \in DOMAIN g : <<c, k>> \in DOMAIN np}

\* A variable that is stored in Def and live in Live has phis in P: where it is live and
\* what defines it, or another phi, stops to dominate.
Flows(g, Def, Live, P) ==
  /\ \A b \in Live : Preds(g, b) \subseteq Live \cup Def
  /\ P \subseteq Live
  /\ \A d \in (Def \cup P) \cap Reachable(g) : Frontier(g, d) \cap Live \subseteq P

\* An item of the worklist brings a value of k to where k is live that was there at the
\* end of the last block with a store or a phi.
Carried(g, f, it, k, Def, Live, P) ==
  it.bb \in Live =>
    \/ it.pred = 0 /\ it.vals[k] = Undef
    \/ it.pred # 0 /\ \E d \in Def \cup P \cup {Entry} : Dominates(g, d, it.pred) /\ AvailEnd(g, f, it.vals[k], d)

Planned(g, f, a, k, vis, wl, np) ==
  \E Def, Live \in SUBSET DOMAIN g :
    /\ Covers(f, a, Def, Live) /\ Stored(f, a, Def \ vis)
    /\ Flows(g, Def, Live, Phied(g, np, k))
    /\ \A j \in DOMAIN wl : Carried(g, f, wl[j], k, Def, Live, Phied(g, np, k))

Plans ==
  /\ stage \in Looping \cup {"rename"} =>
       /\ \A k \in 1 .. num - 1 : Planned(graph, func, allocas[k], k, visited, worklist, newPhis)
       /\ \A i \in DOMAIN allocas : Pointed(func, allocas[i])
  /\ \A j \in DOMAIN worklist : \A k, i \in DOMAIN allocas : worklist[j].vals[k] # Inst(allocas[i])

\* info and todo are of the alloca that the loop looks at, as the function is now.
OneStore ==
  \E s : info.stores = {s} /\ \A b \in DOMAIN func : \A q \in DOMAIN func[b] :
                                StoresTo(func, b, q, AI) <=> func[b][q].id = s
LoadsKept ==
  \A b \in DOMAIN func : \A q \in DOMAIN func[b] :
    /\ func[b][q].id \in todo => LoadsFrom(func, b, q, AI)
    /\ LoadsFrom(func, b, q, AI) => b \in info.using \/ (stage = "singleStore" /\ func[b][q].id \in todo)
    /\ stage = "singleBlock" /\ LoadsFrom(func, b, q, AI) => func[b][q].id \in todo
DefiningKept == \A b \in DOMAIN func : b \in info.defining <=> \E q \in DOMAIN func[b] : StoresTo(func, b, q, AI)
Accessing(f, b, q, a) == StoresTo(f, b, q, a) \/ LoadsFrom(f, b, q, a)
InOneBlock ==
  info.oneBlock => \A b, c \in DOMAIN func : \A q \in DOMAIN func[b], r \in DOMAIN func[c] :
                     Accessing(func, b, q, AI) /\ Accessing(func, c, r, AI) => b = c
SingleKept ==
  /\ stage = "singleStore" => OneStore
  /\ stage \in {"singleStore", "singleBlock"} => LoadsKept /\ DefiningKept /\ InOneBlock

JInv == IInv /\ UsesDefined(graph, func) /\ PhisKeep /\ WalkKept /\ Plans /\ SingleKept

LEMMA StateIs ==
  ASSUME IInv
  PROVE  /\ graph \in Graphs /\ func \in [DOMAIN graph -> Seq(Instr)] /\ DOMAIN func = DOMAIN graph /\ Unique(func)
         /\ allocas \in Seq(Nat) /\ Len(allocas) \in Nat /\ DOMAIN allocas = 1 .. Len(allocas)
         /\ num \in Nat \ {0} /\ num <= Len(allocas) + 1
         /\ (stage # "rename" => worklist = <<>>)
BY AllocasAre DEF IInv, TypeOK

\* Rewriting that leaves the accesses to a alone.
Spares(f, a, gone) == \A b \in DOMAIN f : \A q \in DOMAIN f[b] : Accessing(f, b, q, a) => f[b][q].id \notin gone

LEMMA PlannedRewritten ==
  ASSUME NEW g \in Graphs, NEW f \in [DOMAIN g -> Seq(Instr)], NEW h \in [DOMAIN g -> Seq(Instr)],
         NEW by, NEW gone, NEW at, Rewritten(at, h, f, by, gone),
         NEW a, a \notin DOMAIN by, \A x \in DOMAIN by : by[x] # Inst(a), Spares(f, a, gone),
         NEW k, NEW vis, NEW np, Planned(g, f, a, k, vis, <<>>, np)
  PROVE  Planned(g, h, a, k, vis, <<>>, np)
<1>1. PICK Def \in SUBSET DOMAIN g, Live \in SUBSET DOMAIN g :
        /\ Covers(f, a, Def, Live) /\ Stored(f, a, Def \ vis)
        /\ Flows(g, Def, Live, Phied(g, np, k))
  BY DEF Planned
<1>2. LoadsGoFirst(f, a, gone)
  BY DEF LoadsGoFirst, Spares, Accessing
<1>3. Covers(h, a, Def, Live)
  BY <1>1, <1>2, CoversRewritten
<1>4. Stored(h, a, Def \ vis)
  <2>1. \A b \in Def \ vis : \A q \in DOMAIN f[b] : StoresTo(f, b, q, a) => f[b][q].id \notin gone
    BY DEF Spares, Accessing
  <2>2. Def \ vis \subseteq DOMAIN g
    OBVIOUS
  <2>. QED
    BY <1>1, <2>1, <2>2, StoredRewritten
<1>5. \A j \in DOMAIN <<>> : Carried(g, h, <<>>[j], k, Def, Live, Phied(g, np, k))
  OBVIOUS
<1>. QED
  BY <1>1, <1>3, <1>4, <1>5, Zenon DEF Planned

\* A step of the loop over the allocas that rewrites what has to do with one of them.
LoopRewrites(at, by, gone) ==
  /\ stage \in Looping /\ stage' \in Looping
  /\ Rewritten(at, func', func, by, gone) /\ Substitutes(graph, func, by, gone)
  /\ \A id \in gone : IsAccess(func, id) \/ Has(func, id, "alloca")
  /\ \A i \in DOMAIN allocas : allocas[i] \notin DOMAIN by /\ \A x \in DOMAIN by : by[x] # Inst(allocas[i])
  /\ \A k \in 1 .. num - 1 : Spares(func, allocas[k], gone)
  /\ graph' = graph /\ newPhis' = newPhis /\ worklist' = worklist /\ visited' = visited /\ num' = num
  /\ \A k \in 1 .. num - 1 : allocas'[k] = allocas[k]
  /\ \A i \in DOMAIN allocas' : \E j \in DOMAIN allocas : allocas'[i] = allocas[j]

LEMMA NoPhiGoes ==
  ASSUME IInv, NEW gone, \A id \in gone : IsAccess(func, id) \/ Has(func, id, "alloca")
  PROVE  \A k \in DOMAIN newPhis : newPhis[k] \notin gone
<1>. SUFFICES ASSUME NEW k \in DOMAIN newPhis, newPhis[k] \in gone PROVE FALSE
  OBVIOUS
<1>1. Has(func, newPhis[k], "phi") /\ Unique(func)
  BY DEF IInv, PhisKept
<1>2. Has(func, newPhis[k], "load") \/ Has(func, newPhis[k], "store") \/ Has(func, newPhis[k], "alloca")
  BY DEF IsAccess
<1>. QED
  BY <1>1, <1>2, HasOneOp

LEMMA LoopKeeps ==
  ASSUME JInv, IInv', NEW at, NEW by, NEW gone, LoopRewrites(at, by, gone)
  PROVE  UsesDefined(graph', func') /\ PhisKeep' /\ WalkKept' /\ Plans'
<1>1. /\ graph \in Graphs /\ func \in [DOMAIN graph -> Seq(Instr)] /\ Unique(func)
      /\ graph' = graph /\ func' \in [DOMAIN graph -> Seq(Instr)]
      /\ worklist = <<>> /\ worklist' = <<>> /\ newPhis' = newPhis /\ visited' = visited /\ num' = num
      /\ Rewritten(at, func', func, by, gone)
  <2>1. IInv /\ IInv'
    BY DEF JInv
  <2>2. stage # "rename"
    BY DEF LoopRewrites, Looping
  <2>3. graph' = graph /\ worklist' = worklist /\ newPhis' = newPhis /\ visited' = visited /\ num' = num
        /\ Rewritten(at, func', func, by, gone)
    BY DEF LoopRewrites
  <2>4. func' \in [DOMAIN graph' -> Seq(Instr)]
    BY <2>1 DEF IInv, TypeOK
  <2>. QED
    BY <2>1, <2>2, <2>3, <2>4, StateIs
<1>2. UsesDefined(graph', func')
  <2>1. Substitutes(graph, func, by, gone) /\ UsesDefined(graph, func)
    BY DEF LoopRewrites, JInv
  <2>2. UsesDefined(graph, func')
    BY <1>1, <2>1, UsesStayDefined
  <2>. QED
    BY <1>1, <2>2
<1>3. \A k \in DOMAIN newPhis : newPhis[k] \notin gone
  BY NoPhiGoes DEF JInv, LoopRewrites
<1>4. PhisKeep'
  <2>1. PhisPlaced(func, newPhis) /\ EntriesKept(graph, func, Range(newPhis), visited, worklist)
    BY DEF JInv, PhisKeep
  <2>2. PhisPlaced(func', newPhis)
    <3>1. \A k \in DOMAIN newPhis : newPhis[k] \notin gone => newPhis[k] \in Range(newPhis)
      BY DEF Range
    <3>. QED
      BY <1>1, <1>3, <2>1, <3>1, PhisRewritten, ZenonT(60)
  <2>3. Range(newPhis) = Range(newPhis) \ gone
    BY <1>3 DEF Range
  <2>4. EntriesKept(graph, func', Range(newPhis), visited, worklist)
    BY <1>1, <2>1, <2>3, EntriesRewritten
  <2>. QED
    BY <1>1, <2>2, <2>4 DEF PhisKeep
<1>5. WalkKept'
  <2>1. stage \in Looping /\ stage' \in Looping
    BY DEF LoopRewrites
  <2>2. WalkKept
    BY DEF JInv
  <2>3. visited = {} /\ DOMAIN worklist' = {}
    BY <1>1, <2>1, <2>2 DEF WalkKept
  <2>4. stage' \notin {"collect", "done", "rename", "simplify"}
    BY <2>1 DEF Looping
  <2>. QED
    BY <1>1, <2>3, <2>4 DEF WalkKept
<1>6. Plans'
  <2>1. /\ \A k \in 1 .. num - 1 : Planned(graph, func, allocas[k], k, visited, worklist, newPhis)
        /\ \A i \in DOMAIN allocas : Pointed(func, allocas[i])
    BY DEF JInv, Plans, LoopRewrites
  <2>2. /\ \A i \in DOMAIN allocas : allocas[i] \notin DOMAIN by /\ \A x \in DOMAIN by : by[x] # Inst(allocas[i])
        /\ \A k \in 1 .. num - 1 : Spares(func, allocas[k], gone)
        /\ \A k \in 1 .. num - 1 : allocas'[k] = allocas[k]
        /\ \A i \in DOMAIN allocas' : \E j \in DOMAIN allocas : allocas'[i] = allocas[j]
    BY DEF LoopRewrites
  <2>3. ASSUME NEW k \in 1 .. num - 1 PROVE Planned(graph, func', allocas[k], k, visited, <<>>, newPhis)
    <3>1. k \in DOMAIN allocas
      BY StateIs DEF JInv
    <3>2. Planned(graph, func, allocas[k], k, visited, <<>>, newPhis)
      BY <1>1, <2>1
    <3>. QED
      BY <1>1, <2>2, <3>1, <3>2, PlannedRewritten, ZenonT(60)
  <2>4. ASSUME NEW i \in DOMAIN allocas' PROVE Pointed(func', allocas'[i])
    <3>1. PICK j \in DOMAIN allocas : allocas'[i] = allocas[j]
      BY <2>2
    <3>2. Pointed(func', allocas[j])
      BY <1>1, <2>1, <2>2, PointedRewritten
    <3>. QED
      BY <3>1, <3>2
  <2>5. DOMAIN worklist' = {}
    BY <1>1
  <2>6. \A k \in 1 .. num' - 1 : Planned(graph', func', allocas'[k], k, visited', worklist', newPhis')
    BY <1>1, <2>2, <2>3
  <2>. QED
    BY <2>4, <2>5, <2>6 DEF Plans
<1>. QED
  BY <1>2, <1>4, <1>5, <1>6

-----------------------------------------------------------------------------
(* The loop over the allocas keeps what verifyModule asks.                   *)

LEMMA PlaceOf ==
  ASSUME NEW D, NEW f \in [D -> Seq(Instr)], Unique(f), NEW b \in D, NEW p \in DOMAIN f[b]
  PROVE  BlockOf(f, f[b][p].id) = b /\ IndexOf(f, f[b][p].id) = p /\ InstrOf(f, f[b][p].id) = f[b][p]
<1>. DEFINE id == f[b][p].id
            c == BlockOf(f, id)
            q == IndexOf(f, id)
<1>1. id \in Ids(f) /\ InstrOf(f, id) = f[b][p]
  BY InstrAt
<1>. HIDE DEF id
<1>2. c \in D /\ q \in DOMAIN f[c] /\ InstrOf(f, id).id = id
  BY <1>1, InstrOfIs
<1>3. f[c][q].id = id
  BY <1>2 DEF InstrOf
<1>. HIDE DEF c, q
<1>4. b = c /\ p = q
  BY <1>2, <1>3, PlaceIsOne DEF id
<1>. QED
  BY <1>1, <1>4 DEF id, c, q

LEMMA InstOf ==
  ASSUME NEW v \in Operand, v.k = "inst"
  PROVE  v = Inst(v.n) /\ \A a, b : Inst(a) = Inst(b) => a = b
BY DEF Operand, Inst

\* The users of an alloca, by their places.
UserThere(f, b, p, a) ==
  /\ f[b][p].id \in Users(f, a) <=> Accessing(f, b, p, a)
  /\ f[b][p].id \in Loads(f, a) <=> LoadsFrom(f, b, p, a)
  /\ f[b][p].id \in Stores(f, a) <=> StoresTo(f, b, p, a)
LEMMA UsersAt ==
  ASSUME NEW D, NEW f \in [D -> Seq(Instr)], Unique(f), NEW a, Pointed(f, a)
  PROVE  /\ \A b \in D : \A p \in DOMAIN f[b] : UserThere(f, b, p, a)
         /\ \A u \in Users(f, a) : \E b \in D : \E p \in DOMAIN f[b] : u = f[b][p].id
<1>1. ASSUME NEW b \in D, NEW p \in DOMAIN f[b] PROVE UserThere(f, b, p, a)
  <2>1. f[b][p].id \in Ids(f) /\ InstrOf(f, f[b][p].id) = f[b][p]
    BY InstrAt
  <2>2. f[b][p].id \in Users(f, a) <=> Inst(a) \in Operands(f[b][p])
    BY <2>1 DEF Users
  <2>3. Inst(a) \in Operands(f[b][p]) <=> Accessing(f, b, p, a)
    <3>1. Inst(a) \in Operands(f[b][p]) => f[b][p].op \in {"load", "store"} /\ f[b][p].ptr = Inst(a)
      BY DEF Pointed
    <3>2. f[b][p].ptr = Inst(a) => Inst(a) \in Operands(f[b][p])
      BY DEF Operands
    <3>. QED
      BY <3>1, <3>2 DEF Accessing, StoresTo, LoadsFrom
  <2>. QED
    BY <2>1, <2>2, <2>3 DEF UserThere, Loads, Stores, Accessing, StoresTo, LoadsFrom
<1>2. \A u \in Users(f, a) : \E b \in D : \E p \in DOMAIN f[b] : u = f[b][p].id
  BY IdsAre, UsersAre
<1>. QED
  BY <1>1, <1>2

LEMMA CurrentPointed ==
  ASSUME JInv, stage \in Looping, num \in DOMAIN allocas
  PROVE  /\ Pointed(func, AI) /\ AI \in Nat /\ Has(func, AI, "alloca")
         /\ \A k \in 1 .. num - 1 : k \in DOMAIN allocas /\ allocas[k] # AI
         /\ \A b \in DOMAIN func : \A q \in DOMAIN func[b] : Accessing(func, b, q, AI) =>
              \A k \in 1 .. num - 1 : ~Accessing(func, b, q, allocas[k])
<1>1. IInv /\ Plans
  BY DEF JInv
<1>2. Pointed(func, AI)
  BY <1>1 DEF Plans, AI
<1>3. AI \in Nat /\ Has(func, AI, "alloca")
  BY <1>1, CurrentIs
<1>4. ASSUME NEW k \in 1 .. num - 1 PROVE k \in DOMAIN allocas /\ allocas[k] # AI
  <2>1. k \in DOMAIN allocas /\ k # num
    BY <1>1, StateIs
  <2>2. \A i, j \in DOMAIN allocas : allocas[i] = allocas[j] => i = j
    BY <1>1 DEF IInv, AllocasKept
  <2>. QED
    BY <2>1, <2>2 DEF AI
<1>5. \A a, b : Inst(a) = Inst(b) => a = b
  BY DEF Inst
<1>. QED
  BY <1>2, <1>3, <1>4, <1>5 DEF Accessing, StoresTo, LoadsFrom

\* Erasing accesses to AI, and AI, leaves the other allocas' accesses alone.
LEMMA OthersSpared ==
  ASSUME JInv, stage \in Looping, num \in DOMAIN allocas, NEW gone,
         \A b \in DOMAIN func : \A q \in DOMAIN func[b] :
           func[b][q].id \in gone => func[b][q].id = AI \/ Accessing(func, b, q, AI)
  PROVE  \A k \in 1 .. num - 1 : Spares(func, allocas[k], gone)
<1>. SUFFICES ASSUME NEW k \in 1 .. num - 1, NEW b \in DOMAIN func, NEW q \in DOMAIN func[b],
                     Accessing(func, b, q, allocas[k]), func[b][q].id \in gone
              PROVE  FALSE
  BY DEF Spares
<1>1. func[b][q].id = AI
  BY CurrentPointed
<1>2. Has(func, AI, func[b][q].op) /\ func[b][q].op \in {"load", "store"}
  BY <1>1 DEF Has, Accessing, StoresTo, LoadsFrom
<1>3. Has(func, AI, "alloca") /\ Unique(func)
  BY CurrentPointed DEF JInv, IInv
<1>4. func[b][q].op = "alloca"
  BY <1>2, <1>3, HasOneOp
<1>. QED
  BY <1>2, <1>4

LEMMA NoStoreIsRead ==
  ASSUME NEW g, NEW f, Unique(f), UsesDefined(g, f),
         NEW b \in DOMAIN f, NEW p \in DOMAIN f[b], NEW v \in Reads(f[b][p]), v.k = "inst",
         NEW c \in DOMAIN f, NEW q \in DOMAIN f[c], f[c][q].id = v.n
  PROVE  f[c][q].op # "store"
<1>1. \E d \in DOMAIN f : \E r \in DOMAIN f[d] : Defines(f, d, r, v)
  <2>1. UseDefined(g, f, b, p)
    BY DEF UsesDefined
  <2>2. CASE v \in {f[b][p].ptr, f[b][p].val}
    BY <2>1, <2>2 DEF UseDefined, AvailAt
  <2>3. CASE v \notin {f[b][p].ptr, f[b][p].val}
    <3>1. PICK k \in DOMAIN f[b][p].inc : f[b][p].op = "phi" /\ v = f[b][p].inc[k].val
      BY <2>3 DEF Reads
    <3>2. AvailEnd(g, f, v, f[b][p].inc[k].pred)
      BY <2>1, <3>1 DEF UseDefined, EntriesDefined
    <3>. QED
      BY <3>2 DEF AvailEnd
  <2>. QED
    BY <2>2, <2>3
<1>2. PICK d \in DOMAIN f : \E r \in DOMAIN f[d] : Defines(f, d, r, v)
  BY <1>1
<1>4. PICK r \in DOMAIN f[d] : f[d][r].id = v.n /\ f[d][r].op # "store"
  BY <1>2 DEF Defines
<1>3. c = d /\ q = r
  BY <1>4, PlaceIsOne
<1>. QED
  BY <1>3, <1>4

LEMMA ReadsAre ==
  ASSUME NEW i \in Instr, NEW v \in Reads(i)
  PROVE  v \in Operand /\ v \in Operands(i)
<1>1. i.ptr \in Operand /\ i.val \in Operand /\ \A k \in DOMAIN i.inc : i.inc[k].val \in Operand
  BY InstrIs
<1>. QED
  BY <1>1 DEF Reads, Operands

LEMMA InstrIn ==
  ASSUME IInv, NEW b \in DOMAIN func, NEW p \in DOMAIN func[b]
  PROVE  func[b][p] \in Instr
<1>1. func \in [DOMAIN graph -> Seq(Instr)]
  BY StateIs
<1>2. func[b] \in Seq(Instr)
  BY <1>1
<1>. QED
  BY <1>2

\* An alloca goes, with the stores that were its last users.
LEMMA RemovalStays ==
  ASSUME JInv, IInv', NEW ids, Removal(ids),
         \A b \in DOMAIN func : \A q \in DOMAIN func[b] :
           /\ func[b][q].id \in ids => func[b][q].id = AI \/ StoresTo(func, b, q, AI)
           /\ Accessing(func, b, q, AI) => func[b][q].id \in ids
  PROVE  JInv'
<1>1. IInv /\ stage \in Looping /\ stage' = "analyze" /\ num \in DOMAIN allocas /\ func' = Erase(func, ids)
      /\ allocas' = WithoutCurrent /\ num' = num
      /\ graph' = graph /\ newPhis' = newPhis /\ worklist' = worklist /\ visited' = visited
  BY DEF JInv, Removal, RemoveFromAllocasList, NextIndexAfterRemoval
<1>2. /\ graph \in Graphs /\ func \in [DOMAIN graph -> Seq(Instr)] /\ DOMAIN func = DOMAIN graph /\ Unique(func)
      /\ allocas \in Seq(Nat)
  BY <1>1, StateIs
<1>3. PICK at : Rewritten(at, func', func, Empty, ids)
  BY <1>1, <1>2, ErasedIs
<1>4. DOMAIN Empty = {}
  BY DEF Empty
<1>5. Substitutes(graph, func, Empty, ids)
  <2>1. ASSUME NEW b \in DOMAIN func, NEW p \in DOMAIN func[b], func[b][p].id \notin ids,
               NEW v \in Reads(func[b][p]), v.k = "inst", v.n \in ids
        PROVE  FALSE
    <3>1. func[b][p] \in Instr
      BY <1>1, InstrIn
    <3>2. v \in Operand /\ v \in Operands(func[b][p])
      BY <3>1, ReadsAre
    <3>3. v = Inst(v.n)
      BY <2>1, <3>2, InstOf
    <3>4. CASE v.n = AI
      <4>1. Pointed(func, AI)
        BY <1>1, CurrentPointed
      <4>2. func[b][p].op \in {"load", "store"} /\ func[b][p].ptr = Inst(AI)
        BY <3>2, <3>3, <3>4, <4>1 DEF Pointed
      <4>. QED
        BY <2>1, <4>2 DEF Accessing, StoresTo, LoadsFrom
    <3>5. CASE v.n # AI
      <4>1. Has(func, v.n, "load") \/ Has(func, v.n, "store")
        BY <2>1, <3>5 DEF Removal, IsAccess
      <4>2. PICK c \in DOMAIN func : \E q \in DOMAIN func[c] : func[c][q].id = v.n
        BY <4>1 DEF Has
      <4>5. PICK q \in DOMAIN func[c] : func[c][q].id = v.n
        BY <4>2
      <4>3. func[c][q].op = "store"
        BY <2>1, <3>5, <4>5 DEF StoresTo
      <4>4. UsesDefined(graph, func)
        BY DEF JInv
      <4>. QED
        BY <1>2, <2>1, <4>5, <4>3, <4>4, NoStoreIsRead
    <3>. QED
      BY <3>4, <3>5
  <2>. QED
    BY <1>4, <2>1 DEF Substitutes
<1>6. \A id \in ids : IsAccess(func, id) \/ Has(func, id, "alloca")
  BY <1>1, CurrentPointed DEF Removal
<1>7. \A k \in 1 .. num - 1 : Spares(func, allocas[k], ids)
  <2>1. \A b \in DOMAIN func : \A q \in DOMAIN func[b] :
           func[b][q].id \in ids => func[b][q].id = AI \/ Accessing(func, b, q, AI)
    BY DEF Accessing
  <2>. QED
    BY <1>1, <2>1, OthersSpared
<1>8. /\ \A k \in 1 .. num - 1 : allocas'[k] = allocas[k]
      /\ \A i \in DOMAIN allocas' : \E j \in DOMAIN allocas : allocas'[i] = allocas[j]
  <2>1. /\ \A k \in 1 .. num - 1 : allocas'[k] = allocas[k]
        /\ \A i \in DOMAIN allocas' : allocas'[i] \in Range(allocas)
    <3>1. \A i, j \in DOMAIN allocas : allocas[i] = allocas[j] => i = j
      BY <1>1 DEF IInv, AllocasKept
    <3>. QED
      BY <1>1, <1>2, <3>1, WithoutCurrentIs
  <2>. QED
    BY <2>1 DEF Range
<1>9. LoopRewrites(at, Empty, ids)
  BY <1>1, <1>3, <1>4, <1>5, <1>6, <1>7, <1>8 DEF LoopRewrites, Looping
<1>10. SingleKept'
  BY <1>1 DEF SingleKept
<1>11. UsesDefined(graph', func') /\ PhisKeep' /\ WalkKept' /\ Plans'
  BY <1>9, LoopKeeps
<1>. QED
  BY <1>10, <1>11 DEF JInv

-----------------------------------------------------------------------------
(* What each step of that loop leaves.                                     *)

LEMMA NothingRewritten ==
  ASSUME JInv, stage \in Looping, stage' \in Looping,
         graph' = graph, func' = func, newPhis' = newPhis, worklist' = worklist, visited' = visited,
         allocas' = allocas, num' = num
  PROVE  UsesDefined(graph', func') /\ PhisKeep' /\ WalkKept' /\ Plans'
<1>1. UsesDefined(graph', func')
  BY DEF JInv
<1>2. PhisKeep'
  BY DEF JInv, PhisKeep
<1>3. WalkKept'
  <2>1. stage' \notin {"collect", "done", "rename", "simplify"}
    BY DEF Looping
  <2>2. worklist = <<>>
    BY StateIs DEF JInv, Looping
  <2>3. DOMAIN worklist' = {}
    BY <2>2
  <2>4. WalkKept
    BY DEF JInv
  <2>. QED
    BY <2>1, <2>3, <2>4 DEF WalkKept
<1>4. Plans'
  BY DEF JInv, Plans
<1>. QED
  BY <1>1, <1>2, <1>3, <1>4

LEMMA RemoveUnusedStays ==
  ASSUME JInv, RemoveUnused
  PROVE  JInv'
<1>1. IInv /\ IInv' /\ Removal({AI}) /\ num \in DOMAIN allocas /\ Users(func, AI) = {} /\ stage \in Looping
  BY RemoveUnusedKeeps, RemoveUnusedIs DEF JInv, RemoveUnused, Looping
<1>2. \A b \in DOMAIN func : \A p \in DOMAIN func[b] : UserThere(func, b, p, AI)
  <2>1. Pointed(func, AI)
    BY <1>1, CurrentPointed
  <2>. QED
    BY <1>1, <2>1, StateIs, UsersAt
<1>3. \A b \in DOMAIN func : \A p \in DOMAIN func[b] : ~Accessing(func, b, p, AI)
  BY <1>1, <1>2 DEF UserThere
<1>. QED
  BY <1>1, <1>3, RemovalStays

LEMMA AllocaInfoFields ==
  /\ AllocaInfo.stores = Stores(func, AI)
  /\ AllocaInfo.defining = {BlockOf(func, u) : u \in Stores(func, AI)}
  /\ AllocaInfo.using = {BlockOf(func, u) : u \in Loads(func, AI)}
  /\ AllocaInfo.oneBlock = (Cardinality({BlockOf(func, u) : u \in Users(func, AI)}) = 1)
BY DEF AllocaInfo, Stores, Loads

LEMMA OnlyOne ==
  ASSUME NEW S, IsFiniteSet(S), Cardinality(S) = 1
  PROVE  \E x : S = {x}
BY FS_Singleton

LEMMA AnalyzeAllocaStays ==
  ASSUME JInv, AnalyzeAlloca
  PROVE  JInv'
<1>1. IInv /\ IInv' /\ num \in DOMAIN allocas /\ stage = "analyze" /\ stage' \in {"singleStore", "singleBlock"}
      /\ todo' = Loads(func, AI) /\ graph' = graph /\ func' = func /\ allocas' = allocas /\ num' = num
      /\ newPhis' = newPhis /\ worklist' = worklist /\ visited' = visited
      /\ (stage' = "singleStore" => Cardinality(AllocaInfo.stores) = 1)
      /\ info' = IF stage' = "singleStore" THEN [AllocaInfo EXCEPT !.using = {}] ELSE AllocaInfo
  BY AnalyzeAllocaKeeps DEF JInv, AnalyzeAlloca
<1>2. /\ \A b \in DOMAIN func : \A p \in DOMAIN func[b] : UserThere(func, b, p, AI)
      /\ \A u \in Users(func, AI) : \E b \in DOMAIN func : \E p \in DOMAIN func[b] : u = func[b][p].id
      /\ AI' = AI
  <2>1. Pointed(func, AI)
    BY <1>1, CurrentPointed DEF Looping
  <2>. QED
    BY <1>1, <2>1, StateIs, UsersAt DEF AI
<1>3. \A b \in DOMAIN func : \A p \in DOMAIN func[b] : BlockOf(func, func[b][p].id) = b
  BY <1>1, StateIs, PlaceOf
<1>4. /\ info'.stores = Stores(func, AI)
      /\ info'.defining = {BlockOf(func, u) : u \in Stores(func, AI)}
      /\ info'.using = IF stage' = "singleStore" THEN {} ELSE {BlockOf(func, u) : u \in Loads(func, AI)}
      /\ info'.oneBlock = (Cardinality({BlockOf(func, u) : u \in Users(func, AI)}) = 1)
  <2>. DEFINE more == AllocaInfo
  <2>1. more \in AllocaInfos
    BY <1>1, AllocaInfoIs DEF IInv
  <2>2. [more EXCEPT !.using = {}].stores = more.stores /\ [more EXCEPT !.using = {}].defining = more.defining
        /\ [more EXCEPT !.using = {}].using = {} /\ [more EXCEPT !.using = {}].oneBlock = more.oneBlock
    <3>. HIDE DEF more
    <3>. QED
      BY <2>1 DEF AllocaInfos
  <2>. QED
    BY <1>1, <2>2, AllocaInfoFields
<1>5. IsFiniteSet(Users(func, AI)) /\ IsFiniteSet(Stores(func, AI))
      /\ IsFiniteSet({BlockOf(func, u) : u \in Users(func, AI)})
  <2>1. IsFiniteSet(Ids(func))
    BY <1>1, StateIs, GraphIs, IdsAreFinite
  <2>2. IsFiniteSet(Users(func, AI)) /\ IsFiniteSet(Stores(func, AI))
    BY <2>1, UsersAre, FS_Subset
  <2>. DEFINE at == [u \in Users(func, AI) |-> BlockOf(func, u)]
  <2>3. IsFiniteSet(DOMAIN at) /\ Range(at) = {BlockOf(func, u) : u \in Users(func, AI)}
    BY <2>2 DEF Range
  <2>. QED
    BY <2>2, <2>3, RangeIsFinite
<1>6. stage' = "singleStore" => OneStore'
  <2>1. SUFFICES ASSUME stage' = "singleStore" PROVE OneStore'
    OBVIOUS
  <2>2. PICK s : Stores(func, AI) = {s}
    BY <1>1, <1>4, <1>5, <2>1, OnlyOne, AllocaInfoFields, ZenonT(60)
  <2>3. \A b \in DOMAIN func : \A q \in DOMAIN func[b] : StoresTo(func, b, q, AI) <=> func[b][q].id = s
    BY <1>2, <2>2 DEF UserThere
  <2>. QED
    BY <1>1, <1>2, <1>4, <2>2, <2>3 DEF OneStore
<1>7. LoadsKept'
  <2>1. ASSUME NEW b \in DOMAIN func, NEW q \in DOMAIN func[b]
        PROVE  /\ func[b][q].id \in todo' => LoadsFrom(func, b, q, AI)
               /\ LoadsFrom(func, b, q, AI) => b \in info'.using \/ (stage' = "singleStore" /\ func[b][q].id \in todo')
               /\ stage' = "singleBlock" /\ LoadsFrom(func, b, q, AI) => func[b][q].id \in todo'
    <3>1. func[b][q].id \in Loads(func, AI) <=> LoadsFrom(func, b, q, AI)
      BY <1>2 DEF UserThere
    <3>2. LoadsFrom(func, b, q, AI) => b \in {BlockOf(func, u) : u \in Loads(func, AI)}
      BY <1>3, <3>1
    <3>. QED
      BY <1>1, <1>4, <3>1, <3>2
  <2>. QED
    BY <1>1, <1>2, <2>1 DEF LoadsKept
<1>8. DefiningKept'
  <2>1. ASSUME NEW b \in DOMAIN func PROVE b \in info'.defining <=> \E q \in DOMAIN func[b] : StoresTo(func, b, q, AI)
    <3>1. ASSUME NEW q \in DOMAIN func[b], StoresTo(func, b, q, AI) PROVE b \in info'.defining
      <4>1. func[b][q].id \in Stores(func, AI)
        BY <1>2, <3>1 DEF UserThere
      <4>. QED
        BY <1>3, <1>4, <4>1
    <3>2. ASSUME b \in info'.defining PROVE \E q \in DOMAIN func[b] : StoresTo(func, b, q, AI)
      <4>1. PICK u \in Stores(func, AI) : BlockOf(func, u) = b
        BY <1>4, <3>2
      <4>2. PICK c \in DOMAIN func : \E p \in DOMAIN func[c] : u = func[c][p].id
        BY <1>2, <4>1 DEF Stores
      <4>3. PICK p \in DOMAIN func[c] : u = func[c][p].id
        BY <4>2
      <4>4. c = b /\ StoresTo(func, c, p, AI)
        BY <1>2, <1>3, <4>1, <4>3 DEF UserThere
      <4>. QED
        BY <4>4
    <3>. QED
      BY <3>1, <3>2
  <2>. QED
    BY <1>1, <1>2, <2>1 DEF DefiningKept
<1>9. InOneBlock'
  <2>1. ASSUME info'.oneBlock, NEW b \in DOMAIN func, NEW c \in DOMAIN func,
               NEW q \in DOMAIN func[b], NEW r \in DOMAIN func[c],
               Accessing(func, b, q, AI), Accessing(func, c, r, AI)
        PROVE  b = c
    <3>1. PICK x : {BlockOf(func, u) : u \in Users(func, AI)} = {x}
      BY <1>4, <1>5, <2>1, OnlyOne
    <3>2. func[b][q].id \in Users(func, AI) /\ func[c][r].id \in Users(func, AI)
      BY <1>2, <2>1 DEF UserThere
    <3>3. b \in {x} /\ c \in {x}
      BY <1>3, <3>1, <3>2
    <3>. QED
      BY <3>3
  <2>. QED
    BY <1>1, <1>2, <2>1 DEF InOneBlock
<1>10. SingleKept'
  BY <1>6, <1>7, <1>8, <1>9 DEF SingleKept
<1>11. stage \in Looping /\ stage' \in Looping
  BY <1>1 DEF Looping
<1>12. UsesDefined(graph', func') /\ PhisKeep' /\ WalkKept' /\ Plans'
  BY <1>1, <1>11, NothingRewritten
<1>. QED
  BY <1>1, <1>10, <1>12 DEF JInv

\* A load becomes a value that is available where the load is.
LEMMA LoadBecomesStays ==
  ASSUME JInv, IInv', stage \in {"singleStore", "singleBlock"}, stage' = stage,
         NEW lb \in DOMAIN func, NEW lp \in DOMAIN func[lb], NEW load, func[lb][lp].id = load, load \in todo,
         NEW v \in Operand, \A i \in DOMAIN allocas : v # Inst(allocas[i]),
         AvailAt(graph, func, v, lb, lp),
         func' = LoadBecomes(load, v), todo' = todo \ {load}, info' = info,
         graph' = graph, newPhis' = newPhis, worklist' = worklist, visited' = visited, allocas' = allocas, num' = num
  PROVE  JInv'
<1>1. /\ IInv /\ stage \in Looping /\ stage' \in Looping /\ num \in DOMAIN allocas
      /\ graph \in Graphs /\ func \in [DOMAIN graph -> Seq(Instr)] /\ DOMAIN func = DOMAIN graph /\ Unique(func)
      /\ load \in Nat /\ Has(func, load, "load")
  <2>1. IInv
    BY DEF JInv
  <2>2. func[lb][lp] \in Instr
    BY <2>1, InstrIn
  <2>3. load \in Nat
    BY <2>2, InstrIs
  <2>. QED
    BY <2>1, <2>3, StateIs DEF IInv, TypeOK, UsersKept, Looping
<1>. DEFINE w == IF v = Inst(load) THEN Poison ELSE v
            by == With(Empty, load, w)
<1>2. w \in Operand /\ by \in [{load} -> Operand] /\ by[load] = w
  <2>1. w \in Operand
    BY OperandsMade
  <2>2. Empty \in [{} -> Operand]
    BY DEF Empty
  <2>. HIDE DEF w
  <2>3. by \in [{} \cup {load} -> Operand]
    BY <1>1, <2>1, <2>2, MoreIs
  <2>4. by[load] = w
    BY DEF With
  <2>. QED
    BY <2>1, <2>3, <2>4
<1>3. func' = Erase(Replace(func, by), {load})
  BY DEF LoadBecomes
<1>4. w.k = "inst" => w = v /\ w.n # load
  <2>1. Poison.k # "inst"
    BY DEF Poison
  <2>. QED
    BY <2>1, InstOf
<1>5. AvailAt(graph, func, w, lb, lp)
  BY <1>4 DEF AvailAt
<1>6. \A i \in DOMAIN allocas : w # Inst(allocas[i])
  BY DEF Poison, Inst
<1>. HIDE DEF w, by
<1>7. PICK at : Rewritten(at, func', func, by, {load})
  <2>1. \E at : Rewritten(at, Erase(Replace(func, by), {load}), func, by, {load})
    BY <1>1, <1>2, RewrittenIs
  <2>. QED
    BY <1>3, <2>1
<1>8. Substitutes(graph, func, by, {load})
  <2>1. ASSUME NEW c \in DOMAIN func, NEW q \in DOMAIN func[c], func[c][q].id \in DOMAIN by
        PROVE  AvailAt(graph, func, by[func[c][q].id], c, q)
    <3>1. func[c][q].id = load
      BY <1>2, <2>1
    <3>2. c = lb /\ q = lp
      BY <1>1, <3>1, PlaceIsOne
    <3>. QED
      BY <1>2, <1>5, <3>1, <3>2
  <2>. QED
    BY <1>2, <1>4, <2>1 DEF Substitutes
<1>9. LoadsFrom(func, lb, lp, AI)
  BY DEF JInv, SingleKept, LoadsKept
<1>10. \A b \in DOMAIN func : \A q \in DOMAIN func[b] : func[b][q].id \in {load} => LoadsFrom(func, b, q, AI)
  <2>1. ASSUME NEW b \in DOMAIN func, NEW q \in DOMAIN func[b], func[b][q].id = load PROVE b = lb /\ q = lp
    BY <1>1, <2>1, PlaceIsOne
  <2>. QED
    BY <1>9, <2>1
<1>11. \A k \in 1 .. num - 1 : Spares(func, allocas[k], {load})
  BY <1>1, <1>10, OthersSpared DEF Accessing
<1>12. \A i \in DOMAIN allocas : allocas[i] \notin DOMAIN by /\ \A x \in DOMAIN by : by[x] # Inst(allocas[i])
  <2>1. ASSUME NEW i \in DOMAIN allocas, allocas[i] = load PROVE FALSE
    <3>1. Has(func, load, "alloca")
      BY <1>1, <2>1 DEF IInv, AllocasKept
    <3>2. "alloca" # "load"
      OBVIOUS
    <3>. QED
      BY <1>1, <3>1, <3>2, HasOneOp
  <2>. QED
    BY <1>2, <1>6, <2>1
<1>13. LoopRewrites(at, by, {load})
  BY <1>1, <1>7, <1>8, <1>11, <1>12 DEF LoopRewrites, IsAccess
<1>14. UsesDefined(graph', func') /\ PhisKeep' /\ WalkKept' /\ Plans'
  BY <1>13, LoopKeeps
<1>15. /\ func' \in [DOMAIN graph -> Seq(Instr)] /\ DOMAIN func' = DOMAIN graph /\ AI' = AI
       /\ AI \notin DOMAIN by /\ \A x \in DOMAIN by : by[x] # Inst(AI)
  BY <1>1, <1>12 DEF IInv, TypeOK, AI
<1>16. \A b \in DOMAIN graph : Blockwise(at[b], func'[b], func[b], by, {load})
  BY <1>1, <1>7, <1>15, RewrittenPlace
<1>17. \A b \in DOMAIN graph : \A k \in DOMAIN func'[b] :
         /\ at[b][k] \in DOMAIN func[b] /\ func'[b][k].id = func[b][at[b][k]].id /\ func'[b][k].id # load
         /\ StoresTo(func', b, k, AI) <=> StoresTo(func, b, at[b][k], AI)
         /\ LoadsFrom(func', b, k, AI) <=> LoadsFrom(func, b, at[b][k], AI)
  <2>. TAKE b \in DOMAIN graph
  <2>. TAKE k \in DOMAIN func'[b]
  <2>1. at[b][k] \in DOMAIN func[b] /\ func'[b][k].id = func[b][at[b][k]].id /\ func'[b][k].id # load
    BY <1>16 DEF Blockwise, SameBut
  <2>2. /\ StoresTo(func', b, k, AI) <=> StoresTo(func, b, at[b][k], AI)
        /\ LoadsFrom(func', b, k, AI) <=> LoadsFrom(func, b, at[b][k], AI)
    BY <1>1, <1>7, <1>15, AccessRewritten
  <2>. QED
    BY <2>1, <2>2
<1>18. SingleKept'
  <2>1. SingleKept
    BY DEF JInv
  <2>2. stage = "singleStore" => OneStore'
    <3>1. SUFFICES ASSUME stage = "singleStore" PROVE OneStore'
      OBVIOUS
    <3>2. PICK s : info.stores = {s} /\ \A b \in DOMAIN func : \A q \in DOMAIN func[b] :
                                         StoresTo(func, b, q, AI) <=> func[b][q].id = s
      BY <2>1, <3>1 DEF SingleKept, OneStore
    <3>3. \A b \in DOMAIN graph : \A q \in DOMAIN func'[b] : StoresTo(func', b, q, AI) <=> func'[b][q].id = s
      <4>. TAKE b \in DOMAIN graph
      <4>. TAKE q \in DOMAIN func'[b]
      <4>1. StoresTo(func', b, q, AI) <=> StoresTo(func, b, at[b][q], AI)
        BY <1>17
      <4>2. at[b][q] \in DOMAIN func[b] /\ func'[b][q].id = func[b][at[b][q]].id
        BY <1>17
      <4>3. StoresTo(func, b, at[b][q], AI) <=> func[b][at[b][q]].id = s
        BY <1>1, <3>2, <4>2
      <4>. QED
        BY <4>1, <4>2, <4>3
    <3>4. info'.stores = {s}
      BY <3>2
    <3>5. \A b \in DOMAIN func' : \A q \in DOMAIN func'[b] : StoresTo(func', b, q, AI') <=> func'[b][q].id = s
      BY <1>15, <3>3
    <3>. QED
      BY <3>4, <3>5, Zenon DEF OneStore
  <2>3. LoadsKept'
    <3>1. LoadsKept
      BY <2>1 DEF SingleKept
    <3>2. ASSUME NEW b \in DOMAIN graph, NEW q \in DOMAIN func'[b]
          PROVE  /\ func'[b][q].id \in todo' => LoadsFrom(func', b, q, AI)
                 /\ LoadsFrom(func', b, q, AI) => b \in info.using \/ (stage = "singleStore" /\ func'[b][q].id \in todo')
                 /\ stage = "singleBlock" /\ LoadsFrom(func', b, q, AI) => func'[b][q].id \in todo'
      BY <1>1, <1>17, <3>1 DEF LoadsKept
    <3>. QED
      BY <1>15, <3>2 DEF LoadsKept
  <2>4. DefiningKept'
    <3>1. DefiningKept
      BY <2>1 DEF SingleKept
    <3>2. ASSUME NEW b \in DOMAIN graph, NEW q \in DOMAIN func[b], StoresTo(func, b, q, AI)
          PROVE  \E k \in DOMAIN func'[b] : StoresTo(func', b, k, AI)
      <4>1. func[b][q].id # load
        BY <1>1, <1>10, <3>2 DEF StoresTo, LoadsFrom
      <4>2. PICK k \in DOMAIN func'[b] : at[b][k] = q
        BY <1>16, <4>1 DEF Blockwise
      <4>. QED
        BY <1>17, <3>2, <4>2
    <3>3. \A b \in DOMAIN graph : b \in info.defining <=> \E q \in DOMAIN func'[b] : StoresTo(func', b, q, AI)
      BY <1>1, <1>17, <3>1, <3>2 DEF DefiningKept
    <3>. QED
      BY <1>15, <3>3 DEF DefiningKept
  <2>5. InOneBlock'
    <3>1. InOneBlock
      BY <2>1 DEF SingleKept
    <3>2. ASSUME info.oneBlock, NEW b \in DOMAIN graph, NEW c \in DOMAIN graph,
                 NEW q \in DOMAIN func'[b], NEW r \in DOMAIN func'[c],
                 Accessing(func', b, q, AI), Accessing(func', c, r, AI)
          PROVE  b = c
      <4>1. Accessing(func, b, at[b][q], AI) /\ Accessing(func, c, at[c][r], AI)
            /\ at[b][q] \in DOMAIN func[b] /\ at[c][r] \in DOMAIN func[c]
        BY <1>17, <3>2 DEF Accessing
      <4>. QED
        BY <1>1, <3>1, <3>2, <4>1 DEF InOneBlock
    <3>. QED
      BY <1>15, <3>2 DEF InOneBlock
  <2>. QED
    BY <2>2, <2>3, <2>4, <2>5 DEF SingleKept
<1>. QED
  BY <1>14, <1>18 DEF JInv

LEMMA AvailLater ==
  ASSUME NEW g \in Graphs, NEW D, NEW f \in [D -> Seq(Instr)], NEW v,
         NEW c \in D, NEW q \in DOMAIN f[c], NEW b \in D, NEW p \in DOMAIN f[b],
         AvailAt(g, f, v, c, q), Earlier(g, c, q, b, p)
  PROVE  AvailAt(g, f, v, b, p)
<1>1. \A e \in D : DOMAIN f[e] \subseteq Nat
  BY SeqIs
<1>2. ASSUME v.k = "inst" PROVE \E d \in D : \E r \in DOMAIN f[d] : Defines(f, d, r, v) /\ Earlier(g, d, r, b, p)
  <2>1. PICK d \in D : \E r \in DOMAIN f[d] : Defines(f, d, r, v) /\ Earlier(g, d, r, c, q)
    BY <1>2 DEF AvailAt
  <2>2. PICK r \in DOMAIN f[d] : Defines(f, d, r, v) /\ Earlier(g, d, r, c, q)
    BY <2>1
  <2>3. r \in Nat /\ q \in Nat /\ p \in Nat
    BY <1>1
  <2>4. Earlier(g, d, r, b, p)
    BY <2>2, <2>3, EarlierTransitive
  <2>. QED
    BY <2>2, <2>4
<1>. QED
  BY <1>2 DEF AvailAt

\* What a store stores is available where it is, and is none of the allocas.
LEMMA StoredValueIs ==
  ASSUME JInv, stage \in Looping, NEW b \in DOMAIN func, NEW q \in DOMAIN func[b]
  PROVE  /\ func[b][q].val \in Operand /\ AvailAt(graph, func, func[b][q].val, b, q)
         /\ \A i \in DOMAIN allocas : func[b][q].val # Inst(allocas[i])
<1>1. IInv /\ UsesDefined(graph, func)
  BY DEF JInv
<1>2. func[b][q].val \in Operand
  BY <1>1, InstrIn, InstrIs
<1>3. AvailAt(graph, func, func[b][q].val, b, q)
  BY <1>1 DEF UsesDefined, UseDefined
<1>4. \A i \in DOMAIN allocas : Accessed(func, allocas[i])
  BY <1>1 DEF IInv, AllocasKept
<1>. QED
  BY <1>2, <1>3, <1>4, StoredIsNoAlloca

LEMMA TodoPlace ==
  ASSUME JInv, stage \in {"singleStore", "singleBlock"}, NEW load \in todo
  PROVE  \E b \in DOMAIN func : \E q \in DOMAIN func[b] : func[b][q].id = load /\ LoadsFrom(func, b, q, AI)
<1>1. Has(func, load, "load") /\ LoadsKept
  BY DEF JInv, IInv, UsersKept, SingleKept
<1>2. PICK b \in DOMAIN func : \E q \in DOMAIN func[b] : func[b][q].id = load
  BY <1>1 DEF Has
<1>3. PICK q \in DOMAIN func[b] : func[b][q].id = load
  BY <1>2
<1>4. LoadsFrom(func, b, q, AI)
  BY <1>1, <1>3 DEF LoadsKept
<1>. QED
  BY <1>3, <1>4

LEMMA OnlyStorePlace ==
  ASSUME JInv, stage = "singleStore"
  PROVE  \E b \in DOMAIN func : \E q \in DOMAIN func[b] :
           OnlyStore = func[b][q] /\ StoresTo(func, b, q, AI) /\ info.stores = {OnlyStore.id}
<1>1. IInv /\ OneStore
  BY DEF JInv, SingleKept
<1>2. OnlyStore.id \in info.stores /\ \E b \in DOMAIN func : \E q \in DOMAIN func[b] : OnlyStore = func[b][q]
  BY <1>1, OnlyStoreIs
<1>3. PICK s : info.stores = {s} /\ \A b \in DOMAIN func : \A q \in DOMAIN func[b] : StoresTo(func, b, q, AI) <=> func[b][q].id = s
  BY <1>1 DEF OneStore
<1>4. OnlyStore.id = s
  BY <1>2, <1>3
<1>5. PICK b \in DOMAIN func : \E q \in DOMAIN func[b] : OnlyStore = func[b][q]
  BY <1>2
<1>6. PICK q \in DOMAIN func[b] : OnlyStore = func[b][q]
  BY <1>5
<1>. QED
  BY <1>3, <1>4, <1>6

LEMMA LoadReached ==
  ASSUME JInv, RewriteSingleStoreLoad, NEW load \in todo, todo' = todo \ {load}, StoreReaches(load),
         func' = LoadBecomes(load, OnlyStore.val), info' = info
  PROVE  JInv'
<1>1. /\ IInv /\ IInv' /\ stage = "singleStore" /\ stage' = stage /\ stage \in Looping
      /\ graph' = graph /\ newPhis' = newPhis /\ worklist' = worklist /\ visited' = visited
      /\ allocas' = allocas /\ num' = num
  BY RewriteSingleStoreLoadKeeps DEF RewriteSingleStoreLoad, JInv, Looping
<1>2. /\ graph \in Graphs /\ func \in [DOMAIN graph -> Seq(Instr)] /\ DOMAIN func = DOMAIN graph /\ Unique(func)
  BY <1>1, StateIs
<1>3. PICK lb \in DOMAIN func : \E lp \in DOMAIN func[lb] : func[lb][lp].id = load
  BY <1>1, TodoPlace
<1>4. PICK lp \in DOMAIN func[lb] : func[lb][lp].id = load
  BY <1>3
<1>5. PICK sb \in DOMAIN func : \E sp \in DOMAIN func[sb] : OnlyStore = func[sb][sp]
  BY <1>1, OnlyStorePlace
<1>6. PICK sp \in DOMAIN func[sb] : OnlyStore = func[sb][sp]
  BY <1>5
<1>. DEFINE v == OnlyStore.val
<1>7. v \in Operand /\ AvailAt(graph, func, v, sb, sp) /\ \A i \in DOMAIN allocas : v # Inst(allocas[i])
  BY <1>1, <1>6, StoredValueIs
<1>8. BlockOf(func, OnlyStore.id) = sb /\ IndexOf(func, OnlyStore.id) = sp
      /\ BlockOf(func, load) = lb /\ IndexOf(func, load) = lp
  BY <1>2, <1>4, <1>6, PlaceOf
<1>9. AvailAt(graph, func, v, lb, lp)
  <2>1. CASE v.k # "inst"
    BY <2>1 DEF AvailAt
  <2>2. CASE v.k = "inst"
    <3>1. Earlier(graph, sb, sp, lb, lp)
      BY <1>8, <2>2 DEF StoreReaches, Earlier
    <3>. QED
      BY <1>2, <1>7, <3>1, AvailLater
  <2>. QED
    BY <2>1, <2>2
<1>. QED
  BY <1>1, <1>4, <1>7, <1>9, LoadBecomesStays

LEMMA LoadNotReached ==
  ASSUME JInv, RewriteSingleStoreLoad, NEW load \in todo, todo' = todo \ {load},
         info' = [info EXCEPT !.using = @ \cup {BlockOf(func, load)}], func' = func
  PROVE  JInv'
<1>1. /\ IInv /\ IInv' /\ stage = "singleStore" /\ stage' = stage /\ stage \in Looping
      /\ graph' = graph /\ newPhis' = newPhis /\ worklist' = worklist /\ visited' = visited
      /\ allocas' = allocas /\ num' = num
  BY RewriteSingleStoreLoadKeeps DEF RewriteSingleStoreLoad, JInv, Looping
<1>2. UsesDefined(graph', func') /\ PhisKeep' /\ WalkKept' /\ Plans'
  BY <1>1, NothingRewritten
<1>3. /\ info'.stores = info.stores /\ info'.defining = info.defining /\ info'.oneBlock = info.oneBlock
      /\ info'.using = info.using \cup {BlockOf(func, load)}
  <2>1. info \in AllocaInfos
    BY <1>1 DEF IInv, TypeOK
  <2>. QED
    BY <2>1 DEF AllocaInfos
<1>4. AI' = AI
  BY <1>1 DEF AI
<1>5. OneStore /\ LoadsKept /\ DefiningKept /\ InOneBlock
  BY <1>1 DEF JInv, SingleKept
<1>6. OneStore' /\ DefiningKept' /\ InOneBlock'
  <2>1. OneStore'
    <3>1. PICK s : info.stores = {s} /\ \A b \in DOMAIN func : \A q \in DOMAIN func[b] : StoresTo(func, b, q, AI) <=> func[b][q].id = s
      BY <1>5 DEF OneStore
    <3>2. \A b \in DOMAIN func' : \A q \in DOMAIN func'[b] : StoresTo(func', b, q, AI') <=> func'[b][q].id = s
      BY <1>4, <3>1
    <3>3. info'.stores = {s}
      BY <1>3, <3>1
    <3>. QED
      BY <3>2, <3>3, Zenon DEF OneStore
  <2>2. DefiningKept'
    BY <1>3, <1>4, <1>5, Zenon DEF DefiningKept
  <2>3. InOneBlock'
    BY <1>3, <1>4, <1>5, Zenon DEF InOneBlock
  <2>. QED
    BY <2>1, <2>2, <2>3
<1>7. LoadsKept'
  <2>1. ASSUME NEW b \in DOMAIN func, NEW q \in DOMAIN func[b]
        PROVE  /\ func[b][q].id \in todo' => LoadsFrom(func, b, q, AI)
               /\ LoadsFrom(func, b, q, AI) => b \in info'.using \/ func[b][q].id \in todo'
    <3>1. BlockOf(func, func[b][q].id) = b
      BY <1>1, StateIs, PlaceOf
    <3>. QED
      BY <1>1, <1>3, <1>5, <3>1 DEF LoadsKept
  <2>. QED
    BY <1>1, <1>4, <2>1 DEF LoadsKept
<1>. QED
  BY <1>1, <1>2, <1>6, <1>7 DEF JInv, SingleKept

LEMMA RewriteSingleStoreLoadStays ==
  ASSUME JInv, RewriteSingleStoreLoad
  PROVE  JInv'
<1>1. PICK load \in todo :
        /\ todo' = todo \ {load}
        /\ IF StoreReaches(load)
           THEN func' = LoadBecomes(load, OnlyStore.val) /\ UNCHANGED info
           ELSE info' = [info EXCEPT !.using = @ \cup {BlockOf(func, load)}] /\ UNCHANGED func
  BY DEF RewriteSingleStoreLoad
<1>2. CASE StoreReaches(load)
  BY <1>1, <1>2, LoadReached
<1>3. CASE ~StoreReaches(load)
  BY <1>1, <1>3, LoadNotReached
<1>. QED
  BY <1>2, <1>3

LEMMA SingleStoreRewrittenStays ==
  ASSUME JInv, SingleStoreRewritten
  PROVE  JInv'
<1>1. IInv /\ IInv' /\ Removal({OnlyStore.id, AI}) /\ stage = "singleStore" /\ todo = {} /\ info.using = {}
  BY SingleStoreRewrittenKeeps, SingleStoreRewrittenIs DEF JInv, SingleStoreRewritten
<1>2. PICK s : info.stores = {s} /\ \A b \in DOMAIN func : \A q \in DOMAIN func[b] : StoresTo(func, b, q, AI) <=> func[b][q].id = s
  BY <1>1 DEF JInv, SingleKept, OneStore
<1>3. OnlyStore.id = s
  BY <1>1, <1>2, OnlyStoreIs
<1>4. \A b \in DOMAIN func : \A q \in DOMAIN func[b] : ~LoadsFrom(func, b, q, AI)
  BY <1>1 DEF JInv, SingleKept, LoadsKept
<1>. QED
  BY <1>1, <1>2, <1>3, <1>4, RemovalStays DEF Accessing

LEMMA SingleStoreFailedStays ==
  ASSUME JInv, SingleStoreFailed
  PROVE  JInv'
<1>1. /\ IInv /\ IInv' /\ stage = "singleStore" /\ stage' = "singleBlock" /\ stage \in Looping /\ stage' \in Looping
      /\ graph' = graph /\ newPhis' = newPhis /\ worklist' = worklist /\ visited' = visited /\ func' = func
      /\ allocas' = allocas /\ num' = num /\ info' = info /\ todo = {} /\ todo' = Loads(func, AI) /\ num \in DOMAIN allocas
  BY SingleStoreFailedKeeps DEF SingleStoreFailed, JInv, Looping, IInv, TypeOK
<1>2. UsesDefined(graph', func') /\ PhisKeep' /\ WalkKept' /\ Plans'
  BY <1>1, NothingRewritten
<1>3. AI' = AI
  BY <1>1 DEF AI
<1>4. LoadsKept /\ DefiningKept /\ InOneBlock
  BY <1>1 DEF JInv, SingleKept
<1>5. DefiningKept' /\ InOneBlock'
  <2>1. DefiningKept'
    BY <1>1, <1>3, <1>4, Zenon DEF DefiningKept
  <2>2. InOneBlock'
    BY <1>1, <1>3, <1>4, Zenon DEF InOneBlock
  <2>. QED
    BY <2>1, <2>2
<1>6. LoadsKept'
  <2>1. \A b \in DOMAIN func : \A p \in DOMAIN func[b] : UserThere(func, b, p, AI)
    <3>1. Pointed(func, AI)
      BY <1>1, CurrentPointed
    <3>. QED
      BY <1>1, <3>1, StateIs, UsersAt
  <2>2. ASSUME NEW b \in DOMAIN func, NEW q \in DOMAIN func[b]
        PROVE  /\ func[b][q].id \in todo' <=> LoadsFrom(func, b, q, AI)
               /\ LoadsFrom(func, b, q, AI) => b \in info.using
    BY <1>1, <1>4, <2>1 DEF LoadsKept, UserThere
  <2>. QED
    BY <1>1, <1>3, <2>2 DEF LoadsKept
<1>. QED
  BY <1>1, <1>2, <1>5, <1>6 DEF JInv, SingleKept

\* The nearest store before a load of the one block that uses the alloca.
LEMMA NearestPlace ==
  ASSUME JInv, stage = "singleBlock", info.oneBlock, NEW lb \in DOMAIN func, NEW lp \in DOMAIN func[lb],
         func[lb][lp].id \in todo, StoresBefore(func[lb][lp].id) # {}
  PROVE  \E q \in DOMAIN func[lb] : q < lp /\ InstrOf(func, NearestStore(func[lb][lp].id)) = func[lb][q]
<1>. DEFINE load == func[lb][lp].id
            s == NearestStore(load)
<1>1. IInv /\ TypeOK /\ Unique(func) /\ num \in DOMAIN allocas /\ load \in Ids(func)
  BY DEF JInv, IInv, TypeOK
<1>11. func \in [DOMAIN graph -> Seq(Instr)] /\ DOMAIN func = DOMAIN graph
  BY <1>1, StateIs
<1>2. s \in StoresBefore(load)
  BY <1>1, NearestStoreIs
<1>. HIDE DEF s
<1>3. s \in Stores(func, AI) /\ IndexOf(func, s) < IndexOf(func, load)
  BY <1>2 DEF StoresBefore
<1>4. /\ \A b \in DOMAIN func : \A p \in DOMAIN func[b] : UserThere(func, b, p, AI)
      /\ \A u \in Users(func, AI) : \E b \in DOMAIN func : \E p \in DOMAIN func[b] : u = func[b][p].id
  <2>1. Pointed(func, AI)
    BY <1>1, CurrentPointed DEF Looping
  <2>. QED
    BY <1>1, <1>11, <2>1, UsersAt
<1>5. PICK b \in DOMAIN func : \E q \in DOMAIN func[b] : s = func[b][q].id
  BY <1>3, <1>4 DEF Stores
<1>6. PICK q \in DOMAIN func[b] : s = func[b][q].id
  BY <1>5
<1>7. StoresTo(func, b, q, AI)
  BY <1>3, <1>4, <1>6 DEF UserThere
<1>8. LoadsFrom(func, lb, lp, AI) /\ InOneBlock
  BY DEF JInv, SingleKept, LoadsKept
<1>9. b = lb
  BY <1>7, <1>8 DEF InOneBlock, Accessing
<1>10. IndexOf(func, s) = q /\ IndexOf(func, load) = lp /\ InstrOf(func, s) = func[b][q]
  <2>1. IndexOf(func, func[b][q].id) = q /\ InstrOf(func, func[b][q].id) = func[b][q]
    BY <1>1, <1>11, PlaceOf
  <2>2. IndexOf(func, func[lb][lp].id) = lp
    BY <1>1, <1>11, PlaceOf
  <2>. QED
    BY <1>6, <2>1, <2>2
<1>. QED
  BY <1>3, <1>9, <1>10 DEF s

LEMMA PromoteSingleBlockLoadStays ==
  ASSUME JInv, PromoteSingleBlockLoad
  PROVE  JInv'
<1>1. /\ IInv /\ IInv' /\ stage = "singleBlock" /\ stage' = stage /\ stage \in Looping /\ info.oneBlock
      /\ graph' = graph /\ newPhis' = newPhis /\ worklist' = worklist /\ visited' = visited
      /\ allocas' = allocas /\ num' = num /\ info' = info
  BY PromoteSingleBlockLoadKeeps DEF PromoteSingleBlockLoad, JInv, Looping
<1>2. /\ graph \in Graphs /\ func \in [DOMAIN graph -> Seq(Instr)] /\ DOMAIN func = DOMAIN graph /\ Unique(func)
  BY <1>1, StateIs
<1>. DEFINE v(load) == IF Stores(func, AI) = {} THEN Undef ELSE InstrOf(func, NearestStore(load)).val
<1>3. PICK load \in todo : /\ StoresBefore(load) # {} \/ Stores(func, AI) = {}
                          /\ func' = LoadBecomes(load, v(load))
                          /\ todo' = todo \ {load}
  BY DEF PromoteSingleBlockLoad
<1>4. PICK lb \in DOMAIN func : \E lp \in DOMAIN func[lb] : func[lb][lp].id = load
  BY <1>1, TodoPlace
<1>5. PICK lp \in DOMAIN func[lb] : func[lb][lp].id = load
  BY <1>4
<1>6. v(load) \in Operand /\ AvailAt(graph, func, v(load), lb, lp) /\ \A i \in DOMAIN allocas : v(load) # Inst(allocas[i])
  <2>1. CASE Stores(func, AI) = {}
    <3>1. v(load) = Undef
      BY <2>1
    <3>2. Undef \in Operand /\ Undef.k # "inst" /\ \A i \in DOMAIN allocas : Undef # Inst(allocas[i])
      BY OperandsMade DEF Undef, Inst
    <3>. QED
      BY <3>1, <3>2 DEF AvailAt
  <2>2. CASE Stores(func, AI) # {}
    <3>1. PICK q \in DOMAIN func[lb] : q < lp /\ InstrOf(func, NearestStore(load)) = func[lb][q]
      BY <1>1, <1>3, <1>5, <2>2, NearestPlace
    <3>2. v(load) = func[lb][q].val
      BY <2>2, <3>1
    <3>. HIDE DEF v
    <3>3. /\ func[lb][q].val \in Operand /\ AvailAt(graph, func, func[lb][q].val, lb, q)
          /\ \A i \in DOMAIN allocas : func[lb][q].val # Inst(allocas[i])
      BY <1>1, StoredValueIs
    <3>4. Earlier(graph, lb, q, lb, lp)
      BY <3>1 DEF Earlier
    <3>. QED
      BY <1>2, <3>2, <3>3, <3>4, AvailLater
  <2>. QED
    BY <2>1, <2>2
<1>. HIDE DEF v
<1>. QED
  BY <1>1, <1>3, <1>5, <1>6, LoadBecomesStays

LEMMA SingleBlockPromotedStays ==
  ASSUME JInv, SingleBlockPromoted
  PROVE  JInv'
<1>1. IInv /\ IInv' /\ Removal(Users(func, AI) \cup {AI}) /\ stage = "singleBlock" /\ todo = {} /\ num \in DOMAIN allocas
  BY SingleBlockPromotedKeeps, SingleBlockPromotedIs DEF JInv, SingleBlockPromoted, IInv, TypeOK
<1>2. \A b \in DOMAIN func : \A p \in DOMAIN func[b] : UserThere(func, b, p, AI)
  <2>1. Pointed(func, AI)
    BY <1>1, CurrentPointed DEF Looping
  <2>. QED
    BY <1>1, <2>1, StateIs, UsersAt
<1>3. \A b \in DOMAIN func : \A q \in DOMAIN func[b] : ~LoadsFrom(func, b, q, AI)
  BY <1>1 DEF JInv, SingleKept, LoadsKept
<1>. QED
  BY <1>1, <1>2, <1>3, RemovalStays DEF Accessing, UserThere

-----------------------------------------------------------------------------
(* The loop ends, and the walk begins.                                     *)

\* Entries depend on the walk only by what is due.
LEMMA EntriesByDue ==
  ASSUME NEW g, NEW f, NEW news, NEW vis, NEW wl, NEW vis2, NEW wl2, EntriesKept(g, f, news, vis, wl),
         \/ news = {}
         \/ \A b \in DOMAIN f : \A p \in DOMAIN g : Due(g, vis2, wl2, b, p) = Due(g, vis, wl, b, p)
  PROVE  EntriesKept(g, f, news, vis2, wl2)
BY DEF EntriesKept, EntriesDue

LEMMA PromotablePointed ==
  ASSUME NEW D, NEW f \in [D -> Seq(Instr)], Unique(f), NEW a, Promotable(f, a)
  PROVE  Pointed(f, a)
<1>. SUFFICES ASSUME NEW b \in D, NEW p \in DOMAIN f[b], Inst(a) \in Operands(f[b][p])
              PROVE  f[b][p].op \in {"load", "store"} /\ f[b][p].ptr = Inst(a) /\ f[b][p].val # Inst(a)
  BY DEF Pointed
<1>1. f[b][p].id \in Ids(f) /\ InstrOf(f, f[b][p].id) = f[b][p]
  BY InstrAt
<1>2. f[b][p].id \in Users(f, a)
  BY <1>1 DEF Users
<1>3. OnlyAccessed(f, a)
  BY <1>2 DEF Promotable, IsAllocaPromotable
<1>. QED
  BY <1>1, <1>2, <1>3 DEF OnlyAccessed

LEMMA NothingToPromoteStays ==
  ASSUME JInv, NothingToPromote
  PROVE  JInv'
<1>1. IInv'
  BY NothingToPromoteKeeps DEF JInv
<1>2. /\ stage = "collect" /\ stage' = "done" /\ graph' = graph /\ func' = func /\ newPhis' = newPhis
      /\ worklist' = worklist /\ visited' = visited /\ allocas' = allocas
  BY DEF NothingToPromote
<1>3. UsesDefined(graph', func') /\ PhisKeep'
  BY <1>2 DEF JInv, PhisKeep
<1>4. WalkKept'
  <2>1. WalkKept /\ stage' \notin Looping
    BY <1>2 DEF JInv, Looping
  <2>. QED
    BY <1>2, <2>1 DEF WalkKept, FromVisited
<1>5. Plans' /\ SingleKept'
  BY <1>2 DEF JInv, Plans, SingleKept, Looping
<1>. QED
  BY <1>1, <1>3, <1>4, <1>5 DEF JInv

LEMMA AllSimpleStays ==
  ASSUME JInv, AllSimple
  PROVE  JInv'
<1>1. IInv'
  BY AllSimpleKeeps DEF JInv
<1>2. /\ stage = "analyze" /\ stage' = "collect" /\ graph' = graph /\ func' = func /\ newPhis' = newPhis
      /\ worklist' = worklist /\ visited' = visited /\ allocas' = allocas /\ allocas = <<>>
  BY DEF AllSimple
<1>3. UsesDefined(graph', func') /\ PhisKeep'
  BY <1>2 DEF JInv, PhisKeep
<1>4. DOMAIN newPhis = {}
  <2>1. ASSUME NEW k \in DOMAIN newPhis PROVE FALSE
    <3>1. IInv
      BY DEF JInv
    <3>2. num = 1
      BY <1>2, <3>1, StateIs
    <3>3. k[2] < 1 /\ k[2] # 0
      BY <1>2, <3>1, <3>2 DEF IInv, LookupAgrees, PhisKept
    <3>4. k[2] \in Nat
      BY <3>1 DEF IInv, TypeOK
    <3>. QED
      BY <3>3, <3>4
  <2>. QED
    BY <2>1
<1>5. WalkKept'
  <2>1. WalkKept /\ stage' \notin Looping
    BY <1>2 DEF JInv, Looping
  <2>. QED
    BY <1>2, <1>4, <2>1 DEF WalkKept, FromVisited
<1>6. Plans' /\ SingleKept'
  BY <1>2 DEF JInv, Plans, SingleKept, Looping
<1>. QED
  BY <1>1, <1>3, <1>5, <1>6 DEF JInv

LEMMA CollectStays ==
  ASSUME JInv, Collect
  PROVE  JInv'
<1>1. IInv /\ IInv'
  BY CollectKeeps DEF JInv
<1>2. /\ stage = "collect" /\ stage' = "analyze" /\ graph' = graph /\ func' = func /\ newPhis' = Empty
      /\ worklist' = worklist /\ visited' = {} /\ allocas' = Collected /\ num' = 1
  BY DEF Collect
<1>3. worklist = <<>> /\ DOMAIN worklist = {} /\ DOMAIN newPhis = {} /\ DOMAIN Empty = {}
  <2>1. worklist = <<>>
    BY <1>1, <1>2, StateIs
  <2>2. DOMAIN worklist = {}
    BY <2>1
  <2>. QED
    BY <1>2, <2>1, <2>2 DEF JInv, WalkKept, Empty
<1>4. UsesDefined(graph', func')
  BY <1>2 DEF JInv
<1>5. PhisKeep'
  <2>1. Range(newPhis) = {} /\ Range(newPhis') = {} /\ DOMAIN newPhis' = {}
    BY <1>2, <1>3 DEF Range
  <2>2. EntriesKept(graph, func, {}, visited, worklist)
    BY <2>1 DEF JInv, PhisKeep
  <2>3. EntriesKept(graph, func, {}, visited', worklist')
    BY <2>2, EntriesByDue
  <2>4. PhisPlaced(func', newPhis')
    BY <2>1 DEF PhisPlaced, KeysPlaced, InFront
  <2>. QED
    BY <1>2, <2>1, <2>3, <2>4 DEF PhisKeep
<1>6. WalkKept'
  BY <1>2, <1>3 DEF WalkKept
<1>7. Plans'
  <2>1. ASSUME NEW i \in DOMAIN Collected PROVE Pointed(func, Collected[i])
    <3>1. Promotable(func, Collected[i])
      BY <1>1, CollectedIs DEF IInv
    <3>. QED
      BY <1>1, <3>1, StateIs, PromotablePointed
  <2>2. 1 .. num' - 1 = {}
    BY <1>2
  <2>. QED
    BY <1>2, <1>3, <2>1, <2>2 DEF Plans
<1>8. SingleKept'
  BY <1>2 DEF SingleKept
<1>. QED
  BY <1>1, <1>4, <1>5, <1>6, <1>7, <1>8 DEF JInv

LEMMA StartRenamingStays ==
  ASSUME JInv, StartRenaming
  PROVE  JInv'
<1>1. IInv /\ IInv'
  BY StartRenamingKeeps DEF JInv
<1>. DEFINE it == [bb |-> Entry, pred |-> 0, vals |-> [k \in DOMAIN allocas |-> Undef]]
<1>2. /\ stage = "analyze" /\ stage' = "rename" /\ graph' = graph /\ func' = func /\ newPhis' = newPhis
      /\ worklist' = <<it>> /\ visited' = visited /\ allocas' = allocas /\ num' = num
  BY DEF StartRenaming
<1>3. DOMAIN worklist' = {1} /\ worklist'[1] = it
  BY <1>2
<1>4. it.bb = Entry /\ it.pred = 0 /\ \A k \in DOMAIN allocas : it.vals[k] = Undef
  OBVIOUS
<1>. HIDE DEF it
<1>5. visited = {}
  BY <1>2 DEF JInv, WalkKept, Looping
<1>6. UsesDefined(graph', func')
  BY <1>2 DEF JInv
<1>7. PhisKeep'
  <2>1. EntriesKept(graph, func, Range(newPhis), visited, worklist) /\ PhisPlaced(func, newPhis)
    BY DEF JInv, PhisKeep
  <2>2. \A b \in DOMAIN func : \A p \in DOMAIN graph :
          Due(graph, visited, worklist', b, p) = Due(graph, visited, worklist, b, p)
    BY <1>5 DEF Due
  <2>3. EntriesKept(graph, func, Range(newPhis), visited, worklist')
    BY <2>1, <2>2, EntriesByDue
  <2>. QED
    BY <1>2, <2>1, <2>3 DEF PhisKeep
<1>8. WalkKept'
  <2>1. \A j \in DOMAIN worklist' : j = 1 /\ worklist'[j].bb = Entry /\ worklist'[j].pred = 0
    BY <1>3, <1>4
  <2>2. 1 \in DOMAIN worklist' /\ worklist'[1].bb = Entry
    BY <1>3, <1>4
  <2>. QED
    BY <1>2, <1>5, <2>1, <2>2 DEF WalkKept, FromVisited
<1>9. Plans'
  <2>1. /\ \A k \in 1 .. num - 1 : Planned(graph, func, allocas[k], k, visited, worklist, newPhis)
        /\ \A i \in DOMAIN allocas : Pointed(func, allocas[i])
    BY <1>2 DEF JInv, Plans, Looping
  <2>2. ASSUME NEW k \in 1 .. num - 1 PROVE Planned(graph, func, allocas[k], k, visited, worklist', newPhis)
    <3>1. k \in DOMAIN allocas
      BY <1>1, StateIs
    <3>2. PICK Def \in SUBSET DOMAIN graph, Live \in SUBSET DOMAIN graph :
            /\ Covers(func, allocas[k], Def, Live) /\ Stored(func, allocas[k], Def \ visited)
            /\ Flows(graph, Def, Live, Phied(graph, newPhis, k))
      BY <2>1 DEF Planned
    <3>3. \A j \in DOMAIN worklist' : Carried(graph, func, worklist'[j], k, Def, Live, Phied(graph, newPhis, k))
      BY <1>3, <1>4, <3>1 DEF Carried
    <3>. QED
      BY <3>2, <3>3, Zenon DEF Planned
  <2>3. \A j \in DOMAIN worklist' : \A k, i \in DOMAIN allocas : worklist'[j].vals[k] # Inst(allocas[i])
    BY <1>3, <1>4 DEF Undef, Inst
  <2>4. \A k \in 1 .. num' - 1 : Planned(graph', func', allocas'[k], k, visited', worklist', newPhis')
    BY <1>2, <2>2
  <2>5. \A i \in DOMAIN allocas' : Pointed(func', allocas'[i])
    BY <1>2, <2>1
  <2>6. \A j \in DOMAIN worklist' : \A k, i \in DOMAIN allocas' : worklist'[j].vals[k] # Inst(allocas'[i])
    BY <1>2, <2>3
  <2>. QED
    BY <2>4, <2>5, <2>6 DEF Plans
<1>10. SingleKept'
  BY <1>2 DEF SingleKept
<1>. QED
  BY <1>1, <1>6, <1>7, <1>8, <1>9, <1>10 DEF JInv

-----------------------------------------------------------------------------
(* Empty phis in front of blocks.                                          *)

LEMMA LeastIs ==
  ASSUME NEW T, T \subseteq Nat, T # {}
  PROVE  \E m \in T : \A j \in T : m <= j
<1>1. PICK m \in T : \A j \in T : ~(<<j, m>> \in OpToRel(<, Nat))
  BY WFMin, NatLessThanWellFounded, Zenon
<1>2. \A j \in T : ~(j < m)
  BY <1>1 DEF OpToRel
<1>3. \A j \in T : m <= j
  BY <1>2
<1>. QED
  BY <1>3

\* h is f with an empty phi in front of each block of placed.
IsEmptyPhi(i) == i.op = "phi" /\ i.ptr = Undef /\ i.val = Undef /\ DOMAIN i.inc = {}
Shift(placed, b) == IF b \in placed THEN 1 ELSE 0
OldPlace(h, f, placed, b, p) == p - Shift(placed, b) \in DOMAIN f[b] /\ h[b][p] = f[b][p - Shift(placed, b)]
NewPlace(h, placed, idOf, b, p) == b \in placed /\ p = 1 /\ IsEmptyPhi(h[b][p]) /\ h[b][p].id = idOf[b]
Fronted(h, f, placed, idOf) ==
  /\ DOMAIN h = DOMAIN f
  /\ \A b \in DOMAIN f : \A q \in DOMAIN f[b] : q + Shift(placed, b) \in DOMAIN h[b] /\ h[b][q + Shift(placed, b)] = f[b][q]
  /\ \A b \in DOMAIN f : \A p \in DOMAIN h[b] : NewPlace(h, placed, idOf, b, p) \/ OldPlace(h, f, placed, b, p)
  /\ \A b \in placed : 1 \in DOMAIN h[b] /\ NewPlace(h, placed, idOf, b, 1)
  /\ \A b \in DOMAIN f : DOMAIN f[b] = 1 .. Len(f[b]) /\ Len(f[b]) \in Nat /\ DOMAIN h[b] \subseteq Nat

LEMMA EmptyPhiFields ==
  ASSUME NEW id \in Nat
  PROVE  IsEmptyPhi(Phi(id, <<>>)) /\ Phi(id, <<>>).id = id /\ Phi(id, <<>>) \in Instr
<1>. DEFINE inc == <<>>
<1>1. inc \in Seq(PhiEntry) /\ DOMAIN inc = {}
  OBVIOUS
<1>. HIDE DEF inc
<1>2. [MkInstr(id, "phi", Undef, Undef) EXCEPT !.inc = inc]
      = [id |-> id, op |-> "phi", ptr |-> Undef, val |-> Undef, inc |-> inc]
  BY DEF MkInstr
<1>. DEFINE i == [MkInstr(id, "phi", Undef, Undef) EXCEPT !.inc = inc]
<1>3. i \in Instr /\ i.op = "phi" /\ i.id = id /\ i.ptr = Undef /\ i.val = Undef /\ i.inc = inc
  BY <1>1, <1>2, OperandsMade DEF Instr
<1>. HIDE DEF i
<1>. QED
  BY <1>1, <1>3 DEF Phi, inc, i, IsEmptyPhi

LEMMA WithPhisFronted ==
  ASSUME NEW g \in Graphs, NEW f \in [DOMAIN g -> Seq(Instr)],
         NEW placed, placed \subseteq DOMAIN g, NEW idOf \in [DOMAIN g -> Nat]
  PROVE  Fronted(WithPhis(f, placed, idOf), f, placed, idOf)
<1>. DEFINE h == WithPhis(f, placed, idOf)
            D == DOMAIN g
<1>1. DOMAIN h = D /\ DOMAIN f = D
  BY DEF WithPhis
<1>2. ASSUME NEW b \in D
      PROVE  /\ \A q \in DOMAIN f[b] : q + Shift(placed, b) \in DOMAIN h[b] /\ h[b][q + Shift(placed, b)] = f[b][q]
             /\ \A p \in DOMAIN h[b] : NewPlace(h, placed, idOf, b, p) \/ OldPlace(h, f, placed, b, p)
             /\ b \in placed => 1 \in DOMAIN h[b] /\ NewPlace(h, placed, idOf, b, 1)
             /\ DOMAIN f[b] \subseteq Nat /\ DOMAIN h[b] \subseteq Nat
  <2>1. f[b] \in Seq(Instr)
    OBVIOUS
  <2>2. CASE b \in placed
    <3>. DEFINE i == Phi(idOf[b], <<>>)
                s == f[b]
    <3>1. i \in Instr /\ IsEmptyPhi(i) /\ i.id = idOf[b]
      <4>1. idOf[b] \in Nat
        OBVIOUS
      <4>. QED
        BY <4>1, EmptyPhiFields
    <3>2. h[b] = <<i>> \o s
      BY <2>2 DEF WithPhis
    <3>3. s \in Seq(Instr)
      BY <2>1
    <3>4. Shift(placed, b) = 1
      BY <2>2 DEF Shift
    <3>. HIDE DEF i, s, h
    <3>5. DOMAIN (<<i>> \o s) \subseteq Nat /\ DOMAIN s \subseteq Nat
      BY <3>1, <3>3
    <3>6. \A p \in DOMAIN (<<i>> \o s) :
            (p = 1 /\ (<<i>> \o s)[p] = i) \/ (p - 1 \in DOMAIN s /\ (<<i>> \o s)[p] = s[p - 1])
      BY <3>1, <3>3
    <3>7. \A q \in DOMAIN s : q + 1 \in DOMAIN (<<i>> \o s) /\ (<<i>> \o s)[q + 1] = s[q]
      BY <3>1, <3>3
    <3>8. 1 \in DOMAIN (<<i>> \o s) /\ (<<i>> \o s)[1] = i
      BY <3>1, <3>3
    <3>9. \A p \in DOMAIN h[b] : NewPlace(h, placed, idOf, b, p) \/ OldPlace(h, f, placed, b, p)
      BY <2>2, <3>1, <3>2, <3>4, <3>6 DEF NewPlace, OldPlace, s
    <3>10. \A q \in DOMAIN f[b] : q + Shift(placed, b) \in DOMAIN h[b] /\ h[b][q + Shift(placed, b)] = f[b][q]
      BY <3>2, <3>4, <3>7 DEF s
    <3>11. 1 \in DOMAIN h[b] /\ NewPlace(h, placed, idOf, b, 1)
      BY <2>2, <3>1, <3>2, <3>8 DEF NewPlace
    <3>12. DOMAIN f[b] \subseteq Nat /\ DOMAIN h[b] \subseteq Nat
      BY <3>2, <3>5 DEF s
    <3>. QED
      BY <3>9, <3>10, <3>11, <3>12
  <2>3. CASE b \notin placed
    <3>1. h[b] = f[b] /\ DOMAIN f[b] \subseteq Nat /\ Shift(placed, b) = 0
      BY <2>1, <2>3 DEF WithPhis, Shift
    <3>2. \A q \in DOMAIN f[b] : q + 0 = q /\ q - 0 = q
      BY <3>1
    <3>. HIDE DEF h
    <3>. QED
      BY <2>3, <3>1, <3>2 DEF OldPlace
  <2>. QED
    BY <2>2, <2>3
<1>. HIDE DEF h
<1>. QED
  BY <1>1, <1>2 DEF Fronted, h

\* An old instruction has the same number, a new one a new one.
LEMMA OldPlaceIs ==
  ASSUME NEW h, NEW f, NEW placed, NEW idOf, Fronted(h, f, placed, idOf),
         NEW b \in DOMAIN f, NEW p \in DOMAIN h[b], NEW q \in DOMAIN h[b]
  PROVE  /\ p \in Nat /\ q \in Nat /\ Shift(placed, b) \in {0, 1}
         /\ OldPlace(h, f, placed, b, p) => p - Shift(placed, b) \in Nat
         /\ NewPlace(h, placed, idOf, b, p) /\ q < p => FALSE
         /\ OldPlace(h, f, placed, b, p) /\ OldPlace(h, f, placed, b, q) /\ q < p =>
              q - Shift(placed, b) < p - Shift(placed, b)
<1>1. p \in Nat /\ q \in Nat /\ DOMAIN f[b] \subseteq Nat
  BY DEF Fronted
<1>2. Shift(placed, b) \in {0, 1}
  BY DEF Shift
<1>3. OldPlace(h, f, placed, b, p) => p - Shift(placed, b) \in Nat
  BY <1>1 DEF OldPlace
<1>4. NewPlace(h, placed, idOf, b, p) /\ q < p => FALSE
  <2>. SUFFICES ASSUME NewPlace(h, placed, idOf, b, p), q < p PROVE FALSE
    OBVIOUS
  <2>1. q = 0 /\ p = 1 /\ b \in placed
    BY <1>1 DEF NewPlace
  <2>2. Shift(placed, b) = 1
    BY <2>1 DEF Shift
  <2>3. OldPlace(h, f, placed, b, q)
    BY <2>1 DEF Fronted, NewPlace
  <2>4. 0 - 1 \in Nat
    BY <1>1, <2>1, <2>2, <2>3 DEF OldPlace
  <2>. QED
    BY <2>4
<1>5. q < p => q - Shift(placed, b) < p - Shift(placed, b)
  BY <1>1, <1>2
<1>. QED
  BY <1>1, <1>2, <1>3, <1>4, <1>5

LEMMA FrontedAvail ==
  ASSUME NEW h, NEW f, NEW placed, NEW idOf, Fronted(h, f, placed, idOf), NEW g, NEW v, NEW b
  PROVE  /\ \A p \in Nat : AvailAt(g, f, v, b, p) => AvailAt(g, h, v, b, p + Shift(placed, b))
         /\ AvailEnd(g, f, v, b) => AvailEnd(g, h, v, b)
<1>1. ASSUME NEW p \in Nat, AvailAt(g, f, v, b, p) PROVE AvailAt(g, h, v, b, p + Shift(placed, b))
  <2>. SUFFICES ASSUME v.k = "inst"
                PROVE  \E c \in DOMAIN h : \E q \in DOMAIN h[c] : Defines(h, c, q, v) /\ Earlier(g, c, q, b, p + Shift(placed, b))
    BY DEF AvailAt
  <2>1. PICK c \in DOMAIN f : \E q \in DOMAIN f[c] : Defines(f, c, q, v) /\ Earlier(g, c, q, b, p)
    BY <1>1 DEF AvailAt
  <2>2. PICK q \in DOMAIN f[c] : Defines(f, c, q, v) /\ Earlier(g, c, q, b, p)
    BY <2>1
  <2>3. c \in DOMAIN h /\ q + Shift(placed, c) \in DOMAIN h[c] /\ h[c][q + Shift(placed, c)] = f[c][q] /\ q \in Nat
    BY DEF Fronted
  <2>4. Defines(h, c, q + Shift(placed, c), v)
    BY <2>2, <2>3 DEF Defines
  <2>5. Shift(placed, b) \in Nat
    BY DEF Shift
  <2>6. q < p => q + Shift(placed, b) < p + Shift(placed, b)
    BY <2>3, <2>5
  <2>7. Earlier(g, c, q + Shift(placed, c), b, p + Shift(placed, b))
    BY <2>2, <2>6 DEF Earlier
  <2>. QED
    BY <2>3, <2>4, <2>7
<1>2. ASSUME AvailEnd(g, f, v, b) PROVE AvailEnd(g, h, v, b)
  <2>. SUFFICES ASSUME v.k = "inst"
                PROVE  \E c \in DOMAIN h : \E q \in DOMAIN h[c] : Defines(h, c, q, v) /\ ByTheEnd(g, c, b)
    BY DEF AvailEnd
  <2>1. PICK c \in DOMAIN f : \E q \in DOMAIN f[c] : Defines(f, c, q, v) /\ ByTheEnd(g, c, b)
    BY <1>2 DEF AvailEnd
  <2>2. PICK q \in DOMAIN f[c] : Defines(f, c, q, v) /\ ByTheEnd(g, c, b)
    BY <2>1
  <2>3. c \in DOMAIN h /\ q + Shift(placed, c) \in DOMAIN h[c] /\ h[c][q + Shift(placed, c)] = f[c][q]
    BY DEF Fronted
  <2>4. Defines(h, c, q + Shift(placed, c), v)
    BY <2>2, <2>3 DEF Defines
  <2>. QED
    BY <2>2, <2>3, <2>4
<1>. QED
  BY <1>1, <1>2

LEMMA FrontedUses ==
  ASSUME NEW h, NEW f, NEW placed, NEW idOf, Fronted(h, f, placed, idOf), NEW g, UsesDefined(g, f)
  PROVE  UsesDefined(g, h)
<1>. SUFFICES ASSUME NEW b \in DOMAIN f, NEW p \in DOMAIN h[b] PROVE UseDefined(g, h, b, p)
  BY DEF UsesDefined, Fronted
<1>1. CASE NewPlace(h, placed, idOf, b, p)
  <2>1. IsEmptyPhi(h[b][p]) /\ Undef.k # "inst"
    BY <1>1 DEF NewPlace, Undef
  <2>. QED
    BY <2>1 DEF IsEmptyPhi, UseDefined, AvailAt, EntriesDefined
<1>2. CASE OldPlace(h, f, placed, b, p)
  <2>. DEFINE q == p - Shift(placed, b)
  <2>1. q \in DOMAIN f[b] /\ q \in Nat /\ h[b][p] = f[b][q] /\ q + Shift(placed, b) = p
    <3>1. p \in Nat /\ Shift(placed, b) \in {0, 1} /\ q \in Nat
      BY <1>2, OldPlaceIs
    <3>. QED
      BY <1>2, <3>1 DEF OldPlace
  <2>. HIDE DEF q
  <2>2. UseDefined(g, f, b, q)
    BY <2>1 DEF UsesDefined
  <2>3. AvailAt(g, h, f[b][q].ptr, b, p) /\ AvailAt(g, h, f[b][q].val, b, p)
    BY <2>1, <2>2, FrontedAvail DEF UseDefined
  <2>4. EntriesDefined(g, h, f[b][q])
    BY <2>2, FrontedAvail DEF UseDefined, EntriesDefined
  <2>. QED
    BY <2>1, <2>3, <2>4 DEF UseDefined
<1>. QED
  BY <1>1, <1>2 DEF Fronted

LEMMA FrontedPointed ==
  ASSUME NEW h, NEW f, NEW placed, NEW idOf, Fronted(h, f, placed, idOf), NEW a, Pointed(f, a)
  PROVE  Pointed(h, a)
<1>. SUFFICES ASSUME NEW b \in DOMAIN f, NEW p \in DOMAIN h[b], Inst(a) \in Operands(h[b][p])
              PROVE  h[b][p].op \in {"load", "store"} /\ h[b][p].ptr = Inst(a) /\ h[b][p].val # Inst(a)
  BY DEF Pointed, Fronted
<1>1. CASE NewPlace(h, placed, idOf, b, p)
  <2>1. IsEmptyPhi(h[b][p]) /\ Undef # Inst(a)
    BY <1>1 DEF NewPlace, Undef, Inst
  <2>. QED
    BY <2>1 DEF IsEmptyPhi, Operands
<1>2. CASE OldPlace(h, f, placed, b, p)
  BY <1>2 DEF OldPlace, Pointed
<1>. QED
  BY <1>1, <1>2 DEF Fronted

LEMMA FrontedCovers ==
  ASSUME NEW h, NEW f, NEW placed, NEW idOf, Fronted(h, f, placed, idOf),
         NEW a, NEW Def, NEW Live, Covers(f, a, Def, Live)
  PROVE  Covers(h, a, Def, Live)
<1>. SUFFICES ASSUME NEW b \in DOMAIN f, NEW p \in DOMAIN h[b]
              PROVE  /\ StoresTo(h, b, p, a) => b \in Def
                     /\ LoadsFrom(h, b, p, a) /\ (\A r \in 1 .. p - 1 : ~StoresTo(h, b, r, a)) => b \in Live
  BY DEF Covers, Fronted
<1>1. CASE NewPlace(h, placed, idOf, b, p)
  <2>1. h[b][p].op = "phi"
    BY <1>1 DEF NewPlace, IsEmptyPhi
  <2>. QED
    BY <2>1 DEF StoresTo, LoadsFrom
<1>2. CASE OldPlace(h, f, placed, b, p)
  <2>. DEFINE s == Shift(placed, b)
              q == p - s
  <2>1. q \in DOMAIN f[b] /\ q \in Nat /\ h[b][p] = f[b][q] /\ p \in Nat /\ s \in {0, 1} /\ DOMAIN f[b] \subseteq Nat
    <3>1. p \in Nat /\ s \in {0, 1} /\ q \in Nat
      BY <1>2, OldPlaceIs
    <3>. QED
      BY <1>2, <3>1 DEF OldPlace, Fronted
  <2>2. StoresTo(h, b, p, a) => b \in Def
    BY <2>1 DEF StoresTo, Covers
  <2>3. ASSUME LoadsFrom(h, b, p, a), \A r \in 1 .. p - 1 : ~StoresTo(h, b, r, a) PROVE b \in Live
    <3>1. ASSUME NEW r \in 1 .. q - 1, StoresTo(f, b, r, a) PROVE FALSE
      <4>1. r + s \in 1 .. p - 1
        <5>. HIDE DEF s
        <5>. QED
          BY <2>1
      <4>2. CASE r \in DOMAIN f[b]
        <5>1. h[b][r + s] = f[b][r]
          BY <4>2 DEF Fronted
        <5>. QED
          BY <2>3, <3>1, <4>1, <5>1 DEF StoresTo
      <4>3. CASE r \notin DOMAIN f[b]
        <5>1. \A x \in 1 .. q : x \in DOMAIN f[b]
          BY <2>1, <1>2 DEF Fronted
        <5>. QED
          BY <2>1, <4>3, <5>1
      <4>. QED
        BY <4>2, <4>3
    <3>2. LoadsFrom(f, b, q, a)
      BY <2>1, <2>3 DEF LoadsFrom
    <3>. QED
      BY <2>1, <3>1, <3>2 DEF Covers
  <2>. QED
    BY <2>2, <2>3
<1>. QED
  BY <1>1, <1>2 DEF Fronted

LEMMA FrontedStored ==
  ASSUME NEW h, NEW f, NEW placed, NEW idOf, Fronted(h, f, placed, idOf),
         NEW a, NEW B, B \subseteq DOMAIN f, Stored(f, a, B)
  PROVE  Stored(h, a, B)
<1>. SUFFICES ASSUME NEW b \in B PROVE \E q \in DOMAIN h[b] : StoresTo(h, b, q, a)
  BY DEF Stored
<1>1. PICK q \in DOMAIN f[b] : StoresTo(f, b, q, a)
  BY DEF Stored
<1>2. q + Shift(placed, b) \in DOMAIN h[b] /\ h[b][q + Shift(placed, b)] = f[b][q]
  BY DEF Fronted
<1>. QED
  BY <1>1, <1>2 DEF StoresTo

-----------------------------------------------------------------------------
(* Placing the phis of a variable.                                         *)

\* news2 has the numbers of the new phis besides those of news.
Joined(news2, news, placed, idOf) == \A x : x \in news2 <=> x \in news \/ \E b \in placed : x = idOf[b]

\* The new phis are in front, and have no entries as none is due.
LEMMA FrontedPhis ==
  ASSUME NEW g \in Graphs, NEW f \in [DOMAIN g -> Seq(Instr)], NEW h, NEW placed, NEW idOf, Fronted(h, f, placed, idOf),
         \A b \in placed : idOf[b] \notin Ids(f),
         NEW news, NEW news2, Joined(news2, news, placed, idOf),
         NEW wl, EntriesKept(g, f, news, {}, wl), InFront(f, news)
  PROVE  InFront(h, news2) /\ EntriesKept(g, h, news2, {}, wl)
<1>1. \A b \in DOMAIN f : \A q \in DOMAIN f[b] : f[b][q].id \in news2 <=> f[b][q].id \in news
  BY IdsAre DEF Joined
<1>2. InFront(h, news2)
  <2>. SUFFICES ASSUME NEW b \in DOMAIN f, NEW p \in DOMAIN h[b], h[b][p].id \in news2, NEW q \in 1 .. p - 1
                PROVE  h[b][q].id \in news2
    BY DEF InFront, Fronted
  <2>1. q < p /\ p \in Nat /\ q \in Nat \ {0}
    BY OldPlaceIs
  <2>2. ~NewPlace(h, placed, idOf, b, p)
    BY <2>1 DEF NewPlace
  <2>3. OldPlace(h, f, placed, b, p)
    BY <2>2 DEF Fronted
  <2>. DEFINE s == Shift(placed, b)
  <2>4. p - s \in DOMAIN f[b] /\ f[b][p - s].id \in news /\ s \in {0, 1} /\ p - s \in Nat
    BY <1>1, <2>3, OldPlaceIs DEF OldPlace
  <2>5. CASE q - s = 0
    <3>1. b \in placed /\ q = 1
      BY <2>1, <2>5 DEF Shift
    <3>2. h[b][1].id = idOf[b]
      BY <3>1 DEF Fronted, NewPlace
    <3>. QED
      BY <3>1, <3>2 DEF Joined
  <2>6. CASE q - s # 0
    <3>1. q - s \in 1 .. (p - s) - 1 /\ (q - s) + s = q
      <4>. HIDE DEF s
      <4>. QED
        BY <2>1, <2>4, <2>6
    <3>2. f[b][q - s].id \in news
      BY <2>4, <3>1 DEF InFront
    <3>3. q - s \in DOMAIN f[b]
      BY <2>4, <3>1 DEF Fronted
    <3>4. h[b][(q - s) + s] = f[b][q - s]
      BY <3>3 DEF Fronted
    <3>. QED
      BY <3>1, <3>2, <3>4 DEF Joined
  <2>. QED
    BY <2>5, <2>6
<1>3. ASSUME NEW b \in DOMAIN f, NEW p \in DOMAIN h[b], h[b][p].op = "phi"
      PROVE  EntriesDue(g, b, h[b][p], news2, {}, wl)
  <2>1. CASE NewPlace(h, placed, idOf, b, p)
    <3>1. DOMAIN h[b][p].inc = {} /\ h[b][p].id \in news2
      BY <2>1 DEF NewPlace, IsEmptyPhi, Joined
    <3>2. \A r : Count(h[b][p].inc, r) = 0
      <4>1. \A r : {k \in DOMAIN h[b][p].inc : h[b][p].inc[k].pred = r} = {}
        BY <3>1
      <4>. QED
        BY <4>1, FS_EmptySet DEF Count
    <3>. QED
      BY <3>1, <3>2 DEF EntriesDue, PredsAgree, Due
  <2>2. CASE OldPlace(h, f, placed, b, p)
    <3>1. PICK q \in DOMAIN f[b] : h[b][p] = f[b][q]
      BY <2>2 DEF OldPlace
    <3>2. EntriesDue(g, b, f[b][q], news, {}, wl)
      BY <1>3, <3>1 DEF EntriesKept
    <3>3. f[b][q].id \in news2 <=> f[b][q].id \in news
      BY <1>1
    <3>. QED
      BY <3>1, <3>2, <3>3 DEF EntriesDue
  <2>. QED
    BY <2>1, <2>2 DEF Fronted
<1>. QED
  BY <1>2, <1>3 DEF EntriesKept, Fronted

\* A load that no store of its block comes before makes the block one that reads first.
LEMMA ReadsFirstIs ==
  ASSUME JInv, stage = "singleBlock", NEW b \in DOMAIN func, NEW q \in DOMAIN func[b],
         LoadsFrom(func, b, q, AI), \A r \in 1 .. q - 1 : ~StoresTo(func, b, r, AI)
  PROVE  ReadsFirst(b)
<1>1. IInv /\ num \in DOMAIN allocas
  BY DEF JInv, IInv, TypeOK
<1>2. func \in [DOMAIN graph -> Seq(Instr)] /\ DOMAIN func = DOMAIN graph /\ Unique(func)
  BY <1>1, StateIs
<1>3. Len(func[b]) \in Nat /\ DOMAIN func[b] = 1 .. Len(func[b])
  <2>1. func[b] \in Seq(Instr)
    BY <1>2
  <2>. QED
    BY <2>1
<1>. DEFINE T == {p \in DOMAIN func[b] : Accessing(func, b, p, AI)}
<1>4. T \subseteq Nat /\ q \in T
  BY <1>3 DEF Accessing
<1>5. PICK m \in T : \A j \in T : m <= j
  BY <1>4, LeastIs
<1>6. m \in DOMAIN func[b] /\ Accessing(func, b, m, AI) /\ m \in Nat /\ m <= q
  BY <1>4, <1>5
<1>7. LoadsFrom(func, b, m, AI)
  <2>1. m = q \/ m \in 1 .. q - 1
    BY <1>3, <1>6
  <2>. QED
    BY <1>6, <2>1 DEF Accessing
<1>8. /\ \A c \in DOMAIN func : \A p \in DOMAIN func[c] : UserThere(func, c, p, AI)
      /\ \A u \in Users(func, AI) : \E c \in DOMAIN func : \E p \in DOMAIN func[c] : u = func[c][p].id
  <2>1. Pointed(func, AI)
    BY <1>1, CurrentPointed DEF Looping
  <2>. QED
    BY <1>2, <2>1, UsersAt
<1>9. ASSUME NEW c \in DOMAIN func, NEW p \in DOMAIN func[c]
      PROVE  BlockOf(func, func[c][p].id) = c /\ IndexOf(func, func[c][p].id) = p /\ InstrOf(func, func[c][p].id) = func[c][p]
  BY <1>2, PlaceOf
<1>. DEFINE acc == {u \in Users(func, AI) : BlockOf(func, u) = b}
            u == func[b][m].id
<1>10. u \in acc
  BY <1>6, <1>8, <1>9 DEF UserThere
<1>11. InstrOf(func, u).op = "load" /\ IndexOf(func, u) = m
  BY <1>6, <1>7, <1>9 DEF LoadsFrom
<1>12. ASSUME NEW w \in acc PROVE m <= IndexOf(func, w)
  <2>1. PICK c \in DOMAIN func : \E p \in DOMAIN func[c] : w = func[c][p].id
    BY <1>8
  <2>2. PICK p \in DOMAIN func[c] : w = func[c][p].id
    BY <2>1
  <2>3. c = b /\ IndexOf(func, w) = p
    BY <1>9, <2>2
  <2>4. p \in T
    BY <1>8, <2>2, <2>3 DEF UserThere
  <2>. QED
    BY <1>5, <2>3, <2>4
<1>. HIDE DEF u, T
<1>. QED
  BY <1>10, <1>11, <1>12 DEF ReadsFirst

\* The alloca that gets phis flows through them from its stores to its loads.
LEMMA PhisPlanned ==
  ASSUME JInv, stage = "singleBlock"
  PROVE  /\ Covers(func, AI, info.defining, LiveInBlocks) /\ Stored(func, AI, info.defining)
         /\ Flows(graph, info.defining, LiveInBlocks, PHIBlocks)
         /\ info.defining \in SUBSET DOMAIN graph /\ LiveInBlocks \in SUBSET DOMAIN graph
         /\ PHIBlocks \subseteq DOMAIN graph /\ Entry \notin PHIBlocks
<1>1. IInv /\ num \in DOMAIN allocas /\ info \in AllocaInfos
  BY DEF JInv, IInv, TypeOK
<1>2. func \in [DOMAIN graph -> Seq(Instr)] /\ DOMAIN func = DOMAIN graph /\ Unique(func) /\ graph \in Graphs
  BY <1>1, StateIs
<1>3. LoadsKept /\ DefiningKept
  BY DEF JInv, SingleKept
<1>4. /\ LiveInBlocks \in SUBSET DOMAIN graph /\ ReadFirstIn \subseteq LiveInBlocks
      /\ \A b \in LiveInBlocks : Preds(graph, b) \subseteq LiveInBlocks \cup info.defining
  BY <1>1, <1>2, LiveIs
<1>. DEFINE idf == IDF(graph, info.defining, LiveInBlocks)
<1>5. /\ idf \in SUBSET DOMAIN graph /\ idf \subseteq LiveInBlocks /\ Entry \notin idf
      /\ \A b \in (info.defining \cup idf) \cap Reachable(graph) : Frontier(graph, b) \cap LiveInBlocks \subseteq idf
  BY <1>2, IDFIs
<1>. HIDE DEF idf
<1>6. PHIBlocks = idf
  BY <1>5 DEF PHIBlocks, idf
<1>7. info.defining \in SUBSET DOMAIN graph
  BY <1>1 DEF AllocaInfos
<1>8. Covers(func, AI, info.defining, LiveInBlocks)
  <2>. SUFFICES ASSUME NEW b \in DOMAIN func, NEW q \in DOMAIN func[b]
                PROVE  /\ StoresTo(func, b, q, AI) => b \in info.defining
                       /\ LoadsFrom(func, b, q, AI) /\ (\A r \in 1 .. q - 1 : ~StoresTo(func, b, r, AI)) => b \in LiveInBlocks
    BY DEF Covers
  <2>1. StoresTo(func, b, q, AI) => b \in info.defining
    BY <1>3 DEF DefiningKept
  <2>2. ASSUME LoadsFrom(func, b, q, AI), \A r \in 1 .. q - 1 : ~StoresTo(func, b, r, AI) PROVE b \in LiveInBlocks
    <3>1. b \in info.using
      BY <1>3, <2>2 DEF LoadsKept
    <3>2. ReadsFirst(b)
      BY <2>2, ReadsFirstIs
    <3>. QED
      BY <1>4, <3>1, <3>2 DEF ReadFirstIn
  <2>. QED
    BY <2>1, <2>2
<1>9. Stored(func, AI, info.defining)
  BY <1>2, <1>3, <1>7 DEF Stored, DefiningKept
<1>10. Flows(graph, info.defining, LiveInBlocks, idf)
  BY <1>4, <1>5 DEF Flows
<1>. QED
  BY <1>4, <1>5, <1>6, <1>7, <1>8, <1>9, <1>10

LEMMA PlacePhisStays ==
  ASSUME JInv, PlacePhis
  PROVE  JInv'
<1>. DEFINE placed == PHIBlocks
            keys == placed \X {num}
            idOf == [b \in DOMAIN graph |-> PhiId(b)]
<1>1. IInv /\ IInv' /\ num \in DOMAIN allocas /\ stage = "singleBlock"
  BY PlacePhisKeeps DEF JInv, IInv, TypeOK, PlacePhis
<1>2. /\ newPhis' = [k \in keys \cup DOMAIN newPhis |-> IF k \in keys THEN PhiId(k[1]) ELSE newPhis[k]]
      /\ func' = [b \in DOMAIN func |-> IF b \in placed THEN <<Phi(PhiId(b), <<>>)>> \o func[b] ELSE func[b]]
      /\ num' = num + 1 /\ stage' = "analyze"
      /\ graph' = graph /\ allocas' = allocas /\ worklist' = worklist /\ visited' = visited
  BY DEF PlacePhis
<1>3. /\ graph \in Graphs /\ func \in [DOMAIN graph -> Seq(Instr)] /\ DOMAIN func = DOMAIN graph /\ Unique(func)
      /\ num \in Nat \ {0} /\ worklist = <<>> /\ DOMAIN worklist = {} /\ DOMAIN newPhis \subseteq (DOMAIN graph) \X Nat
      /\ func' \in [DOMAIN graph -> Seq(Instr)] /\ DOMAIN func' = DOMAIN graph
  <2>1. /\ graph \in Graphs /\ func \in [DOMAIN graph -> Seq(Instr)] /\ DOMAIN func = DOMAIN graph /\ Unique(func)
        /\ num \in Nat \ {0} /\ worklist = <<>>
    BY <1>1, StateIs
  <2>2. DOMAIN worklist = {}
    BY <2>1
  <2>. QED
    BY <1>1, <1>2, <2>1, <2>2 DEF IInv, TypeOK
<1>4. visited = {}
  BY <1>1 DEF JInv, WalkKept, Looping
<1>5. /\ Covers(func, AI, info.defining, LiveInBlocks) /\ Stored(func, AI, info.defining)
      /\ Flows(graph, info.defining, LiveInBlocks, placed)
      /\ info.defining \in SUBSET DOMAIN graph /\ LiveInBlocks \in SUBSET DOMAIN graph
      /\ placed \subseteq DOMAIN graph /\ Entry \notin placed
  BY <1>1, PhisPlanned
<1>. HIDE DEF placed
<1>6. /\ \A b \in DOMAIN graph : PhiId(b) \in Nat /\ PhiId(b) \notin Ids(func)
  <2>1. Has(func, AI, "alloca") /\ TypeOK
    BY <1>1, CurrentIs DEF Looping, IInv
  <2>2. Ids(func) # {}
    BY <1>3, <2>1, InstrOfHas
  <2>. QED
    BY <2>1, <2>2, PhiIdsAreNew
<1>7. idOf \in [DOMAIN graph -> Nat] /\ \A b \in DOMAIN graph : idOf[b] = PhiId(b)
  BY <1>6
<1>. HIDE DEF idOf
<1>8. Fronted(func', func, placed, idOf)
  <2>1. func' = WithPhis(func, placed, idOf)
    <3>1. \A b \in placed : PhiId(b) = idOf[b]
      BY <1>5, <1>7
    <3>. QED
      BY <1>2, <3>1 DEF WithPhis
  <2>2. Fronted(WithPhis(func, placed, idOf), func, placed, idOf)
    BY <1>3, <1>5, <1>7, WithPhisFronted
  <2>. QED
    BY <2>1, <2>2
<1>9. UsesDefined(graph', func')
  <2>1. UsesDefined(graph, func')
    BY <1>8, FrontedUses DEF JInv
  <2>. QED
    BY <1>2, <2>1
<1>10. ASSUME NEW k \in DOMAIN newPhis'
       PROVE  \/ k[1] \in placed /\ newPhis'[k] = idOf[k[1]] /\ k = <<k[1], num>>
              \/ k \in DOMAIN newPhis /\ newPhis'[k] = newPhis[k]
  <2>1. CASE k \in keys
    <3>1. k[1] \in placed /\ k = <<k[1], num>>
      BY <2>1
    <3>. HIDE DEF keys
    <3>2. newPhis'[k] = PhiId(k[1])
      BY <1>2, <2>1
    <3>. QED
      BY <1>5, <1>7, <3>1, <3>2
  <2>2. CASE k \notin keys
    <3>. HIDE DEF keys
    <3>. QED
      BY <1>2, <2>2
  <2>. QED
    BY <2>1, <2>2
<1>11. ASSUME NEW b \in placed PROVE <<b, num>> \in DOMAIN newPhis' /\ newPhis'[<<b, num>>] = idOf[b]
  <2>1. <<b, num>> \in keys /\ <<b, num>>[1] = b
    OBVIOUS
  <2>. HIDE DEF keys
  <2>2. <<b, num>> \in DOMAIN newPhis' /\ newPhis'[<<b, num>>] = PhiId(<<b, num>>[1])
    BY <1>2, <2>1
  <2>. QED
    BY <1>5, <1>7, <2>1, <2>2
<1>12. ASSUME NEW k \in DOMAIN newPhis PROVE k[2] < num /\ k \in DOMAIN newPhis' /\ newPhis'[k] = newPhis[k]
  <2>1. k[2] < num
    BY <1>1 DEF IInv, LookupAgrees
  <2>2. k \notin keys
    <3>1. k[2] # num
      BY <1>3, <2>1
    <3>2. \A l \in keys : l[2] = num
      OBVIOUS
    <3>. QED
      BY <3>1, <3>2
  <2>. HIDE DEF keys
  <2>. QED
    BY <1>2, <2>1, <2>2
<1>. HIDE DEF keys
<1>13. \A x : x \in Range(newPhis') <=> x \in Range(newPhis) \/ \E b \in placed : x = idOf[b]
  BY <1>10, <1>11, <1>12 DEF Range
<1>14. PhisKeep'
  <2>1. PhisPlaced(func, newPhis) /\ EntriesKept(graph, func, Range(newPhis), {}, worklist)
    BY <1>4 DEF JInv, PhisKeep
  <2>2. \A b \in placed : idOf[b] \notin Ids(func)
    BY <1>5, <1>6, <1>7
  <2>3. InFront(func', Range(newPhis')) /\ EntriesKept(graph, func', Range(newPhis'), {}, worklist)
    <3>. DEFINE news == Range(newPhis)
                news2 == Range(newPhis')
    <3>1. InFront(func, news) /\ EntriesKept(graph, func, news, {}, worklist)
      BY <2>1 DEF PhisPlaced
    <3>2. Joined(news2, news, placed, idOf)
      BY <1>13 DEF Joined
    <3>3. graph \in Graphs /\ func \in [DOMAIN graph -> Seq(Instr)]
      BY <1>3
    <3>. HIDE DEF news, news2
    <3>4. InFront(func', news2) /\ EntriesKept(graph, func', news2, {}, worklist)
      BY <1>8, <2>2, <3>1, <3>2, <3>3, FrontedPhis
    <3>. QED
      BY <3>4 DEF news2
  <2>4. KeysPlaced(func', newPhis')
    <3>. SUFFICES ASSUME NEW k \in DOMAIN newPhis'
                  PROVE  /\ k[1] \in DOMAIN func' \ {Entry}
                         /\ \E p \in DOMAIN func'[k[1]] : func'[k[1]][p].id = newPhis'[k] /\ func'[k[1]][p].op = "phi"
      BY DEF KeysPlaced
    <3>1. CASE k[1] \in placed /\ newPhis'[k] = idOf[k[1]]
      <4>1. 1 \in DOMAIN func'[k[1]] /\ NewPlace(func', placed, idOf, k[1], 1)
        BY <1>8, <3>1 DEF Fronted
      <4>2. func'[k[1]][1].op = "phi" /\ func'[k[1]][1].id = idOf[k[1]]
        BY <4>1 DEF NewPlace, IsEmptyPhi
      <4>. QED
        BY <1>3, <1>5, <3>1, <4>1, <4>2
    <3>2. CASE k \in DOMAIN newPhis /\ newPhis'[k] = newPhis[k]
      <4>1. k[1] \in DOMAIN func \ {Entry}
        BY <2>1, <3>2 DEF PhisPlaced, KeysPlaced
      <4>2. PICK p \in DOMAIN func[k[1]] : func[k[1]][p].id = newPhis[k] /\ func[k[1]][p].op = "phi"
        BY <2>1, <3>2 DEF PhisPlaced, KeysPlaced
      <4>3. PICK q \in DOMAIN func'[k[1]] : func'[k[1]][q] = func[k[1]][p]
        BY <1>8, <4>1 DEF Fronted
      <4>. QED
        BY <1>3, <3>2, <4>1, <4>2, <4>3
    <3>. QED
      BY <1>10, <3>1, <3>2
  <2>. QED
    BY <1>2, <1>4, <2>3, <2>4 DEF PhisKeep, PhisPlaced
<1>15. WalkKept'
  BY <1>2, <1>3, <1>4 DEF WalkKept
<1>16. Plans'
  <2>1. /\ \A k \in 1 .. num - 1 : Planned(graph, func, allocas[k], k, visited, worklist, newPhis)
        /\ \A i \in DOMAIN allocas : Pointed(func, allocas[i])
    BY <1>1 DEF JInv, Plans, Looping
  <2>2. \A i \in DOMAIN allocas : Pointed(func', allocas[i])
    BY <1>8, <2>1, FrontedPointed
  <2>3. ASSUME NEW k \in 1 .. num - 1 PROVE Planned(graph, func', allocas[k], k, {}, worklist, newPhis')
    <3>1. PICK Def \in SUBSET DOMAIN graph, Live \in SUBSET DOMAIN graph :
            /\ Covers(func, allocas[k], Def, Live) /\ Stored(func, allocas[k], Def \ {})
            /\ Flows(graph, Def, Live, Phied(graph, newPhis, k))
      BY <1>4, <2>1 DEF Planned
    <3>2. k # num
      BY <1>3
    <3>3. \A c \in DOMAIN graph : <<c, k>> \in DOMAIN newPhis' <=> <<c, k>> \in DOMAIN newPhis
      <4>1. \A c, d : <<c, k>> # <<d, num>>
        BY <3>2
      <4>. QED
        BY <1>10, <1>12, <4>1
    <3>4. Phied(graph, newPhis', k) = Phied(graph, newPhis, k)
      BY <3>3 DEF Phied
    <3>5. Covers(func', allocas[k], Def, Live)
      BY <1>8, <3>1, FrontedCovers
    <3>6. Stored(func', allocas[k], Def \ {})
      <4>1. Def \ {} \subseteq DOMAIN func
        BY <1>3
      <4>. QED
        BY <1>8, <3>1, <4>1, FrontedStored
    <3>7. \A j \in DOMAIN worklist : Carried(graph, func', worklist[j], k, Def, Live, Phied(graph, newPhis', k))
      BY <1>3
    <3>. QED
      BY <3>1, <3>4, <3>5, <3>6, <3>7, Zenon DEF Planned
  <2>4. Planned(graph, func', allocas[num], num, {}, worklist, newPhis')
    <3>1. Covers(func', AI, info.defining, LiveInBlocks)
      BY <1>5, <1>8, FrontedCovers
    <3>2. Stored(func', AI, info.defining \ {})
      <4>1. info.defining \ {} = info.defining /\ info.defining \subseteq DOMAIN func
        BY <1>3, <1>5
      <4>. QED
        BY <1>5, <1>8, <4>1, FrontedStored
    <3>3. \A c \in DOMAIN graph : <<c, num>> \in DOMAIN newPhis' <=> c \in placed
      <4>1. ASSUME NEW c \in DOMAIN graph, <<c, num>> \in DOMAIN newPhis' PROVE c \in placed
        <5>1. <<c, num>>[2] = num /\ <<c, num>>[1] = c
          OBVIOUS
        <5>2. <<c, num>> \notin DOMAIN newPhis
          BY <1>3, <1>12, <5>1
        <5>. QED
          BY <1>10, <4>1, <5>1, <5>2
      <4>. QED
        BY <1>11, <4>1
    <3>4. Phied(graph, newPhis', num) = placed
      BY <1>5, <3>3 DEF Phied
    <3>5. \A j \in DOMAIN worklist : Carried(graph, func', worklist[j], num, info.defining, LiveInBlocks, Phied(graph, newPhis', num))
      BY <1>3
    <3>6. Flows(graph, info.defining, LiveInBlocks, Phied(graph, newPhis', num))
      BY <1>5, <3>4
    <3>. QED
      BY <1>5, <3>1, <3>2, <3>5, <3>6, Zenon DEF Planned, AI
  <2>5. \A k \in 1 .. num' - 1 : Planned(graph', func', allocas'[k], k, visited', worklist', newPhis')
    <3>1. \A k \in 1 .. num' - 1 : k = num \/ k \in 1 .. num - 1
      BY <1>2, <1>3
    <3>. QED
      BY <1>2, <1>4, <2>3, <2>4, <3>1
  <2>6. DOMAIN worklist' = {}
    BY <1>2, <1>3
  <2>. QED
    BY <1>2, <2>2, <2>5, <2>6 DEF Plans
<1>17. SingleKept'
  BY <1>2 DEF SingleKept
<1>. QED
  BY <1>1, <1>9, <1>14, <1>15, <1>16, <1>17 DEF JInv

-----------------------------------------------------------------------------
(* What entering a block leaves of a function.                               *)

\* The instructions of h are those of f, but for the entries of the phis.
SamePlaces(h, f) ==
  /\ DOMAIN h = DOMAIN f
  /\ \A b \in DOMAIN f : DOMAIN h[b] = DOMAIN f[b] /\ DOMAIN f[b] = 1 .. Len(f[b]) /\ Len(f[b]) \in Nat
  /\ \A b \in DOMAIN f : \A p \in DOMAIN f[b] :
       h[b][p].id = f[b][p].id /\ h[b][p].op = f[b][p].op /\ h[b][p].ptr = f[b][p].ptr /\ h[b][p].val = f[b][p].val

LEMMA SamePlacesAre ==
  ASSUME NEW h, NEW f, SamePlaces(h, f)
  PROVE  /\ \A g, v, b, p : AvailAt(g, f, v, b, p) => AvailAt(g, h, v, b, p)
         /\ \A g, v, b : AvailEnd(g, f, v, b) => AvailEnd(g, h, v, b)
         /\ \A a, Def, Live : Covers(f, a, Def, Live) => Covers(h, a, Def, Live)
         /\ \A a, B : B \subseteq DOMAIN f /\ Stored(f, a, B) => Stored(h, a, B)
         /\ \A np : PhisPlaced(f, np) => PhisPlaced(h, np)
<1>1. ASSUME NEW c \in DOMAIN f, NEW q \in DOMAIN f[c], NEW v, Defines(f, c, q, v)
      PROVE  c \in DOMAIN h /\ q \in DOMAIN h[c] /\ Defines(h, c, q, v)
  BY <1>1 DEF SamePlaces, Defines
<1>2. \A g, v, b, p : AvailAt(g, f, v, b, p) => AvailAt(g, h, v, b, p)
  BY <1>1 DEF AvailAt
<1>3. \A g, v, b : AvailEnd(g, f, v, b) => AvailEnd(g, h, v, b)
  BY <1>1 DEF AvailEnd
<1>4. ASSUME NEW a, NEW Def, NEW Live, Covers(f, a, Def, Live) PROVE Covers(h, a, Def, Live)
  <2>. SUFFICES ASSUME NEW b \in DOMAIN f, NEW q \in DOMAIN f[b]
                PROVE  /\ StoresTo(h, b, q, a) => b \in Def
                       /\ LoadsFrom(h, b, q, a) /\ (\A r \in 1 .. q - 1 : ~StoresTo(h, b, r, a)) => b \in Live
    BY DEF Covers, SamePlaces
  <2>1. StoresTo(h, b, q, a) => b \in Def
    BY <1>4 DEF SamePlaces, StoresTo, Covers
  <2>2. ASSUME LoadsFrom(h, b, q, a), \A r \in 1 .. q - 1 : ~StoresTo(h, b, r, a) PROVE b \in Live
    <3>1. LoadsFrom(f, b, q, a)
      BY <2>2 DEF SamePlaces, LoadsFrom
    <3>2. CASE \A r \in 1 .. q - 1 : ~StoresTo(f, b, r, a)
      BY <1>4, <3>1, <3>2 DEF Covers
    <3>3. CASE ~(\A r \in 1 .. q - 1 : ~StoresTo(f, b, r, a))
      <4>1. PICK r \in 1 .. q - 1 : StoresTo(f, b, r, a)
        BY <3>3
      <4>2. r \in DOMAIN f[b]
        BY DEF SamePlaces
      <4>. QED
        BY <2>2, <4>1, <4>2 DEF SamePlaces, StoresTo
    <3>. QED
      BY <3>2, <3>3
  <2>. QED
    BY <2>1, <2>2
<1>5. \A a, B : B \subseteq DOMAIN f /\ Stored(f, a, B) => Stored(h, a, B)
  BY DEF SamePlaces, Stored, StoresTo
<1>6. ASSUME NEW np, PhisPlaced(f, np) PROVE PhisPlaced(h, np)
  <2>1. KeysPlaced(h, np)
    BY <1>6 DEF PhisPlaced, KeysPlaced, SamePlaces
  <2>2. ASSUME NEW b \in DOMAIN f, NEW p \in DOMAIN f[b], f[b][p].id \in Range(np), NEW q \in 1 .. p - 1
        PROVE  h[b][q].id \in Range(np)
    <3>1. q \in DOMAIN f[b]
      BY DEF SamePlaces
    <3>2. f[b][q].id \in Range(np)
      BY <1>6, <2>2 DEF PhisPlaced, InFront
    <3>. QED
      BY <3>1, <3>2 DEF SamePlaces
  <2>3. InFront(h, Range(np))
    BY <2>2 DEF InFront, SamePlaces
  <2>. QED
    BY <2>1, <2>3 DEF PhisPlaced
<1>. QED
  BY <1>2, <1>3, <1>4, <1>5, <1>6
IsLonger(j, i, val, pred, bb) ==
  /\ j \in Instr /\ j.id = i.id /\ j.op = i.op /\ j.ptr = i.ptr /\ j.val = i.val
  /\ \A k \in DOMAIN j.inc : \/ k \in DOMAIN i.inc /\ j.inc[k] = i.inc[k]
                             \/ (/\ j.inc[k] = [val |-> val, pred |-> pred]
                                 /\ Edges(graph, pred, bb) # 0)
  /\ \A p : Count(j.inc, p) = Count(i.inc, p) + (IF p = pred THEN Edges(graph, pred, bb) ELSE 0)
LEMMA LongerIs ==
  ASSUME graph \in Graphs, NEW i \in Instr, NEW val \in Operand, NEW pred \in Nat, NEW bb
  PROVE  IsLonger(Longer(i, val, pred, bb), i, val, pred, bb)
<1>. DEFINE j == Longer(i, val, pred, bb)
<1>. HIDE DEF j
<1>. SUFFICES IsLonger(j, i, val, pred, bb)
  BY DEF j
<1>. DEFINE n == Edges(graph, pred, bb)
            e == [val |-> val, pred |-> pred]
            more == [k \in 1 .. n |-> e]
            inc == i.inc
<1>1. n \in Nat /\ e \in PhiEntry /\ e.pred = pred
  BY EdgesAre DEF PhiEntry
<1>2. inc \in Seq(PhiEntry)
  BY InstrIs
<1>3. j = [i EXCEPT !.inc = @ \o more]
  BY DEF Longer, j
<1>. HIDE DEF n, e
<1>4. more \in Seq(PhiEntry) /\ Len(more) = n
  <2>1. more \in [1 .. n -> PhiEntry]
    BY <1>1
  <2>. HIDE DEF more
  <2>. QED
    BY <1>1, <2>1, SeqDef
<1>5. \A p : Count(inc \o more, p) = Count(inc, p) + (IF p = pred THEN n ELSE 0)
  BY <1>1, <1>2, CountMore, SMTT(30)
<1>6. \A k \in DOMAIN more : more[k] = e
  OBVIOUS
<1>. HIDE DEF more
<1>7. j \in Instr /\ j.id = i.id /\ j.op = i.op /\ j.ptr = i.ptr /\ j.val = i.val /\ j.inc = inc \o more
  <2>. HIDE DEF inc
  <2>1. j \in Instr /\ j.id = i.id /\ j.op = i.op
    BY <1>3, <1>4, LongerPhiIs
  <2>. DEFINE long == i.inc \o more
  <2>2. j = [i EXCEPT !.inc = long]
    BY <1>3
  <2>. HIDE DEF long
  <2>3. j.ptr = i.ptr /\ j.val = i.val /\ j.inc = long
    BY <2>2 DEF Instr
  <2>. QED
    BY <2>1, <2>3 DEF inc, long
<1>8. ASSUME NEW k \in DOMAIN (inc \o more)
      PROVE  (k \in DOMAIN inc /\ (inc \o more)[k] = inc[k]) \/ ((inc \o more)[k] = e /\ n # 0)
  <2>. HIDE DEF inc
  <2>1. \/ k \in DOMAIN inc /\ (inc \o more)[k] = inc[k]
        \/ k - Len(inc) \in DOMAIN more /\ (inc \o more)[k] = more[k - Len(inc)] /\ Len(more) # 0
    BY <1>2, <1>4
  <2>. QED
    BY <1>4, <1>6, <2>1
<1>. HIDE DEF inc
<1>. QED
  BY <1>5, <1>7, <1>8 DEF inc, e, n, IsLonger

\* The item of the worklist that is on top.
LEMMA TopIs ==
  ASSUME IInv, WalkKept, worklist # <<>>
  PROVE  /\ Len(worklist) \in DOMAIN worklist /\ Last(worklist) = worklist[Len(worklist)]
         /\ Last(worklist) \in RenamePassData /\ Last(worklist).bb \in DOMAIN graph /\ Last(worklist).pred \in Nat
         /\ Last(worklist).vals \in [DOMAIN allocas -> Operand]
         /\ FromVisited(Last(worklist)) /\ stage = "rename"
         /\ \A j : j \in DOMAIN worklist <=> j \in DOMAIN Front(worklist) \/ j = Len(worklist)
         /\ \A j \in DOMAIN Front(worklist) : j # Len(worklist) /\ Front(worklist)[j] = worklist[j]
<1>1. worklist \in Seq(RenamePassData) /\ stage = "rename" /\ TypeOK
  BY DEF IInv, TypeOK
<1>2. Len(worklist) \in Nat \ {0} /\ DOMAIN worklist = 1 .. Len(worklist) /\ Last(worklist) = worklist[Len(worklist)]
  BY <1>1 DEF Last
<1>3. Last(worklist).bb \in DOMAIN graph /\ Last(worklist).pred \in Nat
      /\ Last(worklist).vals \in [DOMAIN allocas -> Operand]
  BY <1>1, RpdIs
<1>4. DOMAIN Front(worklist) = 1 .. Len(worklist) - 1 /\ \A j \in 1 .. Len(worklist) - 1 : Front(worklist)[j] = worklist[j]
  <2>1. Front(worklist) = [i \in 1 .. Len(worklist) - 1 |-> worklist[i]]
    BY DEF Front
  <2>. QED
    BY <2>1
<1>5. Last(worklist) \in RenamePassData
  BY <1>1, <1>2
<1>6. FromVisited(Last(worklist))
  <2>1. Len(worklist) \in DOMAIN worklist
    BY <1>2
  <2>. QED
    BY <1>2, <2>1 DEF WalkKept
<1>7. \A j : j \in DOMAIN worklist <=> j \in DOMAIN Front(worklist) \/ j = Len(worklist)
  BY <1>2, <1>4
<1>. QED
  BY <1>1, <1>2, <1>3, <1>4, <1>5, <1>6, <1>7

-----------------------------------------------------------------------------
(* What entering a block brings to its phis.                               *)

Rpd == Last(worklist)
Entering == [func EXCEPT ![Rpd.bb] = EnterBlock(Rpd).code]
EnteredPlace(h, b, p) ==
  \/ h[b][p] = func[b][p] /\ (b = Rpd.bb => func[b][p].id \notin Range(newPhis))
  \/ /\ b = Rpd.bb /\ func[b][p].op = "phi" /\ func[b][p].id \in Range(newPhis)
     /\ Rpd.pred \in visited /\ Rpd.bb \in Succs(graph, Rpd.pred)
     /\ \E var \in 1 .. num - 1 :
          /\ var \in DOMAIN allocas /\ <<Rpd.bb, var>> \in DOMAIN newPhis /\ newPhis[<<Rpd.bb, var>>] = func[b][p].id
          /\ h[b][p] = Longer(func[b][p], Rpd.vals[var], Rpd.pred, Rpd.bb)

LEMMA EnteredAt ==
  ASSUME IInv, PhisKeep, WalkKept, worklist # <<>>
  PROVE  /\ Entering \in [DOMAIN graph -> Seq(Instr)] /\ Unique(Entering) /\ SamePlaces(Entering, func)
         /\ \A b \in DOMAIN func : \A p \in DOMAIN func[b] : EnteredPlace(Entering, b, p)
         /\ Entered(Rpd, EnterBlock(Rpd)) /\ EnterBlock(Rpd).vals \in [DOMAIN allocas -> Operand]
<1>. DEFINE bb == Rpd.bb
            code == EnterBlock(Rpd).code
            h == Entering
<1>1. /\ Len(worklist) \in DOMAIN worklist /\ Rpd = worklist[Len(worklist)]
      /\ Rpd \in RenamePassData /\ bb \in DOMAIN graph /\ Rpd.pred \in Nat
      /\ Rpd.vals \in [DOMAIN allocas -> Operand]
      /\ FromVisited(Rpd) /\ stage = "rename"
  BY TopIs DEF Rpd
<1>2. /\ graph \in Graphs /\ func \in [DOMAIN graph -> Seq(Instr)] /\ DOMAIN func = DOMAIN graph /\ Unique(func)
      /\ num \in Nat
  BY StateIs
<1>3. Entered(Rpd, EnterBlock(Rpd))
  BY <1>1, EnteredIs
<1>4. /\ Trimmed(graph, h, func, {}) /\ SameInstrs(code, func[bb]) /\ EnterBlock(Rpd).vals \in [DOMAIN allocas -> Operand]
  BY <1>1, EnteredTrims DEF Rpd, Entering
<1>5. h \in [DOMAIN graph -> Seq(Instr)] /\ Unique(h)
  BY <1>4 DEF Trimmed
<1>6. h[bb] = code /\ \A b \in DOMAIN graph : b # bb => h[b] = func[b]
  BY <1>1, <1>2 DEF Entering
<1>. HIDE DEF code, h
<1>7. ASSUME NEW b \in DOMAIN graph, NEW p \in DOMAIN func[b] PROVE EnteredPlace(h, b, p)
  <2>1. CASE b # bb
    BY <1>6, <2>1 DEF EnteredPlace
  <2>2. CASE b = bb /\ func[b][p].id \notin Range(newPhis)
    <3>1. h[b][p] = func[b][p]
      BY <1>3, <1>6, <2>2 DEF Entered, code
    <3>. QED
      BY <2>2, <3>1 DEF EnteredPlace
  <2>3. CASE b = bb /\ func[b][p].id \in Range(newPhis)
    <3>1. func[b][p].op = "phi" /\ b # Entry
      BY <2>3, PlacedPhiIs
    <3>2. PICK var \in Nat : <<b, var>> \in DOMAIN newPhis /\ newPhis[<<b, var>>] = func[b][p].id
      BY <2>3, PlacedPhiIs
    <3>3. var \in DOMAIN Rpd.vals /\ code[p] = Longer(func[b][p], Rpd.vals[var], Rpd.pred, bb)
      BY <1>3, <2>3, <3>2 DEF Entered, code
    <3>4. var \in DOMAIN allocas
      BY <1>1, <3>3
    <3>5. var \in 1 .. num - 1
      <4>1. LookupAgrees /\ PhisKept
        BY DEF IInv
      <4>2. <<b, var>>[2] = var
        OBVIOUS
      <4>3. var < num /\ var # 0
        BY <1>1, <3>2, <4>1, <4>2 DEF LookupAgrees, PhisKept
      <4>. QED
        BY <1>2, <4>3
    <3>6. Rpd.pred \in visited /\ Rpd.bb \in Succs(graph, Rpd.pred)
      BY <1>1, <2>3, <3>1 DEF FromVisited
    <3>7. h[b][p] = Longer(func[b][p], Rpd.vals[var], Rpd.pred, Rpd.bb)
      BY <1>6, <2>3, <3>3
    <3>8. <<Rpd.bb, var>> \in DOMAIN newPhis /\ newPhis[<<Rpd.bb, var>>] = func[b][p].id
      BY <2>3, <3>2
    <3>. QED
      BY <2>3, <3>1, <3>4, <3>5, <3>6, <3>7, <3>8 DEF EnteredPlace
  <2>. QED
    BY <2>1, <2>2, <2>3
<1>8. SamePlaces(h, func)
  <2>1. ASSUME NEW b \in DOMAIN func PROVE DOMAIN h[b] = DOMAIN func[b] /\ DOMAIN func[b] = 1 .. Len(func[b]) /\ Len(func[b]) \in Nat
    <3>1. func[b] \in Seq(Instr)
      BY <1>2
    <3>2. DOMAIN h[b] = DOMAIN func[b]
      BY <1>2, <1>4, <1>6 DEF SameInstrs
    <3>. QED
      BY <3>1, <3>2
  <2>2. ASSUME NEW b \in DOMAIN func, NEW p \in DOMAIN func[b]
        PROVE  h[b][p].id = func[b][p].id /\ h[b][p].op = func[b][p].op /\ h[b][p].ptr = func[b][p].ptr /\ h[b][p].val = func[b][p].val
    <3>1. EnteredPlace(h, b, p)
      BY <1>2, <1>7
    <3>2. CASE h[b][p] = func[b][p]
      BY <3>2
    <3>3. CASE h[b][p] # func[b][p]
      <4>1. PICK var \in DOMAIN allocas : h[b][p] = Longer(func[b][p], Rpd.vals[var], Rpd.pred, Rpd.bb)
        BY <3>1, <3>3 DEF EnteredPlace
      <4>2. Rpd.vals[var] \in Operand /\ func[b][p] \in Instr
        BY <1>1, <1>2
      <4>. QED
        <5>1. IsLonger(Longer(func[b][p], Rpd.vals[var], Rpd.pred, Rpd.bb), func[b][p], Rpd.vals[var], Rpd.pred, Rpd.bb)
          BY <1>1, <1>2, <4>2, LongerIs
        <5>. QED
          BY <4>1, <5>1 DEF IsLonger
    <3>. QED
      BY <3>2, <3>3
  <2>. QED
    BY <1>2, <1>5, <2>1, <2>2 DEF SamePlaces
<1>. QED
  BY <1>2, <1>3, <1>4, <1>5, <1>7, <1>8 DEF h

\* The variable of a phi that is entered, and what it brings.
Bringing(h, b, p, i, j, val) ==
  /\ i = func[b][p] /\ j = h[b][p] /\ val \in Operand /\ i \in Instr
  /\ i.op = "phi" /\ i.id \in Range(newPhis) /\ b = Rpd.bb
  /\ Rpd.pred \in visited /\ Rpd.bb \in Succs(graph, Rpd.pred)
  /\ j = Longer(i, val, Rpd.pred, Rpd.bb)
  /\ AvailEnd(graph, func, val, Rpd.pred)
  /\ \A k \in DOMAIN allocas : val # Inst(allocas[k])

LEMMA CarriedThere ==
  ASSUME JInv, worklist # <<>>, NEW k \in 1 .. num - 1, <<Rpd.bb, k>> \in DOMAIN newPhis, Rpd.pred \in visited
  PROVE  AvailEnd(graph, func, Rpd.vals[k], Rpd.pred)
<1>1. IInv /\ WalkKept /\ Plans
  BY DEF JInv
<1>2. Len(worklist) \in DOMAIN worklist /\ Rpd = worklist[Len(worklist)] /\ stage = "rename" /\ Rpd.bb \in DOMAIN graph
  BY <1>1, TopIs DEF Rpd
<1>3. graph \in Graphs /\ Rpd.pred \in Reachable(graph) /\ Rpd.pred \in DOMAIN graph
  BY <1>1, StateIs, ReachableIs DEF WalkKept
<1>4. PICK Def \in SUBSET DOMAIN graph, Live \in SUBSET DOMAIN graph :
        /\ Flows(graph, Def, Live, Phied(graph, newPhis, k))
        /\ \A j \in DOMAIN worklist : Carried(graph, func, worklist[j], k, Def, Live, Phied(graph, newPhis, k))
  BY <1>1, <1>2 DEF Plans, Planned
<1>5. Rpd.bb \in Live
  BY <1>2, <1>4 DEF Flows, Phied
<1>6. Rpd.pred # 0
  BY <1>3, BlocksAreFinite
<1>7. PICK d : Dominates(graph, d, Rpd.pred) /\ AvailEnd(graph, func, Rpd.vals[k], d)
  <2>1. Carried(graph, func, Rpd, k, Def, Live, Phied(graph, newPhis, k))
    BY <1>2, <1>4
  <2>. QED
    BY <1>5, <1>6, <2>1 DEF Carried
<1>8. \A c : ByTheEnd(graph, c, d) => ByTheEnd(graph, c, Rpd.pred)
  <2>1. d \in Reachable(graph)
    BY <1>3, <1>7, DominatorReachable
  <2>. QED
    BY <1>3, <1>7, <2>1, DominatesTransitive DEF ByTheEnd
<1>. QED
  BY <1>7, <1>8 DEF AvailEnd

LEMMA EnteredBrings ==
  ASSUME JInv, worklist # <<>>, NEW b \in DOMAIN func, NEW p \in DOMAIN func[b]
  PROVE  \/ Entering[b][p] = func[b][p] /\ (b = Rpd.bb => func[b][p].id \notin Range(newPhis))
         \/ \E val : Bringing(Entering, b, p, func[b][p], Entering[b][p], val)
<1>1. IInv /\ PhisKeep /\ WalkKept /\ Plans
  BY DEF JInv
<1>2. EnteredPlace(Entering, b, p)
  BY <1>1, EnteredAt
<1>. SUFFICES ASSUME ~(Entering[b][p] = func[b][p] /\ (b = Rpd.bb => func[b][p].id \notin Range(newPhis)))
              PROVE  \E val : Bringing(Entering, b, p, func[b][p], Entering[b][p], val)
  OBVIOUS
<1>3. PICK var \in 1 .. num - 1 :
        /\ var \in DOMAIN allocas /\ <<Rpd.bb, var>> \in DOMAIN newPhis /\ newPhis[<<Rpd.bb, var>>] = func[b][p].id
        /\ Entering[b][p] = Longer(func[b][p], Rpd.vals[var], Rpd.pred, Rpd.bb)
  BY <1>2 DEF EnteredPlace
<1>4. /\ b = Rpd.bb /\ func[b][p].op = "phi" /\ func[b][p].id \in Range(newPhis)
      /\ Rpd.pred \in visited /\ Rpd.bb \in Succs(graph, Rpd.pred)
  BY <1>2 DEF EnteredPlace
<1>5. AvailEnd(graph, func, Rpd.vals[var], Rpd.pred)
  BY <1>3, <1>4, CarriedThere
<1>6. /\ Len(worklist) \in DOMAIN worklist /\ Rpd = worklist[Len(worklist)] /\ Rpd.vals \in [DOMAIN allocas -> Operand]
  BY <1>1, TopIs DEF Rpd
<1>7. \A k \in DOMAIN allocas : Rpd.vals[var] # Inst(allocas[k])
  BY <1>1, <1>3, <1>6 DEF Plans
<1>8. Rpd.vals[var] \in Operand /\ func[b][p] \in Instr
  BY <1>1, <1>3, <1>6, InstrIn
<1>9. Bringing(Entering, b, p, func[b][p], Entering[b][p], Rpd.vals[var])
  BY <1>3, <1>4, <1>5, <1>7, <1>8 DEF Bringing
<1>. QED
  BY <1>9

\* What entering a block brings to one of its phis.
LEMMA BroughtIs ==
  ASSUME JInv, NEW b, NEW p, NEW i, NEW j, NEW val, Bringing(Entering, b, p, i, j, val)
  PROVE  IsLonger(j, i, val, Rpd.pred, Rpd.bb)
<1>1. graph \in Graphs /\ visited \subseteq DOMAIN graph
  BY StateIs DEF JInv, IInv, TypeOK
<1>2. Rpd.pred \in Nat
  BY <1>1, BlocksAreFinite DEF Bringing
<1>3. i \in Instr /\ val \in Operand /\ j = Longer(i, val, Rpd.pred, Rpd.bb)
  BY DEF Bringing
<1>. QED
  BY <1>1, <1>2, <1>3, LongerIs

LEMMA EnteredUses ==
  ASSUME JInv, worklist # <<>>
  PROVE  UsesDefined(graph, Entering)
<1>. DEFINE h == Entering
<1>1. IInv /\ PhisKeep /\ WalkKept /\ UsesDefined(graph, func)
  BY DEF JInv
<1>2. SamePlaces(h, func)
  BY <1>1, EnteredAt
<1>3. /\ \A v, b, p : AvailAt(graph, func, v, b, p) => AvailAt(graph, h, v, b, p)
      /\ \A v, b : AvailEnd(graph, func, v, b) => AvailEnd(graph, h, v, b)
  BY <1>2, SamePlacesAre
<1>. HIDE DEF h
<1>. SUFFICES ASSUME NEW b \in DOMAIN func, NEW p \in DOMAIN func[b] PROVE UseDefined(graph, h, b, p)
  BY <1>2 DEF UsesDefined, SamePlaces, h
<1>4. UseDefined(graph, func, b, p)
  BY <1>1 DEF UsesDefined
<1>5. h[b][p].ptr = func[b][p].ptr /\ h[b][p].val = func[b][p].val /\ h[b][p].op = func[b][p].op
  BY <1>2 DEF SamePlaces
<1>6. AvailAt(graph, h, h[b][p].ptr, b, p) /\ AvailAt(graph, h, h[b][p].val, b, p)
  BY <1>3, <1>4, <1>5 DEF UseDefined
<1>7. EntriesDefined(graph, h, h[b][p])
  <2>1. CASE h[b][p] = func[b][p]
    BY <1>3, <1>4, <2>1 DEF UseDefined, EntriesDefined
  <2>2. CASE h[b][p] # func[b][p]
    <3>1. PICK val : Bringing(h, b, p, func[b][p], h[b][p], val)
      BY <2>2, EnteredBrings DEF h
    <3>2. \A k \in DOMAIN h[b][p].inc : \/ k \in DOMAIN func[b][p].inc /\ h[b][p].inc[k] = func[b][p].inc[k]
                                        \/ h[b][p].inc[k] = [val |-> val, pred |-> Rpd.pred]
      BY <3>1, BroughtIs DEF h, IsLonger
    <3>3. AvailEnd(graph, h, val, Rpd.pred)
      BY <1>3, <3>1 DEF Bringing
    <3>4. func[b][p].op = "phi" => \A k \in DOMAIN func[b][p].inc : AvailEnd(graph, h, func[b][p].inc[k].val, func[b][p].inc[k].pred)
      BY <1>3, <1>4 DEF UseDefined, EntriesDefined
    <3>. QED
      BY <1>5, <3>2, <3>3, <3>4 DEF EntriesDefined
  <2>. QED
    BY <2>1, <2>2
<1>. QED
  BY <1>6, <1>7 DEF UseDefined

LEMMA EnteredPointed ==
  ASSUME JInv, worklist # <<>>, NEW a \in DOMAIN allocas
  PROVE  Pointed(Entering, allocas[a])
<1>. DEFINE h == Entering
<1>1. IInv /\ PhisKeep /\ WalkKept /\ Plans
  BY DEF JInv
<1>2. SamePlaces(h, func) /\ stage = "rename"
  BY <1>1, EnteredAt, TopIs
<1>3. Pointed(func, allocas[a])
  BY <1>1, <1>2 DEF Plans
<1>. HIDE DEF h
<1>. SUFFICES ASSUME NEW b \in DOMAIN func, NEW p \in DOMAIN func[b], Inst(allocas[a]) \in Operands(h[b][p])
              PROVE  h[b][p].op \in {"load", "store"} /\ h[b][p].ptr = Inst(allocas[a]) /\ h[b][p].val # Inst(allocas[a])
  BY <1>2 DEF Pointed, SamePlaces, h
<1>4. CASE h[b][p] = func[b][p]
  BY <1>3, <1>4 DEF Pointed
<1>5. CASE h[b][p] # func[b][p]
  <2>1. PICK val : Bringing(h, b, p, func[b][p], h[b][p], val)
    BY <1>5, EnteredBrings DEF h
  <2>2. \A k \in DOMAIN h[b][p].inc : \/ k \in DOMAIN func[b][p].inc /\ h[b][p].inc[k] = func[b][p].inc[k]
                                      \/ h[b][p].inc[k] = [val |-> val, pred |-> Rpd.pred]
    BY <2>1, BroughtIs DEF h, IsLonger
  <2>3. val # Inst(allocas[a]) /\ func[b][p].op = "phi"
    BY <2>1 DEF Bringing
  <2>4. Inst(allocas[a]) \notin Operands(func[b][p])
    BY <1>3, <2>3 DEF Pointed
  <2>5. h[b][p].ptr = func[b][p].ptr /\ h[b][p].val = func[b][p].val
    BY <1>2 DEF SamePlaces
  <2>6. \A k \in DOMAIN h[b][p].inc : h[b][p].inc[k].val # Inst(allocas[a])
    BY <2>2, <2>3, <2>4 DEF Operands
  <2>. QED
    BY <2>4, <2>5, <2>6 DEF Operands
<1>. QED
  BY <1>4, <1>5

LEMMA EnteredPlans ==
  ASSUME JInv, worklist # <<>>
  PROVE  /\ PhisPlaced(Entering, newPhis)
         /\ \A k \in 1 .. num - 1 : Planned(graph, Entering, allocas[k], k, visited, worklist, newPhis)
<1>. DEFINE h == Entering
<1>1. IInv /\ PhisKeep /\ WalkKept /\ Plans
  BY DEF JInv
<1>2. SamePlaces(h, func) /\ stage = "rename"
  BY <1>1, EnteredAt, TopIs
<1>3. graph \in Graphs /\ DOMAIN func = DOMAIN graph
  BY <1>1, StateIs
<1>. HIDE DEF h
<1>4. PhisPlaced(h, newPhis)
  BY <1>1, <1>2, SamePlacesAre DEF PhisKeep
<1>5. ASSUME NEW k \in 1 .. num - 1 PROVE Planned(graph, h, allocas[k], k, visited, worklist, newPhis)
  <2>1. PICK Def \in SUBSET DOMAIN graph, Live \in SUBSET DOMAIN graph :
          /\ Covers(func, allocas[k], Def, Live) /\ Stored(func, allocas[k], Def \ visited)
          /\ Flows(graph, Def, Live, Phied(graph, newPhis, k))
          /\ \A j \in DOMAIN worklist : Carried(graph, func, worklist[j], k, Def, Live, Phied(graph, newPhis, k))
    BY <1>1, <1>2 DEF Plans, Planned
  <2>2. Covers(h, allocas[k], Def, Live)
    BY <1>2, <2>1, SamePlacesAre
  <2>3. Stored(h, allocas[k], Def \ visited)
    <3>1. Def \ visited \subseteq DOMAIN func
      BY <1>3
    <3>. QED
      BY <1>2, <2>1, <3>1, SamePlacesAre
  <2>4. ASSUME NEW j \in DOMAIN worklist PROVE Carried(graph, h, worklist[j], k, Def, Live, Phied(graph, newPhis, k))
    <3>1. \A v, b : AvailEnd(graph, func, v, b) => AvailEnd(graph, h, v, b)
      BY <1>2, SamePlacesAre
    <3>. QED
      BY <2>1, <3>1 DEF Carried
  <2>. QED
    BY <2>1, <2>2, <2>3, <2>4, Zenon DEF Planned
<1>. QED
  BY <1>4, <1>5 DEF h

-----------------------------------------------------------------------------
(* Entering a block keeps what verifyModule asks.                          *)

\* The edges that wait are those that wait without the top, and the edge of the top.
LEMMA WaitingIs ==
  ASSUME IInv, WalkKept, worklist # <<>>
  PROVE  /\ \A b, r : Waiting(worklist, b, r) <=> Waiting(Front(worklist), b, r) \/ (b = Rpd.bb /\ r = Rpd.pred)
         /\ ~Waiting(Front(worklist), Rpd.bb, Rpd.pred)
<1>1. /\ Len(worklist) \in DOMAIN worklist /\ Rpd = worklist[Len(worklist)]
      /\ \A j : j \in DOMAIN worklist <=> j \in DOMAIN Front(worklist) \/ j = Len(worklist)
      /\ \A j \in DOMAIN Front(worklist) : j # Len(worklist) /\ Front(worklist)[j] = worklist[j]
  BY TopIs DEF Rpd
<1>. DEFINE fr == Front(worklist)
<1>. HIDE DEF fr
<1>2. \A b, r : Waiting(worklist, b, r) <=> Waiting(fr, b, r) \/ (b = Rpd.bb /\ r = Rpd.pred)
  BY <1>1 DEF Waiting, fr
<1>3. ~Waiting(fr, Rpd.bb, Rpd.pred)
  BY <1>1 DEF Waiting, fr, WalkKept
<1>. QED
  BY <1>2, <1>3 DEF fr

\* Entering a block gives its phis the entries that are due when its edge is not waiting
\* any more.
LEMMA EnteredEntries ==
  ASSUME JInv, worklist # <<>>
  PROVE  EntriesKept(graph, Entering, Range(newPhis), visited, Front(worklist))
<1>. DEFINE h == Entering
            fr == Front(worklist)
            news == Range(newPhis)
<1>1. IInv /\ PhisKeep /\ WalkKept /\ graph \in Graphs /\ func \in [DOMAIN graph -> Seq(Instr)] /\ DOMAIN func = DOMAIN graph
  BY StateIs DEF JInv
<1>2. SamePlaces(h, func)
  BY <1>1, EnteredAt
<1>3. /\ \A b, r : Waiting(worklist, b, r) <=> Waiting(fr, b, r) \/ (b = Rpd.bb /\ r = Rpd.pred)
      /\ ~Waiting(fr, Rpd.bb, Rpd.pred)
  BY <1>1, WaitingIs
<1>. HIDE DEF h, fr, news
<1>. SUFFICES ASSUME NEW b \in DOMAIN func, NEW p \in DOMAIN func[b], h[b][p].op = "phi"
              PROVE  EntriesDue(graph, b, h[b][p], news, visited, fr)
  BY <1>2 DEF EntriesKept, SamePlaces, h, fr, news
<1>. DEFINE i == func[b][p]
            j == h[b][p]
<1>4. i.op = "phi" /\ j.id = i.id
  BY <1>2 DEF SamePlaces
<1>5. EntriesDue(graph, b, i, news, visited, worklist)
  BY <1>1, <1>4 DEF PhisKeep, EntriesKept, news
<1>6. CASE j = i /\ (b = Rpd.bb => i.id \notin news)
  <2>1. \A r : i.id \in news => Due(graph, visited, fr, b, r) = Due(graph, visited, worklist, b, r)
    BY <1>3, <1>6 DEF Due
  <2>. HIDE DEF i, j
  <2>. QED
    BY <1>5, <1>6, <2>1 DEF EntriesDue, i, j
<1>7. CASE ~(j = i /\ (b = Rpd.bb => i.id \notin news))
  <2>1. PICK val : Bringing(h, b, p, i, j, val)
    BY <1>1, <1>7, EnteredBrings DEF h, news
  <2>2. IsLonger(j, i, val, Rpd.pred, Rpd.bb)
    BY <2>1, BroughtIs DEF h
  <2>3. i.id \in news /\ b = Rpd.bb /\ Rpd.pred \in visited
    BY <2>1 DEF Bringing, news
  <2>. HIDE DEF i, j
  <2>4. Waiting(worklist, b, Rpd.pred) /\ ~Waiting(fr, b, Rpd.pred)
    BY <1>3, <2>3
  <2>5. Rpd.pred \in DOMAIN graph
    BY <1>1, <2>3, StateIs DEF IInv, TypeOK
  <2>6. Count(i.inc, Rpd.pred) = 0
    BY <1>5, <2>3, <2>4, <2>5 DEF EntriesDue, Due
  <2>7. \A k \in DOMAIN i.inc : i.inc[k].pred # Rpd.pred
    <3>1. i \in Instr
      BY <1>1, InstrIn DEF i
    <3>. DEFINE S == {k \in DOMAIN i.inc : i.inc[k].pred = Rpd.pred}
    <3>2. IsFiniteSet(DOMAIN i.inc)
      BY <3>1, InstrIs, CountIs
    <3>3. IsFiniteSet(S) /\ Cardinality(S) = 0
      <4>1. IsFiniteSet(S)
        BY <3>2, FS_Subset
      <4>. QED
        BY <2>6, <4>1 DEF Count
    <3>4. S = {}
      <4>. HIDE DEF S
      <4>. QED
        BY <3>3, FS_EmptySet
    <3>. QED
      BY <3>4
  <2>8. PredsAgree(graph, j.inc)
    <3>. DEFINE e == [val |-> val, pred |-> Rpd.pred]
    <3>1. e.pred = Rpd.pred
      OBVIOUS
    <3>. HIDE DEF e
    <3>2. \A k \in DOMAIN j.inc : (k \in DOMAIN i.inc /\ j.inc[k] = i.inc[k]) \/ j.inc[k] = e
      BY <2>2 DEF IsLonger, e
    <3>3. PredsAgree(graph, i.inc)
      BY <1>5 DEF EntriesDue
    <3>4. \A k \in DOMAIN j.inc : j.inc[k].pred \in DOMAIN graph
      BY <2>5, <3>1, <3>2, <3>3 DEF PredsAgree
    <3>5. ASSUME NEW k \in DOMAIN j.inc, NEW l \in DOMAIN j.inc, j.inc[k].pred = j.inc[l].pred
          PROVE  j.inc[k] = j.inc[l]
      BY <2>7, <3>1, <3>2, <3>3, <3>5 DEF PredsAgree
    <3>. QED
      BY <3>4, <3>5 DEF PredsAgree
  <2>9. ASSUME NEW r \in DOMAIN graph PROVE Count(j.inc, r) = Due(graph, visited, fr, b, r)
    <3>1. Count(i.inc, r) = Due(graph, visited, worklist, b, r)
      BY <1>5, <2>3 DEF EntriesDue
    <3>2. Count(j.inc, r) = Count(i.inc, r) + (IF r = Rpd.pred THEN Edges(graph, Rpd.pred, Rpd.bb) ELSE 0)
      BY <2>2 DEF IsLonger
    <3>3. CASE r = Rpd.pred
      <4>1. Edges(graph, Rpd.pred, Rpd.bb) \in Nat
        BY <1>1, EdgesAre
      <4>2. Due(graph, visited, fr, b, r) = Edges(graph, Rpd.pred, Rpd.bb)
        BY <2>3, <2>4, <3>3 DEF Due
      <4>. QED
        BY <2>6, <3>2, <3>3, <4>1, <4>2
    <3>4. CASE r # Rpd.pred
      <4>1. Due(graph, visited, fr, b, r) = Due(graph, visited, worklist, b, r)
        BY <1>3, <3>4 DEF Due
      <4>2. Due(graph, visited, worklist, b, r) \in Nat
        BY <1>1, DueIs
      <4>. QED
        BY <3>1, <3>2, <3>4, <4>1, <4>2
    <3>. QED
      BY <3>3, <3>4
  <2>. QED
    BY <1>4, <2>3, <2>8, <2>9 DEF EntriesDue, i, j
<1>. QED
  BY <1>6, <1>7

\* A variable's plan does not depend on the items of the worklist that are done.
LEMMA PlannedShorter ==
  ASSUME NEW g, NEW f, NEW a, NEW k, NEW vis, NEW wl, NEW np, Planned(g, f, a, k, vis, wl, np),
         NEW fr, \A j \in DOMAIN fr : j \in DOMAIN wl /\ fr[j] = wl[j]
  PROVE  Planned(g, f, a, k, vis, fr, np)
<1>1. PICK Def \in SUBSET DOMAIN g, Live \in SUBSET DOMAIN g :
        /\ Covers(f, a, Def, Live) /\ Stored(f, a, Def \ vis)
        /\ Flows(g, Def, Live, Phied(g, np, k))
        /\ \A j \in DOMAIN wl : Carried(g, f, wl[j], k, Def, Live, Phied(g, np, k))
  BY DEF Planned
<1>2. \A j \in DOMAIN fr : Carried(g, f, fr[j], k, Def, Live, Phied(g, np, k))
  BY <1>1
<1>. QED
  BY <1>1, <1>2, Zenon DEF Planned

LEMMA ReenterBlockStays ==
  ASSUME JInv, ReenterBlock
  PROVE  JInv'
<1>. DEFINE h == Entering
            fr == Front(worklist)
<1>1. IInv /\ UsesDefined(graph, func) /\ PhisKeep /\ WalkKept /\ Plans
  BY DEF JInv
<1>2. IInv' /\ worklist # <<>> /\ stage = "rename" /\ Rpd.bb \in visited
  BY <1>1, ReenterBlockKeeps DEF ReenterBlock, Rpd
<1>3. func' = h /\ worklist' = fr /\ visited' = visited /\ graph' = graph /\ stage' = stage /\ newPhis' = newPhis
      /\ allocas' = allocas /\ num' = num
  BY DEF ReenterBlock, Entering, Rpd
<1>4. /\ Len(worklist) \in DOMAIN worklist /\ Rpd = worklist[Len(worklist)]
      /\ \A j : j \in DOMAIN worklist <=> j \in DOMAIN fr \/ j = Len(worklist)
      /\ \A j \in DOMAIN fr : j # Len(worklist) /\ fr[j] = worklist[j]
  BY <1>1, <1>2, TopIs DEF Rpd
<1>5. UsesDefined(graph, h) /\ EntriesKept(graph, h, Range(newPhis), visited, fr) /\ PhisPlaced(h, newPhis)
  BY <1>2, EnteredUses, EnteredEntries, EnteredPlans
<1>6. \A k \in 1 .. num - 1 : Planned(graph, h, allocas[k], k, visited, worklist, newPhis)
  BY <1>2, EnteredPlans
<1>7. \A a \in DOMAIN allocas : Pointed(h, allocas[a])
  BY <1>2, EnteredPointed
<1>. HIDE DEF h, fr
<1>8. UsesDefined(graph, func)'
  BY <1>3, <1>5
<1>9. PhisKeep'
  BY <1>3, <1>5 DEF PhisKeep
<1>10. WalkKept'
  <2>1. \A i, j \in DOMAIN fr : fr[i].bb = fr[j].bb /\ fr[i].pred = fr[j].pred => i = j
    BY <1>1, <1>4 DEF WalkKept
  <2>2. \A j \in DOMAIN fr : \/ (fr[j].pred = 0 /\ fr[j].bb = Entry)
                              \/ (fr[j].pred \in visited /\ fr[j].bb \in Succs(graph, fr[j].pred))
    BY <1>1, <1>4 DEF WalkKept, FromVisited
  <2>3. /\ \A b \in visited : \A s \in Succs(graph, b) : s \in visited \/ \E j \in DOMAIN fr : fr[j].bb = s
        /\ Entry \in visited \/ \E j \in DOMAIN fr : fr[j].bb = Entry
    BY <1>1, <1>2, <1>4 DEF WalkKept
  <2>4. visited \subseteq Reachable(graph) /\ \A b \in visited : \A d \in DOMAIN graph : Dominates(graph, d, b) => d \in visited
    BY <1>1 DEF WalkKept
  <2>. QED
    BY <1>2, <1>3, <2>1, <2>2, <2>3, <2>4 DEF WalkKept, Looping, FromVisited
<1>11. Plans'
  <2>1. ASSUME NEW k \in 1 .. num - 1 PROVE Planned(graph, h, allocas[k], k, visited, fr, newPhis)
    BY <1>4, <1>6, PlannedShorter
  <2>2. \A j \in DOMAIN fr : \A k, i \in DOMAIN allocas : fr[j].vals[k] # Inst(allocas[i])
    BY <1>1, <1>4 DEF Plans
  <2>. QED
    BY <1>3, <1>7, <2>1, <2>2 DEF Plans
<1>12. SingleKept'
  BY <1>2, <1>3 DEF SingleKept
<1>. QED
  BY <1>2, <1>8, <1>9, <1>10, <1>11, <1>12 DEF JInv

-----------------------------------------------------------------------------
(* The walk through a block that is renamed.                                 *)

\* What the walk lists: the accesses of the block to the allocas.
Listed(c, q) == c = Rpd.bb /\ \E k \in DOMAIN allocas : Accessing(func, c, q, allocas[k])
\* v is defined where place p of the block is reached, and stays in the function.
Sound(v, p) ==
  v.k = "inst" => \E c \in DOMAIN func : \E q \in DOMAIN func[c] :
                    Defines(func, c, q, v) /\ Earlier(graph, c, q, Rpd.bb, p) /\ ~Listed(c, q)
NoAlloca(v) == \A i \in DOMAIN allocas : v # Inst(allocas[i])
ListedBefore(q, n) == q <= n /\ Listed(Rpd.bb, q)
StoredBefore(k, n) == \E q \in DOMAIN func[Rpd.bb] : q <= n /\ StoresTo(func, Rpd.bb, q, allocas[k])

LEMMA RenamedBlockIs ==
  ASSUME JInv, worklist # <<>>
  PROVE  /\ IInv /\ Rpd.bb \in DOMAIN func /\ Rpd.bb \in DOMAIN graph /\ Rpd.bb \in Reachable(graph) /\ Rpd.bb # 0
         /\ graph \in Graphs /\ func \in [DOMAIN graph -> Seq(Instr)] /\ DOMAIN func = DOMAIN graph /\ Unique(func)
         /\ DOMAIN func[Rpd.bb] = 1 .. Len(func[Rpd.bb]) /\ Len(func[Rpd.bb]) \in Nat
         /\ stage = "rename" /\ DOMAIN allocas = 1 .. num - 1 /\ visited \subseteq Reachable(graph)
<1>1. IInv /\ WalkKept
  BY DEF JInv
<1>2. /\ Rpd.bb \in DOMAIN graph /\ FromVisited(Rpd) /\ stage = "rename"
  BY <1>1, TopIs DEF Rpd
<1>3. graph \in Graphs /\ func \in [DOMAIN graph -> Seq(Instr)] /\ DOMAIN func = DOMAIN graph /\ Unique(func)
  BY <1>1, StateIs
<1>4. visited \subseteq Reachable(graph)
  BY <1>1 DEF WalkKept
<1>5. Rpd.bb \in Reachable(graph)
  BY <1>2, <1>3, <1>4, ReachableIs DEF FromVisited
<1>6. Rpd.bb # 0
  BY <1>2, <1>3, BlocksAreFinite
<1>7. DOMAIN allocas = 1 .. num - 1
  <2>1. num = Len(allocas) + 1
    BY <1>1, <1>2 DEF IInv, AllNumbered
  <2>. QED
    BY <1>1, <2>1, StateIs
<1>8. func[Rpd.bb] \in Seq(Instr)
  BY <1>2, <1>3
<1>. QED
  BY <1>1, <1>2, <1>3, <1>4, <1>5, <1>6, <1>7, <1>8

\* No load is one of the allocas, and the lookup gives each its own index.
LEMMA WalkedAllocas ==
  ASSUME IInv, stage = "rename", DOMAIN allocas = 1 .. num - 1
  PROVE  /\ \A k \in DOMAIN allocas : allocas[k] \in DOMAIN lookup /\ lookup[allocas[k]] = k
         /\ \A a \in DOMAIN lookup : lookup[a] \in DOMAIN allocas /\ allocas[lookup[a]] = a
         /\ \A k \in DOMAIN allocas : \A op : Has(func, allocas[k], op) => op = "alloca"
<1>1. LookupAgrees /\ AllocasKept /\ Unique(func)
  BY DEF IInv
<1>2. \A a \in DOMAIN lookup : lookup[a] \in DOMAIN allocas /\ allocas[lookup[a]] = a
  BY <1>1 DEF LookupAgrees
<1>3. \A k \in DOMAIN allocas : allocas[k] \in DOMAIN lookup
  BY <1>1 DEF LookupAgrees
<1>4. \A i, j \in DOMAIN allocas : allocas[i] = allocas[j] => i = j
  BY <1>1 DEF AllocasKept
<1>5. \A i \in DOMAIN allocas : Has(func, allocas[i], "alloca")
  BY <1>1 DEF AllocasKept
<1>6. ASSUME NEW k \in DOMAIN allocas, NEW op, Has(func, allocas[k], op) PROVE op = "alloca"
  BY <1>1, <1>5, <1>6, HasOneOp
<1>. QED
  BY <1>2, <1>3, <1>4, <1>6

\* One turn of the walk, for an instruction like the one at place p.
OnlyLoads(by) == \A x \in DOMAIN by : Has(func, x, "load") /\ NoAlloca(by[x])
Alike(i, j) == i.id = j.id /\ i.op = j.op /\ i.ptr = j.ptr /\ i.val = j.val
LEMMA TurnIs ==
  ASSUME JInv, worklist # <<>>, NEW p \in DOMAIN func[Rpd.bb], NEW i \in Instr, Alike(i, func[Rpd.bb][p]),
         NEW acc \in Accs(DOMAIN allocas, Nat), OnlyLoads(acc.by)
  PROVE  /\ ~Listed(Rpd.bb, p) => Renaming(acc, i) = acc
         /\ \A k \in DOMAIN allocas : LoadsFrom(func, Rpd.bb, p, allocas[k]) =>
              /\ Renaming(acc, i).by = With(acc.by, i.id, acc.vals[k])
              /\ Renaming(acc, i).vals = acc.vals /\ Renaming(acc, i).gone = acc.gone \cup {i.id}
         /\ \A k \in DOMAIN allocas : StoresTo(func, Rpd.bb, p, allocas[k]) =>
              /\ Renaming(acc, i).vals = [acc.vals EXCEPT ![k] = Replaced(i.val, acc.by)]
              /\ Renaming(acc, i).by = acc.by /\ Renaming(acc, i).gone = acc.gone \cup {i.id}
<1>. DEFINE ptr == Replaced(i.ptr, acc.by)
            V == DOMAIN allocas
<1>1. IInv /\ stage = "rename" /\ DOMAIN allocas = 1 .. num - 1
  BY RenamedBlockIs
<1>2. /\ \A k \in DOMAIN allocas : allocas[k] \in DOMAIN lookup /\ lookup[allocas[k]] = k
      /\ \A a \in DOMAIN lookup : lookup[a] \in DOMAIN allocas /\ allocas[lookup[a]] = a
      /\ \A k \in DOMAIN allocas : ~Has(func, allocas[k], "load")
  BY <1>1, WalkedAllocas
<1>3. PICK vals \in [V -> Operand], gone \in SUBSET Nat, D \in SUBSET Nat : \E by \in [D -> Operand] :
             acc = [vals |-> vals, by |-> by, gone |-> gone]
  BY AccIs
<1>4. PICK by \in [D -> Operand] : acc = [vals |-> vals, by |-> by, gone |-> gone]
  BY <1>3
<1>5. acc.by = by /\ acc.vals = vals /\ acc.gone = gone
  BY <1>4
<1>6. i.ptr \in Operand /\ ptr \in Operand
  BY <1>5, InstrIs, ReplacedIs
<1>7. ASSUME ~Listed(Rpd.bb, p) PROVE Renaming(acc, i) = acc
  <2>1. CASE i.op \notin {"load", "store"}
    BY <2>1 DEF Renaming
  <2>2. CASE i.op \in {"load", "store"}
    <3>1. NoAlloca(i.ptr)
      BY <1>7, <2>2 DEF Listed, NoAlloca, Accessing, LoadsFrom, StoresTo, Alike
    <3>2. NoAlloca(ptr)
      BY <3>1 DEF Replaced, OnlyLoads
    <3>3. ~(ptr.k = "inst" /\ ptr.n \in DOMAIN lookup)
      <4>. HIDE DEF ptr
      <4>. SUFFICES ASSUME ptr.k = "inst", ptr.n \in DOMAIN lookup PROVE FALSE
        OBVIOUS
      <4>1. ptr = Inst(ptr.n)
        BY <1>6, InstOf
      <4>. QED
        BY <1>2, <3>2, <4>1 DEF NoAlloca
    <3>. QED
      BY <3>3 DEF Renaming
  <2>. QED
    BY <2>1, <2>2
<1>8. ASSUME NEW k \in V, i.ptr = Inst(allocas[k]) PROVE ptr.k = "inst" /\ ptr.n \in DOMAIN lookup /\ lookup[ptr.n] = k
  <2>1. allocas[k] \notin DOMAIN acc.by
    BY <1>2 DEF OnlyLoads
  <2>2. i.ptr.k = "inst" /\ i.ptr.n = allocas[k]
    BY <1>8 DEF Inst
  <2>3. ptr = i.ptr
    BY <2>1, <2>2 DEF Replaced
  <2>. QED
    BY <1>2, <2>2, <2>3
<1>9. ASSUME NEW k \in V, LoadsFrom(func, Rpd.bb, p, allocas[k])
      PROVE  /\ Renaming(acc, i).by = With(acc.by, i.id, acc.vals[k])
             /\ Renaming(acc, i).vals = acc.vals /\ Renaming(acc, i).gone = acc.gone \cup {i.id}
  <2>1. i.op = "load" /\ i.ptr = Inst(allocas[k])
    BY <1>9 DEF LoadsFrom, Alike
  <2>2. ptr.k = "inst" /\ ptr.n \in DOMAIN lookup /\ lookup[ptr.n] = k
    BY <1>8, <2>1
  <2>. DEFINE b == With(by, i.id, vals[k])
              g == gone \cup {i.id}
  <2>3. Renaming(acc, i) = [acc EXCEPT !.by = b, !.gone = g]
    BY <1>4, <2>1, <2>2 DEF Renaming
  <2>. HIDE DEF b, g
  <2>4. Renaming(acc, i) = [vals |-> vals, by |-> b, gone |-> g]
    BY <1>4, <2>3
  <2>. QED
    BY <1>5, <2>4 DEF b, g
<1>10. ASSUME NEW k \in V, StoresTo(func, Rpd.bb, p, allocas[k])
      PROVE  /\ Renaming(acc, i).vals = [acc.vals EXCEPT ![k] = Replaced(i.val, acc.by)]
             /\ Renaming(acc, i).by = acc.by /\ Renaming(acc, i).gone = acc.gone \cup {i.id}
  <2>1. i.op = "store" /\ i.ptr = Inst(allocas[k])
    BY <1>10 DEF StoresTo, Alike
  <2>2. ptr.k = "inst" /\ ptr.n \in DOMAIN lookup /\ lookup[ptr.n] = k
    BY <1>8, <2>1
  <2>. DEFINE w == [vals EXCEPT ![k] = Replaced(i.val, by)]
              g == gone \cup {i.id}
  <2>3. Renaming(acc, i) = [acc EXCEPT !.vals[k] = Replaced(i.val, by), !.gone = g]
    BY <1>4, <2>1, <2>2 DEF Renaming
  <2>. HIDE DEF g
  <2>4. Renaming(acc, i) = [vals |-> w, by |-> by, gone |-> g]
    BY <1>4, <2>3
  <2>. HIDE DEF w
  <2>. QED
    BY <1>5, <2>4 DEF w, g
<1>. QED
  BY <1>7, <1>9, <1>10

-----------------------------------------------------------------------------
(* What is known in the midst of the walk through a block.                 *)

GoneIs(gone, n) ==
  \A x : x \in gone <=> \E q \in DOMAIN func[Rpd.bb] : ListedBefore(q, n) /\ func[Rpd.bb][q].id = x
LoadAt(q, n, x) == ListedBefore(q, n) /\ func[Rpd.bb][q].op = "load" /\ func[Rpd.bb][q].id = x
ByIs(by, n) == \A x : x \in DOMAIN by <=> \E q \in DOMAIN func[Rpd.bb] : LoadAt(q, n, x)
LoadsSound(by, n) ==
  /\ \A x : \A q \in DOMAIN func[Rpd.bb] : LoadAt(q, n, x) => Sound(by[x], q)
  /\ \A x \in DOMAIN by : NoAlloca(by[x])
ValueSound(v, k, n, start) == IF StoredBefore(k, n) THEN Sound(v, n + 1) ELSE v = start[k]
ValsSound(vals, n, start) == \A k \in DOMAIN allocas : NoAlloca(vals[k]) /\ ValueSound(vals[k], k, n, start)
\* What is known when the walk has passed the first n instructions.
SoFar(acc, n, start) ==
  /\ acc \in Accs(DOMAIN allocas, Nat)
  /\ GoneIs(acc.gone, n) /\ ByIs(acc.by, n) /\ LoadsSound(acc.by, n) /\ ValsSound(acc.vals, n, start)
\* A load that no store comes before finds a value that is good there.
Starts(start) ==
  \A k \in DOMAIN allocas :
    /\ NoAlloca(start[k])
    /\ \A p \in DOMAIN func[Rpd.bb] : LoadsFrom(func, Rpd.bb, p, allocas[k]) /\ ~StoredBefore(k, p - 1) => Sound(start[k], p)

LEMMA SoundLater ==
  ASSUME JInv, worklist # <<>>, NEW v, NEW p \in Nat, NEW r \in Nat, p <= r, Sound(v, p)
  PROVE  Sound(v, r)
<1>1. Rpd.bb \in Reachable(graph) /\ func \in [DOMAIN graph -> Seq(Instr)] /\ DOMAIN func = DOMAIN graph
  BY RenamedBlockIs
<1>. SUFFICES ASSUME v.k = "inst"
     PROVE \E c \in DOMAIN func : \E q \in DOMAIN func[c] :
             Defines(func, c, q, v) /\ Earlier(graph, c, q, Rpd.bb, r) /\ ~Listed(c, q)
  BY DEF Sound
<1>2. PICK c \in DOMAIN func : \E q \in DOMAIN func[c] :
             Defines(func, c, q, v) /\ Earlier(graph, c, q, Rpd.bb, p) /\ ~Listed(c, q)
  BY DEF Sound
<1>3. PICK q \in DOMAIN func[c] : Defines(func, c, q, v) /\ Earlier(graph, c, q, Rpd.bb, p) /\ ~Listed(c, q)
  BY <1>2
<1>4. q \in Nat
  <2>1. func[c] \in Seq(Instr)
    BY <1>1
  <2>. QED
    BY <2>1
<1>5. Earlier(graph, c, q, Rpd.bb, r)
  BY <1>3, <1>4 DEF Earlier
<1>. QED
  BY <1>3, <1>5

\* What a store stores, or a load becomes, is good at its place.
LEMMA ReplacedSound ==
  ASSUME JInv, worklist # <<>>, NEW p \in DOMAIN func[Rpd.bb], NEW by, ByIs(by, p - 1), LoadsSound(by, p - 1),
         NEW v, AvailAt(graph, func, v, Rpd.bb, p)
  PROVE  Sound(Replaced(v, by), p)
<1>. DEFINE bb == Rpd.bb
<1>1. /\ bb \in DOMAIN func /\ bb \in Reachable(graph) /\ Unique(func) /\ DOMAIN func[bb] = 1 .. Len(func[bb]) /\ Len(func[bb]) \in Nat
      /\ func \in [DOMAIN graph -> Seq(Instr)]
  BY RenamedBlockIs
<1>. HIDE DEF bb
<1>2. CASE v.k = "inst" /\ v.n \in DOMAIN by
  <2>1. PICK q \in DOMAIN func[bb] : LoadAt(q, p - 1, v.n)
    BY <1>2 DEF ByIs, bb
  <2>2. Sound(by[v.n], q)
    BY <2>1 DEF LoadsSound, bb
  <2>3. q \in Nat /\ p \in Nat /\ q <= p
    BY <1>1, <2>1 DEF LoadAt, ListedBefore, bb
  <2>. QED
    BY <1>2, <2>2, <2>3, SoundLater DEF Replaced
<1>3. CASE v.k = "inst" /\ v.n \notin DOMAIN by
  <2>1. PICK c \in DOMAIN func : \E q \in DOMAIN func[c] : Defines(func, c, q, v) /\ Earlier(graph, c, q, bb, p)
    BY <1>3 DEF AvailAt, bb
  <2>2. PICK q \in DOMAIN func[c] : Defines(func, c, q, v) /\ Earlier(graph, c, q, bb, p)
    BY <2>1
  <2>3. ASSUME Listed(c, q) PROVE FALSE
    <3>1. c = bb /\ func[c][q].op = "load" /\ func[c][q].id = v.n
      BY <2>2, <2>3 DEF Listed, Accessing, LoadsFrom, StoresTo, Defines, bb
    <3>2. q < p /\ q \in Nat /\ p \in Nat
      BY <1>1, <2>2, <3>1 DEF Earlier, bb
    <3>3. LoadAt(q, p - 1, v.n)
      BY <2>3, <3>1, <3>2 DEF LoadAt, ListedBefore, bb
    <3>. QED
      BY <1>3, <2>2, <3>1, <3>3 DEF ByIs, bb
  <2>4. Sound(v, p)
    BY <2>2, <2>3 DEF Sound, bb
  <2>. QED
    BY <1>3, <2>4 DEF Replaced
<1>4. CASE v.k # "inst"
  BY <1>4 DEF Replaced, Sound
<1>. QED
  BY <1>2, <1>3, <1>4

\* The next place is listed or not, and nothing else changes of what is listed.
LEMMA ListedNext ==
  ASSUME JInv, worklist # <<>>, NEW p \in DOMAIN func[Rpd.bb]
  PROVE  /\ p \in Nat /\ p - 1 \in Nat /\ p <= p /\ ~(p <= p - 1)
         /\ \A q \in DOMAIN func[Rpd.bb] : q \in Nat /\ (ListedBefore(q, p) <=> ListedBefore(q, p - 1) \/ (q = p /\ Listed(Rpd.bb, p)))
         /\ \A k : StoredBefore(k, p) <=> StoredBefore(k, p - 1) \/ StoresTo(func, Rpd.bb, p, allocas[k])
         /\ \A q \in DOMAIN func[Rpd.bb] : func[Rpd.bb][q].id = func[Rpd.bb][p].id => q = p
<1>1. DOMAIN func[Rpd.bb] = 1 .. Len(func[Rpd.bb]) /\ Len(func[Rpd.bb]) \in Nat /\ Unique(func) /\ Rpd.bb \in DOMAIN func
  BY RenamedBlockIs
<1>2. \A q \in DOMAIN func[Rpd.bb] : q \in Nat /\ (q <= p <=> q <= p - 1 \/ q = p)
  BY <1>1
<1>3. p \in Nat /\ p - 1 \in Nat /\ p <= p /\ ~(p <= p - 1)
  BY <1>1
<1>4. \A q \in DOMAIN func[Rpd.bb] : func[Rpd.bb][q].id = func[Rpd.bb][p].id => q = p
  BY <1>1, PlaceIsOne
<1>5. \A q \in DOMAIN func[Rpd.bb] : ListedBefore(q, p) <=> ListedBefore(q, p - 1) \/ (q = p /\ Listed(Rpd.bb, p))
  BY <1>2 DEF ListedBefore
<1>6. \A k : StoredBefore(k, p) <=> StoredBefore(k, p - 1) \/ StoresTo(func, Rpd.bb, p, allocas[k])
  BY <1>2 DEF StoredBefore
<1>. QED
  BY <1>2, <1>3, <1>4, <1>5, <1>6

\* An access is to one alloca.
LEMMA OneAccess ==
  ASSUME IInv, stage = "rename", NEW b, NEW q, NEW k \in DOMAIN allocas, NEW l \in DOMAIN allocas,
         Accessing(func, b, q, allocas[k]), Accessing(func, b, q, allocas[l])
  PROVE  k = l
<1>1. Inst(allocas[k]) = Inst(allocas[l])
  BY DEF Accessing, LoadsFrom, StoresTo
<1>2. allocas[k] = allocas[l]
  BY <1>1 DEF Inst
<1>. QED
  BY <1>2 DEF IInv, AllocasKept

LEMMA SoFarIs ==
  ASSUME JInv, worklist # <<>>, NEW acc, NEW n, NEW start, SoFar(acc, n, start)
  PROVE  OnlyLoads(acc.by)
<1>1. Rpd.bb \in DOMAIN func
  BY RenamedBlockIs
<1>2. ASSUME NEW x \in DOMAIN acc.by PROVE Has(func, x, "load") /\ NoAlloca(acc.by[x])
  <2>1. PICK q \in DOMAIN func[Rpd.bb] : LoadAt(q, n, x)
    BY DEF SoFar, ByIs
  <2>. QED
    BY <1>1, <2>1 DEF Has, LoadAt, SoFar, LoadsSound
<1>. QED
  BY <1>2 DEF OnlyLoads

LEMMA TurnUnlisted ==
  ASSUME JInv, worklist # <<>>, NEW p \in DOMAIN func[Rpd.bb], NEW start, NEW acc, SoFar(acc, p - 1, start), ~Listed(Rpd.bb, p)
  PROVE  SoFar(acc, p, start)
<1>1. /\ p \in Nat /\ p - 1 \in Nat
      /\ \A q \in DOMAIN func[Rpd.bb] : q \in Nat /\ (ListedBefore(q, p) <=> ListedBefore(q, p - 1) \/ (q = p /\ Listed(Rpd.bb, p)))
      /\ \A k : StoredBefore(k, p) <=> StoredBefore(k, p - 1) \/ StoresTo(func, Rpd.bb, p, allocas[k])
  BY ListedNext
<1>2. \A q \in DOMAIN func[Rpd.bb] : ListedBefore(q, p) <=> ListedBefore(q, p - 1)
  BY <1>1
<1>3. \A k \in DOMAIN allocas : StoredBefore(k, p) <=> StoredBefore(k, p - 1)
  BY <1>1 DEF Listed, Accessing
<1>4. GoneIs(acc.gone, p) /\ ByIs(acc.by, p) /\ LoadsSound(acc.by, p)
  BY <1>2 DEF SoFar, GoneIs, ByIs, LoadsSound, LoadAt
<1>5. ValsSound(acc.vals, p, start)
  <2>. SUFFICES ASSUME NEW k \in DOMAIN allocas PROVE NoAlloca(acc.vals[k]) /\ ValueSound(acc.vals[k], k, p, start)
    BY DEF ValsSound
  <2>1. NoAlloca(acc.vals[k]) /\ ValueSound(acc.vals[k], k, p - 1, start)
    BY DEF SoFar, ValsSound
  <2>2. Sound(acc.vals[k], (p - 1) + 1) => Sound(acc.vals[k], p + 1)
    <3>1. (p - 1) + 1 \in Nat /\ p + 1 \in Nat /\ (p - 1) + 1 <= p + 1
      BY <1>1
    <3>. QED
      BY <3>1, SoundLater
  <2>. QED
    BY <1>3, <2>1, <2>2 DEF ValueSound
<1>. QED
  BY <1>4, <1>5 DEF SoFar

-----------------------------------------------------------------------------
(* One turn of the walk, and all of it.                                    *)

LEMMA TurnLoad ==
  ASSUME JInv, worklist # <<>>, NEW p \in DOMAIN func[Rpd.bb], NEW start, Starts(start), NEW acc, SoFar(acc, p - 1, start),
         NEW k \in DOMAIN allocas, LoadsFrom(func, Rpd.bb, p, allocas[k]),
         NEW next \in Accs(DOMAIN allocas, Nat),
         NEW id, id = func[Rpd.bb][p].id,
         next.by = With(acc.by, id, acc.vals[k]), next.vals = acc.vals, next.gone = acc.gone \cup {id}
  PROVE  SoFar(next, p, start)
<1>1. /\ p \in Nat /\ p - 1 \in Nat /\ p <= p /\ ~(p <= p - 1)
      /\ \A q \in DOMAIN func[Rpd.bb] : q \in Nat /\ (ListedBefore(q, p) <=> ListedBefore(q, p - 1) \/ (q = p /\ Listed(Rpd.bb, p)))
      /\ \A j : StoredBefore(j, p) <=> StoredBefore(j, p - 1) \/ StoresTo(func, Rpd.bb, p, allocas[j])
      /\ \A q \in DOMAIN func[Rpd.bb] : func[Rpd.bb][q].id = id => q = p
  BY ListedNext
<1>2. Listed(Rpd.bb, p) /\ func[Rpd.bb][p].op = "load" /\ ~ListedBefore(p, p - 1)
  BY <1>1 DEF Listed, Accessing, LoadsFrom, ListedBefore
<1>3. \A j : ~StoresTo(func, Rpd.bb, p, allocas[j])
  BY <1>2 DEF StoresTo
<1>4. \A j : StoredBefore(j, p) <=> StoredBefore(j, p - 1)
  BY <1>1, <1>3
<1>5. \A x : \A q \in DOMAIN func[Rpd.bb] : LoadAt(q, p, x) <=> LoadAt(q, p - 1, x) \/ (q = p /\ x = id)
  BY <1>1, <1>2 DEF LoadAt
<1>6. \A x : x \in DOMAIN next.by <=> x \in DOMAIN acc.by \/ x = id
  BY DEF With
<1>7. id \notin DOMAIN acc.by
  BY <1>1, <1>2 DEF SoFar, ByIs, LoadAt
<1>8. next.by[id] = acc.vals[k] /\ \A x \in DOMAIN acc.by : next.by[x] = acc.by[x]
  BY <1>7 DEF With
<1>9. GoneIs(next.gone, p)
  <2>1. \A x : x \in next.gone <=> x \in acc.gone \/ x = id
    OBVIOUS
  <2>2. GoneIs(acc.gone, p - 1)
    BY DEF SoFar
  <2>. QED
    BY <1>1, <1>2, <2>1, <2>2 DEF GoneIs
<1>10. ByIs(next.by, p)
  BY <1>5, <1>6 DEF SoFar, ByIs
<1>11. NoAlloca(acc.vals[k]) /\ Sound(acc.vals[k], p)
  <2>1. NoAlloca(acc.vals[k]) /\ ValueSound(acc.vals[k], k, p - 1, start)
    BY DEF SoFar, ValsSound
  <2>2. (p - 1) + 1 = p
    BY <1>1
  <2>. QED
    BY <2>1, <2>2 DEF ValueSound, Starts
<1>12. LoadsSound(next.by, p)
  <2>1. LoadsSound(acc.by, p - 1) /\ ByIs(acc.by, p - 1)
    BY DEF SoFar
  <2>2. ASSUME NEW x, NEW q \in DOMAIN func[Rpd.bb], LoadAt(q, p, x) PROVE Sound(next.by[x], q)
    <3>1. CASE LoadAt(q, p - 1, x)
      <4>1. x \in DOMAIN acc.by
        BY <2>1, <3>1 DEF ByIs
      <4>. QED
        BY <1>8, <2>1, <3>1, <4>1 DEF LoadsSound
    <3>2. CASE q = p /\ x = id
      BY <1>8, <1>11, <3>2
    <3>. QED
      BY <1>5, <2>2, <3>1, <3>2
  <2>3. \A x \in DOMAIN next.by : NoAlloca(next.by[x])
    BY <1>6, <1>8, <1>11, <2>1 DEF LoadsSound
  <2>. QED
    BY <2>2, <2>3 DEF LoadsSound
<1>13. ValsSound(next.vals, p, start)
  <2>. SUFFICES ASSUME NEW j \in DOMAIN allocas PROVE NoAlloca(acc.vals[j]) /\ ValueSound(acc.vals[j], j, p, start)
    BY DEF ValsSound
  <2>1. NoAlloca(acc.vals[j]) /\ ValueSound(acc.vals[j], j, p - 1, start)
    BY DEF SoFar, ValsSound
  <2>2. Sound(acc.vals[j], (p - 1) + 1) => Sound(acc.vals[j], p + 1)
    <3>1. (p - 1) + 1 \in Nat /\ p + 1 \in Nat /\ (p - 1) + 1 <= p + 1
      BY <1>1
    <3>. QED
      BY <3>1, SoundLater
  <2>. QED
    BY <1>4, <2>1, <2>2 DEF ValueSound
<1>. QED
  BY <1>9, <1>10, <1>12, <1>13 DEF SoFar

LEMMA TurnStore ==
  ASSUME JInv, worklist # <<>>, NEW p \in DOMAIN func[Rpd.bb], NEW start, NEW acc, SoFar(acc, p - 1, start),
         NEW k \in DOMAIN allocas, StoresTo(func, Rpd.bb, p, allocas[k]),
         NEW next \in Accs(DOMAIN allocas, Nat),
         NEW id, id = func[Rpd.bb][p].id, NEW v, v = Replaced(func[Rpd.bb][p].val, acc.by),
         next.by = acc.by, next.vals = [acc.vals EXCEPT ![k] = v], next.gone = acc.gone \cup {id}
  PROVE  SoFar(next, p, start)
<1>1. /\ p \in Nat /\ p - 1 \in Nat /\ p <= p /\ ~(p <= p - 1)
      /\ \A q \in DOMAIN func[Rpd.bb] : q \in Nat /\ (ListedBefore(q, p) <=> ListedBefore(q, p - 1) \/ (q = p /\ Listed(Rpd.bb, p)))
      /\ \A j : StoredBefore(j, p) <=> StoredBefore(j, p - 1) \/ StoresTo(func, Rpd.bb, p, allocas[j])
      /\ \A q \in DOMAIN func[Rpd.bb] : func[Rpd.bb][q].id = id => q = p
  BY ListedNext
<1>2. Listed(Rpd.bb, p) /\ func[Rpd.bb][p].op = "store"
  BY <1>1 DEF Listed, Accessing, StoresTo
<1>3. GoneIs(acc.gone, p - 1) /\ ByIs(acc.by, p - 1) /\ LoadsSound(acc.by, p - 1) /\ ValsSound(acc.vals, p - 1, start)
  BY DEF SoFar
<1>4. \A x : \A q \in DOMAIN func[Rpd.bb] : LoadAt(q, p, x) <=> LoadAt(q, p - 1, x)
  BY <1>1, <1>2 DEF LoadAt
<1>5. \A j \in DOMAIN allocas : StoresTo(func, Rpd.bb, p, allocas[j]) <=> j = k
  <2>1. IInv /\ stage = "rename"
    BY RenamedBlockIs
  <2>2. ASSUME NEW j \in DOMAIN allocas, StoresTo(func, Rpd.bb, p, allocas[j]) PROVE j = k
    BY <2>1, <2>2, OneAccess DEF Accessing
  <2>. QED
    BY <2>2
<1>6. \A j \in DOMAIN allocas : StoredBefore(j, p) <=> StoredBefore(j, p - 1) \/ j = k
  BY <1>1, <1>5
<1>7. GoneIs(next.gone, p)
  <2>1. \A x : x \in next.gone <=> x \in acc.gone \/ x = id
    OBVIOUS
  <2>. QED
    BY <1>1, <1>2, <1>3, <2>1 DEF GoneIs
<1>8. ByIs(next.by, p) /\ LoadsSound(next.by, p)
  BY <1>3, <1>4 DEF ByIs, LoadsSound
<1>9. /\ AvailAt(graph, func, func[Rpd.bb][p].val, Rpd.bb, p) /\ NoAlloca(func[Rpd.bb][p].val)
  <2>1. UsesDefined(graph, func) /\ Plans /\ Rpd.bb \in DOMAIN func /\ stage = "rename"
    BY RenamedBlockIs DEF JInv
  <2>2. UseDefined(graph, func, Rpd.bb, p)
    BY <2>1 DEF UsesDefined
  <2>3. ASSUME NEW i \in DOMAIN allocas, func[Rpd.bb][p].val = Inst(allocas[i]) PROVE FALSE
    <3>1. Inst(allocas[i]) \in Operands(func[Rpd.bb][p])
      BY <2>3 DEF Operands
    <3>. QED
      BY <2>1, <2>3, <3>1 DEF Plans, Pointed
  <2>. QED
    BY <2>2, <2>3 DEF UseDefined, NoAlloca
<1>10. Sound(v, p) /\ NoAlloca(v)
  <2>1. Sound(v, p)
    BY <1>3, <1>9, ReplacedSound
  <2>2. NoAlloca(v)
    BY <1>3, <1>9 DEF Replaced, LoadsSound
  <2>. QED
    BY <2>1, <2>2
<1>11. ValsSound(next.vals, p, start)
  <2>1. acc.vals \in [DOMAIN allocas -> Operand]
    BY DEF SoFar, Accs
  <2>2. next.vals[k] = v /\ \A j \in DOMAIN allocas : j # k => next.vals[j] = acc.vals[j]
    BY <2>1
  <2>. SUFFICES ASSUME NEW j \in DOMAIN allocas PROVE NoAlloca(next.vals[j]) /\ ValueSound(next.vals[j], j, p, start)
    BY DEF ValsSound
  <2>3. CASE j = k
    <3>1. Sound(v, p + 1)
      <4>1. p + 1 \in Nat /\ p <= p + 1
        BY <1>1
      <4>. QED
        BY <1>1, <1>10, <4>1, SoundLater
    <3>. QED
      BY <1>6, <1>10, <2>2, <2>3, <3>1 DEF ValueSound
  <2>4. CASE j # k
    <3>1. NoAlloca(acc.vals[j]) /\ ValueSound(acc.vals[j], j, p - 1, start)
      BY <1>3 DEF ValsSound
    <3>2. Sound(acc.vals[j], (p - 1) + 1) => Sound(acc.vals[j], p + 1)
      <4>1. (p - 1) + 1 \in Nat /\ p + 1 \in Nat /\ (p - 1) + 1 <= p + 1
        BY <1>1
      <4>. QED
        BY <4>1, SoundLater
    <3>. QED
      BY <1>6, <2>2, <2>4, <3>1, <3>2 DEF ValueSound
  <2>. QED
    BY <2>3, <2>4
<1>. QED
  BY <1>7, <1>8, <1>11 DEF SoFar

\* One turn of the walk keeps what is known.
LEMMA TurnSound ==
  ASSUME JInv, worklist # <<>>, NEW p \in DOMAIN func[Rpd.bb], NEW start, Starts(start), NEW acc, SoFar(acc, p - 1, start),
         NEW i \in Instr, Alike(i, func[Rpd.bb][p])
  PROVE  SoFar(Renaming(acc, i), p, start)
<1>1. acc \in Accs(DOMAIN allocas, Nat) /\ OnlyLoads(acc.by)
  BY SoFarIs DEF SoFar
<1>2. IInv /\ stage = "rename" /\ DOMAIN allocas = 1 .. num - 1
  BY RenamedBlockIs
<1>. DEFINE next == Renaming(acc, i)
<1>3. next \in Accs(DOMAIN allocas, Nat)
  <2>1. \A a \in DOMAIN lookup : lookup[a] \in DOMAIN allocas
    BY <1>2, WalkedAllocas
  <2>2. i.id \in Nat
    BY InstrIs
  <2>. QED
    BY <1>1, <2>1, <2>2, RenamingIs
<1>4. /\ ~Listed(Rpd.bb, p) => next = acc
      /\ \A k \in DOMAIN allocas : LoadsFrom(func, Rpd.bb, p, allocas[k]) =>
           /\ next.by = With(acc.by, i.id, acc.vals[k])
           /\ next.vals = acc.vals /\ next.gone = acc.gone \cup {i.id}
      /\ \A k \in DOMAIN allocas : StoresTo(func, Rpd.bb, p, allocas[k]) =>
           /\ next.vals = [acc.vals EXCEPT ![k] = Replaced(i.val, acc.by)]
           /\ next.by = acc.by /\ next.gone = acc.gone \cup {i.id}
  BY <1>1, TurnIs
<1>5. i.id = func[Rpd.bb][p].id /\ i.val = func[Rpd.bb][p].val
  BY DEF Alike
<1>. HIDE DEF next
<1>6. CASE ~Listed(Rpd.bb, p)
  BY <1>4, <1>6, TurnUnlisted DEF next
<1>7. ASSUME NEW k \in DOMAIN allocas, LoadsFrom(func, Rpd.bb, p, allocas[k]) PROVE SoFar(next, p, start)
  <2>1. /\ next.by = With(acc.by, i.id, acc.vals[k])
        /\ next.vals = acc.vals /\ next.gone = acc.gone \cup {i.id}
    BY <1>4, <1>7
  <2>. QED
    BY <1>3, <1>5, <1>7, <2>1, TurnLoad
<1>8. ASSUME NEW k \in DOMAIN allocas, StoresTo(func, Rpd.bb, p, allocas[k]) PROVE SoFar(next, p, start)
  <2>1. /\ next.vals = [acc.vals EXCEPT ![k] = Replaced(i.val, acc.by)]
        /\ next.by = acc.by /\ next.gone = acc.gone \cup {i.id}
    BY <1>4, <1>8
  <2>. QED
    BY <1>3, <1>5, <1>8, <2>1, TurnStore
<1>. QED
  BY <1>6, <1>7, <1>8 DEF Listed, Accessing, next

\* And so what is known at the end is of the whole block.
LEMMA WalkSound ==
  ASSUME JInv, worklist # <<>>, NEW code \in Seq(Instr), DOMAIN code = DOMAIN func[Rpd.bb],
         \A p \in DOMAIN code : Alike(code[p], func[Rpd.bb][p]),
         NEW start \in [DOMAIN allocas -> Operand], Starts(start)
  PROVE  SoFar(Renamed(code, start), Len(code), start)
<1>. DEFINE after == CHOOSE after : Walks(after, Len(code), code, start)
            n == Len(code)
            T == {p \in 0 .. n : ~SoFar(after[p], p, start)}
<1>1. Renamed(code, start) = after[n]
  BY Zenon DEF Renamed, Walks
<1>2. n \in Nat /\ DOMAIN code = 1 .. n
  OBVIOUS
<1>3. Walks(after, n, code, start)
  BY <1>2, WalksExist, Zenon
<1>. HIDE DEF after, n
<1>4. DOMAIN func[Rpd.bb] = 1 .. n
  BY <1>2
<1>5. SoFar(after[0], 0, start)
  <2>1. 0 \in 0 .. n
    BY <1>2
  <2>2. after[0] = [vals |-> start, by |-> Empty, gone |-> {}]
    BY <1>3, <2>1, Zenon DEF Walks
  <2>3. after[0].vals = start /\ after[0].by = Empty /\ after[0].gone = {}
    BY <2>2
  <2>4. DOMAIN Empty = {} /\ Empty \in [{} -> Operand]
    BY DEF Empty
  <2>5. after[0] \in Accs(DOMAIN allocas, Nat)
    <3>1. \E vals \in [DOMAIN allocas -> Operand], gone \in SUBSET Nat, D \in SUBSET Nat : \E by \in [D -> Operand] :
             after[0] = [vals |-> vals, by |-> by, gone |-> gone]
      BY <2>2, <2>4
    <3>. QED
      BY <3>1, AccIs
  <2>6. \A q \in DOMAIN func[Rpd.bb] : ~(q <= 0)
    BY <1>2, <1>4
  <2>7. GoneIs(after[0].gone, 0) /\ ByIs(after[0].by, 0)
    BY <2>3, <2>4, <2>6 DEF GoneIs, ByIs, LoadAt, ListedBefore
  <2>8. LoadsSound(after[0].by, 0)
    BY <2>3, <2>4, <2>6 DEF LoadsSound, LoadAt, ListedBefore
  <2>9. ValsSound(after[0].vals, 0, start)
    BY <2>3, <2>6 DEF ValsSound, ValueSound, StoredBefore, Starts
  <2>. QED
    BY <2>5, <2>7, <2>8, <2>9 DEF SoFar
<1>6. ASSUME NEW p \in 1 .. n, SoFar(after[p - 1], p - 1, start) PROVE SoFar(after[p], p, start)
  <2>1. p \in 0 .. n /\ p # 0
    BY <1>2
  <2>2. after[p] = Renaming(after[p - 1], code[p])
    BY <1>3, <2>1, Zenon DEF Walks
  <2>3. p \in DOMAIN func[Rpd.bb] /\ code[p] \in Instr /\ Alike(code[p], func[Rpd.bb][p])
    BY <1>2, <1>4
  <2>. QED
    BY <1>6, <2>2, <2>3, TurnSound
<1>7. T = {}
  <2>. SUFFICES ASSUME T # {} PROVE FALSE
    OBVIOUS
  <2>1. T \subseteq Nat
    BY <1>2
  <2>2. PICK p \in T : \A j \in T : p <= j
    <3>. HIDE DEF T
    <3>. QED
      BY <2>1, LeastIs
  <2>3. p \in 0 .. n /\ ~SoFar(after[p], p, start)
    OBVIOUS
  <2>4. p \in 1 .. n /\ p - 1 \in 0 .. n /\ ~(p <= p - 1)
    BY <1>2, <1>5, <2>3
  <2>5. p - 1 \notin T
    <3>. HIDE DEF T
    <3>. QED
      BY <2>2, <2>4
  <2>6. SoFar(after[p - 1], p - 1, start)
    BY <2>4, <2>5
  <2>. QED
    BY <1>6, <2>3, <2>4, <2>6
<1>8. n \in 0 .. n
  BY <1>2
<1>. QED
  BY <1>1, <1>7, <1>8 DEF n

-----------------------------------------------------------------------------
(* Which values the walk starts with, and that they are good.              *)

\* What Planned says of variable k, of its blocks.
PlanOf(k, Def, Live) ==
  /\ Def \in SUBSET DOMAIN graph /\ Live \in SUBSET DOMAIN graph
  /\ Covers(func, allocas[k], Def, Live) /\ Stored(func, allocas[k], Def \ visited)
  /\ Flows(graph, Def, Live, Phied(graph, newPhis, k))
  /\ \A j \in DOMAIN worklist : Carried(graph, func, worklist[j], k, Def, Live, Phied(graph, newPhis, k))

LEMMA PlanExists ==
  ASSUME JInv, worklist # <<>>, NEW k \in DOMAIN allocas
  PROVE  \E Def, Live : PlanOf(k, Def, Live)
<1>1. stage = "rename" /\ k \in 1 .. num - 1
  BY RenamedBlockIs
<1>2. Planned(graph, func, allocas[k], k, visited, worklist, newPhis)
  BY <1>1 DEF JInv, Plans
<1>3. PICK Def \in SUBSET DOMAIN graph, Live \in SUBSET DOMAIN graph :
        /\ Covers(func, allocas[k], Def, Live) /\ Stored(func, allocas[k], Def \ visited)
        /\ Flows(graph, Def, Live, Phied(graph, newPhis, k))
        /\ \A j \in DOMAIN worklist : Carried(graph, func, worklist[j], k, Def, Live, Phied(graph, newPhis, k))
  BY <1>2 DEF Planned
<1>4. PlanOf(k, Def, Live)
  BY <1>3, Zenon DEF PlanOf
<1>. QED
  BY <1>4

\* What is there at the end of block d was made in another block than the one renamed.
Before(v, d) ==
  v.k = "inst" => \E c \in DOMAIN func : \E q \in DOMAIN func[c] :
                    Defines(func, c, q, v) /\ ByTheEnd(graph, c, d) /\ c # Rpd.bb

\* The value that comes to a block where the variable is live, and without a phi, is that
\* of a block that dominates this one.
LEMMA ComesFromAbove ==
  ASSUME JInv, worklist # <<>>, Rpd.bb \notin visited, NEW k \in DOMAIN allocas, NEW Def, NEW Live, PlanOf(k, Def, Live),
         Rpd.bb \in Live, <<Rpd.bb, k>> \notin DOMAIN newPhis
  PROVE  \E d \in Def \cup Phied(graph, newPhis, k) \cup {Entry} : Dominates(graph, d, Rpd.bb) /\ Before(Rpd.vals[k], d)
<1>. DEFINE bb == Rpd.bb
            P == Phied(graph, newPhis, k)
<1>1. /\ IInv /\ WalkKept /\ bb \in Reachable(graph) /\ graph \in Graphs /\ bb \in DOMAIN graph /\ DOMAIN func = DOMAIN graph
      /\ visited \subseteq Reachable(graph)
  BY RenamedBlockIs DEF JInv
<1>2. Len(worklist) \in DOMAIN worklist /\ Rpd = worklist[Len(worklist)] /\ FromVisited(Rpd) /\ Rpd.pred \in Nat
  BY <1>1, TopIs DEF Rpd
<1>3. Carried(graph, func, Rpd, k, Def, Live, P)
  BY <1>2 DEF PlanOf
<1>4. bb \notin P
  BY DEF Phied
<1>. HIDE DEF P
<1>5. CASE Rpd.pred = 0
  <2>1. Rpd.vals[k] = Undef
    BY <1>3, <1>5 DEF Carried
  <2>2. Before(Rpd.vals[k], Entry)
    BY <2>1 DEF Before, Undef
  <2>3. Dominates(graph, Entry, bb)
    BY DEF Dominates
  <2>. QED
    BY <2>2, <2>3
<1>6. CASE Rpd.pred # 0
  <2>1. PICK d \in Def \cup P \cup {Entry} : Dominates(graph, d, Rpd.pred) /\ AvailEnd(graph, func, Rpd.vals[k], d)
    BY <1>3, <1>6 DEF Carried
  <2>2. Rpd.pred \in visited /\ bb \in Succs(graph, Rpd.pred)
    BY <1>2, <1>6 DEF FromVisited
  <2>3. Rpd.pred \in Reachable(graph) /\ Rpd.pred \in DOMAIN graph
    BY <1>1, <2>2, ReachableIs
  <2>4. bb \in Frontier(graph, d) \/ (d # bb /\ Dominates(graph, d, bb))
    BY <1>1, <2>1, <2>2, <2>3, FrontierIs
  <2>5. d \in Reachable(graph)
    BY <1>1, <2>1, <2>3, DominatorReachable
  <2>6. bb \notin Frontier(graph, d)
    <3>1. CASE d \in Def \cup P
      <4>1. Frontier(graph, d) \cap Live \subseteq P
        BY <2>5, <3>1 DEF PlanOf, Flows, P
      <4>. QED
        BY <1>4, <4>1
    <3>2. CASE d = Entry
      <4>1. Dominates(graph, Entry, bb)
        BY DEF Dominates
      <4>2. bb # Entry
        BY <1>1, <2>2, <2>3, SuccsAre
      <4>. QED
        BY <3>2, <4>1, <4>2 DEF Frontier
    <3>. QED
      BY <3>1, <3>2
  <2>7. d # bb /\ Dominates(graph, d, bb)
    BY <2>4, <2>6
  <2>8. Before(Rpd.vals[k], d)
    <3>. SUFFICES ASSUME Rpd.vals[k].k = "inst"
         PROVE \E c \in DOMAIN func : \E q \in DOMAIN func[c] : Defines(func, c, q, Rpd.vals[k]) /\ ByTheEnd(graph, c, d) /\ c # bb
      BY DEF Before
    <3>1. PICK c \in DOMAIN func : \E q \in DOMAIN func[c] : Defines(func, c, q, Rpd.vals[k]) /\ ByTheEnd(graph, c, d)
      BY <2>1 DEF AvailEnd
    <3>2. c # bb
      <4>. SUFFICES ASSUME c = bb PROVE FALSE
        OBVIOUS
      <4>1. Dominates(graph, bb, d)
        BY <2>5, <3>1 DEF ByTheEnd
      <4>. QED
        BY <1>1, <2>7, <4>1, DominatesAntisymmetric
    <3>. QED
      BY <3>1, <3>2
  <2>. QED
    BY <2>1, <2>7, <2>8 DEF P
<1>. QED
  BY <1>5, <1>6

\* Such a value is good everywhere in the block.
LEMMA BeforeSound ==
  ASSUME JInv, worklist # <<>>, NEW v, NEW d, Dominates(graph, d, Rpd.bb), Before(v, d)
  PROVE  \A p : Sound(v, p)
<1>1. Rpd.bb \in Reachable(graph) /\ graph \in Graphs
  BY RenamedBlockIs
<1>2. d \in Reachable(graph)
  BY <1>1, DominatorReachable
<1>. SUFFICES ASSUME NEW p, v.k = "inst"
     PROVE \E c \in DOMAIN func : \E q \in DOMAIN func[c] :
             Defines(func, c, q, v) /\ Earlier(graph, c, q, Rpd.bb, p) /\ ~Listed(c, q)
  BY DEF Sound
<1>3. PICK c \in DOMAIN func : \E q \in DOMAIN func[c] : Defines(func, c, q, v) /\ ByTheEnd(graph, c, d) /\ c # Rpd.bb
  BY DEF Before
<1>4. Dominates(graph, c, Rpd.bb)
  BY <1>1, <1>2, <1>3, DominatesTransitive DEF ByTheEnd
<1>5. \A q : Earlier(graph, c, q, Rpd.bb, p) /\ ~Listed(c, q)
  BY <1>3, <1>4 DEF Earlier, Listed
<1>. QED
  BY <1>3, <1>5

\* A phi that was placed in the block is good wherever no other placed phi is.
LEMMA PhiSound ==
  ASSUME JInv, worklist # <<>>, NEW k, <<Rpd.bb, k>> \in DOMAIN newPhis
  PROVE  /\ \A p \in DOMAIN func[Rpd.bb] : func[Rpd.bb][p].op # "phi" => Sound(Inst(newPhis[<<Rpd.bb, k>>]), p)
         /\ Sound(Inst(newPhis[<<Rpd.bb, k>>]), Len(func[Rpd.bb]) + 1)
         /\ NoAlloca(Inst(newPhis[<<Rpd.bb, k>>]))
<1>. DEFINE bb == Rpd.bb
            phi == newPhis[<<bb, k>>]
            v == Inst(phi)
<1>1. /\ IInv /\ bb \in DOMAIN func /\ DOMAIN func[bb] = 1 .. Len(func[bb]) /\ Len(func[bb]) \in Nat /\ stage = "rename"
      /\ DOMAIN allocas = 1 .. num - 1 /\ PhisPlaced(func, newPhis)
      /\ graph \in Graphs /\ func \in [DOMAIN graph -> Seq(Instr)] /\ DOMAIN func = DOMAIN graph /\ Unique(func)
  BY RenamedBlockIs DEF JInv, PhisKeep
<1>2. PICK r \in DOMAIN func[bb] : func[bb][r].id = phi /\ func[bb][r].op = "phi"
  <2>1. <<bb, k>>[1] = bb
    OBVIOUS
  <2>. QED
    BY <1>1, <2>1 DEF PhisPlaced, KeysPlaced
<1>3. v.k = "inst" /\ v.n = phi
  BY DEF Inst
<1>4. Defines(func, bb, r, v)
  BY <1>2, <1>3 DEF Defines
<1>5. ~Listed(bb, r)
  BY <1>2 DEF Listed, Accessing, StoresTo, LoadsFrom
<1>6. phi \in Range(newPhis)
  BY DEF Range
<1>. HIDE DEF phi, v
<1>7. ASSUME NEW p \in Nat, r < p PROVE Sound(v, p)
  <2>1. Earlier(graph, bb, r, bb, p)
    BY <1>7 DEF Earlier
  <2>. HIDE DEF bb
  <2>. QED
    BY <1>1, <1>4, <1>5, <2>1 DEF Sound, bb
<1>8. ASSUME NEW p \in DOMAIN func[bb], func[bb][p].op # "phi" PROVE r < p
  <2>1. r \in Nat /\ p \in Nat /\ r # p
    BY <1>1, <1>2, <1>8
  <2>2. ASSUME p < r PROVE FALSE
    <3>1. p \in 1 .. r - 1
      BY <1>1, <2>1, <2>2
    <3>2. func[bb][p].id \in Range(newPhis)
      BY <1>1, <1>2, <1>6, <3>1 DEF PhisPlaced, InFront
    <3>3. func[bb][p].op = "phi"
      BY <1>1, <3>2, PlacedPhiIs DEF JInv
    <3>. QED
      BY <1>8, <3>3
  <2>. QED
    BY <2>1, <2>2
<1>9. NoAlloca(v)
  <2>. SUFFICES ASSUME NEW i \in DOMAIN allocas, v = Inst(allocas[i]) PROVE FALSE
    BY DEF NoAlloca
  <2>1. allocas[i] = phi
    BY <1>3 DEF Inst
  <2>2. Has(func, allocas[i], "phi")
    BY <1>1, <1>2, <2>1 DEF Has
  <2>3. "phi" = "alloca"
    BY <1>1, <2>2, WalkedAllocas
  <2>. QED
    BY <2>3
<1>10. \A p \in DOMAIN func[bb] : func[bb][p].op # "phi" => Sound(v, p)
  <2>1. \A p \in DOMAIN func[bb] : p \in Nat
    BY <1>1
  <2>. QED
    BY <1>7, <1>8, <2>1
<1>11. Sound(v, Len(func[bb]) + 1)
  <2>1. Len(func[bb]) + 1 \in Nat /\ r < Len(func[bb]) + 1
    BY <1>1
  <2>. QED
    BY <1>7, <2>1
<1>. QED
  BY <1>9, <1>10, <1>11 DEF v, phi

\* The values that the walk through the block starts with.
LEMMA StartsAre ==
  ASSUME JInv, worklist # <<>>, Rpd.bb \notin visited
  PROVE  /\ Starts(EnterBlock(Rpd).vals)
         /\ \A k \in DOMAIN allocas : EnterBlock(Rpd).vals[k] =
              IF <<Rpd.bb, k>> \in DOMAIN newPhis THEN Inst(newPhis[<<Rpd.bb, k>>]) ELSE Rpd.vals[k]
<1>. DEFINE start == EnterBlock(Rpd).vals
<1>1. IInv /\ PhisKeep /\ WalkKept /\ Plans
  BY DEF JInv
<1>2. Len(worklist) \in DOMAIN worklist /\ Rpd = worklist[Len(worklist)] /\ Rpd.vals \in [DOMAIN allocas -> Operand]
  BY <1>1, TopIs DEF Rpd
<1>3. \A k \in DOMAIN allocas : start[k] =
              IF <<Rpd.bb, k>> \in DOMAIN newPhis THEN Inst(newPhis[<<Rpd.bb, k>>]) ELSE Rpd.vals[k]
  BY <1>1, <1>2, EnteredAt DEF Entered
<1>. HIDE DEF start
<1>4. \A k \in DOMAIN allocas : NoAlloca(Rpd.vals[k])
  BY <1>1, <1>2 DEF Plans, NoAlloca
<1>5. ASSUME NEW k \in DOMAIN allocas
      PROVE  /\ NoAlloca(start[k])
             /\ \A p \in DOMAIN func[Rpd.bb] : LoadsFrom(func, Rpd.bb, p, allocas[k]) /\ ~StoredBefore(k, p - 1) => Sound(start[k], p)
  <2>1. CASE <<Rpd.bb, k>> \in DOMAIN newPhis
    <3>1. start[k] = Inst(newPhis[<<Rpd.bb, k>>])
      BY <1>3, <2>1
    <3>2. NoAlloca(start[k]) /\ \A p \in DOMAIN func[Rpd.bb] : func[Rpd.bb][p].op # "phi" => Sound(start[k], p)
      BY <2>1, <3>1, PhiSound
    <3>. QED
      BY <3>2 DEF LoadsFrom
  <2>2. CASE <<Rpd.bb, k>> \notin DOMAIN newPhis
    <3>1. start[k] = Rpd.vals[k]
      BY <1>3, <2>2
    <3>2. ASSUME NEW p \in DOMAIN func[Rpd.bb], LoadsFrom(func, Rpd.bb, p, allocas[k]), ~StoredBefore(k, p - 1)
          PROVE  Sound(start[k], p)
      <4>1. PICK Def, Live : PlanOf(k, Def, Live)
        BY PlanExists
      <4>2. Rpd.bb \in DOMAIN func /\ DOMAIN func[Rpd.bb] = 1 .. Len(func[Rpd.bb]) /\ Len(func[Rpd.bb]) \in Nat
        BY RenamedBlockIs
      <4>3. \A r \in 1 .. p - 1 : ~StoresTo(func, Rpd.bb, r, allocas[k])
        BY <3>2, <4>2 DEF StoredBefore
      <4>4. Rpd.bb \in Live
        BY <3>2, <4>1, <4>2, <4>3 DEF PlanOf, Covers
      <4>5. PICK d \in Def \cup Phied(graph, newPhis, k) \cup {Entry} : Dominates(graph, d, Rpd.bb) /\ Before(Rpd.vals[k], d)
        BY <2>2, <4>1, <4>4, ComesFromAbove
      <4>6. Sound(Rpd.vals[k], p)
        BY <4>5, BeforeSound
      <4>. QED
        BY <3>1, <4>6
    <3>. QED
      BY <1>4, <3>1, <3>2
  <2>. QED
    BY <2>1, <2>2
<1>. QED
  BY <1>3, <1>5 DEF Starts, start

-----------------------------------------------------------------------------
(* The worklist after the block.                                           *)

\* One item of the worklist for each successor of a block.
Items(wl, bb, vals) ==
  /\ wl \in Seq(RenamePassData)
  /\ \A k \in DOMAIN wl : wl[k].bb \in Succs(graph, bb) /\ wl[k].pred = bb /\ wl[k].vals = vals
  /\ \A k, l \in DOMAIN wl : wl[k].bb = wl[l].bb => k = l
  /\ \A s \in Succs(graph, bb) : \E k \in DOMAIN wl : wl[k].bb = s

FirstPlaces(s) == {k \in DOMAIN s : \A j \in 1 .. k - 1 : s[j] # s[k]}
\* firsts is s without repetitions.
Distinct(firsts, s) ==
  /\ \A k \in DOMAIN firsts : firsts[k] \in ToSet(s)
  /\ \A k, l \in DOMAIN firsts : firsts[k] = firsts[l] => k = l
  /\ \A x \in ToSet(s) : \E k \in DOMAIN firsts : firsts[k] = x
LEMMA FirstsAre ==
  ASSUME NEW S, NEW s \in Seq(S)
  PROVE  Picked(s, FirstPlaces(s)) \in Seq(S) /\ Distinct(Picked(s, FirstPlaces(s)), s)
<1>. DEFINE P == FirstPlaces(s)
            firsts == Picked(s, P)
<1>1. P \subseteq DOMAIN s
  BY DEF FirstPlaces
<1>2. firsts \in Seq(S) /\ HasOnly(firsts, s, P)
  BY <1>1, PickedIs, Zenon
<1>. HIDE DEF firsts
<1>3. PICK from \in [DOMAIN firsts -> P] :
        /\ \A k \in DOMAIN firsts : firsts[k] = s[from[k]]
        /\ \A k, l \in DOMAIN firsts : k < l => from[k] < from[l]
        /\ \A p \in P : \E k \in DOMAIN firsts : from[k] = p
  BY <1>2 DEF HasOnly
<1>4. DOMAIN s = 1 .. Len(s) /\ Len(s) \in Nat /\ DOMAIN firsts = 1 .. Len(firsts) /\ Len(firsts) \in Nat
  BY <1>2
<1>5. \A p \in P : p \in Nat /\ p \in DOMAIN s /\ \A j \in 1 .. p - 1 : s[j] # s[p]
  BY <1>4 DEF FirstPlaces
<1>6. \A k \in DOMAIN firsts : firsts[k] \in ToSet(s)
  BY <1>3, <1>5 DEF ToSet
<1>7. ASSUME NEW k \in DOMAIN firsts, NEW l \in DOMAIN firsts, firsts[k] = firsts[l] PROVE k = l
  <2>1. s[from[k]] = s[from[l]] /\ from[k] \in P /\ from[l] \in P
    BY <1>3, <1>7
  <2>2. ~(from[k] < from[l]) /\ ~(from[l] < from[k])
    <3>1. ASSUME from[k] < from[l] PROVE FALSE
      <4>1. from[k] \in 1 .. from[l] - 1
        BY <1>4, <1>5, <2>1, <3>1
      <4>. QED
        BY <1>5, <2>1, <4>1
    <3>2. ASSUME from[l] < from[k] PROVE FALSE
      <4>1. from[l] \in 1 .. from[k] - 1
        BY <1>4, <1>5, <2>1, <3>2
      <4>. QED
        BY <1>5, <2>1, <4>1
    <3>. QED
      BY <3>1, <3>2
  <2>3. ~(k < l) /\ ~(l < k)
    BY <1>3, <2>2
  <2>. QED
    BY <1>4, <2>3
<1>8. ASSUME NEW x \in ToSet(s) PROVE \E k \in DOMAIN firsts : firsts[k] = x
  <2>. DEFINE T == {k \in DOMAIN s : s[k] = x}
  <2>1. T # {} /\ T \subseteq Nat
    BY <1>4 DEF ToSet
  <2>2. PICK m \in T : \A j \in T : m <= j
    <3>. HIDE DEF T
    <3>. QED
      BY <2>1, LeastIs
  <2>3. m \in P
    <3>1. m \in DOMAIN s /\ s[m] = x
      OBVIOUS
    <3>2. ASSUME NEW j \in 1 .. m - 1 PROVE s[j] # s[m]
      <4>1. j \in DOMAIN s /\ ~(m <= j)
        BY <1>4, <3>1
      <4>. QED
        BY <2>2, <3>1, <4>1
    <3>. QED
      BY <3>1, <3>2 DEF FirstPlaces
  <2>4. PICK k \in DOMAIN firsts : from[k] = m
    BY <1>3, <2>3
  <2>. QED
    BY <1>3, <2>4
<1>. QED
  BY <1>2, <1>6, <1>7, <1>8 DEF firsts, Distinct

\* The first goes to the end.
Turned(firsts) == IF firsts = <<>> THEN <<>> ELSE Append(Tail(firsts), Head(firsts))
Permuted(turned, firsts) ==
  \E from \in [DOMAIN turned -> DOMAIN firsts] :
    /\ \A k \in DOMAIN turned : turned[k] = firsts[from[k]]
    /\ \A k, l \in DOMAIN turned : from[k] = from[l] => k = l
    /\ \A p \in DOMAIN firsts : \E k \in DOMAIN turned : from[k] = p
LEMMA TurnedAre ==
  ASSUME NEW S, NEW firsts \in Seq(S)
  PROVE  Turned(firsts) \in Seq(S) /\ Permuted(Turned(firsts), firsts)
<1>. DEFINE turned == Turned(firsts)
<1>3. turned = IF firsts = <<>> THEN <<>> ELSE Append(Tail(firsts), Head(firsts))
  BY DEF Turned
<1>. HIDE DEF turned
<1>1. CASE firsts = <<>>
  <2>. DEFINE from == [k \in DOMAIN turned |-> k]
  <2>1. DOMAIN turned = {} /\ DOMAIN firsts = {}
    BY <1>1, <1>3
  <2>2. from \in [DOMAIN turned -> DOMAIN firsts]
    BY <2>1
  <2>3. turned \in Seq(S)
    BY <1>1, <1>3
  <2>. HIDE DEF from
  <2>4. Permuted(turned, firsts)
    BY <2>1, <2>2 DEF Permuted
  <2>. QED
    BY <2>3, <2>4 DEF turned
<1>2. CASE firsts # <<>>
  <2>. DEFINE n == Len(firsts)
              from == [k \in 1 .. n |-> IF k = n THEN 1 ELSE k + 1]
  <2>1. n \in Nat /\ n # 0 /\ DOMAIN firsts = 1 .. n
    BY <1>2
  <2>2. turned = Append(Tail(firsts), Head(firsts))
    BY <1>2, <1>3
  <2>3. turned \in Seq(S) /\ Len(turned) = n /\ DOMAIN turned = 1 .. n
    BY <1>2, <2>2
  <2>11. n = Len(firsts)
    OBVIOUS
  <2>. HIDE DEF n
  <2>4. ASSUME NEW k \in 1 .. n PROVE turned[k] = IF k = n THEN firsts[1] ELSE firsts[k + 1]
    <3>1. Tail(firsts) \in Seq(S) /\ Len(Tail(firsts)) = n - 1 /\ Head(firsts) = firsts[1]
      BY <1>2, <2>1, <2>11
    <3>2. k \in 1 .. n - 1 => Tail(firsts)[k] = firsts[k + 1]
      BY <1>2, <2>1, <2>11
    <3>3. CASE k = n
      <4>1. Append(Tail(firsts), Head(firsts))[Len(Tail(firsts)) + 1] = Head(firsts)
        BY <3>1
      <4>2. Len(Tail(firsts)) + 1 = n
        BY <2>1, <3>1
      <4>. QED
        BY <2>2, <3>1, <3>3, <4>1, <4>2
    <3>4. CASE k # n
      <4>1. k \in 1 .. n - 1
        BY <2>1, <3>4
      <4>2. Append(Tail(firsts), Head(firsts))[k] = Tail(firsts)[k]
        BY <2>1, <3>1, <4>1
      <4>. QED
        BY <2>2, <3>2, <3>4, <4>1, <4>2
    <3>. QED
      BY <3>3, <3>4
  <2>5. from \in [1 .. n -> 1 .. n]
    BY <2>1
  <2>6. \A k \in 1 .. n : turned[k] = firsts[from[k]]
    BY <2>4
  <2>7. \A k, l \in 1 .. n : from[k] = from[l] => k = l
    BY <2>1
  <2>8. ASSUME NEW p \in 1 .. n PROVE \E k \in 1 .. n : from[k] = p
    <3>1. CASE p = 1
      <4>1. n \in 1 .. n /\ from[n] = p
        BY <2>1, <3>1
      <4>. QED
        BY <4>1
    <3>2. CASE p # 1
      <4>1. p - 1 \in 1 .. n /\ p - 1 # n /\ (p - 1) + 1 = p
        BY <2>1, <3>2
      <4>2. from[p - 1] = p
        BY <4>1
      <4>. HIDE DEF from
      <4>. QED
        BY <4>1, <4>2
    <3>. QED
      BY <3>1, <3>2
  <2>. HIDE DEF from
  <2>9. DOMAIN turned = 1 .. n /\ DOMAIN firsts = 1 .. n /\ Len(firsts) = n
    BY <2>1, <2>3, <2>11
  <2>10. /\ from \in [DOMAIN turned -> DOMAIN firsts]
         /\ \A k \in DOMAIN turned : turned[k] = firsts[from[k]]
         /\ \A k, l \in DOMAIN turned : from[k] = from[l] => k = l
         /\ \A p \in DOMAIN firsts : \E k \in DOMAIN turned : from[k] = p
    BY <2>5, <2>6, <2>7, <2>8, <2>9
  <2>12. Permuted(turned, firsts)
    BY <2>10 DEF Permuted
  <2>. QED
    BY <2>3, <2>12 DEF turned
<1>. QED
  BY <1>1, <1>2

LEMMA PushedAre ==
  ASSUME IInv, NEW bb \in DOMAIN graph, NEW vals \in [DOMAIN allocas -> Operand]
  PROVE  Items(Pushed(bb, vals), bb, vals)
<1>. DEFINE s == graph[bb]
            firsts == Picked(s, FirstPlaces(s))
            turned == Turned(firsts)
            q == Pushed(bb, vals)
<1>1. q \in Seq(RenamePassData)
  BY PushedIs DEF IInv
<1>2. s \in Seq(Nat)
  <2>1. graph \in Graphs
    BY StateIs
  <2>. QED
    BY <2>1, GraphIs
<1>3. q = [k \in DOMAIN turned |-> [bb |-> turned[k], pred |-> bb, vals |-> vals]]
  BY DEF Pushed, FirstPlaces, Turned
<1>4. Succs(graph, bb) = ToSet(s)
  BY DEF Succs
<1>. HIDE DEF s, q
<1>5. firsts \in Seq(Nat) /\ Distinct(firsts, s)
  BY <1>2, FirstsAre
<1>. HIDE DEF firsts
<1>11. Permuted(turned, firsts)
  BY <1>5, TurnedAre
<1>. HIDE DEF turned
<1>6. PICK from \in [DOMAIN turned -> DOMAIN firsts] :
              /\ \A k \in DOMAIN turned : turned[k] = firsts[from[k]]
              /\ \A k, l \in DOMAIN turned : from[k] = from[l] => k = l
              /\ \A p \in DOMAIN firsts : \E k \in DOMAIN turned : from[k] = p
  BY <1>11 DEF Permuted
<1>7. DOMAIN q = DOMAIN turned /\ \A k \in DOMAIN q : q[k].bb = turned[k] /\ q[k].pred = bb /\ q[k].vals = vals
  BY <1>3
<1>8. \A k \in DOMAIN q : q[k].bb \in Succs(graph, bb) /\ q[k].pred = bb /\ q[k].vals = vals
  BY <1>4, <1>5, <1>6, <1>7 DEF Distinct
<1>9. \A k, l \in DOMAIN q : q[k].bb = q[l].bb => k = l
  BY <1>5, <1>6, <1>7 DEF Distinct
<1>10. ASSUME NEW x \in Succs(graph, bb) PROVE \E k \in DOMAIN q : q[k].bb = x
  <2>1. PICK p \in DOMAIN firsts : firsts[p] = x
    BY <1>4, <1>5 DEF Distinct
  <2>2. PICK k \in DOMAIN turned : from[k] = p
    BY <1>6
  <2>. QED
    BY <1>6, <1>7, <2>1, <2>2
<1>. QED
  BY <1>1, <1>8, <1>9, <1>10 DEF Items, q

-----------------------------------------------------------------------------
(* What the walk through the block makes of the function.                  *)

Walked == Renamed(EnterBlock(Rpd).code, EnterBlock(Rpd).vals)

LEMMA WalkedIs ==
  ASSUME JInv, worklist # <<>>, Rpd.bb \notin visited
  PROVE  SoFar(Walked, Len(func[Rpd.bb]), EnterBlock(Rpd).vals)
<1>. DEFINE code == EnterBlock(Rpd).code
            start == EnterBlock(Rpd).vals
            h == Entering
<1>1. IInv /\ PhisKeep /\ WalkKept /\ Rpd.bb \in DOMAIN func /\ func \in [DOMAIN graph -> Seq(Instr)] /\ DOMAIN func = DOMAIN graph
      /\ DOMAIN func[Rpd.bb] = 1 .. Len(func[Rpd.bb]) /\ Len(func[Rpd.bb]) \in Nat
  BY RenamedBlockIs DEF JInv
<1>2. h \in [DOMAIN graph -> Seq(Instr)] /\ SamePlaces(h, func) /\ start \in [DOMAIN allocas -> Operand]
  BY <1>1, EnteredAt
<1>3. h[Rpd.bb] = code
  BY <1>1 DEF Entering
<1>4. Starts(start)
  BY StartsAre
<1>. HIDE DEF code, start, h
<1>5. code \in Seq(Instr) /\ DOMAIN code = DOMAIN func[Rpd.bb] /\ \A p \in DOMAIN code : Alike(code[p], func[Rpd.bb][p])
  BY <1>1, <1>2, <1>3 DEF SamePlaces, Alike
<1>6. Len(code) = Len(func[Rpd.bb])
  BY <1>1, <1>5
<1>7. SoFar(Renamed(code, start), Len(code), start)
  BY <1>2, <1>4, <1>5, WalkSound
<1>. QED
  BY <1>6, <1>7 DEF Walked, code, start

\* What is listed goes, and nothing else.
LEMMA GoneAre ==
  ASSUME JInv, worklist # <<>>, Rpd.bb \notin visited
  PROVE  /\ \A c \in DOMAIN func : \A q \in DOMAIN func[c] : func[c][q].id \in Walked.gone <=> Listed(c, q)
         /\ \A c \in DOMAIN func : \A q \in DOMAIN func[c] :
              func[c][q].id \in DOMAIN Walked.by <=> Listed(c, q) /\ func[c][q].op = "load"
         /\ \A x \in Walked.gone : \E c \in DOMAIN func : \E q \in DOMAIN func[c] : Listed(c, q) /\ func[c][q].id = x
         /\ \A x \in DOMAIN Walked.by : \E c \in DOMAIN func : \E q \in DOMAIN func[c] : Listed(c, q) /\ func[c][q].id = x /\ func[c][q].op = "load"
<1>. DEFINE bb == Rpd.bb
            n == Len(func[bb])
<1>1. bb \in DOMAIN func /\ DOMAIN func[bb] = 1 .. n /\ n \in Nat /\ Unique(func)
  BY RenamedBlockIs
<1>2. GoneIs(Walked.gone, n) /\ ByIs(Walked.by, n)
  BY WalkedIs DEF SoFar
<1>3. \A q \in DOMAIN func[bb] : ListedBefore(q, n) <=> Listed(bb, q)
  BY <1>1 DEF ListedBefore
<1>. HIDE DEF n
<1>4. \A x : x \in Walked.gone <=> \E q \in DOMAIN func[bb] : Listed(bb, q) /\ func[bb][q].id = x
  BY <1>2, <1>3 DEF GoneIs
<1>5. \A x : x \in DOMAIN Walked.by <=> \E q \in DOMAIN func[bb] : Listed(bb, q) /\ func[bb][q].op = "load" /\ func[bb][q].id = x
  BY <1>2, <1>3 DEF ByIs, LoadAt
<1>6. ASSUME NEW c \in DOMAIN func, NEW q \in DOMAIN func[c]
      PROVE  /\ func[c][q].id \in Walked.gone <=> Listed(c, q)
             /\ func[c][q].id \in DOMAIN Walked.by <=> Listed(c, q) /\ func[c][q].op = "load"
  <2>1. ASSUME NEW r \in DOMAIN func[bb], func[bb][r].id = func[c][q].id PROVE c = bb /\ r = q
    BY <1>1, <2>1, PlaceIsOne
  <2>2. Listed(c, q) => c = bb
    BY DEF Listed
  <2>. HIDE DEF bb
  <2>. QED
    BY <1>4, <1>5, <2>1, <2>2
<1>. HIDE DEF bb
<1>. QED
  BY <1>1, <1>4, <1>5, <1>6

\* What is good at a place stays.
LEMMA SoundStays ==
  ASSUME JInv, worklist # <<>>, Rpd.bb \notin visited, NEW v, NEW p, Sound(v, p)
  PROVE  /\ v.k = "inst" => v.n \notin Walked.gone
         /\ AvailAt(graph, func, v, Rpd.bb, p) /\ AvailEnd(graph, func, v, Rpd.bb)
<1>1. CASE v.k = "inst"
  <2>1. PICK c \in DOMAIN func : \E q \in DOMAIN func[c] :
          Defines(func, c, q, v) /\ Earlier(graph, c, q, Rpd.bb, p) /\ ~Listed(c, q)
    BY <1>1 DEF Sound
  <2>2. PICK q \in DOMAIN func[c] : Defines(func, c, q, v) /\ Earlier(graph, c, q, Rpd.bb, p) /\ ~Listed(c, q)
    BY <2>1
  <2>3. v.n \notin Walked.gone
    BY <2>2, GoneAre DEF Defines
  <2>4. ByTheEnd(graph, c, Rpd.bb)
    BY <2>2 DEF Earlier, ByTheEnd, Dominates
  <2>. QED
    BY <2>2, <2>3, <2>4 DEF AvailAt, AvailEnd
<1>. QED
  BY <1>1 DEF AvailAt, AvailEnd

LEMMA BeforeStays ==
  ASSUME JInv, worklist # <<>>, Rpd.bb \notin visited, NEW v, NEW d, Before(v, d)
  PROVE  (v.k = "inst" => v.n \notin Walked.gone) /\ AvailEnd(graph, func, v, d)
<1>1. CASE v.k = "inst"
  <2>1. PICK c \in DOMAIN func : \E q \in DOMAIN func[c] : Defines(func, c, q, v) /\ ByTheEnd(graph, c, d) /\ c # Rpd.bb
    BY <1>1 DEF Before
  <2>2. PICK q \in DOMAIN func[c] : Defines(func, c, q, v) /\ ByTheEnd(graph, c, d) /\ c # Rpd.bb
    BY <2>1
  <2>3. v.n \notin Walked.gone
    BY <2>2, GoneAre DEF Defines, Listed
  <2>. QED
    BY <2>2, <2>3 DEF AvailEnd
<1>. QED
  BY <1>1 DEF AvailEnd

LEMMA WalkSubstitutes ==
  ASSUME JInv, worklist # <<>>, Rpd.bb \notin visited
  PROVE  Substitutes(graph, Entering, Walked.by, Walked.gone)
<1>. DEFINE h == Entering
            by == Walked.by
            gone == Walked.gone
<1>1. IInv /\ PhisKeep /\ WalkKept
  BY DEF JInv
<1>2. SamePlaces(h, func) /\ h \in [DOMAIN graph -> Seq(Instr)] /\ Unique(h)
  BY <1>1, EnteredAt
<1>3. UsesDefined(graph, h)
  BY EnteredUses
<1>4. \A v, b, p : AvailAt(graph, func, v, b, p) => AvailAt(graph, h, v, b, p)
  BY <1>2, SamePlacesAre
<1>5. /\ \A c \in DOMAIN func : \A q \in DOMAIN func[c] : func[c][q].id \in gone <=> Listed(c, q)
      /\ \A c \in DOMAIN func : \A q \in DOMAIN func[c] :
           func[c][q].id \in DOMAIN by <=> Listed(c, q) /\ func[c][q].op = "load"
      /\ \A x \in gone : \E c \in DOMAIN func : \E q \in DOMAIN func[c] : Listed(c, q) /\ func[c][q].id = x
      /\ \A x \in DOMAIN by : \E c \in DOMAIN func : \E q \in DOMAIN func[c] : Listed(c, q) /\ func[c][q].id = x /\ func[c][q].op = "load"
  BY GoneAre
<1>6. ASSUME NEW c \in DOMAIN func, NEW q \in DOMAIN func[c], Listed(c, q), func[c][q].op = "load"
      PROVE  c = Rpd.bb /\ Sound(by[func[c][q].id], q)
  <2>1. c = Rpd.bb
    BY <1>6 DEF Listed
  <2>2. LoadsSound(by, Len(func[Rpd.bb]))
    BY WalkedIs DEF SoFar
  <2>3. DOMAIN func[Rpd.bb] = 1 .. Len(func[Rpd.bb]) /\ Len(func[Rpd.bb]) \in Nat
    BY RenamedBlockIs
  <2>4. LoadAt(q, Len(func[Rpd.bb]), func[c][q].id)
    BY <1>6, <2>1, <2>3 DEF LoadAt, ListedBefore
  <2>. QED
    BY <1>6, <2>1, <2>2, <2>4 DEF LoadsSound
<1>. HIDE DEF h, by, gone
<1>7. \A c \in DOMAIN func : \A q \in DOMAIN func[c] : h[c][q].id = func[c][q].id /\ h[c][q].op = func[c][q].op
  BY <1>2 DEF SamePlaces
<1>8. DOMAIN h = DOMAIN func /\ \A c \in DOMAIN func : DOMAIN h[c] = DOMAIN func[c]
  BY <1>2 DEF SamePlaces
<1>9. ASSUME NEW c \in DOMAIN h, NEW q \in DOMAIN h[c], h[c][q].id \in DOMAIN by
      PROVE  AvailAt(graph, h, by[h[c][q].id], c, q)
  <2>1. Listed(c, q) /\ func[c][q].op = "load"
    BY <1>5, <1>7, <1>8, <1>9
  <2>2. c = Rpd.bb /\ Sound(by[func[c][q].id], q)
    BY <1>6, <1>8, <2>1
  <2>3. AvailAt(graph, func, by[func[c][q].id], c, q)
    BY <2>2, SoundStays
  <2>. QED
    BY <1>4, <1>7, <1>8, <2>3
<1>10. ASSUME NEW x \in DOMAIN by, by[x].k = "inst" PROVE by[x].n \notin gone
  <2>1. PICK c \in DOMAIN func : \E q \in DOMAIN func[c] : Listed(c, q) /\ func[c][q].id = x /\ func[c][q].op = "load"
    BY <1>5
  <2>2. PICK q \in DOMAIN func[c] : Listed(c, q) /\ func[c][q].id = x /\ func[c][q].op = "load"
    BY <2>1
  <2>3. Sound(by[x], q)
    BY <1>6, <2>2
  <2>. QED
    BY <1>10, <2>3, SoundStays DEF gone
<1>11. ASSUME NEW b \in DOMAIN h, NEW p \in DOMAIN h[b], NEW v \in Reads(h[b][p]), v.k = "inst", v.n \in gone
       PROVE  v.n \in DOMAIN by
  <2>1. PICK c \in DOMAIN func : \E q \in DOMAIN func[c] : Listed(c, q) /\ func[c][q].id = v.n
    BY <1>5, <1>11
  <2>2. PICK q \in DOMAIN func[c] : Listed(c, q) /\ func[c][q].id = v.n
    BY <2>1
  <2>3. c \in DOMAIN h /\ q \in DOMAIN h[c] /\ h[c][q].id = v.n
    BY <1>7, <1>8, <2>2
  <2>4. h[c][q].op # "store"
    BY <1>2, <1>3, <1>11, <2>3, NoStoreIsRead
  <2>5. func[c][q].op = "load"
    BY <1>7, <2>2, <2>4 DEF Listed, Accessing, StoresTo, LoadsFrom
  <2>. QED
    BY <1>5, <2>2, <2>5
<1>. QED
  BY <1>9, <1>10, <1>11, Zenon DEF Substitutes, h, by, gone

\* What the block sends on to where a variable is live.
LEMMA SendsOn ==
  ASSUME JInv, worklist # <<>>, Rpd.bb \notin visited, NEW k \in DOMAIN allocas, NEW Def, NEW Live, PlanOf(k, Def, Live),
         NEW s \in Succs(graph, Rpd.bb), s \in Live
  PROVE  LET v == Walked.vals[k]
         IN /\ v.k = "inst" => v.n \notin Walked.gone
            /\ \E d \in Def \cup Phied(graph, newPhis, k) \cup {Entry} :
                 Dominates(graph, d, Rpd.bb) /\ AvailEnd(graph, func, v, d)
<1>. DEFINE bb == Rpd.bb
            n == Len(func[bb])
            v == Walked.vals[k]
            start == EnterBlock(Rpd).vals
            P == Phied(graph, newPhis, k)
<1>1. bb \in DOMAIN func /\ bb \in DOMAIN graph /\ DOMAIN func[bb] = 1 .. n /\ n \in Nat /\ graph \in Graphs
  BY RenamedBlockIs
<1>2. ValueSound(v, k, n, start)
  BY WalkedIs DEF SoFar, ValsSound
<1>3. start[k] = IF <<bb, k>> \in DOMAIN newPhis THEN Inst(newPhis[<<bb, k>>]) ELSE Rpd.vals[k]
  BY StartsAre
<1>4. Dominates(graph, bb, bb)
  BY DEF Dominates
<1>5. CASE StoredBefore(k, n)
  <2>1. Sound(v, n + 1)
    BY <1>2, <1>5 DEF ValueSound
  <2>2. bb \in Def
    BY <1>1, <1>5 DEF StoredBefore, PlanOf, Covers
  <2>. QED
    BY <1>4, <2>1, <2>2, SoundStays
<1>6. CASE ~StoredBefore(k, n) /\ <<bb, k>> \in DOMAIN newPhis
  <2>1. v = Inst(newPhis[<<bb, k>>])
    BY <1>2, <1>3, <1>6 DEF ValueSound
  <2>2. Sound(v, n + 1)
    BY <1>6, <2>1, PhiSound
  <2>3. bb \in P
    BY <1>1, <1>6 DEF Phied
  <2>. QED
    BY <1>4, <2>2, <2>3, SoundStays
<1>7. CASE ~StoredBefore(k, n) /\ <<bb, k>> \notin DOMAIN newPhis
  <2>1. v = Rpd.vals[k]
    BY <1>2, <1>3, <1>7 DEF ValueSound
  <2>2. \A q \in DOMAIN func[bb] : ~StoresTo(func, bb, q, allocas[k])
    BY <1>1, <1>7 DEF StoredBefore
  <2>3. bb \notin Def
    BY <2>2 DEF PlanOf, Stored
  <2>4. bb \in Preds(graph, s)
    BY <1>1 DEF Preds
  <2>5. bb \in Live
    BY <2>3, <2>4 DEF PlanOf, Flows
  <2>6. PICK d \in Def \cup P \cup {Entry} : Dominates(graph, d, bb) /\ Before(v, d)
    BY <1>7, <2>1, <2>5, ComesFromAbove
  <2>. QED
    BY <2>6, BeforeStays
<1>. QED
  BY <1>5, <1>6, <1>7

\* What the items that wait below the top bring was made in blocks that were renamed before.
LEMMA OthersBefore ==
  ASSUME JInv, worklist # <<>>, Rpd.bb \notin visited, NEW k \in DOMAIN allocas, NEW Def, NEW Live, PlanOf(k, Def, Live),
         NEW j \in DOMAIN worklist, worklist[j].bb \in Live
  PROVE  \/ worklist[j].pred = 0 /\ worklist[j].vals[k] = Undef
         \/ worklist[j].pred # 0 /\ \E d \in Def \cup Phied(graph, newPhis, k) \cup {Entry} :
              Dominates(graph, d, worklist[j].pred) /\ Before(worklist[j].vals[k], d)
<1>. DEFINE it == worklist[j]
            v == it.vals[k]
            P == Phied(graph, newPhis, k)
<1>1. WalkKept /\ graph \in Graphs /\ DOMAIN func = DOMAIN graph /\ visited \subseteq Reachable(graph)
  BY RenamedBlockIs DEF JInv
<1>2. Carried(graph, func, it, k, Def, Live, P) /\ FromVisited(it)
  BY <1>1 DEF PlanOf, WalkKept
<1>3. ASSUME it.pred # 0, NEW d \in Def \cup P \cup {Entry}, Dominates(graph, d, it.pred), AvailEnd(graph, func, v, d)
      PROVE  Before(v, d)
  <2>1. it.pred \in visited
    BY <1>2, <1>3 DEF FromVisited
  <2>2. d \in DOMAIN graph
    BY <1>1, <1>3, BlocksAreFinite DEF PlanOf, Phied
  <2>3. d \in visited /\ d \in Reachable(graph)
    BY <1>1, <1>3, <2>1, <2>2 DEF WalkKept
  <2>4. ASSUME NEW c \in DOMAIN func, ByTheEnd(graph, c, d) PROVE c # Rpd.bb
    <3>1. Dominates(graph, c, d)
      BY <2>3, <2>4 DEF ByTheEnd
    <3>2. c \in visited
      BY <1>1, <2>3, <3>1 DEF WalkKept
    <3>. QED
      BY <3>2
  <2>. HIDE DEF v
  <2>. QED
    BY <1>3, <2>4 DEF AvailEnd, Before
<1>. QED
  BY <1>2, <1>3 DEF Carried

\* The worklist wl without its top and with the items of the block.
WorklistThen(wl, vals) ==
  LET fr == Front(worklist)
      pushed == Pushed(Rpd.bb, vals)
  IN /\ \A j \in DOMAIN wl : \/ j \in DOMAIN fr /\ j \in DOMAIN worklist /\ wl[j] = worklist[j]
                             \/ \E i \in DOMAIN pushed : j = Len(fr) + i /\ wl[j] = pushed[i]
     /\ \A j \in DOMAIN fr : j \in DOMAIN wl /\ j # Len(worklist) /\ wl[j] = worklist[j]
     /\ \A i \in DOMAIN pushed : \E j \in DOMAIN wl : wl[j] = pushed[i]
     /\ Items(pushed, Rpd.bb, vals)

LEMMA WorklistIs ==
  ASSUME JInv, worklist # <<>>, NEW vals \in [DOMAIN allocas -> Operand], NEW wl, wl = Front(worklist) \o Pushed(Rpd.bb, vals)
  PROVE  WorklistThen(wl, vals)
<1>. DEFINE fr == Front(worklist)
            more == Pushed(Rpd.bb, vals)
<1>1. IInv /\ WalkKept /\ Rpd.bb \in DOMAIN graph
  BY RenamedBlockIs DEF JInv
<1>2. Items(more, Rpd.bb, vals)
  BY <1>1, PushedAre
<1>3. fr \in Seq(RenamePassData) /\ more \in Seq(RenamePassData)
  BY <1>1, <1>2, RpdIs DEF IInv, Items
<1>4. \A j \in DOMAIN fr : j \in DOMAIN worklist /\ j # Len(worklist) /\ fr[j] = worklist[j]
  BY <1>1, TopIs
<1>. HIDE DEF fr, more
<1>5. wl = fr \o more
  BY DEF fr, more
<1>6. \A j \in DOMAIN wl : \/ j \in DOMAIN fr /\ wl[j] = fr[j]
                           \/ j - Len(fr) \in DOMAIN more /\ wl[j] = more[j - Len(fr)] /\ j = Len(fr) + (j - Len(fr))
  BY <1>3, <1>5
<1>7. \A j \in DOMAIN fr : j \in DOMAIN wl /\ wl[j] = fr[j]
  BY <1>3, <1>5
<1>8. \A i \in DOMAIN more : Len(fr) + i \in DOMAIN wl /\ wl[Len(fr) + i] = more[i]
  BY <1>3, <1>5
<1>. QED
  BY <1>2, <1>4, <1>6, <1>7, <1>8 DEF fr, more, WorklistThen

\* The function after the step, and what it comes from.
LEMMA RenamedFuncIs ==
  ASSUME JInv, RenameBlock
  PROVE  /\ worklist # <<>> /\ Rpd.bb \notin visited
         /\ \E at : Rewritten(at, func', Entering, Walked.by, Walked.gone)
         /\ func' \in [DOMAIN graph -> Seq(Instr)] /\ Entering \in [DOMAIN graph -> Seq(Instr)] /\ Unique(Entering)
         /\ worklist' = Front(worklist) \o Pushed(Rpd.bb, Walked.vals) /\ Walked.vals \in [DOMAIN allocas -> Operand]
         /\ visited' = visited \cup {Rpd.bb} /\ graph' = graph /\ stage' = stage /\ stage = "rename" /\ newPhis' = newPhis
         /\ allocas' = allocas /\ num' = num /\ IInv' /\ IInv
<1>1. worklist # <<>> /\ Rpd.bb \notin visited /\ stage = "rename"
  BY DEF RenameBlock, Rpd
<1>2. IInv /\ IInv' /\ PhisKeep /\ WalkKept
  BY RenameBlockKeeps DEF JInv
<1>3. /\ func' = Erase(Replace(Entering, Walked.by), Walked.gone)
      /\ worklist' = Front(worklist) \o Pushed(Rpd.bb, Walked.vals)
      /\ visited' = visited \cup {Rpd.bb} /\ graph' = graph /\ stage' = stage /\ newPhis' = newPhis
      /\ allocas' = allocas /\ num' = num
  BY DEF RenameBlock, Rpd, Entering, Walked, VisitedWith
<1>4. Entering \in [DOMAIN graph -> Seq(Instr)] /\ Unique(Entering)
  BY <1>1, <1>2, EnteredAt
<1>5. Walked \in Accs(DOMAIN allocas, Nat)
  BY <1>1, WalkedIs DEF SoFar
<1>6. Walked.vals \in [DOMAIN allocas -> Operand] /\ \E D \in SUBSET Nat : Walked.by \in [D -> Operand]
  BY <1>5 DEF Accs
<1>7. PICK D \in SUBSET Nat : Walked.by \in [D -> Operand]
  BY <1>6
<1>8. \E at : Rewritten(at, func', Entering, Walked.by, Walked.gone)
  BY <1>3, <1>4, <1>7, RewrittenIs
<1>9. func' \in [DOMAIN graph -> Seq(Instr)]
  BY <1>2, <1>3 DEF IInv, TypeOK
<1>. QED
  BY <1>1, <1>2, <1>3, <1>4, <1>6, <1>8, <1>9

\* What the rewriting leaves alone.
LEMMA WalkSpares ==
  ASSUME JInv, worklist # <<>>, Rpd.bb \notin visited, NEW k \in DOMAIN allocas
  PROVE  /\ allocas[k] \notin DOMAIN Walked.by /\ \A x \in DOMAIN Walked.by : Walked.by[x] # Inst(allocas[k])
         /\ LoadsGoFirst(Entering, allocas[k], Walked.gone)
         /\ \A b \in DOMAIN func : b # Rpd.bb => \A q \in DOMAIN Entering[b] : Entering[b][q].id \notin Walked.gone
         /\ \A p \in DOMAIN newPhis : newPhis[p] \notin Walked.gone
<1>. DEFINE h == Entering
            a == allocas[k]
<1>1. IInv /\ PhisKeep /\ WalkKept /\ stage = "rename" /\ DOMAIN allocas = 1 .. num - 1
  BY RenamedBlockIs DEF JInv
<1>2. SamePlaces(h, func)
  BY <1>1, EnteredAt
<1>3. /\ \A c \in DOMAIN func : \A q \in DOMAIN func[c] : func[c][q].id \in Walked.gone <=> Listed(c, q)
      /\ \A x \in Walked.gone : \E c \in DOMAIN func : \E q \in DOMAIN func[c] : Listed(c, q) /\ func[c][q].id = x
      /\ \A x \in DOMAIN Walked.by : \E c \in DOMAIN func : \E q \in DOMAIN func[c] : Listed(c, q) /\ func[c][q].id = x /\ func[c][q].op = "load"
  BY GoneAre
<1>4. a \notin DOMAIN Walked.by
  <2>1. ~Has(func, a, "load")
    BY <1>1, WalkedAllocas
  <2>. QED
    BY <1>3, <2>1 DEF Has
<1>5. \A x \in DOMAIN Walked.by : Walked.by[x] # Inst(a)
  BY WalkedIs DEF SoFar, LoadsSound, NoAlloca
<1>. HIDE DEF h, a
<1>6. ASSUME NEW b \in DOMAIN func, b # Rpd.bb, NEW q \in DOMAIN h[b] PROVE h[b][q].id \notin Walked.gone
  <2>1. q \in DOMAIN func[b] /\ h[b][q].id = func[b][q].id
    BY <1>2 DEF SamePlaces
  <2>. QED
    BY <1>3, <1>6, <2>1 DEF Listed
<1>7. LoadsGoFirst(h, a, Walked.gone)
  <2>. SUFFICES ASSUME NEW b \in DOMAIN h
                PROVE  \/ \A q \in DOMAIN h[b] : StoresTo(h, b, q, a) => h[b][q].id \notin Walked.gone
                       \/ \A q \in DOMAIN h[b] : LoadsFrom(h, b, q, a) => h[b][q].id \in Walked.gone
    BY DEF LoadsGoFirst
  <2>1. CASE b # Rpd.bb
    BY <1>2, <1>6, <2>1 DEF SamePlaces
  <2>2. CASE b = Rpd.bb
    <3>1. ASSUME NEW q \in DOMAIN h[b], LoadsFrom(h, b, q, a) PROVE h[b][q].id \in Walked.gone
      <4>1. b \in DOMAIN func /\ q \in DOMAIN func[b] /\ h[b][q].id = func[b][q].id /\ LoadsFrom(func, b, q, a)
        BY <1>2, <3>1 DEF SamePlaces, LoadsFrom
      <4>2. Listed(b, q)
        BY <2>2, <4>1 DEF Listed, Accessing, a
      <4>. QED
        BY <1>3, <4>1, <4>2
    <3>. QED
      BY <3>1
  <2>. QED
    BY <2>1, <2>2
<1>8. ASSUME NEW p \in DOMAIN newPhis, newPhis[p] \in Walked.gone PROVE FALSE
  <2>1. PICK c \in DOMAIN func : \E q \in DOMAIN func[c] : Listed(c, q) /\ func[c][q].id = newPhis[p]
    BY <1>3, <1>8
  <2>2. PICK q \in DOMAIN func[c] : Listed(c, q) /\ func[c][q].id = newPhis[p]
    BY <2>1
  <2>3. IsAccess(func, newPhis[p])
    BY <2>2 DEF IsAccess, Has, Listed, Accessing, LoadsFrom, StoresTo
  <2>4. Has(func, newPhis[p], "phi") /\ Unique(func)
    BY <1>1 DEF IInv, PhisKept
  <2>. QED
    BY <2>3, <2>4, HasOneOp DEF IsAccess
<1>. QED
  BY <1>4, <1>5, <1>6, <1>7, <1>8 DEF h, a

-----------------------------------------------------------------------------
(* The phis and the walk, when a block is renamed.                         *)

LEMMA WaitingThen ==
  ASSUME JInv, RenameBlock
  PROVE  \A b, p : Waiting(worklist', b, p) <=> Waiting(Front(worklist), b, p) \/ (p = Rpd.bb /\ b \in Succs(graph, Rpd.bb))
<1>. DEFINE pushed == Pushed(Rpd.bb, Walked.vals)
            fr == Front(worklist)
<1>1. worklist # <<>> /\ worklist' = fr \o pushed /\ Walked.vals \in [DOMAIN allocas -> Operand]
  BY RenamedFuncIs
<1>2. /\ \A j \in DOMAIN worklist' : \/ j \in DOMAIN fr /\ j \in DOMAIN worklist /\ worklist'[j] = worklist[j]
                                     \/ \E i \in DOMAIN pushed : j = Len(fr) + i /\ worklist'[j] = pushed[i]
      /\ \A j \in DOMAIN fr : j \in DOMAIN worklist' /\ j # Len(worklist) /\ worklist'[j] = worklist[j]
      /\ \A i \in DOMAIN pushed : \E j \in DOMAIN worklist' : worklist'[j] = pushed[i]
      /\ Items(pushed, Rpd.bb, Walked.vals)
  <2>1. WorklistThen(worklist', Walked.vals)
    BY <1>1, WorklistIs
  <2>. QED
    BY <2>1 DEF WorklistThen
<1>3. \A j \in DOMAIN fr : fr[j] = worklist[j]
  BY <1>1, TopIs DEF JInv
<1>4. /\ \A i \in DOMAIN pushed : pushed[i].bb \in Succs(graph, Rpd.bb) /\ pushed[i].pred = Rpd.bb
      /\ \A s \in Succs(graph, Rpd.bb) : \E i \in DOMAIN pushed : pushed[i].bb = s
  BY <1>2 DEF Items
<1>. HIDE DEF pushed, fr
<1>5. ASSUME NEW b, NEW p, NEW j \in DOMAIN worklist', worklist'[j].bb = b, worklist'[j].pred = p
      PROVE  (\E i \in DOMAIN fr : fr[i].bb = b /\ fr[i].pred = p) \/ (p = Rpd.bb /\ b \in Succs(graph, Rpd.bb))
  BY <1>2, <1>3, <1>4, <1>5
<1>6. ASSUME NEW b, NEW p, NEW j \in DOMAIN fr, fr[j].bb = b, fr[j].pred = p
      PROVE  \E i \in DOMAIN worklist' : worklist'[i].bb = b /\ worklist'[i].pred = p
  BY <1>2, <1>3, <1>6
<1>7. ASSUME NEW b \in Succs(graph, Rpd.bb)
      PROVE  \E i \in DOMAIN worklist' : worklist'[i].bb = b /\ worklist'[i].pred = Rpd.bb
  <2>1. PICK i \in DOMAIN pushed : pushed[i].bb = b
    BY <1>4
  <2>2. PICK j \in DOMAIN worklist' : worklist'[j] = pushed[i]
    BY <1>2
  <2>. QED
    BY <1>4, <2>1, <2>2
<1>8. ASSUME NEW b, NEW p
      PROVE  (\E i \in DOMAIN worklist' : worklist'[i].bb = b /\ worklist'[i].pred = p)
             <=> (\E i \in DOMAIN fr : fr[i].bb = b /\ fr[i].pred = p) \/ (p = Rpd.bb /\ b \in Succs(graph, Rpd.bb))
  BY <1>5, <1>6, <1>7
<1>. QED
  BY <1>8 DEF Waiting, fr

\* The edges from a block begin to be waited for when it is visited.
LEMMA DueThen ==
  ASSUME JInv, RenameBlock, NEW b, NEW p \in DOMAIN graph
  PROVE  Due(graph, visited', worklist', b, p) = Due(graph, visited, Front(worklist), b, p)
<1>1. Rpd.bb \notin visited /\ visited' = visited \cup {Rpd.bb} /\ graph \in Graphs
  BY RenamedFuncIs, StateIs
<1>2. Waiting(worklist', b, p) <=> Waiting(Front(worklist), b, p) \/ (p = Rpd.bb /\ b \in Succs(graph, Rpd.bb))
  BY WaitingThen
<1>3. b \notin Succs(graph, p) => Edges(graph, p, b) = 0
  BY <1>1, EdgesThere
<1>. QED
  BY <1>1, <1>2, <1>3 DEF Due

LEMMA RenamedPhis ==
  ASSUME JInv, RenameBlock
  PROVE  PhisKeep'
<1>1. /\ worklist # <<>> /\ Rpd.bb \notin visited
      /\ func' \in [DOMAIN graph -> Seq(Instr)] /\ Entering \in [DOMAIN graph -> Seq(Instr)]
      /\ graph' = graph /\ newPhis' = newPhis /\ graph \in Graphs /\ DOMAIN func' = DOMAIN graph
  BY RenamedFuncIs, StateIs
<1>2. PICK at : Rewritten(at, func', Entering, Walked.by, Walked.gone)
  BY RenamedFuncIs
<1>3. \A p \in DOMAIN newPhis : newPhis[p] \notin Walked.gone
  <2>1. DOMAIN allocas # {}
    <3>1. IInv /\ stage = "rename"
      BY RenamedFuncIs
    <3>2. allocas # <<>> /\ allocas \in Seq(Nat)
      BY <3>1, StateIs DEF IInv, AllNumbered
    <3>3. 1 \in DOMAIN allocas
      BY <3>2
    <3>. QED
      BY <3>3
  <2>2. PICK k : k \in DOMAIN allocas
    BY <2>1
  <2>. QED
    BY <1>1, <2>2, WalkSpares
<1>4. PhisPlaced(func', newPhis)
  <2>1. PhisPlaced(Entering, newPhis)
    BY <1>1, EnteredPlans
  <2>2. \A k \in DOMAIN newPhis : newPhis[k] \notin Walked.gone => newPhis[k] \in Range(newPhis)
    BY DEF Range
  <2>. QED
    <3>. DEFINE h == Entering
               by == Walked.by
               gone == Walked.gone
               D == DOMAIN graph
    <3>2. h \in [D -> Seq(Instr)] /\ func' \in [D -> Seq(Instr)] /\ Rewritten(at, func', h, by, gone) /\ PhisPlaced(h, newPhis)
          /\ DOMAIN newPhis \subseteq DOMAIN newPhis
          /\ (\A k \in DOMAIN newPhis : newPhis[k] = newPhis[k] /\ newPhis[k] \notin gone)
          /\ (\A k \in DOMAIN newPhis : newPhis[k] \notin gone => newPhis[k] \in Range(newPhis))
      BY <1>1, <1>2, <1>3, <2>1, <2>2
    <3>. HIDE DEF h, by, gone, D
    <3>. QED
      BY <3>2, PhisRewritten, ZenonT(60)
<1>5. EntriesKept(graph, func', Range(newPhis), visited, Front(worklist))
  <2>1. EntriesKept(graph, Entering, Range(newPhis), visited, Front(worklist))
    BY <1>1, EnteredEntries
  <2>2. Range(newPhis) = Range(newPhis) \ Walked.gone
    BY <1>3 DEF Range
  <2>. QED
    BY <1>1, <1>2, <2>1, <2>2, EntriesRewritten
<1>6. EntriesKept(graph, func', Range(newPhis), visited', worklist')
  <2>1. \A b \in DOMAIN func' : \A p \in DOMAIN graph :
          Due(graph, visited', worklist', b, p) = Due(graph, visited, Front(worklist), b, p)
    BY DueThen
  <2>. QED
    BY <1>5, <2>1, EntriesByDue
<1>. QED
  BY <1>1, <1>4, <1>6 DEF PhisKeep

LEMMA RenamedWalk ==
  ASSUME JInv, RenameBlock
  PROVE  WalkKept'
<1>. DEFINE pushed == Pushed(Rpd.bb, Walked.vals)
            fr == Front(worklist)
            vis == visited \cup {Rpd.bb}
<1>1. /\ worklist # <<>> /\ worklist' = fr \o pushed /\ Walked.vals \in [DOMAIN allocas -> Operand]
      /\ visited' = vis /\ graph' = graph /\ stage' = "rename" /\ Rpd.bb \notin visited
  BY RenamedFuncIs
<1>2. /\ \A j \in DOMAIN worklist' : \/ j \in DOMAIN fr /\ j \in DOMAIN worklist /\ worklist'[j] = worklist[j]
                                     \/ \E i \in DOMAIN pushed : j = Len(fr) + i /\ worklist'[j] = pushed[i]
      /\ \A j \in DOMAIN fr : j \in DOMAIN worklist' /\ j # Len(worklist) /\ worklist'[j] = worklist[j]
      /\ \A i \in DOMAIN pushed : \E j \in DOMAIN worklist' : worklist'[j] = pushed[i]
      /\ Items(pushed, Rpd.bb, Walked.vals)
  <2>1. WorklistThen(worklist', Walked.vals)
    BY <1>1, WorklistIs
  <2>. QED
    BY <2>1 DEF WorklistThen
<1>3. /\ \A i \in DOMAIN pushed : pushed[i].bb \in Succs(graph, Rpd.bb) /\ pushed[i].pred = Rpd.bb
      /\ \A i, j \in DOMAIN pushed : pushed[i].bb = pushed[j].bb => i = j
      /\ \A s \in Succs(graph, Rpd.bb) : \E i \in DOMAIN pushed : pushed[i].bb = s
  BY <1>2 DEF Items
<1>4. /\ Rpd.bb \in DOMAIN graph /\ Rpd.bb \in Reachable(graph) /\ Rpd.bb # 0 /\ graph \in Graphs
      /\ Rpd = worklist[Len(worklist)] /\ Len(worklist) \in DOMAIN worklist /\ WalkKept /\ stage = "rename"
      /\ \A j : j \in DOMAIN worklist <=> j \in DOMAIN fr \/ j = Len(worklist)
  BY <1>1, RenamedBlockIs, TopIs DEF JInv, Rpd
<1>. HIDE DEF pushed, fr
<1>5. \A j \in DOMAIN fr : worklist[j].pred # Rpd.bb
  BY <1>1, <1>4 DEF WalkKept, FromVisited
<1>6. \A i, j \in DOMAIN worklist' :
        worklist'[i].bb = worklist'[j].bb /\ worklist'[i].pred = worklist'[j].pred => i = j
  <2>. SUFFICES ASSUME NEW i \in DOMAIN worklist', NEW j \in DOMAIN worklist',
                       worklist'[i].bb = worklist'[j].bb, worklist'[i].pred = worklist'[j].pred
                PROVE  i = j
    OBVIOUS
  <2>1. CASE i \in DOMAIN fr /\ j \in DOMAIN fr
    BY <1>2, <1>4, <2>1 DEF WalkKept
  <2>2. CASE i \notin DOMAIN fr /\ j \notin DOMAIN fr
    BY <1>2, <1>3, <2>2
  <2>3. CASE ~(i \in DOMAIN fr <=> j \in DOMAIN fr)
    BY <1>2, <1>3, <1>5, <2>3
  <2>. QED
    BY <2>1, <2>2, <2>3
<1>7. \A j \in DOMAIN worklist' : \/ (worklist'[j].pred = 0 /\ worklist'[j].bb = Entry)
                                    \/ (worklist'[j].pred \in vis /\ worklist'[j].bb \in Succs(graph, worklist'[j].pred))
  BY <1>2, <1>3, <1>4 DEF WalkKept, FromVisited
<1>8. vis \subseteq Reachable(graph)
  BY <1>4 DEF WalkKept
<1>9. \A b \in vis : \A d \in DOMAIN graph : Dominates(graph, d, b) => d \in vis
  <2>. SUFFICES ASSUME NEW b \in vis, NEW d \in DOMAIN graph, Dominates(graph, d, b) PROVE d \in vis
    OBVIOUS
  <2>1. CASE b \in visited
    BY <1>4, <2>1 DEF WalkKept
  <2>2. CASE b = Rpd.bb /\ d # b
    <3>1. FromVisited(Rpd)
      BY <1>4 DEF WalkKept
    <3>2. CASE Rpd.pred = 0 /\ Rpd.bb = Entry
      <4>1. Dominates(graph, Entry, d) /\ Entry \in Reachable(graph)
        BY <1>4, DominatesIs, ReachableIs
      <4>. QED
        BY <1>4, <2>2, <3>2, <4>1, DominatesAntisymmetric
    <3>3. CASE Rpd.pred \in visited /\ Rpd.bb \in Succs(graph, Rpd.pred)
      <4>1. Rpd.pred \in Reachable(graph)
        BY <1>4, <3>3 DEF WalkKept
      <4>2. Dominates(graph, d, Rpd.pred)
        BY <1>4, <2>2, <3>3, <4>1, DominatesPred
      <4>. QED
        BY <1>4, <3>3, <4>2 DEF WalkKept
    <3>. QED
      BY <3>1, <3>2, <3>3 DEF FromVisited
  <2>. QED
    BY <2>1, <2>2
<1>10. ASSUME NEW s, \E j \in DOMAIN worklist : worklist[j].bb = s
       PROVE  s \in vis \/ \E j \in DOMAIN worklist' : worklist'[j].bb = s
  BY <1>2, <1>4, <1>10
<1>11. \A b \in vis : \A s \in Succs(graph, b) : s \in vis \/ \E j \in DOMAIN worklist' : worklist'[j].bb = s
  <2>. SUFFICES ASSUME NEW b \in vis, NEW s \in Succs(graph, b)
                PROVE  s \in vis \/ \E j \in DOMAIN worklist' : worklist'[j].bb = s
    OBVIOUS
  <2>1. CASE b \in visited
    <3>1. s \in visited \/ \E j \in DOMAIN worklist : worklist[j].bb = s
      BY <1>4, <2>1 DEF WalkKept
    <3>. QED
      BY <1>10, <3>1
  <2>2. CASE b = Rpd.bb
    <3>1. PICK i \in DOMAIN pushed : pushed[i].bb = s
      BY <1>3, <2>2
    <3>. QED
      BY <1>2, <3>1
  <2>. QED
    BY <2>1, <2>2
<1>12. Entry \in vis \/ \E j \in DOMAIN worklist' : worklist'[j].bb = Entry
  <2>1. Entry \in visited \/ \E j \in DOMAIN worklist : worklist[j].bb = Entry
    BY <1>4 DEF WalkKept
  <2>. QED
    BY <1>10, <2>1
<1>. HIDE DEF vis
<1>. QED
  BY <1>1, <1>6, <1>7, <1>8, <1>9, <1>11, <1>12 DEF WalkKept, Looping, FromVisited

-----------------------------------------------------------------------------
(* The plans of the variables, when a block is renamed.                    *)

\* A value that does not go is still there after the step.
LEMMA EndKept ==
  ASSUME JInv, RenameBlock, NEW v, v.k = "inst" => v.n \notin Walked.gone, NEW d, AvailEnd(graph, func, v, d)
  PROVE  AvailEnd(graph, func', v, d)
<1>. DEFINE h == Entering
            by == Walked.by
            gone == Walked.gone
            D == DOMAIN graph
<1>1. func' \in [D -> Seq(Instr)] /\ h \in [D -> Seq(Instr)] /\ worklist # <<>> /\ graph \in Graphs
  BY RenamedFuncIs, StateIs
<1>2. PICK at : Rewritten(at, func', h, by, gone)
  BY RenamedFuncIs
<1>3. SamePlaces(h, func)
  BY <1>1, EnteredAt DEF JInv
<1>4. AvailEnd(graph, h, v, d)
  BY <1>3, SamePlacesAre
<1>5. Entry \in D
  BY <1>1, BlocksAreFinite
<1>6. v.k = "inst" => v.n \notin gone
  OBVIOUS
<1>. HIDE DEF h, by, gone, D
<1>. QED
  BY <1>1, <1>2, <1>4, <1>5, <1>6, AvailKept

LEMMA RenamedAccesses ==
  ASSUME JInv, RenameBlock, NEW k \in DOMAIN allocas
  PROVE  /\ Pointed(func', allocas[k])
         /\ \A Def, Live : Covers(func, allocas[k], Def, Live) => Covers(func', allocas[k], Def, Live)
         /\ \A B \in SUBSET DOMAIN graph : Rpd.bb \notin B /\ Stored(func, allocas[k], B) => Stored(func', allocas[k], B)
<1>. DEFINE h == Entering
            by == Walked.by
            gone == Walked.gone
            D == DOMAIN graph
            a == allocas[k]
<1>1. /\ func' \in [D -> Seq(Instr)] /\ h \in [D -> Seq(Instr)] /\ worklist # <<>> /\ graph \in Graphs
      /\ Rpd.bb \notin visited /\ DOMAIN func = D
  BY RenamedFuncIs, StateIs
<1>2. PICK at : Rewritten(at, func', h, by, gone)
  BY RenamedFuncIs
<1>3. SamePlaces(h, func)
  BY <1>1, EnteredAt DEF JInv
<1>4. Pointed(h, a)
  BY <1>1, EnteredPointed
<1>5. /\ a \notin DOMAIN by /\ \A x \in DOMAIN by : by[x] # Inst(a)
      /\ LoadsGoFirst(h, a, gone)
      /\ \A b \in DOMAIN func : b # Rpd.bb => \A q \in DOMAIN h[b] : h[b][q].id \notin gone
  BY <1>1, WalkSpares
<1>. HIDE DEF h, by, gone, D, a
<1>6. Pointed(func', a)
  BY <1>1, <1>2, <1>4, <1>5, PointedRewritten
<1>7. ASSUME NEW Def, NEW Live, Covers(func, a, Def, Live) PROVE Covers(func', a, Def, Live)
  <2>1. Covers(h, a, Def, Live)
    BY <1>3, <1>7, SamePlacesAre
  <2>. QED
    BY <1>1, <1>2, <1>5, <2>1, CoversRewritten
<1>8. ASSUME NEW B \in SUBSET D, Rpd.bb \notin B, Stored(func, a, B) PROVE Stored(func', a, B)
  <2>1. Stored(h, a, B)
    BY <1>1, <1>3, <1>8, SamePlacesAre
  <2>2. \A b \in B : \A q \in DOMAIN h[b] : StoresTo(h, b, q, a) => h[b][q].id \notin gone
    BY <1>1, <1>5, <1>8
  <2>. QED
    BY <1>1, <1>2, <1>5, <2>1, <2>2, StoredRewritten
<1>. QED
  BY <1>6, <1>7, <1>8 DEF a, D

LEMMA RenamedCarries ==
  ASSUME JInv, RenameBlock, NEW k \in DOMAIN allocas, NEW Def, NEW Live, PlanOf(k, Def, Live), NEW j \in DOMAIN worklist'
  PROVE  Carried(graph, func', worklist'[j], k, Def, Live, Phied(graph, newPhis, k))
<1>. DEFINE pushed == Pushed(Rpd.bb, Walked.vals)
            fr == Front(worklist)
            it == worklist'[j]
            over == Def \cup Phied(graph, newPhis, k) \cup {Entry}
<1>1. /\ worklist # <<>> /\ worklist' = fr \o pushed /\ Walked.vals \in [DOMAIN allocas -> Operand] /\ Rpd.bb \notin visited
      /\ Rpd.bb # 0
  BY RenamedFuncIs, RenamedBlockIs
<1>2. WorklistThen(worklist', Walked.vals)
  BY <1>1, WorklistIs
<1>3. \/ j \in DOMAIN worklist /\ it = worklist[j]
      \/ it.bb \in Succs(graph, Rpd.bb) /\ it.pred = Rpd.bb /\ it.vals = Walked.vals
  BY <1>2 DEF WorklistThen, Items
<1>4. ASSUME NEW v, v.k = "inst" => v.n \notin Walked.gone, NEW d, AvailEnd(graph, func, v, d)
      PROVE  AvailEnd(graph, func', v, d)
  BY <1>4, EndKept
<1>. SUFFICES ASSUME it.bb \in Live
              PROVE  \/ it.pred = 0 /\ it.vals[k] = Undef
                     \/ it.pred # 0 /\ \E d \in over : Dominates(graph, d, it.pred) /\ AvailEnd(graph, func', it.vals[k], d)
  BY DEF Carried
<1>5. CASE j \in DOMAIN worklist /\ it = worklist[j]
  <2>1. CASE it.pred = 0 /\ it.vals[k] = Undef
    BY <2>1
  <2>2. CASE it.pred # 0 /\ \E d \in over : Dominates(graph, d, it.pred) /\ Before(it.vals[k], d)
    <3>1. PICK d \in over : Dominates(graph, d, it.pred) /\ Before(it.vals[k], d)
      BY <2>2
    <3>2. (it.vals[k].k = "inst" => it.vals[k].n \notin Walked.gone) /\ AvailEnd(graph, func, it.vals[k], d)
      BY <1>1, <3>1, BeforeStays
    <3>3. AvailEnd(graph, func', it.vals[k], d)
      BY <1>4, <3>2
    <3>. QED
      BY <2>2, <3>1, <3>3
  <2>. QED
    BY <1>1, <1>5, <2>1, <2>2, OthersBefore
<1>6. CASE it.bb \in Succs(graph, Rpd.bb) /\ it.pred = Rpd.bb /\ it.vals = Walked.vals
  <2>1. /\ Walked.vals[k].k = "inst" => Walked.vals[k].n \notin Walked.gone
        /\ \E d \in over : Dominates(graph, d, Rpd.bb) /\ AvailEnd(graph, func, Walked.vals[k], d)
    BY <1>1, <1>6, SendsOn
  <2>2. PICK d \in over : Dominates(graph, d, Rpd.bb) /\ AvailEnd(graph, func, Walked.vals[k], d)
    BY <2>1
  <2>3. AvailEnd(graph, func', Walked.vals[k], d)
    BY <1>4, <2>1, <2>2
  <2>. QED
    BY <1>1, <1>6, <2>2, <2>3
<1>. QED
  BY <1>3, <1>5, <1>6

LEMMA RenamedPlan ==
  ASSUME JInv, RenameBlock, NEW k \in DOMAIN allocas
  PROVE  Planned(graph, func', allocas[k], k, visited', worklist', newPhis)
<1>1. /\ worklist # <<>> /\ visited' = visited \cup {Rpd.bb}
  BY RenamedFuncIs
<1>2. PICK Def, Live : PlanOf(k, Def, Live)
  BY <1>1, PlanExists
<1>3. /\ Def \in SUBSET DOMAIN graph /\ Live \in SUBSET DOMAIN graph
      /\ Covers(func, allocas[k], Def, Live) /\ Stored(func, allocas[k], Def \ visited)
      /\ Flows(graph, Def, Live, Phied(graph, newPhis, k))
  BY <1>2 DEF PlanOf
<1>4. Covers(func', allocas[k], Def, Live)
  BY <1>3, RenamedAccesses
<1>5. Stored(func', allocas[k], Def \ visited')
  <2>1. Stored(func, allocas[k], Def \ visited')
    BY <1>1, <1>3 DEF Stored
  <2>2. Def \ visited' \in SUBSET DOMAIN graph /\ Rpd.bb \notin Def \ visited'
    BY <1>1, <1>3
  <2>. QED
    BY <2>1, <2>2, RenamedAccesses
<1>6. \A j \in DOMAIN worklist' : Carried(graph, func', worklist'[j], k, Def, Live, Phied(graph, newPhis, k))
  BY <1>2, RenamedCarries
<1>. QED
  BY <1>3, <1>4, <1>5, <1>6 DEF Planned

LEMMA RenamedValues ==
  ASSUME JInv, RenameBlock
  PROVE  \A j \in DOMAIN worklist' : \A k, i \in DOMAIN allocas : worklist'[j].vals[k] # Inst(allocas[i])
<1>. SUFFICES ASSUME NEW j \in DOMAIN worklist', NEW k \in DOMAIN allocas, NEW i \in DOMAIN allocas
              PROVE  worklist'[j].vals[k] # Inst(allocas[i])
  OBVIOUS
<1>1. /\ worklist # <<>> /\ worklist' = Front(worklist) \o Pushed(Rpd.bb, Walked.vals)
      /\ Walked.vals \in [DOMAIN allocas -> Operand] /\ Rpd.bb \notin visited
  BY RenamedFuncIs
<1>2. WorklistThen(worklist', Walked.vals)
  BY <1>1, WorklistIs
<1>3. \/ j \in DOMAIN worklist /\ worklist'[j] = worklist[j]
      \/ worklist'[j].vals = Walked.vals
  BY <1>2 DEF WorklistThen, Items
<1>4. Walked.vals[k] # Inst(allocas[i])
  BY <1>1, WalkedIs DEF SoFar, ValsSound, NoAlloca
<1>5. j \in DOMAIN worklist => worklist[j].vals[k] # Inst(allocas[i])
  BY DEF JInv, Plans
<1>. QED
  BY <1>3, <1>4, <1>5

LEMMA RenameBlockStays ==
  ASSUME JInv, RenameBlock
  PROVE  JInv'
<1>1. /\ IInv' /\ graph' = graph /\ stage' = "rename" /\ newPhis' = newPhis /\ allocas' = allocas /\ num' = num
      /\ worklist # <<>> /\ Rpd.bb \notin visited /\ graph \in Graphs
      /\ func' \in [DOMAIN graph -> Seq(Instr)] /\ Entering \in [DOMAIN graph -> Seq(Instr)] /\ Unique(Entering)
  BY RenamedFuncIs, StateIs
<1>2. UsesDefined(graph, func')
  <2>1. PICK at : Rewritten(at, func', Entering, Walked.by, Walked.gone)
    BY RenamedFuncIs
  <2>2. UsesDefined(graph, Entering) /\ Substitutes(graph, Entering, Walked.by, Walked.gone)
    BY <1>1, EnteredUses, WalkSubstitutes
  <2>. QED
    BY <1>1, <2>1, <2>2, UsesStayDefined
<1>3. PhisKeep' /\ WalkKept'
  BY RenamedPhis, RenamedWalk
<1>4. Plans'
  <2>1. \A k \in 1 .. num - 1 : Planned(graph, func', allocas[k], k, visited', worklist', newPhis)
    <3>1. 1 .. num - 1 = DOMAIN allocas
      BY <1>1, RenamedBlockIs
    <3>. QED
      BY <3>1, RenamedPlan
  <2>2. \A i \in DOMAIN allocas : Pointed(func', allocas[i])
    BY RenamedAccesses
  <2>3. \A j \in DOMAIN worklist' : \A k, i \in DOMAIN allocas : worklist'[j].vals[k] # Inst(allocas[i])
    BY RenamedValues
  <2>. QED
    BY <1>1, <2>1, <2>2, <2>3 DEF Plans
<1>5. SingleKept'
  BY <1>1 DEF SingleKept
<1>6. UsesDefined(graph, func)'
  BY <1>1, <1>2
<1>. QED
  BY <1>1, <1>3, <1>4, <1>5, <1>6 DEF JInv

-----------------------------------------------------------------------------
(* What is done to the function after the walk: the allocas go.            *)

\* A block that every edge enters from below c, or from below itself, is below c.
LEMMA EntersBelow ==
  ASSUME NEW g \in Graphs, NEW c, NEW b \in Reachable(g), b # Entry,
         \A x \in Reachable(g) : b \in Succs(g, x) => Dominates(g, c, x) \/ Dominates(g, b, x)
  PROVE  Dominates(g, c, b) /\ c # b
<1>0. Entry \in Reachable(g) /\ Reachable(g) \in SUBSET DOMAIN g
      /\ \A x \in Reachable(g) : \A s \in Succs(g, x) : s \in Reachable(g)
  BY ReachableIs
<1>1. ASSUME c = b PROVE FALSE
  <2>. DEFINE S == {x \in Reachable(g) : ~Dominates(g, b, x)}
  <2>1. Entry \in S
    <3>1. Entry \in Without(g, b)
      BY WithoutIs
    <3>. QED
      BY <1>0, <3>1, DominatesIs
  <2>2. ASSUME NEW x \in S, NEW s \in Succs(g, x) PROVE s \in S
    <3>1. s \in Reachable(g) /\ x \in Reachable(g) /\ ~Dominates(g, b, x)
      BY <1>0, <2>2
    <3>2. s # b
      BY <1>1, <3>1, <2>2
    <3>3. ~Dominates(g, b, s)
      BY <2>2, <3>1, <3>2, DominatesPred
    <3>. QED
      BY <3>1, <3>3
  <2>3. S \in SUBSET DOMAIN g
    BY <1>0
  <2>. HIDE DEF S
  <2>4. Reachable(g) \subseteq S
    BY <2>1, <2>2, <2>3, ReachableIs
  <2>5. Dominates(g, b, b)
    BY DominatesIs
  <2>. QED
    BY <2>4, <2>5 DEF S
<1>2. ASSUME ~Dominates(g, c, b) PROVE FALSE
  <2>. DEFINE S == {x \in Without(g, c) : ~Dominates(g, b, x)}
  <2>0. /\ c # b /\ c # Entry /\ b \in Without(g, c) /\ Without(g, c) \subseteq Reachable(g) /\ c \notin Without(g, c)
        /\ Without(g, c) \in SUBSET DOMAIN g /\ Entry \in Without(g, c)
        /\ \A x \in Without(g, c) : \A s \in Succs(g, x) : s \in Without(g, c) \/ s = c
    BY <1>2, DominatesIs, WithoutReaches, WithoutIs
  <2>1. Entry \in S
    <3>1. Entry \in Without(g, b)
      BY WithoutIs
    <3>. QED
      BY <2>0, <3>1, DominatesIs
  <2>2. ASSUME NEW x \in S, NEW s \in Succs(g, x) PROVE s \in S \/ s = c
    <3>. SUFFICES ASSUME s # c PROVE s \in S
      OBVIOUS
    <3>1. s \in Without(g, c) /\ x \in Reachable(g) /\ x \in Without(g, c) /\ ~Dominates(g, b, x)
      BY <2>0, <2>2
    <3>2. ~Dominates(g, c, x)
      BY <2>0, <3>1, DominatesIs
    <3>3. s # b
      BY <2>2, <3>1, <3>2
    <3>4. ~Dominates(g, b, s)
      BY <2>2, <3>1, <3>3, DominatesPred
    <3>. QED
      BY <3>1, <3>4
  <2>3. S \in SUBSET DOMAIN g
    BY <2>0
  <2>. HIDE DEF S
  <2>4. Without(g, c) \subseteq S
    BY <2>1, <2>2, <2>3, WithoutIs
  <2>5. Dominates(g, b, b)
    BY DominatesIs
  <2>. QED
    BY <2>0, <2>4, <2>5 DEF S
<1>. QED
  BY <1>1, <1>2

\* What rewrites the function after the walk.
Settles(at, by, gone) ==
  /\ stage \in {"rename", "simplify"} /\ stage' = "simplify" /\ worklist = <<>> /\ worklist' = <<>>
  /\ graph' = graph /\ visited' = visited
  /\ Rewritten(at, func', func, by, gone) /\ Substitutes(graph, func, by, gone)
  /\ DOMAIN newPhis' \subseteq DOMAIN newPhis
  /\ \A k \in DOMAIN newPhis' : newPhis'[k] = newPhis[k] /\ newPhis[k] \notin gone
  /\ \A k \in DOMAIN newPhis : newPhis[k] \notin gone => newPhis[k] \in Range(newPhis')

LEMMA SettlesStays ==
  ASSUME JInv, IInv', NEW at, NEW by, NEW gone, Settles(at, by, gone)
  PROVE  JInv'
<1>1. /\ graph \in Graphs /\ func \in [DOMAIN graph -> Seq(Instr)] /\ Unique(func)
      /\ graph' = graph /\ func' \in [DOMAIN graph -> Seq(Instr)]
  BY StateIs DEF JInv, Settles, IInv, TypeOK
<1>2. UsesDefined(graph, func')
  <2>1. UsesDefined(graph, func) /\ Rewritten(at, func', func, by, gone) /\ Substitutes(graph, func, by, gone)
    BY DEF JInv, Settles
  <2>. QED
    BY <1>1, <2>1, UsesStayDefined
<1>3. PhisKeep'
  <2>1. PhisPlaced(func, newPhis) /\ EntriesKept(graph, func, Range(newPhis), visited, worklist)
        /\ Rewritten(at, func', func, by, gone)
    BY DEF JInv, PhisKeep, Settles
  <2>2. PhisPlaced(func', newPhis') /\ Range(newPhis') = Range(newPhis) \ gone
    <3>1. /\ DOMAIN newPhis' \subseteq DOMAIN newPhis
          /\ \A k \in DOMAIN newPhis' : newPhis'[k] = newPhis[k] /\ newPhis[k] \notin gone
          /\ \A k \in DOMAIN newPhis : newPhis[k] \notin gone => newPhis[k] \in Range(newPhis')
      BY DEF Settles
    <3>. DEFINE D == DOMAIN graph
                kept == newPhis'
                h == func'
    <3>2. /\ h \in [D -> Seq(Instr)] /\ func \in [D -> Seq(Instr)] /\ Rewritten(at, h, func, by, gone) /\ PhisPlaced(func, newPhis)
          /\ DOMAIN kept \subseteq DOMAIN newPhis
          /\ \A k \in DOMAIN kept : kept[k] = newPhis[k] /\ newPhis[k] \notin gone
          /\ \A k \in DOMAIN newPhis : newPhis[k] \notin gone => newPhis[k] \in Range(kept)
      BY <1>1, <2>1, <3>1
    <3>. HIDE DEF D, kept, h
    <3>3. PhisPlaced(h, kept) /\ Range(kept) = Range(newPhis) \ gone
      BY <3>2, PhisRewritten
    <3>. QED
      BY <3>3 DEF kept, h
  <2>3. EntriesKept(graph, func', Range(newPhis'), visited, worklist)
    BY <1>1, <2>1, <2>2, EntriesRewritten
  <2>. QED
    BY <1>1, <2>2, <2>3 DEF PhisKeep, Settles
<1>4. WalkKept'
  <2>1. WalkKept /\ stage \in {"rename", "simplify"} /\ stage' = "simplify" /\ worklist = <<>> /\ worklist' = <<>>
        /\ graph' = graph /\ visited' = visited
    BY DEF JInv, Settles
  <2>2. DOMAIN worklist = {} /\ DOMAIN worklist' = {}
    BY <2>1
  <2>. QED
    BY <2>1, <2>2 DEF WalkKept, Looping
<1>5. Plans' /\ SingleKept'
  <2>1. stage' = "simplify" /\ worklist' = <<>>
    BY DEF Settles
  <2>2. DOMAIN worklist' = {}
    BY <2>1
  <2>. QED
    BY <2>1, <2>2 DEF Plans, SingleKept, Looping
<1>6. UsesDefined(graph, func)'
  BY <1>1, <1>2
<1>. QED
  BY <1>3, <1>4, <1>5, <1>6 DEF JInv

LEMMA RemoveAllocasStays ==
  ASSUME JInv, RemoveAllocas
  PROVE  JInv'
<1>. DEFINE gone == Range(allocas)
            by == [a \in gone |-> Poison]
<1>1. /\ stage = "rename" /\ worklist = <<>> /\ func' = Erase(Replace(func, by), gone) /\ stage' = "simplify"
      /\ graph' = graph /\ newPhis' = newPhis /\ worklist' = worklist /\ visited' = visited
  BY DEF RemoveAllocas
<1>2. IInv /\ IInv'
  BY RemoveAllocasKeeps DEF JInv
<1>3. graph \in Graphs /\ func \in [DOMAIN graph -> Seq(Instr)] /\ Unique(func)
  BY <1>2, StateIs
<1>4. by \in [gone -> Operand] /\ DOMAIN by = gone /\ \A x \in gone : by[x].k # "inst"
  BY OperandsMade DEF Poison
<1>5. \A id \in gone : Has(func, id, "alloca")
  BY <1>1, <1>2 DEF IInv, AllocasKept, Range, Looping
<1>. HIDE DEF by, gone
<1>6. PICK at : Rewritten(at, func', func, by, gone)
  BY <1>1, <1>3, <1>4, RewrittenIs
<1>7. Substitutes(graph, func, by, gone)
  BY <1>4 DEF Substitutes, AvailAt
<1>8. \A k \in DOMAIN newPhis : newPhis[k] \notin gone
  BY <1>2, <1>5, NoPhiGoes
<1>9. \A k \in DOMAIN newPhis : newPhis[k] \in Range(newPhis)
  BY DEF Range
<1>10. Settles(at, by, gone)
  BY <1>1, <1>6, <1>7, <1>8, <1>9 DEF Settles
<1>. QED
  BY <1>2, <1>10, SettlesStays

-----------------------------------------------------------------------------
(* Phis of one value are folded.                                           *)

\* The walk has been everywhere when the worklist is empty.
LEMMA AllVisited ==
  ASSUME JInv, stage = "simplify"
  PROVE  Reachable(graph) \subseteq visited /\ worklist = <<>>
<1>1. graph \in Graphs /\ worklist = <<>> /\ WalkKept
  BY StateIs DEF JInv
<1>2. DOMAIN worklist = {}
  BY <1>1
<1>3. /\ visited \subseteq Reachable(graph) /\ Entry \in visited
      /\ \A b \in visited : \A s \in Succs(graph, b) : s \in visited
  BY <1>1, <1>2 DEF WalkKept
<1>4. visited \in SUBSET DOMAIN graph
  BY <1>1, <1>3, ReachableIs
<1>. QED
  BY <1>1, <1>3, <1>4, ReachableIs

\* What a phi may be replaced by.
IsCandidate(v, phi, inc) ==
  \/ v = Undef
  \/ /\ v # Inst(phi) /\ \E e \in DOMAIN inc : inc[e].val = v
     /\ \/ ValueDominatesPHI(v, phi)
        \/ \A e \in DOMAIN inc : inc[e].val = v \/ inc[e].val = Inst(phi)

LEMMA CandidatesAre ==
  ASSUME NEW phi, NEW v \in SimplifyPHINode(phi), InstrOf(func, phi).inc \in Seq(PhiEntry)
  PROVE  IsCandidate(v, phi, InstrOf(func, phi).inc)
<1>. DEFINE inc == InstrOf(func, phi).inc
            all == [k \in DOMAIN inc |-> inc[k].val]
            incoming == {inc[k].val : k \in DOMAIN inc} \ {Inst(phi)}
            common == {w \in incoming : ~IsUndefValue(w)}
<1>1. v \in IF common = {} THEN {Undef} ELSE IF Cardinality(common) > 1 THEN {}
            ELSE {w \in common : common = incoming \/ ValueDominatesPHI(w, phi)}
  BY DEF SimplifyPHINode
<1>. HIDE DEF inc
<1>2. inc \in Seq(PhiEntry)
  BY DEF inc
<1>3. IsFiniteSet(common)
  <2>1. IsFiniteSet(DOMAIN inc)
    BY <1>2, CountIs
  <2>2. IsFiniteSet(Range(all))
    BY <2>1, RangeIsFinite
  <2>3. common \subseteq Range(all)
    BY DEF Range
  <2>. QED
    BY <2>2, <2>3, FS_Subset
<1>4. Cardinality(common) \in Nat /\ (common # {} => Cardinality(common) # 0)
  BY <1>3, FS_CardinalityType, FS_EmptySet
<1>5. v = Undef \/ (v \in common /\ Cardinality(common) = 1 /\ (common = incoming \/ ValueDominatesPHI(v, phi)))
  <2>. HIDE DEF common, incoming
  <2>. QED
    BY <1>1, <1>4
<1>6. CASE v \in common /\ Cardinality(common) = 1 /\ (common = incoming \/ ValueDominatesPHI(v, phi))
  <2>1. PICK x : common = {x}
    BY <1>3, <1>6, OnlyOne
  <2>2. v # Inst(phi) /\ \E e \in DOMAIN inc : inc[e].val = v
    BY <1>6
  <2>3. common = incoming => \A e \in DOMAIN inc : inc[e].val = v \/ inc[e].val = Inst(phi)
    <3>1. \A e \in DOMAIN inc : inc[e].val = Inst(phi) \/ inc[e].val \in incoming
      OBVIOUS
    <3>. HIDE DEF common, incoming
    <3>. QED
      BY <1>6, <2>1, <3>1
  <2>. HIDE DEF common, incoming
  <2>. QED
    BY <1>6, <2>2, <2>3 DEF IsCandidate, inc
<1>. QED
  BY <1>5, <1>6 DEF IsCandidate

\* A phi that was placed has an entry for each reachable predecessor when the walk is over.
LEMMA EntryThere ==
  ASSUME JInv, stage = "simplify", NEW b \in DOMAIN graph, NEW q \in DOMAIN func[b], func[b][q].op = "phi",
         NEW x \in Reachable(graph), b \in Succs(graph, x)
  PROVE  \E e \in DOMAIN func[b][q].inc : func[b][q].inc[e].pred = x
<1>1. IInv /\ PhisKeep /\ x \in visited /\ worklist = <<>> /\ graph \in Graphs /\ x \in DOMAIN graph
  BY AllVisited, StateIs, ReachableIs DEF JInv
<1>2. Edges(graph, x, b) # 0
  BY <1>1, EdgesThere
<1>3. Due(graph, visited, worklist, b, x) = Edges(graph, x, b)
  <2>1. ~Waiting(worklist, b, x)
    BY <1>1 DEF Waiting
  <2>. QED
    BY <1>1, <2>1 DEF Due
<1>4. Count(func[b][q].inc, x) # 0
  BY <1>1, <1>2, <1>3, EntriesOfPhi
<1>5. {k \in DOMAIN func[b][q].inc : func[b][q].inc[k].pred = x} # {}
  <2>1. Cardinality({}) = 0
    BY FS_EmptySet
  <2>. QED
    BY <1>4, <2>1 DEF Count
<1>. QED
  BY <1>5

LEMMA CandidateAvailable ==
  ASSUME JInv, stage = "simplify", NEW b \in DOMAIN graph, NEW q \in DOMAIN func[b], func[b][q].op = "phi", b # Entry,
         NEW v, IsCandidate(v, func[b][q].id, func[b][q].inc)
  PROVE  AvailAt(graph, func, v, b, q) /\ v # Inst(func[b][q].id)
<1>. DEFINE phi == func[b][q].id
            inc == func[b][q].inc
<1>1. /\ IInv /\ UsesDefined(graph, func) /\ graph \in Graphs /\ func \in [DOMAIN graph -> Seq(Instr)]
      /\ DOMAIN func = DOMAIN graph /\ Unique(func)
  BY StateIs DEF JInv
<1>2. \A e \in DOMAIN inc : AvailEnd(graph, func, inc[e].val, inc[e].pred)
  BY <1>1 DEF UsesDefined, UseDefined, EntriesDefined
<1>3. Undef # Inst(phi) /\ AvailAt(graph, func, Undef, b, q)
  BY DEF Undef, Inst, AvailAt
<1>4. BlockOf(func, phi) = b
  BY <1>1, PlaceOf
<1>5. \A e \in DOMAIN inc : inc[e].val \in Operand
  BY <1>1, InstrIn, InstrIs
<1>. HIDE DEF phi, inc
<1>6. ASSUME v # Undef, v.k = "inst"
      PROVE  \E c \in DOMAIN func : \E r \in DOMAIN func[c] : Defines(func, c, r, v) /\ Earlier(graph, c, r, b, q)
  <2>0. /\ \E e \in DOMAIN inc : inc[e].val = v
        /\ \/ ValueDominatesPHI(v, phi)
           \/ \A e \in DOMAIN inc : inc[e].val = v \/ inc[e].val = Inst(phi)
    BY <1>6 DEF IsCandidate, phi, inc
  <2>1. PICK first \in DOMAIN inc : inc[first].val = v
    BY <2>0
  <2>2. AvailEnd(graph, func, v, inc[first].pred)
    BY <1>2, <2>1
  <2>3. PICK c \in DOMAIN func : \E r \in DOMAIN func[c] : Defines(func, c, r, v)
    BY <1>6, <2>2 DEF AvailEnd
  <2>4. PICK r \in DOMAIN func[c] : Defines(func, c, r, v)
    BY <2>3
  <2>5. BlockOf(func, v.n) = c
    BY <1>1, <2>4, PlaceOf DEF Defines
  <2>. SUFFICES ASSUME b \in Reachable(graph) PROVE c # b /\ Dominates(graph, c, b)
    BY <2>4 DEF Earlier
  <2>6. CASE ValueDominatesPHI(v, phi)
    BY <1>4, <1>6, <2>5, <2>6 DEF ValueDominatesPHI
  <2>7. CASE \A e \in DOMAIN inc : inc[e].val = v \/ inc[e].val = Inst(phi)
    <3>1. ASSUME NEW x \in Reachable(graph), b \in Succs(graph, x)
          PROVE  Dominates(graph, c, x) \/ Dominates(graph, b, x)
      <4>1. PICK e \in DOMAIN inc : inc[e].pred = x
        BY <3>1, EntryThere DEF inc
      <4>2. AvailEnd(graph, func, inc[e].val, x)
        BY <1>2, <4>1
      <4>3. CASE inc[e].val = v
        <5>1. AvailEnd(graph, func, v, x)
          BY <4>2, <4>3
        <5>2. PICK d \in DOMAIN func : \E s \in DOMAIN func[d] : Defines(func, d, s, v) /\ ByTheEnd(graph, d, x)
          BY <1>6, <5>1 DEF AvailEnd
        <5>3. d = c
          BY <1>1, <5>2, PlaceOf, <2>5, SMTT(30) DEF Defines
        <5>. QED
          BY <3>1, <5>2, <5>3 DEF ByTheEnd
      <4>4. CASE inc[e].val = Inst(phi)
        <5>1. AvailEnd(graph, func, Inst(phi), x)
          BY <4>2, <4>4
        <5>2. Inst(phi).k = "inst" /\ Inst(phi).n = phi
          BY DEF Inst
        <5>3. PICK d \in DOMAIN func : \E s \in DOMAIN func[d] : Defines(func, d, s, Inst(phi)) /\ ByTheEnd(graph, d, x)
          BY <5>1, <5>2 DEF AvailEnd
        <5>4. d = b
          BY <1>1, <1>4, <5>2, <5>3, PlaceOf, SMTT(30) DEF Defines
        <5>. QED
          BY <3>1, <5>3, <5>4 DEF ByTheEnd
      <4>. QED
        BY <2>7, <4>3, <4>4
    <3>. QED
      BY <1>1, <3>1, EntersBelow
  <2>. QED
    BY <2>0, <2>6, <2>7
<1>7. AvailAt(graph, func, v, b, q)
  BY <1>3, <1>6 DEF AvailAt
<1>8. v # Inst(phi)
  BY <1>3 DEF IsCandidate, phi
<1>. QED
  BY <1>7, <1>8 DEF phi

LEMMA SimplifyPhiStays ==
  ASSUME JInv, SimplifyPhi
  PROVE  JInv'
<1>1. PICK k \in DOMAIN newPhis : \E v \in SimplifyPHINode(newPhis[k]) :
        /\ func' = Erase(Replace(func, With(Empty, newPhis[k], v)), {newPhis[k]})
        /\ newPhis' = [j \in DOMAIN newPhis \ {k} |-> newPhis[j]]
  BY DEF SimplifyPhi
<1>. DEFINE phi == newPhis[k]
            b == k[1]
<1>2. PICK v \in SimplifyPHINode(phi) : func' = Erase(Replace(func, With(Empty, phi, v)), {phi})
  BY <1>1
<1>3. /\ DOMAIN newPhis' = DOMAIN newPhis \ {k} /\ \A j \in DOMAIN newPhis' : newPhis'[j] = newPhis[j]
  BY <1>1
<1>4. /\ stage = "simplify" /\ stage' = stage /\ graph' = graph /\ worklist' = worklist /\ visited' = visited /\ worklist = <<>>
  BY AllVisited DEF SimplifyPhi
<1>5. /\ IInv /\ IInv' /\ TypeOK /\ PhisKeep /\ graph \in Graphs /\ func \in [DOMAIN graph -> Seq(Instr)]
      /\ DOMAIN func = DOMAIN graph /\ Unique(func)
  BY SimplifyPhiKeeps, StateIs DEF JInv, IInv
<1>6. b \in DOMAIN func \ {Entry} /\ \E q \in DOMAIN func[b] : func[b][q].id = phi /\ func[b][q].op = "phi"
  BY <1>5 DEF PhisKeep, PhisPlaced, KeysPlaced
<1>7. \A i, j \in DOMAIN newPhis : newPhis[i] = newPhis[j] => i = j
  BY <1>5, PhisAre
<1>8. \A j \in DOMAIN newPhis : newPhis[j] # phi => j \in DOMAIN newPhis'
  BY <1>3
<1>9. \A j \in DOMAIN newPhis' : newPhis[j] # phi
  BY <1>3, <1>7
<1>. HIDE DEF phi, b
<1>10. PICK q \in DOMAIN func[b] : func[b][q].id = phi /\ func[b][q].op = "phi"
  BY <1>6
<1>11. phi \in Ids(func) /\ InstrOf(func, phi) = func[b][q]
  BY <1>5, <1>6, <1>10, InstrAt
<1>12. v \in Operand
  BY <1>2, <1>5, <1>11, SimplifyPHINodeIs
<1>13. IsCandidate(v, phi, func[b][q].inc)
  <2>1. func[b][q].inc \in Seq(PhiEntry)
    BY <1>5, <1>6, InstrIn, InstrIs
  <2>. QED
    BY <1>11, <2>1, CandidatesAre
<1>14. AvailAt(graph, func, v, b, q) /\ v # Inst(phi)
  BY <1>4, <1>5, <1>6, <1>10, <1>13, CandidateAvailable
<1>. DEFINE by == With(Empty, phi, v)
            gone == {phi}
<1>15. by \in [gone -> Operand] /\ DOMAIN by = {phi} /\ by[phi] = v
  BY <1>12 DEF With, Empty
<1>16. func' = Erase(Replace(func, by), gone)
  BY <1>2
<1>. HIDE DEF by
<1>17. PICK at : Rewritten(at, func', func, by, gone)
  <2>. HIDE DEF gone
  <2>. QED
    BY <1>5, <1>15, <1>16, RewrittenIs
<1>18. Substitutes(graph, func, by, gone)
  <2>1. ASSUME NEW c \in DOMAIN func, NEW r \in DOMAIN func[c], func[c][r].id \in DOMAIN by
        PROVE  AvailAt(graph, func, by[func[c][r].id], c, r)
    <3>1. func[c][r].id = phi
      BY <1>15, <2>1
    <3>2. c = b /\ r = q
      BY <1>5, <1>6, <1>10, <3>1, PlaceIsOne
    <3>. QED
      BY <1>14, <1>15, <3>1, <3>2
  <2>2. v.k = "inst" => v.n # phi
    BY <1>12, <1>14, InstOf
  <2>3. \A x \in DOMAIN by : by[x].k = "inst" => by[x].n \notin gone
    BY <1>15, <2>2
  <2>4. \A w : w.k = "inst" /\ w.n \in gone => w.n \in DOMAIN by
    BY <1>15
  <2>. QED
    BY <2>1, <2>3, <2>4 DEF Substitutes
<1>19. \A j \in DOMAIN newPhis : newPhis[j] \notin gone => newPhis[j] \in Range(newPhis')
  BY <1>3, <1>8 DEF Range
<1>20. DOMAIN newPhis' \subseteq DOMAIN newPhis /\ \A j \in DOMAIN newPhis' : newPhis'[j] = newPhis[j] /\ newPhis[j] \notin gone
  BY <1>3, <1>9
<1>. HIDE DEF gone
<1>21. Settles(at, by, gone)
  BY <1>4, <1>17, <1>18, <1>19, <1>20 DEF Settles
<1>. QED
  BY <1>5, <1>21, SettlesStays

-----------------------------------------------------------------------------
(* Phis of unreachable predecessors are filled up.                         *)

LEMMA CountBoth ==
  ASSUME NEW inc \in Seq(PhiEntry), NEW more \in Seq(PhiEntry), NEW p
  PROVE  Count(inc \o more, p) = Count(inc, p) + Count(more, p)
<1>. DEFINE long == inc \o more
            m == Len(inc)
            n == Len(more)
            A == {k \in DOMAIN inc : inc[k].pred = p}
            C == {k \in DOMAIN more : more[k].pred = p}
            L == {k \in DOMAIN long : long[k].pred = p}
            B == {k \in m + 1 .. m + n : more[k - m].pred = p}
<1>1. m \in Nat /\ n \in Nat /\ DOMAIN inc = 1 .. m /\ DOMAIN more = 1 .. n
  OBVIOUS
<1>2. DOMAIN long = 1 .. m + n
      /\ (\A k \in 1 .. m : long[k] = inc[k]) /\ \A k \in m + 1 .. m + n : long[k] = more[k - m]
  BY <1>1
<1>3. IsFiniteSet(A) /\ IsFiniteSet(C)
  <2>1. IsFiniteSet(DOMAIN inc) /\ IsFiniteSet(DOMAIN more)
    BY CountIs
  <2>. QED
    BY <2>1, FS_Subset
<1>. HIDE DEF long, m, n
<1>4. L = A \cup B /\ A \cap B = {}
  <2>1. \A k : k \in 1 .. m + n <=> k \in 1 .. m \/ k \in m + 1 .. m + n
    BY <1>1
  <2>2. \A k : ~(k \in 1 .. m /\ k \in m + 1 .. m + n)
    BY <1>1
  <2>3. \A k : k \in L <=> k \in A \/ k \in B
    BY <1>1, <1>2, <2>1
  <2>4. A \cap B = {}
    BY <1>1, <2>2
  <2>. QED
    BY <2>3, <2>4
<1>5. IsFiniteSet(B) /\ Cardinality(B) = Cardinality(C)
  <2>. DEFINE to == [k \in C |-> k + m]
  <2>1. \A k \in C : k + m \in B
    BY <1>1
  <2>2. to \in [C -> B] /\ \A k, l \in C : to[k] = to[l] => k = l
    BY <1>1, <2>1
  <2>3. \A x \in B : \E k \in C : to[k] = x
    <3>. SUFFICES ASSUME NEW x \in B PROVE x - m \in C /\ (x - m) + m = x
      OBVIOUS
    <3>. QED
      BY <1>1
  <2>. HIDE DEF to, B, C
  <2>4. to \in Bijection(C, B)
    BY <2>2, <2>3, Fun_IsBij
  <2>5. ExistsBijection(C, B)
    BY <2>4, Fun_ExistsBij
  <2>. QED
    BY <1>3, <2>5, FS_Bijection
<1>. HIDE DEF A, B, C, L
<1>6. Cardinality(A) \in Nat /\ Cardinality(B) \in Nat
  BY <1>3, <1>5, FS_CardinalityType
<1>7. Cardinality(L) = Cardinality(A) + Cardinality(B)
  <2>1. Cardinality(A \cup B) = Cardinality(A) + Cardinality(B) - Cardinality(A \cap B)
    BY <1>3, <1>5, FS_Union
  <2>2. Cardinality(A \cap B) = 0
    BY <1>4, FS_EmptySet
  <2>. QED
    BY <1>4, <1>6, <2>1, <2>2
<1>8. Count(long, p) = Cardinality(L) /\ Count(inc, p) = Cardinality(A) /\ Count(more, p) = Cardinality(C)
  BY DEF Count, L, A, C
<1>. QED
  BY <1>5, <1>7, <1>8 DEF long

\* The entries that fill up a phi of block b with entries inc.
Dummies(b, inc) ==
  LET more == MissingPreds(b, inc) IN [k \in DOMAIN more |-> [val |-> Poison, pred |-> more[k]]]

FillsUp(dummies, b, inc) ==
  /\ dummies \in Seq(PhiEntry)
  /\ \A k \in DOMAIN dummies :
       dummies[k].val = Poison /\ dummies[k].pred \in DOMAIN graph /\ Count(inc, dummies[k].pred) # Edges(graph, dummies[k].pred, b)
  /\ \A p \in DOMAIN graph : Count(inc, p) + Count(dummies, p) = Edges(graph, p, b)

LEMMA DummiesAre ==
  ASSUME graph \in Graphs, NEW b, NEW inc \in Seq(PhiEntry), \A p \in DOMAIN graph : Count(inc, p) <= Edges(graph, p, b)
  PROVE  FillsUp(Dummies(b, inc), b, inc)
<1>. DEFINE more == MissingPreds(b, inc)
            T == Missing(b, inc)
            dummies == [k \in DOMAIN more |-> [val |-> Poison, pred |-> more[k]]]
<1>1. more \in Seq(Nat) /\ Lists(more, T)
  BY MissingPredsAre
<1>2. \A m : m \in T <=> \E p \in DOMAIN graph : \E n \in 1 .. Lacking(b, inc, p) : m = <<p, n>>
  BY MissingIsFinite
<1>3. \A p : Lacking(b, inc, p) = Edges(graph, p, b) - Count(inc, p) /\ Edges(graph, p, b) \in Nat /\ Count(inc, p) \in Nat
  BY EdgesAre, CountIs DEF Lacking, Count
<1>. HIDE DEF more, T
<1>4. dummies \in Seq(PhiEntry)
  <2>1. Len(more) \in Nat /\ DOMAIN more = 1 .. Len(more) /\ \A k \in DOMAIN more : more[k] \in Nat
    BY <1>1
  <2>2. dummies \in [1 .. Len(more) -> PhiEntry]
    BY <2>1, OperandsMade DEF PhiEntry
  <2>. QED
    BY <2>1, <2>2, SeqDef
<1>5. PICK list \in Bijection(DOMAIN more, T) : \A k \in DOMAIN more : more[k] = list[k][1]
  BY <1>1 DEF Lists
<1>6. /\ list \in [DOMAIN more -> T] /\ \A k, l \in DOMAIN more : list[k] = list[l] => k = l
      /\ \A t \in T : \E k \in DOMAIN more : list[k] = t
  BY <1>5, Fun_BijectionProperties
<1>7. DOMAIN dummies = DOMAIN more /\ \A k \in DOMAIN more : dummies[k].val = Poison /\ dummies[k].pred = more[k]
  OBVIOUS
<1>. HIDE DEF dummies
<1>8. ASSUME NEW k \in DOMAIN dummies
      PROVE  dummies[k].val = Poison /\ dummies[k].pred \in DOMAIN graph /\ Count(inc, dummies[k].pred) # Edges(graph, dummies[k].pred, b)
  <2>1. PICK p \in DOMAIN graph : \E n \in 1 .. Lacking(b, inc, p) : list[k] = <<p, n>>
    BY <1>2, <1>6, <1>7
  <2>2. PICK n \in 1 .. Lacking(b, inc, p) : list[k] = <<p, n>>
    BY <2>1
  <2>3. dummies[k].pred = p
    BY <1>5, <1>7, <2>2
  <2>. QED
    BY <1>3, <1>7, <2>2, <2>3
<1>9. ASSUME NEW p \in DOMAIN graph PROVE Count(inc, p) + Count(dummies, p) = Edges(graph, p, b)
  <2>. DEFINE C == {k \in DOMAIN dummies : dummies[k].pred = p}
              lack == Lacking(b, inc, p)
              to == [k \in C |-> list[k][2]]
  <2>1. lack \in Nat /\ lack = Edges(graph, p, b) - Count(inc, p)
    BY <1>3
  <2>2. ASSUME NEW k \in C PROVE list[k][2] \in 1 .. lack /\ list[k] = <<p, list[k][2]>>
    <3>1. PICK r \in DOMAIN graph : \E n \in 1 .. Lacking(b, inc, r) : list[k] = <<r, n>>
      BY <1>2, <1>6, <1>7
    <3>2. PICK n \in 1 .. Lacking(b, inc, r) : list[k] = <<r, n>>
      BY <3>1
    <3>3. r = p
      BY <1>5, <1>7, <3>2
    <3>. QED
      BY <3>2, <3>3
  <2>3. ASSUME NEW n \in 1 .. lack PROVE \E k \in C : list[k][2] = n
    <3>1. <<p, n>> \in T
      BY <1>2
    <3>2. PICK k \in DOMAIN more : list[k] = <<p, n>>
      BY <1>6, <3>1
    <3>3. k \in C
      BY <1>5, <1>7, <3>2
    <3>. QED
      BY <3>2, <3>3
  <2>4. C \subseteq DOMAIN more
    BY <1>7
  <2>. HIDE DEF C, lack
  <2>5. to \in [C -> 1 .. lack] /\ (\A k, l \in C : to[k] = to[l] => k = l) /\ \A n \in 1 .. lack : \E k \in C : to[k] = n
    BY <1>6, <2>2, <2>3, <2>4
  <2>. HIDE DEF to
  <2>6. to \in Bijection(C, 1 .. lack)
    BY <2>5, Fun_IsBij
  <2>7. ExistsBijection(C, 1 .. lack)
    BY <2>6, Fun_ExistsBij
  <2>8. IsFiniteSet(C)
    <3>1. IsFiniteSet(DOMAIN dummies)
      BY <1>4, CountIs
    <3>. QED
      BY <3>1, FS_Subset DEF C
  <2>9. Cardinality(1 .. lack) = Cardinality(C)
    BY <2>7, <2>8, FS_Bijection
  <2>10. Cardinality(1 .. lack) = lack
    <3>1. 1 \in Int /\ lack \in Int
      BY <2>1
    <3>2. Cardinality(1 .. lack) = IF 1 > lack THEN 0 ELSE lack - 1 + 1
      BY <3>1, FS_Interval
    <3>. QED
      BY <2>1, <3>2
  <2>11. Count(dummies, p) = Cardinality(C)
    BY DEF Count, C
  <2>. QED
    BY <1>3, <2>1, <2>9, <2>10, <2>11
<1>10. Dummies(b, inc) = dummies
  BY DEF Dummies, dummies, more
<1>. QED
  BY <1>4, <1>8, <1>9, <1>10 DEF FillsUp

-----------------------------------------------------------------------------
(* The function with the filled phis.                                      *)

Filled(j, i, dummies) == j = [i EXCEPT !.inc = @ \o dummies]
\* What is at place p of block b after the phis are filled up.
Full(b, p, j) ==
  LET i == func[b][p]
  IN \/ j = i /\ (i.id \in Range(newPhis) => \A r \in DOMAIN graph : Count(i.inc, r) = Edges(graph, r, b))
     \/ /\ i.id \in Range(newPhis) /\ i.op = "phi"
        /\ \E dummies : FillsUp(dummies, b, i.inc) /\ Filled(j, i, dummies)

LEMMA FullAt ==
  ASSUME JInv, CompletePhis, NEW b \in DOMAIN func, NEW p \in DOMAIN func[b]
  PROVE  Full(b, p, func'[b][p])
<1>. DEFINE code == func[b]
            i == code[p]
            lacks == code # <<>> /\ code[1].id \in Range(newPhis) /\ Len(code[1].inc) # PredSize(graph, b)
<1>1. /\ IInv /\ PhisKeep /\ graph \in Graphs /\ func \in [DOMAIN graph -> Seq(Instr)] /\ DOMAIN func = DOMAIN graph /\ Unique(func)
      /\ b \in DOMAIN graph
  BY StateIs DEF JInv
<1>2. func'[b] = IF lacks THEN Completed(b) ELSE code
  BY DEF CompletePhis
<1>3. code \in Seq(Instr) /\ i \in Instr /\ code # <<>> /\ 1 \in DOMAIN code /\ DOMAIN code = 1 .. Len(code) /\ Len(code) \in Nat
  <2>1. code \in Seq(Instr)
    BY <1>1
  <2>. HIDE DEF code
  <2>2. p \in DOMAIN code
    BY DEF code
  <2>. QED
    BY <2>1, <2>2
<1>4. \A q \in DOMAIN code : code[q].id \in Range(newPhis) => code[q].op = "phi"
  BY <1>1, PlacedPhiIs
<1>5. \A q \in DOMAIN code : code[q].op = "phi" =>
        /\ code[q].inc \in Seq(PhiEntry)
        /\ \A r : Count(code[q].inc, r) = IF code[q].id \in Range(newPhis) THEN Due(graph, visited, worklist, b, r) ELSE Edges(graph, r, b)
        /\ \A r : Count(code[q].inc, r) <= Edges(graph, r, b)
  BY <1>1, EntriesOfPhi
<1>6. i.id \in Range(newPhis) => code[1].id \in Range(newPhis)
  <2>1. InFront(func, Range(newPhis))
    BY <1>1, PhisAre
  <2>2. i.id \in Range(newPhis) => \A q \in 1 .. p - 1 : code[q].id \in Range(newPhis)
    BY <2>1 DEF InFront
  <2>. HIDE DEF code
  <2>3. p \in 1 .. Len(code)
    BY <1>3 DEF code
  <2>. QED
    BY <1>3, <2>2, <2>3 DEF i
<1>7. CASE ~lacks
  <2>1. func'[b][p] = i
    BY <1>2, <1>7
  <2>2. ASSUME i.id \in Range(newPhis), NEW r \in DOMAIN graph PROVE Count(i.inc, r) = Edges(graph, r, b)
    <3>1. code[1].id \in Range(newPhis) /\ Len(code[1].inc) = PredSize(graph, b)
      BY <1>3, <1>6, <1>7, <2>2
    <3>2. /\ code[1].inc \in Seq(PhiEntry) /\ \A s : Count(code[1].inc, s) <= Edges(graph, s, b)
          /\ Count(code[1].inc, r) = Due(graph, visited, worklist, b, r)
      BY <1>3, <1>4, <1>5, <3>1
    <3>3. Count(code[1].inc, r) = Edges(graph, r, b)
      BY <1>1, <3>1, <3>2, FullLen
    <3>4. Count(i.inc, r) = Due(graph, visited, worklist, b, r)
      BY <1>4, <1>5, <2>2
    <3>. QED
      BY <3>2, <3>3, <3>4
  <2>. QED
    BY <2>1, <2>2 DEF Full
<1>8. CASE lacks
  <2>. DEFINE inc == code[1].inc
              dummies == Dummies(b, inc)
  <2>1. LeadingPhis(code) = NewPlaces(code, Range(newPhis))
    BY <1>1, <1>8, LeadingAreNew
  <2>2. func'[b][p] = IF p \in LeadingPhis(code) THEN [i EXCEPT !.inc = @ \o dummies] ELSE i
    BY <1>2, <1>8 DEF Completed, Dummies
  <2>3. p \in LeadingPhis(code) <=> i.id \in Range(newPhis)
    BY <2>1 DEF NewPlaces
  <2>4. code[1].op = "phi" /\ inc \in Seq(PhiEntry) /\ (\A r \in DOMAIN graph : Count(inc, r) <= Edges(graph, r, b))
    BY <1>3, <1>4, <1>5, <1>8
  <2>5. FillsUp(dummies, b, inc)
    BY <1>1, <2>4, DummiesAre
  <2>6. CASE i.id \in Range(newPhis)
    <3>1. i.op = "phi" /\ \A r : Count(i.inc, r) = Count(inc, r)
      BY <1>3, <1>4, <1>5, <1>8, <2>6
    <3>2. FillsUp(dummies, b, i.inc)
      BY <2>5, <3>1 DEF FillsUp
    <3>. HIDE DEF dummies
    <3>. QED
      BY <2>2, <2>3, <2>6, <3>1, <3>2 DEF Full, Filled
  <2>7. CASE i.id \notin Range(newPhis)
    BY <2>2, <2>3, <2>7 DEF Full
  <2>. QED
    BY <2>6, <2>7
<1>. QED
  BY <1>7, <1>8

\* Filling up changes the entries of placed phis only.
LEMMA FilledUp ==
  ASSUME NEW i \in Instr, NEW dummies \in Seq(PhiEntry), NEW j, Filled(j, i, dummies)
  PROVE  /\ j.id = i.id /\ j.op = i.op /\ j.ptr = i.ptr /\ j.val = i.val /\ j.inc = i.inc \o dummies
         /\ \A k \in DOMAIN j.inc : \/ k \in DOMAIN i.inc /\ j.inc[k] = i.inc[k]
                                    \/ \E l \in DOMAIN dummies : j.inc[k] = dummies[l]
         /\ \A p : Count(j.inc, p) = Count(i.inc, p) + Count(dummies, p)
<1>1. i.inc \in Seq(PhiEntry)
  BY InstrIs
<1>2. j.id = i.id /\ j.op = i.op /\ j.ptr = i.ptr /\ j.val = i.val /\ j.inc = i.inc \o dummies
  BY DEF Instr, Filled
<1>3. ASSUME NEW k \in DOMAIN (i.inc \o dummies)
      PROVE  \/ k \in DOMAIN i.inc /\ (i.inc \o dummies)[k] = i.inc[k]
             \/ k - Len(i.inc) \in DOMAIN dummies /\ (i.inc \o dummies)[k] = dummies[k - Len(i.inc)]
  BY <1>1
<1>4. \A p : Count(i.inc \o dummies, p) = Count(i.inc, p) + Count(dummies, p)
  BY <1>1, CountBoth
<1>. QED
  BY <1>2, <1>3, <1>4

LEMMA FullEntries ==
  ASSUME JInv, CompletePhis, NEW b \in DOMAIN func, NEW p \in DOMAIN func[b], NEW j, Full(b, p, j), func[b][p].op = "phi"
  PROVE  EntriesDue(graph, b, j, {}, visited, worklist)
<1>. DEFINE i == func[b][p]
<1>1. /\ IInv /\ PhisKeep /\ graph \in Graphs /\ func \in [DOMAIN graph -> Seq(Instr)] /\ b \in DOMAIN graph
  BY StateIs DEF JInv
<1>2. EntriesDue(graph, b, i, Range(newPhis), visited, worklist)
  BY <1>1, PhisAre DEF EntriesKept
<1>3. i \in Instr
  BY <1>1, InstrIn
<1>. HIDE DEF i
<1>4. PredsAgree(graph, i.inc) /\ \A r \in DOMAIN graph : i.id \notin Range(newPhis) => Count(i.inc, r) = Edges(graph, r, b)
  BY <1>2 DEF EntriesDue
<1>5. CASE j = i /\ (i.id \in Range(newPhis) => \A r \in DOMAIN graph : Count(i.inc, r) = Edges(graph, r, b))
  BY <1>4, <1>5 DEF EntriesDue
<1>6. CASE i.id \in Range(newPhis) /\ \E dummies : FillsUp(dummies, b, i.inc) /\ Filled(j, i, dummies)
  <2>1. PICK dummies : FillsUp(dummies, b, i.inc) /\ Filled(j, i, dummies)
    BY <1>6
  <2>2. dummies \in Seq(PhiEntry)
    BY <2>1 DEF FillsUp
  <2>3. /\ \A k \in DOMAIN j.inc : \/ k \in DOMAIN i.inc /\ j.inc[k] = i.inc[k]
                                   \/ \E l \in DOMAIN dummies : j.inc[k] = dummies[l]
        /\ \A r : Count(j.inc, r) = Count(i.inc, r) + Count(dummies, r)
    BY <1>3, <2>1, <2>2, FilledUp
  <2>4. /\ \A l \in DOMAIN dummies : dummies[l].val = Poison /\ dummies[l].pred \in DOMAIN graph
        /\ \A l \in DOMAIN dummies : Count(i.inc, dummies[l].pred) # Edges(graph, dummies[l].pred, b)
        /\ \A r \in DOMAIN graph : Count(i.inc, r) + Count(dummies, r) = Edges(graph, r, b)
        /\ \A k, l \in DOMAIN dummies : dummies[k].pred = dummies[l].pred => dummies[k] = dummies[l]
    <3>1. \A k \in DOMAIN dummies : dummies[k] \in PhiEntry
      BY <2>2
    <3>. QED
      BY <2>1, <3>1 DEF FillsUp, PhiEntry
  <2>5. \A k \in DOMAIN i.inc, l \in DOMAIN dummies : i.inc[k].pred # dummies[l].pred
    <3>. SUFFICES ASSUME NEW k \in DOMAIN i.inc, NEW l \in DOMAIN dummies, i.inc[k].pred = dummies[l].pred PROVE FALSE
      OBVIOUS
    <3>. DEFINE r == dummies[l].pred
    <3>1. Count(i.inc, r) = Due(graph, visited, worklist, b, r)
      BY <1>2, <1>6, <2>4 DEF EntriesDue
    <3>2. Count(i.inc, r) # Edges(graph, r, b)
      BY <2>4
    <3>3. Count(i.inc, r) = 0
      BY <3>1, <3>2 DEF Due
    <3>4. i.inc \in Seq(PhiEntry)
      BY <1>3, InstrIs
    <3>5. IsFiniteSet({m \in DOMAIN i.inc : i.inc[m].pred = r})
      <4>1. IsFiniteSet(DOMAIN i.inc)
        BY <3>4, CountIs
      <4>. QED
        BY <4>1, FS_Subset
    <3>6. {m \in DOMAIN i.inc : i.inc[m].pred = r} # {}
      OBVIOUS
    <3>7. Cardinality({m \in DOMAIN i.inc : i.inc[m].pred = r}) # 0
      BY <3>5, <3>6, FS_EmptySet
    <3>. QED
      BY <3>3, <3>7 DEF Count
  <2>6. PredsAgree(graph, j.inc)
    <3>1. \A k \in DOMAIN j.inc : j.inc[k].pred \in DOMAIN graph
      BY <1>4, <2>3, <2>4 DEF PredsAgree
    <3>2. \A k, l \in DOMAIN j.inc : j.inc[k].pred = j.inc[l].pred => j.inc[k] = j.inc[l]
      BY <1>4, <2>3, <2>4, <2>5 DEF PredsAgree
    <3>. QED
      BY <3>1, <3>2 DEF PredsAgree
  <2>. QED
    BY <2>3, <2>4, <2>6 DEF EntriesDue
<1>. QED
  BY <1>5, <1>6 DEF Full, i

LEMMA CompletePhisStays ==
  ASSUME JInv, CompletePhis
  PROVE  JInv'
<1>1. /\ IInv /\ IInv' /\ PhisKeep /\ WalkKept /\ UsesDefined(graph, func) /\ graph \in Graphs
      /\ func \in [DOMAIN graph -> Seq(Instr)] /\ DOMAIN func = DOMAIN graph
      /\ func' \in [DOMAIN graph' -> Seq(Instr)]
  BY CompletePhisKeeps, StateIs DEF JInv, IInv, TypeOK
<1>2. /\ stage = "simplify" /\ stage' = "collect" /\ graph' = graph /\ worklist' = worklist /\ visited' = visited
      /\ DOMAIN newPhis' = {} /\ worklist = <<>>
  BY AllVisited DEF CompletePhis, Empty
<1>3. DOMAIN func' = DOMAIN func
  BY <1>1, <1>2
<1>4. \A b \in DOMAIN func : DOMAIN func'[b] = DOMAIN func[b]
  <2>1. ASSUME NEW b \in DOMAIN func PROVE DOMAIN func'[b] = DOMAIN func[b]
    <3>1. func'[b] = func[b] \/ (func[b] # <<>> /\ func'[b] = Completed(b))
      BY DEF CompletePhis
    <3>. QED
      BY <1>1, <3>1, CompletedIs DEF SameInstrs
  <2>. QED
    BY <2>1
<1>5. \A b \in DOMAIN func : \A p \in DOMAIN func[b] : Full(b, p, func'[b][p])
  BY FullAt
<1>6. ASSUME NEW b \in DOMAIN func, NEW p \in DOMAIN func[b]
      PROVE  /\ func'[b][p].id = func[b][p].id /\ func'[b][p].op = func[b][p].op
             /\ func'[b][p].ptr = func[b][p].ptr /\ func'[b][p].val = func[b][p].val
             /\ \A k \in DOMAIN func'[b][p].inc : \/ k \in DOMAIN func[b][p].inc /\ func'[b][p].inc[k] = func[b][p].inc[k]
                                                  \/ func'[b][p].inc[k].val = Poison
  <2>1. func[b][p] \in Instr
    BY <1>1, InstrIn
  <2>2. CASE func'[b][p] = func[b][p]
    BY <2>2
  <2>3. CASE \E dummies : FillsUp(dummies, b, func[b][p].inc) /\ Filled(func'[b][p], func[b][p], dummies)
    <3>1. PICK dummies : FillsUp(dummies, b, func[b][p].inc) /\ Filled(func'[b][p], func[b][p], dummies)
      BY <2>3
    <3>2. dummies \in Seq(PhiEntry) /\ \A k \in DOMAIN dummies : dummies[k].val = Poison
      BY <3>1 DEF FillsUp
    <3>. DEFINE i == func[b][p]
                j == func'[b][p]
    <3>3. /\ j.id = i.id /\ j.op = i.op /\ j.ptr = i.ptr /\ j.val = i.val
          /\ \A k \in DOMAIN j.inc : \/ k \in DOMAIN i.inc /\ j.inc[k] = i.inc[k]
                                     \/ \E l \in DOMAIN dummies : j.inc[k] = dummies[l]
      <4>1. i \in Instr /\ Filled(j, i, dummies)
        BY <2>1, <3>1
      <4>. HIDE DEF i, j
      <4>. QED
        BY <3>2, <4>1, FilledUp
    <3>. HIDE DEF i, j
    <3>4. \A k \in DOMAIN j.inc : \/ k \in DOMAIN i.inc /\ j.inc[k] = i.inc[k]
                                  \/ j.inc[k].val = Poison
      BY <3>2, <3>3
    <3>. QED
      BY <3>3, <3>4 DEF i, j
  <2>. QED
    BY <1>5, <2>2, <2>3 DEF Full
<1>7. SamePlaces(func', func)
  <2>1. \A b \in DOMAIN func : DOMAIN func[b] = 1 .. Len(func[b]) /\ Len(func[b]) \in Nat
    BY <1>1
  <2>. QED
    BY <1>3, <1>4, <1>6, <2>1 DEF SamePlaces
<1>8. UsesDefined(graph, func')
  <2>1. /\ \A v, b, p : AvailAt(graph, func, v, b, p) => AvailAt(graph, func', v, b, p)
        /\ \A v, b : AvailEnd(graph, func, v, b) => AvailEnd(graph, func', v, b)
    BY <1>7, SamePlacesAre
  <2>2. ASSUME NEW b \in DOMAIN func, NEW p \in DOMAIN func[b] PROVE UseDefined(graph, func', b, p)
    <3>1. UseDefined(graph, func, b, p)
      BY <1>1 DEF UsesDefined
    <3>2. AvailAt(graph, func', func'[b][p].ptr, b, p) /\ AvailAt(graph, func', func'[b][p].val, b, p)
      BY <1>6, <2>1, <3>1 DEF UseDefined
    <3>3. \A e : AvailEnd(graph, func', Poison, e)
      BY DEF AvailEnd, Poison
    <3>4. func[b][p].op = "phi" =>
            \A k \in DOMAIN func[b][p].inc : AvailEnd(graph, func', func[b][p].inc[k].val, func[b][p].inc[k].pred)
      BY <2>1, <3>1 DEF UseDefined, EntriesDefined
    <3>5. EntriesDefined(graph, func', func'[b][p])
      BY <1>6, <3>3, <3>4 DEF EntriesDefined
    <3>. QED
      BY <3>2, <3>5 DEF UseDefined
  <2>. QED
    BY <1>3, <1>4, <2>2 DEF UsesDefined
<1>9. EntriesKept(graph, func', {}, visited, worklist)
  <2>1. ASSUME NEW b \in DOMAIN func, NEW p \in DOMAIN func[b], func'[b][p].op = "phi"
        PROVE  EntriesDue(graph, b, func'[b][p], {}, visited, worklist)
    BY <1>5, <1>6, <2>1, FullEntries
  <2>. QED
    BY <1>3, <1>4, <2>1 DEF EntriesKept
<1>10. PhisKeep'
  <2>1. Range(newPhis') = {}
    BY <1>2 DEF Range
  <2>2. PhisPlaced(func', newPhis')
    BY <1>2, <2>1 DEF PhisPlaced, KeysPlaced, InFront
  <2>. QED
    BY <1>2, <1>9, <2>1, <2>2 DEF PhisKeep
<1>11. WalkKept'
  <2>1. DOMAIN worklist' = {}
    BY <1>2
  <2>. QED
    BY <1>1, <1>2, <2>1 DEF WalkKept, Looping
<1>12. Plans' /\ SingleKept'
  <2>1. DOMAIN worklist' = {}
    BY <1>2
  <2>. QED
    BY <1>2, <2>1 DEF Plans, SingleKept, Looping
<1>13. UsesDefined(graph, func)'
  BY <1>2, <1>8
<1>. QED
  BY <1>1, <1>10, <1>11, <1>12, <1>13 DEF JInv

-----------------------------------------------------------------------------
(* What verifyModule asks, and the theorem.                                *)

LEMMA AvailableIs ==
  ASSUME IInv, NEW v, NEW b \in DOMAIN graph
  PROVE  /\ \A p : Available(v, b, p) <=> AvailAt(graph, func, v, b, p)
         /\ Available(v, b, Len(func[b]) + 1) <=> AvailEnd(graph, func, v, b)
<1>1. graph \in Graphs /\ func \in [DOMAIN graph -> Seq(Instr)] /\ DOMAIN func = DOMAIN graph /\ Unique(func)
  BY StateIs
<1>2. CASE v.k # "inst"
  BY <1>2 DEF Available, AvailAt, AvailEnd
<1>3. CASE v.k = "inst" /\ v.n \notin Ids(func)
  <2>1. \A c \in DOMAIN func : \A q \in DOMAIN func[c] : func[c][q].id # v.n
    BY <1>3, IdsAre
  <2>. QED
    BY <1>3, <2>1 DEF Available, AvailAt, AvailEnd, Defines
<1>4. CASE v.k = "inst" /\ v.n \in Ids(func)
  <2>1. PICK c \in DOMAIN func : \E q \in DOMAIN func[c] : func[c][q].id = v.n
    BY <1>4, IdsAre
  <2>2. PICK q \in DOMAIN func[c] : func[c][q].id = v.n
    BY <2>1
  <2>3. BlockOf(func, v.n) = c /\ IndexOf(func, v.n) = q /\ InstrOf(func, v.n) = func[c][q]
    BY <1>1, <2>2, PlaceOf
  <2>4. \A d \in DOMAIN func : \A r \in DOMAIN func[d] : func[d][r].id = v.n => d = c /\ r = q
    BY <1>1, <2>2, PlaceIsOne
  <2>5. \A p : Available(v, b, p) <=>
          /\ func[c][q].op # "store"
          /\ b \notin Reachable(graph) \/ (c = b /\ q < p) \/ (c # b /\ Dominates(graph, c, b))
    BY <1>4, <2>3 DEF Available
  <2>6. \A p : AvailAt(graph, func, v, b, p) <=>
          /\ func[c][q].op # "store"
          /\ b \notin Reachable(graph) \/ (c = b /\ q < p) \/ (c # b /\ Dominates(graph, c, b))
    BY <1>4, <2>2, <2>4 DEF AvailAt, Defines, Earlier
  <2>7. AvailEnd(graph, func, v, b) <=> func[c][q].op # "store" /\ (b \notin Reachable(graph) \/ Dominates(graph, c, b))
    BY <1>4, <2>2, <2>4 DEF AvailEnd, Defines, ByTheEnd
  <2>8. c = b => q < Len(func[b]) + 1
    BY <1>1, <2>2
  <2>9. Dominates(graph, b, b)
    BY <1>1, DominatesIs
  <2>. QED
    BY <2>5, <2>6, <2>7, <2>8, <2>9
<1>. QED
  BY <1>2, <1>3, <1>4

\* What verifyModule asks of the instruction at place p of block b.
Verified(b, p) ==
  LET i == func[b][p]
  IN /\ Available(i.ptr, b, p) /\ Available(i.val, b, p)
     /\ i.op = "phi" =>
          /\ EntriesMatchEdges(b, i.inc)
          /\ \A k, l \in DOMAIN i.inc : i.inc[k].pred = i.inc[l].pred => i.inc[k] = i.inc[l]
          /\ \A k \in DOMAIN i.inc :
               /\ i.inc[k].pred \in DOMAIN graph
               /\ Available(i.inc[k].val, i.inc[k].pred, Len(func[i.inc[k].pred]) + 1)

LEMMA VerifiedIs ==
  ASSUME IInv, NEW b \in DOMAIN graph, NEW p \in DOMAIN func[b]
  PROVE  Verified(b, p) <=> /\ UseDefined(graph, func, b, p)
                            /\ func[b][p].op = "phi" => EntriesDue(graph, b, func[b][p], {}, visited, worklist)
<1>. DEFINE i == func[b][p]
<1>1. /\ Available(i.ptr, b, p) <=> AvailAt(graph, func, i.ptr, b, p)
      /\ Available(i.val, b, p) <=> AvailAt(graph, func, i.val, b, p)
  BY AvailableIs
<1>2. \A k \in DOMAIN i.inc : i.inc[k].pred \in DOMAIN graph =>
        (Available(i.inc[k].val, i.inc[k].pred, Len(func[i.inc[k].pred]) + 1) <=> AvailEnd(graph, func, i.inc[k].val, i.inc[k].pred))
  BY AvailableIs
<1>. HIDE DEF i
<1>3. EntriesDue(graph, b, i, {}, visited, worklist) <=> PredsAgree(graph, i.inc) /\ EntriesMatchEdges(b, i.inc)
  BY DEF EntriesDue, EntriesMatchEdges, Count
<1>4. PredsAgree(graph, i.inc) <=>
        /\ \A k \in DOMAIN i.inc : i.inc[k].pred \in DOMAIN graph
        /\ \A k, l \in DOMAIN i.inc : i.inc[k].pred = i.inc[l].pred => i.inc[k] = i.inc[l]
  BY DEF PredsAgree
<1>5. EntriesDefined(graph, func, i) <=> (i.op = "phi" => \A k \in DOMAIN i.inc : AvailEnd(graph, func, i.inc[k].val, i.inc[k].pred))
  BY DEF EntriesDefined
<1>6. UseDefined(graph, func, b, p) <=> AvailAt(graph, func, i.ptr, b, p) /\ AvailAt(graph, func, i.val, b, p) /\ EntriesDefined(graph, func, i)
  BY DEF UseDefined, i
<1>7. Verified(b, p) <=>
        /\ Available(i.ptr, b, p) /\ Available(i.val, b, p)
        /\ i.op = "phi" =>
             /\ EntriesMatchEdges(b, i.inc)
             /\ \A k, l \in DOMAIN i.inc : i.inc[k].pred = i.inc[l].pred => i.inc[k] = i.inc[l]
             /\ \A k \in DOMAIN i.inc :
                  /\ i.inc[k].pred \in DOMAIN graph
                  /\ Available(i.inc[k].val, i.inc[k].pred, Len(func[i.inc[k].pred]) + 1)
  BY DEF Verified, i
<1>. QED
  BY <1>1, <1>2, <1>3, <1>4, <1>5, <1>6, <1>7 DEF i

LEMMA WellFormedIs ==
  ASSUME IInv
  PROVE  SSAWellFormed <=> (stage \in {"collect", "done"} => \A b \in DOMAIN graph : \A p \in DOMAIN func[b] : Verified(b, p))
<1>1. DOMAIN func = DOMAIN graph
  BY StateIs
<1>. QED
  BY <1>1 DEF SSAWellFormed, Verified

LEMMA WellFormedThen ==
  ASSUME JInv
  PROVE  SSAWellFormed
<1>1. IInv /\ UsesDefined(graph, func) /\ PhisKeep /\ WalkKept /\ DOMAIN func = DOMAIN graph
  BY StateIs DEF JInv
<1>2. ASSUME stage \in {"collect", "done"}, NEW b \in DOMAIN graph, NEW p \in DOMAIN func[b] PROVE Verified(b, p)
  <2>1. Range(newPhis) = {}
    BY <1>1, <1>2 DEF WalkKept, Range
  <2>2. func[b][p].op = "phi" => EntriesDue(graph, b, func[b][p], {}, visited, worklist)
    BY <1>1, <2>1 DEF PhisKeep, EntriesKept
  <2>3. UseDefined(graph, func, b, p)
    BY <1>1 DEF UsesDefined
  <2>. QED
    BY <1>1, <2>2, <2>3, VerifiedIs
<1>. QED
  BY <1>1, <1>2, WellFormedIs

LEMMA WellFormedAtFirst ==
  ASSUME Init, SSAWellFormed
  PROVE  JInv
<1>1. /\ IInv /\ stage = "collect" /\ DOMAIN newPhis = {} /\ DOMAIN worklist = {} /\ visited = {} /\ DOMAIN func = DOMAIN graph
  BY InitHolds, StateIs DEF Init, Empty
<1>2. \A b \in DOMAIN graph : \A p \in DOMAIN func[b] : Verified(b, p)
  BY <1>1, WellFormedIs
<1>3. UsesDefined(graph, func)
  BY <1>1, <1>2, VerifiedIs DEF UsesDefined
<1>4. PhisKeep
  <2>1. Range(newPhis) = {}
    BY <1>1 DEF Range
  <2>2. PhisPlaced(func, newPhis)
    BY <1>1, <2>1 DEF PhisPlaced, KeysPlaced, InFront
  <2>3. EntriesKept(graph, func, {}, visited, worklist)
    BY <1>1, <1>2, VerifiedIs DEF EntriesKept
  <2>. QED
    BY <2>1, <2>2, <2>3 DEF PhisKeep
<1>5. WalkKept /\ Plans /\ SingleKept
  BY <1>1 DEF WalkKept, Plans, SingleKept, Looping
<1>. QED
  BY <1>1, <1>3, <1>4, <1>5 DEF JInv

LEMMA UnchangedStays ==
  ASSUME JInv, UNCHANGED vars
  PROVE  JInv'
<1>1. IInv'
  BY UnchangedKeeps DEF JInv
<1>2. /\ graph' = graph /\ func' = func /\ stage' = stage /\ allocas' = allocas /\ num' = num
      /\ info' = info /\ todo' = todo /\ newPhis' = newPhis /\ worklist' = worklist /\ visited' = visited
  BY DEF vars
<1>3. UsesDefined(graph, func)' /\ PhisKeep'
  BY <1>2 DEF JInv, PhisKeep
<1>4. WalkKept'
  BY <1>2 DEF JInv, WalkKept, FromVisited
<1>5. Plans'
  BY <1>2 DEF JInv, Plans
<1>6. SingleKept'
  BY <1>2 DEF JInv, SingleKept, OneStore, LoadsKept, DefiningKept, InOneBlock, AI
<1>. QED
  BY <1>1, <1>3, <1>4, <1>5, <1>6 DEF JInv

LEMMA NextStays ==
  ASSUME JInv, Next
  PROVE  JInv'
BY CollectStays, NothingToPromoteStays, RemoveUnusedStays, AnalyzeAllocaStays, RewriteSingleStoreLoadStays,
   SingleStoreRewrittenStays, SingleStoreFailedStays, PromoteSingleBlockLoadStays, SingleBlockPromotedStays,
   PlacePhisStays, AllSimpleStays, StartRenamingStays, RenameBlockStays, ReenterBlockStays,
   RemoveAllocasStays, SimplifyPhiStays, CompletePhisStays, Zenon DEF Next

\* A function that verifyModule accepts is one that it accepts whenever the pass lets go
\* of it: each phi has an entry for each edge into its block, those that the walk never
\* brought included, and what is used was defined on the way there, whatever loads
\* became, whichever phis were folded, and in whatever order (promoteMemoryToRegister,
\* PromoteMem2Reg::run).
THEOREM AlwaysSSAWellFormed == Spec /\ SSAWellFormed => []SSAWellFormed
<1>1. Init /\ SSAWellFormed => JInv
  BY WellFormedAtFirst
<1>2. JInv /\ [Next]_vars => JInv'
  BY NextStays, UnchangedStays
<1>3. JInv => SSAWellFormed
  BY WellFormedThen
<1>. QED
  BY <1>1, <1>2, <1>3, PTL DEF Spec

=============================================================================
