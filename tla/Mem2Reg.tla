------------------------------ MODULE Mem2Reg ------------------------------
(***************************************************************************)
(* optimizer/Mem2Reg.cpp and PromoteMemoryToRegister.cpp: the allocas of a *)
(* function become values.  One step is one turn of a loop of the code:    *)
(* an alloca analysed, a user rewritten, a block renamed, a phi folded.    *)
(*                                                                         *)
(* A definition X_Y is X with the slip Y, a variant no action uses.        *)
(***************************************************************************)
EXTENDS MemIR

CONSTANTS
  CodeOf(_),     \* the code that the functions with a graph may have
  AsDocumented   \* whether the callers select allocas by what PromoteMemToReg.hpp
                 \* says of isAllocaPromotable, or by what the function returns

ASSUME CodeAssumption ==
  /\ \A g \in Graphs : \A f \in CodeOf(g) : f \in [DOMAIN g -> Seq(Instr)] /\ Unique(f)
  /\ AsDocumented \in BOOLEAN

VARIABLES
  graph, given,  \* the function that was given (never change)
  func,          \* its code now
  stage,         \* where the pass is
  allocas,       \* Allocas
  num,           \* AllocaNum, from 1
  info,          \* AllocaInfo: [stores, defining, using, oneBlock]
  todo,          \* the users that the loop over AI->users() has not come to
  lookup,        \* AllocaLookup
  newPhis,       \* NewPhiNodes: <<block, index of the alloca>> -> the phi
  worklist,      \* RenamePassWorkList: [bb, pred, vals]
  visited        \* Visited

vars == <<graph, given, func, stage, allocas, num, info, todo, lookup, newPhis, worklist, visited>>

AI == allocas[num]
NoInfo == [stores |-> {}, defining |-> {}, using |-> {}, oneBlock |-> TRUE]
Empty == <<>>

-----------------------------------------------------------------------------
(* Which allocas are promoted. *)

\* The loop of isAllocaPromotable returns in its first turn: false unless nothing
\* uses the alloca.  What PromoteMemToReg.hpp says of it: only loads and stores use
\* it, and no store stores it.  With the first test the pass removes unused allocas
\* and nothing else; what it does behind the test is checked with the second.
IsAllocaPromotable(f, a) == Users(f, a) = {}
OnlyAccessed(f, a) ==
  \A u \in Users(f, a) :
    LET i == InstrOf(f, u) IN i.op \in {"load", "store"} /\ i.ptr = Inst(a) /\ i.val # Inst(a)
Promotable(f, a) == IF AsDocumented THEN OnlyAccessed(f, a) ELSE IsAllocaPromotable(f, a)

\* promoteMemoryToRegister: the promotable allocas of the entry block, until there
\* are none.
PromotablePlaces ==
  {p \in DOMAIN func[Entry] : func[Entry][p].op = "alloca" /\ Promotable(func, func[Entry][p].id)}
IdsAt(places) == [k \in 1 .. Cardinality(places) |-> Picked(func[Entry], places)[k].id]
Collected_StopsEarly == IdsAt(PromotablePlaces \ {Len(func[Entry])})
Collected == IdsAt(PromotablePlaces)

Collect ==
  /\ stage = "collect" /\ Collected # <<>>
  /\ allocas' = Collected
  /\ num' = 1
  /\ stage' = "analyze"
  /\ lookup' = Empty
  /\ newPhis' = Empty
  /\ visited' = {}
  /\ UNCHANGED <<graph, given, func, info, todo, worklist>>

NothingToPromote ==
  /\ stage = "collect" /\ Collected = <<>>
  /\ stage' = "done"
  /\ UNCHANGED <<graph, given, func, allocas, num, info, todo, lookup, newPhis, worklist, visited>>

-----------------------------------------------------------------------------
(* PromoteMem2Reg::run, the loop over the allocas. *)

\* RemoveFromAllocasList: the last alloca takes the place; it is the next one.
WithoutCurrent == Front([allocas EXCEPT ![num] = Last(allocas)])
NextIndexAfterRemoval_Skips == num + 1
NextIndexAfterRemoval == num
RemoveFromAllocasList ==
  /\ allocas' = WithoutCurrent
  /\ num' = NextIndexAfterRemoval
  /\ stage' = "analyze"

RemoveUnused ==
  /\ stage = "analyze" /\ num \in DOMAIN allocas /\ Users(func, AI) = {}
  /\ func' = Erase(func, {AI})
  /\ RemoveFromAllocasList
  /\ UNCHANGED <<graph, given, info, todo, lookup, newPhis, worklist, visited>>

AllocaInfo ==
  LET users == Users(func, AI)
      of(op) == {u \in users : InstrOf(func, u).op = op}
  IN [stores |-> of("store"),
      defining |-> {BlockOf(func, u) : u \in of("store")},
      using |-> {BlockOf(func, u) : u \in of("load")},
      oneBlock |-> Cardinality({BlockOf(func, u) : u \in users}) = 1]

Loads(f, a) == {u \in Users(f, a) : InstrOf(f, u).op = "load"}

AnalyzeAlloca ==
  /\ stage = "analyze" /\ num \in DOMAIN allocas /\ Users(func, AI) # {}
  /\ LET one == Cardinality(AllocaInfo.stores) = 1
     IN /\ info' = IF one THEN [AllocaInfo EXCEPT !.using = {}] ELSE AllocaInfo
        /\ stage' = IF one THEN "singleStore" ELSE "singleBlock"
  /\ todo' = Loads(func, AI)
  /\ UNCHANGED <<graph, given, func, allocas, num, lookup, newPhis, worklist, visited>>

-----------------------------------------------------------------------------
(* rewriteSingleStoreAlloca.  The order of a list of users is LLVM's: any. *)

OnlyStore == InstrOf(func, CHOOSE s \in info.stores : TRUE)

StoreReaches_Anywhere(load) == Dominates(graph, BlockOf(func, OnlyStore.id), BlockOf(func, load))
StoreReaches(load) ==
  LET storeBB == BlockOf(func, OnlyStore.id)
      loadBB == BlockOf(func, load)
  IN \/ OnlyStore.val.k # "inst"   \* StoringGlobalVal
     \/ storeBB = loadBB /\ IndexOf(func, OnlyStore.id) < IndexOf(func, load)
     \/ storeBB # loadBB /\ Dominates(graph, storeBB, loadBB)

\* Uses of the load become uses of v, and the load is erased.
LoadBecomes(load, v) ==
  Erase(Replace(func, With(Empty, load, IF v = Inst(load) THEN Poison ELSE v)), {load})

RewriteSingleStoreLoad ==
  /\ stage = "singleStore"
  /\ \E load \in todo :
       /\ todo' = todo \ {load}
       /\ IF StoreReaches(load)
          THEN func' = LoadBecomes(load, OnlyStore.val) /\ UNCHANGED info
          ELSE info' = [info EXCEPT !.using = @ \cup {BlockOf(func, load)}] /\ UNCHANGED func
  /\ UNCHANGED <<graph, given, stage, allocas, num, lookup, newPhis, worklist, visited>>

\* Every load was rewritten: store and alloca go.
SingleStoreRewritten ==
  /\ stage = "singleStore" /\ todo = {} /\ info.using = {}
  /\ func' = Erase(func, {OnlyStore.id, AI})
  /\ RemoveFromAllocasList
  /\ UNCHANGED <<graph, given, info, todo, lookup, newPhis, worklist, visited>>

SingleStoreFailed ==
  /\ stage = "singleStore" /\ todo = {} /\ info.using # {}
  /\ stage' = "singleBlock"
  /\ todo' = Loads(func, AI)
  /\ UNCHANGED <<graph, given, func, allocas, num, info, lookup, newPhis, worklist, visited>>

-----------------------------------------------------------------------------
(* promoteSingleBlockAlloca. *)

Stores(f, a) == {u \in Users(f, a) : InstrOf(f, u).op = "store"}
StoresBefore(load) == {s \in Stores(func, AI) : IndexOf(func, s) < IndexOf(func, load)}
NearestStore_First(load) ==
  CHOOSE s \in StoresBefore(load) :
    \A t \in StoresBefore(load) : IndexOf(func, s) <= IndexOf(func, t)
NearestStore(load) ==
  CHOOSE s \in StoresBefore(load) :
    \A t \in StoresBefore(load) : IndexOf(func, t) <= IndexOf(func, s)

PromoteSingleBlockLoad ==
  /\ stage = "singleBlock" /\ info.oneBlock
  /\ \E load \in todo :
       /\ StoresBefore(load) # {} \/ Stores(func, AI) = {}
       /\ func' = LoadBecomes(load, IF Stores(func, AI) = {} THEN Undef
                                    ELSE InstrOf(func, NearestStore(load)).val)
       /\ todo' = todo \ {load}
  /\ UNCHANGED <<graph, given, stage, allocas, num, info, lookup, newPhis, worklist, visited>>

SingleBlockPromoted ==
  /\ stage = "singleBlock" /\ info.oneBlock /\ todo = {}
  /\ func' = Erase(func, Users(func, AI) \cup {AI})
  /\ RemoveFromAllocasList
  /\ UNCHANGED <<graph, given, info, todo, lookup, newPhis, worklist, visited>>

-----------------------------------------------------------------------------
(* The phis. *)

\* ComputeLiveInBlocks: the blocks that read the variable before they write it, and
\* from there the predecessors that do not write it.
ReadsFirst(b) ==
  LET accesses == {u \in Users(func, AI) : BlockOf(func, u) = b}
  IN \E u \in accesses : /\ InstrOf(func, u).op = "load"
                         /\ \A w \in accesses : IndexOf(func, u) <= IndexOf(func, w)
LiveInBlocks ==
  LET live[B \in SUBSET DOMAIN graph] ==
        LET more == (UNION {Preds(graph, b) : b \in B}) \ (info.defining \cup B)
        IN IF more = {} THEN B ELSE live[B \cup more]
  IN live[{b \in info.using : b \in info.defining => ReadsFirst(b)}]

PHIBlocks == {b \in DOMAIN graph : b \in IDF(graph, info.defining, LiveInBlocks)}

\* QueuePhiNode: an empty phi in front of the others.  Its number is new.
PhiId(b) == Max(Ids(func)) + b

PlacePhis ==
  /\ stage = "singleBlock"
  /\ \/ ~info.oneBlock
     \/ \E load \in todo : StoresBefore(load) = {} /\ Stores(func, AI) # {}
  /\ lookup' = With(lookup, AI, num)
  /\ LET placed == PHIBlocks
     IN /\ newPhis' = [k \in (placed \X {num}) \cup DOMAIN newPhis |->
                         IF k \in placed \X {num} THEN PhiId(k[1]) ELSE newPhis[k]]
        /\ func' = [b \in DOMAIN func |->
                     IF b \in placed THEN <<Phi(PhiId(b), <<>>)>> \o func[b] ELSE func[b]]
  /\ num' = num + 1
  /\ stage' = "analyze"
  /\ todo' = {}
  /\ UNCHANGED <<graph, given, allocas, info, worklist, visited>>

AllSimple ==
  /\ stage = "analyze" /\ num \notin DOMAIN allocas /\ allocas = <<>>
  /\ stage' = "collect"
  /\ UNCHANGED <<graph, given, func, allocas, num, info, todo, lookup, newPhis, worklist, visited>>

StartRenaming ==
  /\ stage = "analyze" /\ num \notin DOMAIN allocas /\ allocas # <<>>
  /\ worklist' = <<[bb |-> Entry, pred |-> 0, vals |-> [k \in DOMAIN allocas |-> Undef]]>>
  /\ stage' = "rename"
  /\ UNCHANGED <<graph, given, func, allocas, num, info, todo, lookup, newPhis, visited>>
-----------------------------------------------------------------------------
(* RenamePass: one block of the walk over the edges.  The successor that the code *)
(* goes on with is the top of the worklist.                                      *)

\* The phi belongs to this alloca, in PhiToAllocaMap; the map says 0, our 1, of a
\* phi that it does not have.
AllocaOf(phi) ==
  LET keys == {k \in DOMAIN newPhis : newPhis[k] = phi}
  IN IF keys = {} THEN 1 ELSE (CHOOSE k \in keys : TRUE)[2]

\* The phis at the head of a block that are as long as the first.
LeadingPhis(code) ==
  {p \in DOMAIN code :
     \A q \in 1 .. p : code[q].op = "phi" /\ Len(code[q].inc) = Len(code[1].inc)}

\* The variables have the values of the edge that was followed, up to the phi that
\* is theirs; the phi gets the value before it, once for each edge from pred.
EntriesPerEdge(pred, bb) == Edges(graph, pred, bb)
EnterBlock(rpd) ==
  LET code == func[rpd.bb]
      phis == IF code # <<>> /\ code[1].id \in Range(newPhis) THEN LeadingPhis(code) ELSE {}
      before(p, var) == {q \in phis : q < p /\ AllocaOf(code[q].id) = var}
      value(p, var) == IF before(p, var) = {} THEN rpd.vals[var] ELSE Inst(code[Max(before(p, var))].id)
      entries(p) == [k \in 1 .. EntriesPerEdge(rpd.pred, rpd.bb) |->
                       [val |-> value(p, AllocaOf(code[p].id)), pred |-> rpd.pred]]
  IN [code |-> [p \in DOMAIN code |->
                  IF p \in phis THEN [code[p] EXCEPT !.inc = @ \o entries(p)] ELSE code[p]],
      vals |-> [var \in DOMAIN rpd.vals |-> value(Len(code) + 1, var)]]

\* A load becomes the current value of its variable, a store sets it.
Renaming(acc, i) ==
  LET ptr == Replaced(i.ptr, acc.by)
      var == lookup[ptr.n]
  IN IF i.op \notin {"load", "store"} \/ ptr.k # "inst" \/ ptr.n \notin DOMAIN lookup THEN acc
     ELSE IF i.op = "load"
          THEN [acc EXCEPT !.by = With(@, i.id, acc.vals[var]), !.gone = @ \cup {i.id}]
          ELSE [acc EXCEPT !.vals[var] = Replaced(i.val, acc.by), !.gone = @ \cup {i.id}]

Renamed(code, vals) ==
  LET after[p \in 0 .. Len(code)] ==
        IF p = 0 THEN [vals |-> vals, by |-> Empty, gone |-> {}] ELSE Renaming(after[p - 1], code[p])
  IN after[Len(code)]

\* The successors without repetitions, the first of them last.
Pushed(bb, vals) ==
  LET s == graph[bb]
      firsts == Picked(s, {k \in DOMAIN s : \A j \in 1 .. k - 1 : s[j] # s[k]})
      turned == IF firsts = <<>> THEN <<>> ELSE Append(Tail(firsts), Head(firsts))
  IN [k \in DOMAIN turned |-> [bb |-> turned[k], pred |-> bb, vals |-> vals]]

VisitedWith_Nothing(bb) == visited
VisitedWith(bb) == visited \cup {bb}

RenameBlock ==
  /\ stage = "rename" /\ worklist # <<>> /\ Last(worklist).bb \notin visited
  /\ LET rpd == Last(worklist)
         entered == EnterBlock(rpd)
         renamed == Renamed(entered.code, entered.vals)
     IN /\ func' = Erase(Replace([func EXCEPT ![rpd.bb] = entered.code], renamed.by), renamed.gone)
        /\ worklist' = Front(worklist) \o Pushed(rpd.bb, renamed.vals)
        /\ visited' = VisitedWith(rpd.bb)
  /\ UNCHANGED <<graph, given, stage, allocas, num, info, todo, lookup, newPhis>>

\* A block that was visited only gets the entries of its phis.
ReenterBlock ==
  /\ stage = "rename" /\ worklist # <<>> /\ Last(worklist).bb \in visited
  /\ func' = [func EXCEPT ![Last(worklist).bb] = EnterBlock(Last(worklist)).code]
  /\ worklist' = Front(worklist)
  /\ UNCHANGED <<graph, given, stage, allocas, num, info, todo, lookup, newPhis, visited>>

\* What still uses an alloca is in blocks that the walk did not reach.
RemoveAllocas ==
  /\ stage = "rename" /\ worklist = <<>>
  /\ func' = Erase(Replace(func, [a \in Range(allocas) |-> Poison]), Range(allocas))
  /\ stage' = "simplify"
  /\ UNCHANGED <<graph, given, allocas, num, info, todo, lookup, newPhis, worklist, visited>>

-----------------------------------------------------------------------------
(* The phis that merge one value, and those that lack entries. *)

\* valueDominatesPHI: what is in the block of the phi does not.
ValueDominatesPHI(v, phi) ==
  v.k = "inst" =>
    LET def == BlockOf(func, v.n)
        use == BlockOf(func, phi)
    IN \/ use \notin Reachable(graph)
       \/ def \in Reachable(graph) /\ def # use /\ Dominates(graph, def, use)

\* simplifyPHINode: the values that the phi may be replaced by, one or none.
SimplifyPHINode(phi) ==
  LET inc == InstrOf(func, phi).inc
      incoming == {inc[k].val : k \in DOMAIN inc} \ {Inst(phi)}
      common == {v \in incoming : ~IsUndefValue(v)}
  IN IF common = {} THEN {Undef}
     ELSE IF Cardinality(common) > 1 THEN {}
     ELSE {v \in common : common = incoming \/ ValueDominatesPHI(v, phi)}

\* The order of a DenseMap is any.
SimplifyPhi ==
  /\ stage = "simplify"
  /\ \E k \in DOMAIN newPhis : \E v \in SimplifyPHINode(newPhis[k]) :
       /\ func' = Erase(Replace(func, With(Empty, newPhis[k], v)), {newPhis[k]})
       /\ newPhis' = [j \in DOMAIN newPhis \ {k} |-> newPhis[j]]
  /\ UNCHANGED <<graph, given, stage, allocas, num, info, todo, lookup, worklist, visited>>

MissingPreds(b, inc) ==
  LET entries(p) == Cardinality({k \in DOMAIN inc : inc[k].pred = p})
      missing == UNION {{p} \X (1 .. Edges(graph, p, b) - entries(p)) : p \in DOMAIN graph}
  IN [k \in 1 .. Cardinality(missing) |-> SetToSeq(missing)[k][1]]

\* Poison for the predecessors that the walk did not reach.
Completed(b) ==
  LET more == MissingPreds(b, func[b][1].inc)
      dummies == [k \in DOMAIN more |-> [val |-> Poison, pred |-> more[k]]]
  IN [p \in DOMAIN func[b] |->
        IF p \in LeadingPhis(func[b]) THEN [func[b][p] EXCEPT !.inc = @ \o dummies] ELSE func[b][p]]

CompletePhis ==
  /\ stage = "simplify" /\ \A k \in DOMAIN newPhis : SimplifyPHINode(newPhis[k]) = {}
  /\ func' = [b \in DOMAIN func |->
                 IF /\ func[b] # <<>> /\ func[b][1].id \in Range(newPhis)
                    /\ Len(func[b][1].inc) # PredSize(graph, b)
                 THEN Completed(b) ELSE func[b]]
  /\ newPhis' = Empty
  /\ stage' = "collect"
  /\ UNCHANGED <<graph, given, allocas, num, info, todo, lookup, worklist, visited>>

-----------------------------------------------------------------------------

Init ==
  /\ graph \in Graphs /\ given \in CodeOf(graph)
  /\ func = given
  /\ stage = "collect"
  /\ allocas = <<>>
  /\ num = 1
  /\ info = NoInfo
  /\ todo = {}
  /\ lookup = Empty
  /\ newPhis = Empty
  /\ worklist = <<>>
  /\ visited = {}

Next ==
  \/ Collect \/ NothingToPromote \/ RemoveUnused \/ AnalyzeAlloca
  \/ RewriteSingleStoreLoad \/ SingleStoreRewritten \/ SingleStoreFailed
  \/ PromoteSingleBlockLoad \/ SingleBlockPromoted \/ PlacePhis
  \/ AllSimple \/ StartRenaming \/ RenameBlock \/ ReenterBlock \/ RemoveAllocas
  \/ SimplifyPhi \/ CompletePhis

Spec == Init /\ [][Next]_vars
-----------------------------------------------------------------------------
(* Properties. *)

\* A pass is in one of its loops at a time: the users still to come are those of the
\* alloca it looks at, the blocks still to come those of the walk.
AllocaInfos == [stores : SUBSET Nat, defining : SUBSET DOMAIN graph,
                using : SUBSET DOMAIN graph, oneBlock : BOOLEAN]
RenamePassData == [bb : DOMAIN graph, pred : Nat, vals : [DOMAIN allocas -> Operand]]
TypeOK ==
  /\ graph \in Graphs
  /\ func \in [DOMAIN graph -> Seq(Instr)]
  /\ stage \in {"collect", "analyze", "singleStore", "singleBlock", "rename", "simplify", "done"}
  /\ allocas \in Seq(Nat) /\ num \in 1 .. Len(allocas) + 1
  /\ stage \in {"singleStore", "singleBlock"} => num \in DOMAIN allocas
  /\ info \in AllocaInfos
  /\ todo \subseteq Ids(func) /\ (stage \notin {"singleStore", "singleBlock"} => todo = {})
  /\ DOMAIN lookup \subseteq Nat
  /\ DOMAIN newPhis \subseteq (DOMAIN graph) \X Nat /\ Range(newPhis) \subseteq Nat
  /\ worklist \in Seq(RenamePassData) /\ (stage # "rename" => worklist = <<>>)
  /\ visited \subseteq DOMAIN graph

CONSTANT PathLength   \* bound: the blocks of an execution that are compared

\* The function does what it did, on every path and after every step but those of
\* the walk that renames: a load that a failed attempt has rewritten already, a phi
\* placed and not yet filled, folded into another or filled up with poison changes
\* nothing that a call is given.
MeaningKept ==
  stage # "rename" => SameCalls(given, func, Paths(graph, PathLength))

\* What verifyModule asks when the pass lets go of a function: a phi has an entry
\* for each edge into its block, the same for the edges from one block, and what is
\* used was defined on the way there.
Available(v, b, p) ==
  v.k = "inst" =>
    /\ v.n \in Ids(func) /\ InstrOf(func, v.n).op # "store"
    /\ LET def == BlockOf(func, v.n)
       IN \/ b \notin Reachable(graph)
          \/ def = b /\ IndexOf(func, v.n) < p
          \/ def # b /\ Dominates(graph, def, b)
EntriesMatchEdges(b, inc) ==
  \A p \in DOMAIN graph : Cardinality({k \in DOMAIN inc : inc[k].pred = p}) = Edges(graph, p, b)
SSAWellFormed ==
  stage \in {"collect", "done"} =>
    \A b \in DOMAIN func : \A p \in DOMAIN func[b] :
      LET i == func[b][p]
      IN /\ Available(i.ptr, b, p) /\ Available(i.val, b, p)
         /\ i.op = "phi" =>
              /\ EntriesMatchEdges(b, i.inc)
              /\ \A k, l \in DOMAIN i.inc : i.inc[k].pred = i.inc[l].pred => i.inc[k] = i.inc[l]
              /\ \A k \in DOMAIN i.inc :
                   /\ i.inc[k].pred \in DOMAIN graph
                   /\ Available(i.inc[k].val, i.inc[k].pred, Len(func[i.inc[k].pred]) + 1)

\* AllocaLookup and the keys of NewPhiNodes name allocas by their index in Allocas,
\* a list that shrinks and is reordered while they are written.
LookupAgrees ==
  stage \in {"analyze", "singleStore", "singleBlock", "rename"} =>
    /\ \A a \in DOMAIN lookup :
         lookup[a] < num /\ lookup[a] \in DOMAIN allocas /\ allocas[lookup[a]] = a
    /\ \A i \in 1 .. num - 1 : i \in DOMAIN allocas /\ allocas[i] \in DOMAIN lookup
    /\ \A k \in DOMAIN newPhis : k[2] < num

\* When the rounds of promoteMemoryToRegister are over, no alloca of the entry block is
\* left that the test would choose, by either reading of it, those included that other
\* promotions have freed of the use that it refused.
NonePromotableLeft ==
  stage = "done" => \A k \in DOMAIN func[Entry] :
    func[Entry][k].op = "alloca" => ~Promotable(func, func[Entry][k].id)

\* The loops end, the while (true) of promoteMemoryToRegister and the walk along the
\* edges of a graph with cycles among them: every step makes the first that it
\* changes of these numbers smaller.
Rank ==
  CASE stage \in {"analyze", "singleStore", "singleBlock"} -> 4 [] stage = "rename" -> 3
    [] stage = "simplify" -> 2 [] stage = "collect" -> 1 [] stage = "done" -> 0
NotCollected ==
  {func[Entry][p].id : p \in {q \in DOMAIN func[Entry] : func[Entry][q].op = "alloca"}} \ Range(allocas)
Remaining ==
  <<Cardinality(NotCollected),
    Rank,
    IF Rank = 4 THEN Len(allocas) + 1 - num ELSE Cardinality(DOMAIN graph \ visited),
    CASE stage = "analyze" -> 3 [] stage = "singleStore" -> 2 [] stage = "singleBlock" -> 1
      [] OTHER -> Len(worklist),
    IF Rank = 4 THEN Cardinality(todo) ELSE Cardinality(DOMAIN newPhis)>>
Smaller(m, n) == \E i \in 1 .. 5 : m[i] \in Nat /\ m[i] < n[i] /\ \A j \in 1 .. i - 1 : m[j] = n[j]
PassEnds == [][Smaller(Remaining', Remaining)]_vars
=============================================================================
